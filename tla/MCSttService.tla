---------------------------- MODULE MCSttService ----------------------------
(***************************************************************************)
(* The STT service with audio for TLC: chunks of up to four samples, at    *)
(* sample rates in the ratios of those in use, with the extreme, the       *)
(* smallest and some odd sample values of each width.                      *)
(***************************************************************************)
EXTENDS SttService, AudioConvert

Values(width) == CASE width = 1 -> {0, 127, 128, 255}
                   [] width = 2 -> {-32768, -1, 0, 5, 32767}
                   [] width = 4 -> {-65536 * 32767 - 65536, -1, 0, 65536 * 32767}
                   [] width = 3 -> {0}

MCTarget == [rate |-> 6, channels |-> 1, width |-> 2]

MCFormats == [rate : {2, 6, 7, 16, 18}, channels : {1, 2}, width : {1, 2, 3, 4}]

Samples(format) ==
    UNION {[1..(format.channels * n) -> Values(format.width)] :
              n \in 1..(4 \div format.channels)}

\* Interpolations whose errors all go the same way; every outcome of a sample
\* is among them.
MCSlip(s)  == [j \in Nat |-> s]
MCSlips(s) == [i \in Nat |-> MCSlip(s)]

\* Everything AudioConvert can be asked, answered well.  How long audio plays
\* depends only on how many samples there are, and a whole factor only on the
\* factor: one value and one rate stand for all.
EveryChunkSound ==
    \A format \in MCFormats : \A samples \in Samples(format) :
        LET chunk == [rate |-> format.rate, channels |-> format.channels,
                      width |-> format.width, samples |-> samples]
        IN  IF Refused(chunk, MCTarget) THEN format.width = 3
            ELSE \A s \in -1..1 :
                 /\ StaysInRange(chunk, MCTarget, MCSlip(s))
                 /\ KeepsSilence(chunk, MCTarget, MCSlip(s))
                 /\ Range(samples) = {0} =>
                       \A n \in 1..2 :
                          KeepsDuration([i \in 1..n |-> chunk], MCTarget, MCSlips(s))
                 /\ format = MCTarget =>
                       \A factor \in 2..3, t \in -1..1 :
                          KeepsSamples(samples, format.rate, factor, MCSlip(s), MCSlip(t))

(* What an engine is given is what was said: in the format it requires, no *)
(* longer or shorter than rounding explains, in range, silent where it was *)
(* silent, and its samples kept to a step by a resampling; only formats    *)
(* nobody can convert are refused (utils/audio.py:19-98,                   *)
(* tests/test_audio_convert.py:21-66).                                     *)
ConversionSound == \A r \in Requests : thread[r] = "locking" => EveryChunkSound
=============================================================================
