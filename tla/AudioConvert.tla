---------------------------- MODULE AudioConvert ----------------------------
(***************************************************************************)
(* Conversion of audio to the format an engine requires                    *)
(* (stt/utils/audio.py): requantizing, mixing to mono, and resampling by   *)
(* linear interpolation, chunk by chunk.                                   *)
(*                                                                         *)
(* A chunk is a record of its rate, channels, width (bytes per sample) and *)
(* samples, interleaved, as integers in the range of the width.            *)
(*                                                                         *)
(* Averages are exact.  Resampling is done in floating point, at positions *)
(* that np.linspace has rounded, and cut off to an integer: a value that   *)
(* should fall on a sample may come out just short of it.  What these      *)
(* errors can do is a parameter, slip: slip[j] in -1..1 says which way the *)
(* j-th sample is off, by any amount less than one step, and slip[0] which *)
(* way the new length is where it lies half-way between two.  Without an   *)
(* error it is 0; a conversion takes a slip of its own for each chunk.     *)
(***************************************************************************)
EXTENDS Integers, SequencesExt

\* The integer part of a / b, for b > 0: astype(int16) of a quotient.
Trunc(a, b) == IF a >= 0 THEN a \div b ELSE -((-a) \div b)

\* The errors of one conversion.
Slips == [Nat -> -1..1]

RoundUp(a, b, slip) == (a + b - 1) \div b   \* mutant: rounded up

\* Python's round(a / b), for a >= 0 and b > 0: a tie goes to the even neighbour,
\* or to where the error of the fraction takes it.
Round(a, b, slip) ==
    LET low == a \div b
        twice == 2 * (a % b)
        down == slip = -1 \/ (slip = 0 /\ low % 2 = 0)
    IN  IF twice < b \/ (twice = b /\ down) THEN low ELSE low + 1

Widths == {1, 2, 4}

\* _to_int16: 8-bit samples are unsigned around 128.
ToInt16(v, width) ==
    CASE width = 2 -> v
      [] width = 1 -> (v - 128) * 256
      [] width = 4 -> v \div 65536

\* _from_int16.
FromInt16(v, width) ==
    CASE width = 2 -> v
      [] width = 1 -> v \div 256 + 128
      [] width = 4 -> v * 65536

\* The sum of the n samples after the first ones.
Total(samples, first, n) ==
    LET sum[k \in 0..n] == IF k = 0 THEN 0 ELSE sum[k - 1] + samples[first + k]
    IN  sum[n]

\* Interleaved samples mixed to one channel.
Mono(samples, channels) ==
    [i \in 1..(Len(samples) \div channels) |->
        Trunc(Total(samples, (i - 1) * channels, channels), channels)]

\* The interpolated value at sample position a / b, counted from zero; past the
\* last sample, the last sample.  With a slip, the integer part of a value off
\* by the largest number of half-parts that is less than one step: the least
\* and the greatest outcome any smaller error can have.
ValueAt(samples, a, b, slip) ==
    LET low  == a \div b
        part == a % b
        here == samples[low + 1]
        next == IF low + 2 <= Len(samples) THEN samples[low + 2] ELSE here
    IN  Trunc(2 * (here * (b - part) + next * part) + slip * (2 * b - 1), 2 * b)

NewLength(n, from, to, slip) == Max({1, Round(n * to, from, slip)})

Resample(samples, from, to, slip) ==
    IF from = to \/ samples = <<>> THEN samples
    ELSE LET n   == Len(samples)
             new == NewLength(n, from, to, slip[0])
         IN  [j \in 1..new |-> ValueAt(samples, (j - 1) * n, new, slip[j])]

Format(chunk) == [rate |-> chunk.rate, channels |-> chunk.channels, width |-> chunk.width]

\* _convert_chunk raises InvalidAudioFormatError.
Refused(chunk, target) ==
    /\ Format(chunk) # target
    /\ \/ {chunk.width, target.width} \ Widths # {}
       \/ chunk.channels # target.channels /\ target.channels # 1

\* _convert_chunk, for a chunk that is not refused.
Converted(chunk, target, slip) ==
    LET wide  == [i \in DOMAIN chunk.samples |-> ToInt16(chunk.samples[i], chunk.width)]
        mixed == IF chunk.channels = target.channels THEN wide
                 ELSE Mono(wide, chunk.channels)
        timed == Resample(mixed, chunk.rate, target.rate, slip)
    IN  IF Format(chunk) = target THEN chunk.samples
        ELSE [i \in DOMAIN timed |-> FromInt16(timed[i], target.width)]

\* convert_chunks: one by one.  The result plays where the target says.
ConvertedChunks(chunks, target, slips) ==
    [i \in DOMAIN chunks |->
        [rate |-> target.rate, channels |-> target.channels, width |-> target.width,
         samples |-> Converted(chunks[i], target, slips[i])]]

\* calculate_duration, as a fraction: bytes, and bytes per second by the format
\* of the first chunk.
Bytes(chunks) ==
    Total([i \in DOMAIN chunks |-> Len(chunks[i].samples) * chunks[i].width], 0, Len(chunks))
BytesPerSecond(chunks) == chunks[1].rate * chunks[1].channels * chunks[1].width

-----------------------------------------------------------------------------
(* Correctness, of chunks of one format that are not refused.              *)

\* Frames of a chunk, and whether they fill half a sample of the target's rate.
Frames(chunk) == Len(chunk.samples) \div chunk.channels
LongEnough(chunk, target) == 2 * Frames(chunk) * target.rate >= chunk.rate

\* Audio plays as long as before, to half a sample of the target for each chunk
\* it came in: |before - after| <= Len(chunks) / (2 * rate).
KeepsDuration(chunks, target, slips) ==
    LET after == ConvertedChunks(chunks, target, slips)
        drift == Bytes(chunks) * BytesPerSecond(after) - Bytes(after) * BytesPerSecond(chunks)
        bound == Len(chunks) * BytesPerSecond(chunks) * BytesPerSecond(after)
    IN  (\A i \in DOMAIN chunks : LongEnough(chunks[i], target)) =>
            2 * target.rate * drift \in -bound..bound

\* The ends of lo..hi, after an interpolation whose error is less than a step:
\* cutting off its value brings it nearer to zero.
Lowest(lo, from, to)  == IF from # to /\ lo > 0 THEN lo - 1 ELSE lo
Highest(hi, from, to) == IF from # to /\ hi < 0 THEN hi + 1 ELSE hi

\* Samples stay within what was heard: none is louder than the loudest, none
\* wraps around, and only an interpolation may make one quieter, by a step.
StaysInRange(chunk, target, slip) ==
    LET source == {ToInt16(v, chunk.width) : v \in Range(chunk.samples)}
    IN  \A v \in Range(Converted(chunk, target, slip)) :
            ToInt16(v, target.width) \in
                Lowest(Min(source), chunk.rate, target.rate)
                    ..Highest(Max(source), chunk.rate, target.rate)

\* Silence stays silent: 8-bit samples are centered at 128.
KeepsSilence(chunk, target, slip) ==
    Range(chunk.samples) = {IF chunk.width = 1 THEN 128 ELSE 0} =>
        Range(Converted(chunk, target, slip)) = {IF target.width = 1 THEN 128 ELSE 0}

\* Resampling up by a whole factor keeps the original samples, to a step, and
\* down again finds as many, to two steps.
KeepsSamples(samples, rate, factor, slipUp, slipDown) ==
    LET up   == Resample(samples, rate, rate * factor, slipUp)
        down == Resample(up, rate * factor, rate, slipDown)
    IN  /\ \A i \in DOMAIN samples : up[(i - 1) * factor + 1] - samples[i] \in -1..1
        /\ DOMAIN down = DOMAIN samples
        /\ \A i \in DOMAIN samples : down[i] - samples[i] \in -2..2
=============================================================================
