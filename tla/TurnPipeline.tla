---------------------------- MODULE TurnPipeline ----------------------------
(***************************************************************************)
(* One WebSocket session of the gateway (internal/ws/session.go): how a    *)
(* turn becomes speech and how a barge-in ("start" while an answer is in   *)
(* flight) takes it back.                                                  *)
(*                                                                         *)
(* Goroutines, each with its own program counter:                          *)
(*   rp      readPump: reads "start", interrupts the old turn, opens the   *)
(*           STT stream of the new one                                     *)
(*   fwd[c]  forwardTranscripts for the STT stream opened by turn c        *)
(*   gen[c]  forwardLLMEvents for the chat started from stream c           *)
(*   tw      ttsWorker / synthesizeAndSend                                 *)
(*   wp      writePump                                                     *)
(* They share currentTurn (atomic), the two active-stream pointers and     *)
(* the history (under mu), and the channels ttsQueue and send.             *)
(*                                                                         *)
(* Data: an STT stream is named by the turn whose "start" opened it, a     *)
(* chat by its STT stream (the STT service sends one FINAL per stream,     *)
(* stt/grpc_servicer.py:53), a TTS stream by its job.  Outbound messages   *)
(* are counted, not stored.                                                *)
(*                                                                         *)
(* Bounds: MaxTurn "start" messages, MaxChunk text chunks per chat,        *)
(* MaxFrame audio events per TTS stream, the channel capacities TtsCap and *)
(* SendCap (32 and 32 in NewSession).                                      *)
(*                                                                         *)
(* A "range stream.Events" loop over a stream whose last event has been    *)
(* handled only has to notice that the channel is closed; that step        *)
(* touches nothing and is merged with the handling of the last event.      *)
(***************************************************************************)
EXTENDS Naturals, Sequences

CONSTANTS
    MaxTurn,   \* number of "start" messages the client sends
    MaxChunk,  \* LLM chunks of one answer
    MaxFrame,  \* audio chunks of one synthesized sentence
    TtsCap,    \* capacity of the ttsQueue channel
    SendCap,   \* capacity of the send channel
    NoJob      \* the nil *ttsclient.Stream

Turns == 1..MaxTurn
Jobs  == [turn : Turns, chat : Turns, idx : 1..MaxChunk]

ASSUME BoundsAssumption == /\ MaxTurn \in Nat \ {0}
                           /\ MaxChunk \in Nat \ {0}
                           /\ MaxFrame \in Nat \ {0}
ASSUME CapAssumption    == TtsCap \in Nat \ {0} /\ SendCap \in Nat \ {0}
ASSUME NoJobAssumption  == NoJob \notin Jobs

VARIABLES
    currentTurn,      \* Session.currentTurn
    rp,               \* program counter of readPump
    interrupted,      \* interruptCurrentTurn's local variable
    fwd, fwdTurn,     \* forwardTranscripts: program counter, local turn (0: not read)
    gen, chunks,      \* forwardLLMEvents: program counter, chunks received
    llmOpen,          \* chats whose LLM call is running on the backend
    activeLLMStream,  \* Session.activeLLMStream, 0 for nil
    history,          \* Session.history, one entry per recorded exchange
    ttsQueue,         \* the ttsQueue channel
    tw, twJob,        \* ttsWorker: program counter, job in hand
    frames,           \* audio events handled for twJob; formatSent is frames > 0
    ttsOpen,          \* jobs whose TTS call is running on the backend
    activeTTSStream,  \* Session.activeTTSStream
    send,             \* messages buffered in the send channel
    conn,             \* the WebSocket connection is open
    wp,               \* program counter of writePump
    staleAudio        \* auxiliary: audio of an old turn that entered send
                      \* since the last "start"

readVars  == <<currentTurn, rp, interrupted>>
fwdVars   == <<fwd, fwdTurn>>
genVars   == <<gen, chunks>>
llmVars   == <<llmOpen, activeLLMStream, history>>
workVars  == <<tw, twJob, frames>>
ttsVars   == <<ttsOpen, activeTTSStream>>
connVars  == <<conn, wp>>
vars == <<readVars, fwdVars, genVars, llmVars, ttsQueue, workVars, ttsVars,
          send, connVars, staleAudio>>

ReadPc == {"reading", "bumped", "draining", "opening", "gone"}
FwdPc  == {"none", "spawned", "ranging", "tell", "final", "starting",
           "publish", "exit"}
GenPc  == {"none", "ranging", "chunk", "done", "error", "exit"}
TtsPc  == {"idle", "synth", "publish", "ranging", "failed", "text",
           "format", "audio", "clear", "gone"}

\* Run cancels the session context as soon as readPump has returned.
ctxDone == rp = "gone"

Stale(t) == currentTurn # t

SessionTypes ==
    /\ currentTurn \in 0..MaxTurn
    /\ rp \in ReadPc
    /\ interrupted \in {"no", "yes"}
    /\ send \in 0..SendCap
    /\ conn \in {"open", "closed"}
    /\ wp \in {"writing", "gone"}
    /\ staleAudio \in Nat

TurnTypes ==
    /\ fwd \in [Turns -> FwdPc]
    /\ fwdTurn \in [Turns -> 0..MaxTurn]
    /\ gen \in [Turns -> GenPc]
    /\ chunks \in [Turns -> 0..MaxChunk]
    /\ llmOpen \subseteq Turns
    /\ activeLLMStream \in 0..MaxTurn
    /\ history \in Seq(Turns)

SpeechTypes ==
    /\ ttsQueue \in Seq(Jobs) /\ Len(ttsQueue) <= TtsCap
    /\ tw \in TtsPc
    /\ twJob \in Jobs \cup {NoJob}
    /\ twJob = NoJob <=> tw \in {"idle", "gone"}
    /\ frames \in 0..MaxFrame
    /\ ttsOpen \subseteq Jobs
    /\ activeTTSStream \in Jobs \cup {NoJob}

TypeOK == SessionTypes /\ TurnTypes /\ SpeechTypes

Init ==
    /\ currentTurn = 0 /\ rp = "reading" /\ interrupted = "no"
    /\ fwd = [c \in Turns |-> "none"]
    /\ fwdTurn = [c \in Turns |-> 0]
    /\ gen = [c \in Turns |-> "none"]
    /\ chunks = [c \in Turns |-> 0]
    /\ llmOpen = {} /\ activeLLMStream = 0 /\ history = <<>>
    /\ ttsQueue = <<>>
    /\ tw = "idle" /\ twJob = NoJob /\ frames = 0
    /\ ttsOpen = {} /\ activeTTSStream = NoJob
    /\ send = 0 /\ conn = "open" /\ wp = "writing"
    /\ staleAudio = 0

-----------------------------------------------------------------------------
(* sendJSON: never blocks; with a full buffer the message is lost, and     *)
(* after cancellation the select may take the ctx.Done() case.             *)
SendJSON ==
    \/ send < SendCap /\ send' = send + 1
    \/ (send = SendCap \/ ctxDone) /\ send' = send

-----------------------------------------------------------------------------
(* readPump: beginNewTurn, interruptCurrentTurn, startStream.              *)

\* "start": currentTurn.Add(1).
BeginNewTurn ==
    /\ rp = "reading" /\ currentTurn < MaxTurn
    /\ currentTurn' = currentTurn + 1
    /\ rp' = "bumped"
    /\ staleAudio' = 0
    /\ UNCHANGED <<interrupted, fwdVars, genVars, llmVars, ttsQueue, workVars,
                   ttsVars, send, connVars>>

(* Take both pointers under mu and close the two streams.  The Close calls *)
(* come after the unlock in the code; they only cancel the two calls, and  *)
(* no other step reads whether a call is cancelled, so they commute with   *)
(* every step that could come between.                                     *)
TakeActiveStreams ==
    /\ rp = "bumped"
    /\ interrupted' = IF activeLLMStream = 0 /\ activeTTSStream = NoJob
                      THEN "no" ELSE "yes"
    /\ llmOpen' = llmOpen \ {activeLLMStream}
    /\ ttsOpen' = ttsOpen \ {activeTTSStream}
    /\ activeLLMStream' = 0
    /\ activeTTSStream' = NoJob
    /\ rp' = "draining"
    /\ UNCHANGED <<currentTurn, fwdVars, genVars, history, ttsQueue, workVars,
                   send, connVars, staleAudio>>

DrainOne ==
    /\ rp = "draining" /\ ttsQueue # <<>>
    /\ ttsQueue' = Tail(ttsQueue)
    /\ interrupted' = "yes"
    /\ UNCHANGED <<currentTurn, rp, fwdVars, genVars, llmVars, workVars,
                   ttsVars, send, connVars, staleAudio>>

BlockingDrainDone ==   \* mutant: "interrupted" is sent with a blocking send
    /\ rp = "draining" /\ ttsQueue = <<>>
    /\ IF interrupted = "yes" THEN send < SendCap /\ send' = send + 1 ELSE send' = send
    /\ interrupted' = "no"
    /\ rp' = "opening"
    /\ UNCHANGED <<currentTurn, fwdVars, genVars, llmVars, ttsQueue, workVars,
                   ttsVars, connVars, staleAudio>>

\* The queue was seen empty: tell the client if anything was interrupted.
DrainDone ==
    /\ rp = "draining" /\ ttsQueue = <<>>
    /\ IF interrupted = "yes" THEN SendJSON ELSE send' = send
    /\ interrupted' = "no"
    /\ rp' = "opening"
    /\ UNCHANGED <<currentTurn, fwdVars, genVars, llmVars, ttsQueue, workVars,
                   ttsVars, connVars, staleAudio>>

\* startStream: OpenStream fails (sendError) or its forwarder is spawned.
StartStream ==
    /\ rp = "opening"
    /\ \/ SendJSON /\ fwd' = fwd
       \/ send' = send /\ fwd' = [fwd EXCEPT ![currentTurn] = "spawned"]
    /\ rp' = "reading"
    /\ UNCHANGED <<currentTurn, interrupted, fwdTurn, genVars, llmVars,
                   ttsQueue, workVars, ttsVars, connVars, staleAudio>>

\* ReadMessage fails once the connection is closed: readPump returns, Run
\* cancels the context, and with it every call opened on behalf of the session.
ReadFails ==
    /\ rp = "reading" /\ conn = "closed"
    /\ rp' = "gone"
    /\ llmOpen' = {} /\ ttsOpen' = {}
    /\ UNCHANGED <<currentTurn, interrupted, fwdVars, genVars, activeLLMStream,
                   history, ttsQueue, workVars, activeTTSStream, send,
                   connVars, staleAudio>>

ReadPump == BeginNewTurn \/ TakeActiveStreams \/ DrainOne \/ DrainDone
            \/ StartStream \/ ReadFails

-----------------------------------------------------------------------------
(* forwardTranscripts(stream), one goroutine per STT stream c.             *)

\* The goroutine gets to run: it reads the turn only now.
FwdBegin(c) ==
    /\ fwd[c] = "spawned"
    /\ fwdTurn' = [fwdTurn EXCEPT ![c] = currentTurn]
    /\ fwd' = [fwd EXCEPT ![c] = "ranging"]
    /\ UNCHANGED <<readVars, genVars, llmVars, ttsQueue, workVars,
                   ttsVars, send, connVars, staleAudio>>

\* Receive PARTIAL or ERROR and compare the turns; a stale event is skipped.
\* Any number may come: nothing in the gateway stops at an ERROR.
FwdReceive(c) ==
    /\ fwd[c] = "ranging" /\ ~Stale(fwdTurn[c])
    /\ fwd' = [fwd EXCEPT ![c] = "tell"]
    /\ UNCHANGED <<readVars, fwdTurn, genVars, llmVars, ttsQueue, workVars,
                   ttsVars, send, connVars, staleAudio>>

\* partial_transcript or error.
FwdTell(c) ==
    /\ fwd[c] = "tell"
    /\ SendJSON
    /\ fwd' = [fwd EXCEPT ![c] = "ranging"]
    /\ UNCHANGED <<readVars, fwdTurn, genVars, llmVars, ttsQueue, workVars,
                   ttsVars, connVars, staleAudio>>

\* Receive FINAL, the last event of a stream, and compare the turns.
FwdReceiveFinal(c) ==
    /\ fwd[c] = "ranging"
    /\ fwd' = [fwd EXCEPT ![c] = IF Stale(fwdTurn[c]) THEN "exit" ELSE "final"]
    /\ UNCHANGED <<readVars, fwdTurn, genVars, llmVars, ttsQueue, workVars,
                   ttsVars, send, connVars, staleAudio>>

\* final_transcript, then startLLMChat's own turn check.
FwdFinal(c) ==
    /\ fwd[c] = "final"
    /\ SendJSON
    /\ fwd' = [fwd EXCEPT ![c] = IF Stale(fwdTurn[c]) THEN "exit"
                                 ELSE "starting"]
    /\ UNCHANGED <<readVars, fwdTurn, genVars, llmVars, ttsQueue, workVars,
                   ttsVars, connVars, staleAudio>>

\* StartChat: a call opened under a cancelled context is not left running.
ChatStart(c) ==
    /\ fwd[c] = "starting"
    /\ \/ /\ SendJSON
          /\ llmOpen' = llmOpen
          /\ fwd' = [fwd EXCEPT ![c] = "exit"]
       \/ /\ send' = send
          /\ llmOpen' = IF ctxDone THEN llmOpen ELSE llmOpen \cup {c}
          /\ fwd' = [fwd EXCEPT ![c] = "publish"]
    /\ UNCHANGED <<readVars, fwdTurn, genVars, activeLLMStream, history,
                   ttsQueue, workVars, ttsVars, connVars, staleAudio>>

\* Publish the stream (without another turn check) and spawn its consumer.
ChatPublish(c) ==
    /\ fwd[c] = "publish"
    /\ activeLLMStream' = c
    /\ gen' = [gen EXCEPT ![c] = "ranging"]
    /\ fwd' = [fwd EXCEPT ![c] = "exit"]
    /\ UNCHANGED <<readVars, fwdTurn, chunks, llmOpen, history,
                   ttsQueue, workVars, ttsVars, send, connVars, staleAudio>>

\* The Events channel is closed.
FwdEnd(c) ==
    /\ fwd[c] = "ranging"
    /\ fwd' = [fwd EXCEPT ![c] = "exit"]
    /\ UNCHANGED <<readVars, fwdTurn, genVars, llmVars, ttsQueue,
                   workVars, ttsVars, send, connVars, staleAudio>>

Forwarder(c) ==
    \/ FwdBegin(c) \/ FwdReceive(c) \/ FwdTell(c) \/ FwdReceiveFinal(c)
    \/ FwdFinal(c) \/ FwdEnd(c) \/ ChatStart(c) \/ ChatPublish(c)

-----------------------------------------------------------------------------
(* forwardLLMEvents(stream, prompt, turn), one goroutine per chat c.       *)

UncheckedGenReceiveChunk(c) ==   \* mutant: the turn check is gone
    /\ gen[c] = "ranging" /\ chunks[c] < MaxChunk
    /\ chunks' = [chunks EXCEPT ![c] = @ + 1]
    /\ gen' = [gen EXCEPT ![c] = "chunk"]
    /\ UNCHANGED <<readVars, fwdVars, llmVars, ttsQueue, workVars,
                   ttsVars, send, connVars, staleAudio>>

\* Receive a chunk and compare the turns; on a stale turn the goroutine
\* returns and leaves its stream alone.
GenReceiveChunk(c) ==
    /\ gen[c] = "ranging" /\ chunks[c] < MaxChunk
    /\ chunks' = [chunks EXCEPT ![c] = @ + 1]
    /\ gen' = [gen EXCEPT ![c] = IF Stale(fwdTurn[c]) THEN "exit" ELSE "chunk"]
    /\ UNCHANGED <<readVars, fwdVars, llmVars, ttsQueue, workVars,
                   ttsVars, send, connVars, staleAudio>>

\* Receive the last event, DONE or ERROR: the backend has ended the call.
GenReceiveLast(c, e) ==
    /\ gen[c] = "ranging"
    /\ llmOpen' = llmOpen \ {c}
    /\ gen' = [gen EXCEPT ![c] = IF Stale(fwdTurn[c]) THEN "exit" ELSE e]
    /\ UNCHANGED <<readVars, fwdVars, chunks, activeLLMStream, history,
                   ttsQueue, workVars, ttsVars, send, connVars, staleAudio>>

Job(c) == [turn |-> fwdTurn[c], chat |-> c, idx |-> chunks[c]]

OverfullGenChunk(c) ==   \* mutant: one job more than the channel holds
    /\ gen[c] = "chunk"
    /\ ttsQueue' = IF Len(ttsQueue) <= TtsCap THEN Append(ttsQueue, Job(c))
                   ELSE ttsQueue
    /\ gen' = [gen EXCEPT ![c] = "ranging"]
    /\ UNCHANGED <<readVars, fwdVars, chunks, llmVars, workVars,
                   ttsVars, send, connVars, staleAudio>>

RetaggedGenChunk(c) ==   \* mutant: the job is tagged with the turn of the moment
    /\ gen[c] = "chunk"
    /\ ttsQueue' = IF Len(ttsQueue) < TtsCap
                   THEN Append(ttsQueue, [Job(c) EXCEPT !.turn = currentTurn])
                   ELSE ttsQueue
    /\ gen' = [gen EXCEPT ![c] = "ranging"]
    /\ UNCHANGED <<readVars, fwdVars, chunks, llmVars, workVars,
                   ttsVars, send, connVars, staleAudio>>

\* Queue the chunk for speech, or drop it when the queue is full.
GenChunk(c) ==
    /\ gen[c] = "chunk"
    /\ ttsQueue' = IF Len(ttsQueue) < TtsCap THEN Append(ttsQueue, Job(c))
                   ELSE ttsQueue
    /\ gen' = [gen EXCEPT ![c] = "ranging"]
    /\ UNCHANGED <<readVars, fwdVars, chunks, llmVars, workVars,
                   ttsVars, send, connVars, staleAudio>>

\* DONE: clear whatever stream is active and record the exchange.
GenDone(c) ==
    /\ gen[c] = "done"
    /\ activeLLMStream' = 0
    /\ history' = Append(history, c)
    /\ gen' = [gen EXCEPT ![c] = "exit"]
    /\ UNCHANGED <<readVars, fwdVars, chunks, llmOpen, ttsQueue,
                   workVars, ttsVars, send, connVars, staleAudio>>

\* ERROR: the stream stays published.
GenError(c) ==
    /\ gen[c] = "error"
    /\ SendJSON
    /\ gen' = [gen EXCEPT ![c] = "exit"]
    /\ UNCHANGED <<readVars, fwdVars, chunks, llmVars, ttsQueue,
                   workVars, ttsVars, connVars, staleAudio>>

\* The Events channel is closed: the call has ended, with or without DONE.
GenEnd(c) ==
    /\ gen[c] = "ranging"
    /\ gen' = [gen EXCEPT ![c] = "exit"]
    /\ llmOpen' = llmOpen \ {c}
    /\ UNCHANGED <<readVars, fwdVars, chunks, activeLLMStream, history,
                   ttsQueue, workVars, ttsVars, send, connVars, staleAudio>>

Generator(c) ==
    \/ GenReceiveChunk(c) \/ GenChunk(c) \/ GenDone(c) \/ GenError(c)
    \/ GenEnd(c)
    \/ \E e \in {"done", "error"} : GenReceiveLast(c, e)

-----------------------------------------------------------------------------
(* ttsWorker and synthesizeAndSend.                                        *)

\* synthesizeAndSend returns.
JobOver(pc) ==
    /\ tw' = pc
    /\ twJob' = NoJob
    /\ frames' = 0

\* Dequeue a job; one of an old turn is skipped.
TtsTake ==
    /\ tw = "idle" /\ ttsQueue # <<>>
    /\ ttsQueue' = Tail(ttsQueue)
    /\ IF Stale(Head(ttsQueue).turn)
       THEN UNCHANGED workVars
       ELSE /\ tw' = "synth" /\ twJob' = Head(ttsQueue)
            /\ UNCHANGED <<frames>>
    /\ UNCHANGED <<readVars, fwdVars, genVars, llmVars, ttsVars, send,
                   connVars, staleAudio>>

\* Synthesize: fails (sendError), or opens the call.
TtsSynth ==
    /\ tw = "synth"
    /\ \/ SendJSON /\ ttsOpen' = ttsOpen /\ JobOver("idle")
       \/ /\ send' = send
          /\ ttsOpen' = IF ctxDone THEN ttsOpen ELSE ttsOpen \cup {twJob}
          /\ tw' = "publish"
          /\ UNCHANGED <<twJob, frames>>
    /\ UNCHANGED <<readVars, fwdVars, genVars, llmVars, ttsQueue,
                   activeTTSStream, connVars, staleAudio>>

UncheckedTtsPublish ==   \* mutant: published without the re-check under mu
    /\ tw = "publish"
    /\ activeTTSStream' = twJob
    /\ tw' = "ranging"
    /\ UNCHANGED <<readVars, fwdVars, genVars, llmVars, ttsQueue, twJob,
                   frames, ttsOpen, send, connVars,
                   staleAudio>>

LeakyTtsPublish ==   \* mutant: a stale stream is forgotten, not closed
    /\ tw = "publish"
    /\ IF Stale(twJob.turn)
       THEN JobOver("idle") /\ UNCHANGED ttsVars
       ELSE /\ activeTTSStream' = twJob /\ ttsOpen' = ttsOpen
            /\ tw' = "ranging"
            /\ UNCHANGED <<twJob, frames>>
    /\ UNCHANGED <<readVars, fwdVars, genVars, llmVars, ttsQueue, send,
                   connVars, staleAudio>>

\* Under mu: publish the stream, or close it if a barge-in got in first.
TtsPublish ==
    /\ tw = "publish"
    /\ IF Stale(twJob.turn)
       THEN /\ JobOver("idle")
            /\ ttsOpen' = ttsOpen \ {twJob} /\ UNCHANGED activeTTSStream
       ELSE /\ activeTTSStream' = twJob /\ ttsOpen' = ttsOpen
            /\ tw' = "ranging"
            /\ UNCHANGED <<twJob, frames>>
    /\ UNCHANGED <<readVars, fwdVars, genVars, llmVars, ttsQueue, send,
                   connVars, staleAudio>>

UncheckedTtsReceiveAudio ==   \* mutant: the turn check is gone
    /\ tw = "ranging" /\ frames < MaxFrame
    /\ frames' = frames + 1
    /\ tw' = IF frames = 0 THEN "text" ELSE "audio"
    /\ UNCHANGED <<twJob, readVars, fwdVars, genVars,
                   llmVars, ttsQueue, ttsVars, send, connVars, staleAudio>>

\* Receive an audio chunk; on a stale turn synthesizeAndSend returns.
TtsReceiveAudio ==
    /\ tw = "ranging" /\ frames < MaxFrame
    /\ IF Stale(twJob.turn)
       THEN JobOver("idle")
       ELSE /\ frames' = frames + 1
            /\ tw' = IF frames = 0 THEN "text" ELSE "audio"
            /\ UNCHANGED twJob
    /\ UNCHANGED <<readVars, fwdVars, genVars, llmVars, ttsQueue, ttsVars,
                   send, connVars, staleAudio>>

\* Receive the terminal error event: the call has ended.
TtsReceiveError ==
    /\ tw = "ranging"
    /\ ttsOpen' = ttsOpen \ {twJob}
    /\ IF Stale(twJob.turn)
       THEN JobOver("idle")
       ELSE tw' = "failed" /\ UNCHANGED <<twJob, frames>>
    /\ UNCHANGED <<readVars, fwdVars, genVars, llmVars, ttsQueue,
                   activeTTSStream, send, connVars, staleAudio>>

\* sendError, and return with the stream still published.
TtsFail ==
    /\ tw = "failed"
    /\ SendJSON
    /\ JobOver("idle")
    /\ UNCHANGED <<readVars, fwdVars, genVars, llmVars, ttsQueue, ttsVars,
                   connVars, staleAudio>>

\* First audio of the job: llm_chunk, then audio_format.
TtsText ==
    /\ tw = "text"
    /\ SendJSON
    /\ tw' = "format"
    /\ UNCHANGED <<twJob, frames, readVars, fwdVars,
                   genVars, llmVars, ttsQueue, ttsVars, connVars, staleAudio>>

TtsFormat ==
    /\ tw = "format"
    /\ SendJSON
    /\ tw' = "audio"
    /\ UNCHANGED <<twJob, frames, readVars, fwdVars, genVars, llmVars,
                   ttsQueue, ttsVars, connVars, staleAudio>>

DeafTtsAudio ==   \* mutant: the blocking send does not watch ctx.Done()
    /\ tw = "audio"
    /\ send < SendCap /\ send' = send + 1
    /\ staleAudio' = IF Stale(twJob.turn) THEN staleAudio + 1 ELSE staleAudio
    /\ tw' = "ranging"
    /\ UNCHANGED <<twJob, frames, readVars, fwdVars,
                   genVars, llmVars, ttsQueue, ttsVars, connVars>>

\* The binary frame: a blocking send that gives up only on ctx.Done().
TtsAudio ==
    /\ tw = "audio"
    /\ \/ /\ send < SendCap /\ send' = send + 1
          /\ staleAudio' = IF Stale(twJob.turn) THEN staleAudio + 1
                           ELSE staleAudio
          /\ tw' = "ranging"
          /\ UNCHANGED <<twJob, frames>>
       \/ ctxDone /\ JobOver("idle") /\ UNCHANGED <<send, staleAudio>>
    /\ UNCHANGED <<readVars, fwdVars, genVars, llmVars, ttsQueue, ttsVars,
                   connVars>>

\* The Events channel is closed: the call has ended, cancelled or complete.
TtsEnd ==
    /\ tw = "ranging"
    /\ ttsOpen' = ttsOpen \ {twJob}
    /\ tw' = "clear"
    /\ UNCHANGED <<twJob, frames, readVars, fwdVars,
                   genVars, llmVars, ttsQueue, activeTTSStream, send,
                   connVars, staleAudio>>

\* Under mu: clear the pointer if it still is this stream.
TtsClear ==
    /\ tw = "clear"
    /\ activeTTSStream' = IF activeTTSStream = twJob THEN NoJob
                          ELSE activeTTSStream
    /\ JobOver("idle")
    /\ UNCHANGED <<readVars, fwdVars, genVars, llmVars, ttsQueue, ttsOpen,
                   send, connVars, staleAudio>>

\* The select sees ctx.Done(): the worker returns.
TtsStop ==
    /\ tw = "idle" /\ ctxDone
    /\ JobOver("gone")
    /\ UNCHANGED <<readVars, fwdVars, genVars, llmVars, ttsQueue, ttsVars,
                   send, connVars, staleAudio>>

TtsWorker ==
    \/ TtsTake \/ TtsSynth \/ TtsPublish \/ TtsReceiveAudio
    \/ TtsReceiveError \/ TtsFail \/ TtsText \/ TtsFormat \/ TtsAudio
    \/ TtsEnd \/ TtsClear \/ TtsStop

-----------------------------------------------------------------------------
(* writePump, and the client's side of the connection.                     *)

WriteOne ==
    /\ wp = "writing" /\ conn = "open" /\ send > 0
    /\ send' = send - 1
    /\ UNCHANGED <<readVars, fwdVars, genVars, llmVars, ttsQueue, workVars,
                   ttsVars, connVars, staleAudio>>

ForgetfulWriteFails ==   \* mutant: the deferred conn.Close is missing
    /\ wp = "writing"
    /\ wp' = "gone" /\ conn' = conn
    /\ UNCHANGED <<readVars, fwdVars, genVars, llmVars, ttsQueue, workVars,
                   ttsVars, send, staleAudio>>

\* A message or a ping is not written before writeWait, or the peer is gone:
\* writePump returns and its defer closes the connection.
WriteFails ==
    /\ wp = "writing"
    /\ wp' = "gone" /\ conn' = "closed"
    /\ UNCHANGED <<readVars, fwdVars, genVars, llmVars, ttsQueue, workVars,
                   ttsVars, send, staleAudio>>

\* ctx.Done(): close frame, return.
WriteClose ==
    /\ wp = "writing" /\ ctxDone
    /\ wp' = "gone" /\ conn' = "closed"
    /\ UNCHANGED <<readVars, fwdVars, genVars, llmVars, ttsQueue, workVars,
                   ttsVars, send, staleAudio>>

WritePump == WriteOne \/ WriteFails \/ WriteClose

\* The peer closes, or no pong arrives within pongWait.
Disconnect ==
    /\ conn = "open"
    /\ conn' = "closed"
    /\ UNCHANGED <<readVars, fwdVars, genVars, llmVars, ttsQueue, workVars,
                   ttsVars, send, wp, staleAudio>>

\* Every goroutine of the session has returned.
AllGone ==
    /\ rp = "gone" /\ tw = "gone" /\ wp = "gone"
    /\ \A c \in Turns : fwd[c] \in {"none", "exit"} /\ gen[c] \in {"none", "exit"}

Terminated == AllGone /\ UNCHANGED vars

-----------------------------------------------------------------------------
Next ==
    \/ ReadPump \/ TtsWorker \/ WritePump \/ Disconnect \/ Terminated
    \/ \E c \in Turns : Forwarder(c) \/ Generator(c)

(* Every goroutine is scheduled (the Go scheduler is fair), every stream   *)
(* ends (recvPump's idle timeout), every write ends (writeWait) and a read *)
(* on a closed connection fails.  Strong fairness twice: a sender blocked  *)
(* on a Go channel waits in FIFO order, so others that send without        *)
(* blocking cannot overtake it forever; and once its context is cancelled  *)
(* a stream delivers no more than the 16 events it has buffered.  Nothing  *)
(* makes the client send "start" or disconnect.                            *)
Fairness ==
    /\ WF_vars(TakeActiveStreams \/ DrainOne \/ DrainDone \/ StartStream
               \/ ReadFails)
    /\ WF_vars(TtsWorker) /\ SF_vars(TtsAudio)
    /\ WF_vars(WritePump)
    /\ \A c \in Turns : /\ WF_vars(Forwarder(c))
                        /\ SF_vars(ctxDone /\ FwdEnd(c))
                        /\ WF_vars(Generator(c))

Spec == Init /\ [][Next]_vars
FairSpec == Spec /\ Fairness

-----------------------------------------------------------------------------
(* Correctness.                                                            *)

\* The forwarders that have read the turn read the one that opened their
\* stream: no second "start" overtook the spawned goroutine.
OnTime == \A c \in Turns : fwdTurn[c] \in {0, c}

(* The published TTS stream is always one the next barge-in is entitled to *)
(* cancel: it belongs to the current turn, or the barge-in that made it    *)
(* stale has yet to take it (the re-check under mu, session.go:472-478).   *)
ActiveTtsIsCurrent ==
    activeTTSStream # NoJob =>
        activeTTSStream.turn = currentTurn \/ rp = "bumped"

(* After a barge-in no synthesis of an old turn keeps running on the TTS   *)
(* backend, except the one call whose Synthesize was in flight and which   *)
(* the worker is about to close.  It rests on the turn check of            *)
(* synthesizeAndSend, the lock, and interruptCurrentTurn together.  A late *)
(* forwarder can feed the worker a job of the new turn before the barge-in *)
(* has taken the old stream, hence OnTime.                                 *)
NoOrphanTts ==
    OnTime /\ rp # "bumped" =>
        \A j \in ttsOpen : j.turn = currentTurn \/ (tw = "publish" /\ twJob = j)

(* At most one frame of an interrupted answer is still put into the send   *)
(* buffer after the "start" that interrupted it: frames carry no turn, so  *)
(* the client cannot drop a second one (session.go:484, 513).              *)
StaleAudioBounded == staleAudio <= 1

StaleJobs(c) == {i \in DOMAIN ttsQueue : /\ ttsQueue[i].chat = c
                                         /\ Stale(ttsQueue[i].turn)}

(* Once interruptCurrentTurn has drained the queue, an interrupted answer  *)
(* can slip in at most the one chunk its goroutine had already checked     *)
(* (session.go:408, 420).                                                  *)
StaleJobsBounded ==
    rp \notin {"bumped", "draining"} =>
        \A c \in Turns : \A i, j \in StaleJobs(c) : i = j

(* A barge-in destroys nothing of the turn it begins: while it interrupts, *)
(* no stream it takes and no job it drains belongs to the new turn.        *)
BargeInSparesNewTurn ==
    OnTime /\ rp \in {"bumped", "draining", "opening"} =>
        /\ activeLLMStream # currentTurn
        /\ activeTTSStream # NoJob => activeTTSStream.turn # currentTurn
        /\ \A i \in DOMAIN ttsQueue : ttsQueue[i].turn # currentTurn

(* A barge-in ends: whatever the other goroutines queue meanwhile and      *)
(* however full the send buffer is, readPump gets back to reading          *)
(* (session.go:304-339; everything it calls must not block).               *)
BargeInCompletes == rp = "bumped" ~> rp \in {"reading", "gone"}

(* Queued speech is spoken, dropped or the session is over: the TTS worker *)
(* never stays blocked on a client that has stopped reading                *)
(* (session.go:513-517, 567-570).                                          *)
SpeechDrains == ttsQueue # <<>> ~> ttsQueue = <<>> \/ ctxDone

(* After the connection is gone every goroutine of the session returns.    *)
WindDown == ctxDone ~> AllGone

(* Claimed by session.go:409-411: when forwardLLMEvents stops consuming a  *)
(* stale stream, its context is already cancelled by interruptCurrentTurn. *)
NoOrphanChat ==
    rp # "bumped" => \A c \in llmOpen : gen[c] # "exit"
=============================================================================
