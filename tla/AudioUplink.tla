---------------------------- MODULE AudioUplink ----------------------------
(***************************************************************************)
(* The microphone side of one gateway session (internal/ws/session.go with *)
(* internal/stt/client.go): readPump queues audio and the end-of-utterance *)
(* marker, audioSendWorker sends them to whatever STT stream is current    *)
(* when it gets to them.                                                   *)
(*                                                                         *)
(* An STT stream is named by the number of the "start" that opened it.  A  *)
(* frame carries the number of the last "start" before it (auxiliary: the  *)
(* code's frame does not know its utterance).                              *)
(* Error replies to the client are left out; TurnPipeline has the send     *)
(* buffer they go through.                                                 *)
(*                                                                         *)
(* Bounds: MaxTurn "start" messages, MaxMsg audio and end_utterance        *)
(* messages, AudioCap for the capacity of audioQueue (64 in NewSession).   *)
(***************************************************************************)
EXTENDS Naturals, Sequences

CONSTANTS MaxTurn, MaxMsg, AudioCap, NoFrame

Streams == 1..MaxTurn
Frames  == [turn : Streams, kind : {"audio", "end"}]

ASSUME BoundsAssumption  == MaxTurn \in Nat \ {0} /\ MaxMsg \in Nat \ {0}
ASSUME CapAssumption     == AudioCap \in Nat \ {0}
ASSUME NoFrameAssumption == NoFrame \notin Frames

VARIABLES
    turn,        \* "start" messages handled so far
    rp,          \* program counter of readPump
    msgs,        \* audio and end_utterance messages read so far
    conn,        \* the WebSocket connection
    sttStream,   \* Session.sttStream, 0 for nil
    closed,      \* streams whose closed flag is set (Stream.closed)
    live,        \* streams whose gRPC call has not ended
    audioQueue,  \* the audioQueue channel
    aw,          \* program counter of audioSendWorker
    frame,       \* its frame
    stream,      \* the stream it loaded, 0 for none
    delivered    \* what each stream has accepted, in order

vars == <<turn, rp, msgs, conn, sttStream, closed, live, audioQueue, aw,
          frame, stream, delivered>>
readVars   == <<turn, rp, msgs>>
streamVars == <<sttStream, closed, live>>
workVars   == <<aw, frame, stream>>

TypeOK ==
    /\ turn \in 0..MaxTurn
    /\ rp \in {"reading", "closing", "opening", "ending", "gone"}
    /\ msgs \in 0..MaxMsg
    /\ conn \in {"open", "closed"}
    /\ sttStream \in 0..MaxTurn
    /\ closed \subseteq Streams
    /\ live \subseteq Streams
    /\ audioQueue \in Seq(Frames) /\ Len(audioQueue) <= AudioCap
    /\ aw \in {"idle", "loading", "checking", "sending", "closing", "gone"}
    /\ frame \in Frames \cup {NoFrame}
    /\ stream \in 0..MaxTurn
    /\ delivered \in [Streams -> Seq(Frames)]

Init ==
    /\ turn = 0 /\ rp = "reading" /\ msgs = 0 /\ conn = "open"
    /\ sttStream = 0 /\ closed = {} /\ live = {}
    /\ audioQueue = <<>>
    /\ aw = "idle" /\ frame = NoFrame /\ stream = 0
    /\ delivered = [s \in Streams |-> <<>>]

ctxDone == rp = "gone"

-----------------------------------------------------------------------------
(* readPump.                                                               *)

\* "start": up to startStream (the interruption is TurnPipeline's).
Start ==
    /\ rp = "reading" /\ turn < MaxTurn
    /\ turn' = turn + 1
    /\ rp' = "closing"
    /\ UNCHANGED <<msgs, conn, streamVars, audioQueue, workVars, delivered>>

NoCloseOld ==   \* mutant: the old stream is replaced without being closed
    /\ rp = "closing"
    /\ rp' = "opening"
    /\ UNCHANGED <<turn, msgs, conn, streamVars, audioQueue, workVars, delivered>>

\* startStream: old.Close() sets the flag, then cancels the call.
CloseOld ==
    /\ rp = "closing"
    /\ IF sttStream = 0 THEN UNCHANGED <<closed, live>>
       ELSE closed' = closed \cup {sttStream} /\ live' = live \ {sttStream}
    /\ rp' = "opening"
    /\ UNCHANGED <<turn, msgs, conn, sttStream, audioQueue, workVars, delivered>>

\* OpenStream and Store; on failure the pointer becomes nil.
OpenNew ==
    /\ rp = "opening"
    /\ \/ sttStream' = 0 /\ live' = live
       \/ sttStream' = turn /\ live' = live \cup {turn}
    /\ rp' = "reading"
    /\ UNCHANGED <<turn, msgs, conn, closed, audioQueue, workVars, delivered>>

NewFrame(kind) == [turn |-> turn, kind |-> kind]

\* handleAudioChunk: dropped without a stream or with a full queue.
AudioMessage ==
    /\ rp = "reading" /\ msgs < MaxMsg
    /\ msgs' = msgs + 1
    /\ audioQueue' = IF sttStream # 0 /\ Len(audioQueue) < AudioCap
                     THEN Append(audioQueue, NewFrame("audio")) ELSE audioQueue
    /\ UNCHANGED <<turn, rp, conn, streamVars, workVars, delivered>>

\* endUtterance: ignored without a stream, else a blocking send follows.
EndMessage ==
    /\ rp = "reading" /\ msgs < MaxMsg
    /\ IF sttStream = 0 THEN msgs' = msgs + 1 /\ rp' = rp
       ELSE msgs' = msgs /\ rp' = "ending"
    /\ UNCHANGED <<turn, conn, streamVars, audioQueue, workVars, delivered>>

DroppingEnqueueEnd ==   \* mutant: the marker is dropped when the queue is full
    /\ rp = "ending"
    /\ audioQueue' = IF Len(audioQueue) < AudioCap
                     THEN Append(audioQueue, NewFrame("end")) ELSE audioQueue
    /\ msgs' = msgs + 1
    /\ rp' = "reading"
    /\ UNCHANGED <<turn, conn, streamVars, workVars, delivered>>

OverfullEnqueueEnd ==   \* mutant: one frame more than the channel holds
    /\ rp = "ending" /\ Len(audioQueue) <= AudioCap
    /\ audioQueue' = Append(audioQueue, NewFrame("end"))
    /\ msgs' = msgs + 1
    /\ rp' = "reading"
    /\ UNCHANGED <<turn, conn, streamVars, workVars, delivered>>

\* The marker waits for room.  The select's ctx.Done() case cannot help: the
\* context is cancelled only after readPump has returned.
EnqueueEnd ==
    /\ rp = "ending" /\ Len(audioQueue) < AudioCap
    /\ audioQueue' = Append(audioQueue, NewFrame("end"))
    /\ msgs' = msgs + 1
    /\ rp' = "reading"
    /\ UNCHANGED <<turn, conn, streamVars, workVars, delivered>>

\* ReadMessage fails: readPump returns, the context and all calls are cancelled.
ReadFails ==
    /\ rp = "reading" /\ conn = "closed"
    /\ rp' = "gone"
    /\ live' = {}
    /\ UNCHANGED <<turn, msgs, conn, sttStream, closed, audioQueue, workVars,
                   delivered>>

ReadPump == Start \/ CloseOld \/ OpenNew \/ AudioMessage \/ EndMessage
            \/ EnqueueEnd \/ ReadFails

-----------------------------------------------------------------------------
(* audioSendWorker.                                                        *)

Rest == aw' = "idle" /\ frame' = NoFrame /\ stream' = 0

TakeFrame ==
    /\ aw = "idle" /\ audioQueue # <<>>
    /\ frame' = Head(audioQueue)
    /\ audioQueue' = Tail(audioQueue)
    /\ aw' = "loading"
    /\ UNCHANGED <<stream, readVars, conn, streamVars, delivered>>

\* sttStream.Load(); without a stream the frame is lost.
LoadStream ==
    /\ aw = "loading"
    /\ IF sttStream = 0 THEN Rest
       ELSE stream' = sttStream /\ aw' = "checking" /\ frame' = frame
    /\ UNCHANGED <<readVars, conn, streamVars, audioQueue, delivered>>

\* SendAudio's closed check; a frame for a closed stream is lost.
CheckClosed ==
    /\ aw = "checking"
    /\ IF stream \in closed THEN Rest
       ELSE aw' = "sending" /\ UNCHANGED <<frame, stream>>
    /\ UNCHANGED <<readVars, conn, streamVars, audioQueue, delivered>>

\* stream.Send accepts the frame.
SendOk ==
    /\ aw = "sending" /\ stream \in live
    /\ delivered' = [delivered EXCEPT ![stream] = Append(@, frame)]
    /\ IF frame.kind = "end" THEN aw' = "closing" /\ UNCHANGED <<frame, stream>>
       ELSE Rest
    /\ UNCHANGED <<readVars, conn, streamVars, audioQueue>>

StubbornSendFails ==   \* mutant: a failed Send is retried for ever
    /\ aw = "sending" /\ stream \notin live
    /\ FALSE
    /\ UNCHANGED vars

\* The call has ended: Send fails, the frame is lost.
SendFails ==
    /\ aw = "sending" /\ stream \notin live
    /\ Rest
    /\ UNCHANGED <<readVars, conn, streamVars, audioQueue, delivered>>

LazyCloseSend ==   \* mutant: the half-close does not set the closed flag
    /\ aw = "closing"
    /\ Rest
    /\ UNCHANGED <<readVars, conn, streamVars, audioQueue, delivered>>

\* CloseSend after the marker.
CloseSend ==
    /\ aw = "closing"
    /\ closed' = closed \cup {stream}
    /\ Rest
    /\ UNCHANGED <<readVars, conn, sttStream, live, audioQueue, delivered>>

DeafWorkerStops ==   \* mutant: the worker only watches the queue
    /\ aw = "idle" /\ ctxDone /\ audioQueue # <<>>
    /\ aw' = "gone"
    /\ UNCHANGED <<frame, stream, readVars, conn, streamVars, audioQueue,
                   delivered>>

WorkerStops ==
    /\ aw = "idle" /\ ctxDone
    /\ aw' = "gone"
    /\ UNCHANGED <<frame, stream, readVars, conn, streamVars, audioQueue,
                   delivered>>

Worker == TakeFrame \/ LoadStream \/ CheckClosed \/ SendOk \/ SendFails
          \/ CloseSend \/ WorkerStops

-----------------------------------------------------------------------------
(* The backend and the client's end of the connection.                     *)

\* The call ends: the service returned after FINAL or ERROR, or the transport
\* failed, or recvPump's idle timeout cancelled it.  The closed flag stays.
CallEnds(s) ==
    /\ s \in live
    /\ live' = live \ {s}
    /\ UNCHANGED <<readVars, conn, sttStream, closed, audioQueue, workVars,
                   delivered>>

Disconnect ==
    /\ conn = "open"
    /\ conn' = "closed"
    /\ UNCHANGED <<readVars, streamVars, audioQueue, workVars, delivered>>

Terminated == rp = "gone" /\ aw = "gone" /\ UNCHANGED vars

Next == ReadPump \/ Worker \/ Disconnect \/ Terminated
        \/ \E s \in Streams : CallEnds(s)

(* The goroutines are scheduled.  SendOk is not forced: a wedged backend   *)
(* stops accepting audio (flow control).  But then it sends no transcripts *)
(* either and recvPump's idle timeout ends the call the worker is stuck on *)
(* (stt/client.go:172-176).  A blocked channel sender waits in FIFO order. *)
Fairness ==
    /\ WF_vars(CloseOld \/ OpenNew \/ EnqueueEnd \/ ReadFails)
    /\ WF_vars(TakeFrame \/ LoadStream \/ CheckClosed \/ SendFails \/ CloseSend
               \/ WorkerStops)
    /\ WF_vars(aw = "sending" /\ CallEnds(stream))

Spec == Init /\ [][Next]_vars
FairSpec == Spec /\ Fairness

-----------------------------------------------------------------------------
(* Correctness.                                                            *)

(* The end marker is the last thing a stream is given: no audio follows    *)
(* it, neither of its own utterance nor queued behind it for the next one  *)
(* (session.go:229-233; "must be sent last and in order", session.go:69).  *)
EndMarkerLast ==
    \A s \in Streams : \A i \in DOMAIN delivered[s] :
        delivered[s][i].kind = "end" => i = Len(delivered[s])

(* No STT call outlives its utterance's place in the session: whichever    *)
(* calls run, the next "start" or the cancelled context reaches them       *)
(* through the one pointer there is (session.go:342-353).                  *)
OneLiveCall == live \subseteq {sttStream}

(* An utterance the client has ended is ended at the service too: its      *)
(* stream is given the marker and half-closed, unless a newer "start" has  *)
(* closed it or the call is over.  A marker dropped on the way would leave *)
(* the stream waiting for audio, and FINAL would never come                *)
(* (session.go:536-544).                                                   *)
EndMarkerArrives ==
    \A s \in Streams :
        rp = "ending" /\ turn = s ~> s \in closed \/ s \notin live

(* end_utterance blocks the read loop only for a while: whatever the STT   *)
(* backend does, the queue moves again and the loop gets back to reading   *)
(* "start" (session.go:180-184, 540-544).                                  *)
EndUtteranceReturns == rp = "ending" ~> rp \in {"reading", "gone"}

(* After the connection is lost, both goroutines return, even from a Send  *)
(* into a wedged backend or a wait for room in the queue.                  *)
UplinkWindsDown == conn = "closed" ~> rp = "gone" /\ aw = "gone"
=============================================================================
