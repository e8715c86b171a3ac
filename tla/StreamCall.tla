----------------------------- MODULE StreamCall -----------------------------
(***************************************************************************)
(* One gRPC call as the gateway sees it: type Stream of internal/stt,      *)
(* internal/llm and internal/tts, whose recvPump is the same code three    *)
(* times.  recvPump starts a goroutine per Recv, waits for its result, the *)
(* idle timer or the cancelled context, and hands each event to a reader   *)
(* through the bounded Events channel.                                     *)
(*                                                                         *)
(* Events are numbered in the order the service sends them; Error is the   *)
(* event emitError makes.  The line numbers below are internal/stt's.      *)
(*                                                                         *)
(* Bounds: MaxEvent events from the service, EventsCap for the capacity of *)
(* Events (16 in OpenStream, StartChat and Synthesize).                    *)
(***************************************************************************)
EXTENDS Naturals, Sequences

CONSTANTS
    MaxEvent,   \* events the service sends at most
    EventsCap,  \* capacity of the Events channel
    HalfCloses  \* {"yes"} for STT, whose CloseSend exists; {} for LLM and TTS

Error == 0

ASSUME BoundsAssumption == MaxEvent \in Nat \ {0} /\ EventsCap \in Nat \ {0}

VARIABLES
    service,  \* external: the call at the service
    sent,     \* external: events the service has sent
    taken,    \* external: events Recv has returned
    recv,     \* the goroutine around Recv and its recvCh
    pump,     \* program counter of recvPump
    events,   \* the Events channel
    ctx,      \* stream.Context(), whose Done() is ready once it is cancelled
    closed,   \* the closed / closedByCaller flag
    reader,   \* the goroutine that ranges over Events
    got,      \* what it has received
    lost,     \* auxiliary: "yes" once emitError has found Events full
    ender     \* auxiliary: "yes" once Close or the session has ended the call

serviceVars == <<service, sent>>
callerVars  == <<ctx, closed, ender>>
readVars    == <<reader, got>>
vars == <<serviceVars, taken, recv, pump, events, callerVars, readVars, lost>>

TypeOK ==
    /\ service \in {"serving", "eof", "failed"}
    /\ sent \in 0..MaxEvent
    /\ taken \in 0..sent
    /\ recv \in {"none", "receiving", "event", "eof", "error"}
    /\ pump \in {"waiting", "emitting", "failing", "gone"}
    /\ events \in Seq(0..MaxEvent) /\ Len(events) <= EventsCap
    /\ ctx \in {"live", "cancelled"}
    /\ closed \in {"no", "yes"}
    /\ reader \in {"ranging", "left", "done"}
    /\ got \in Seq(0..MaxEvent)
    /\ lost \in {"no", "yes"} /\ ender \in {"no", "yes"}

\* The call has been opened and recvPump started its first Recv.
Init ==
    /\ service = "serving" /\ sent = 0 /\ taken = 0
    /\ recv = "receiving" /\ pump = "waiting" /\ events = <<>>
    /\ ctx = "live" /\ closed = "no"
    /\ reader = "ranging" /\ got = <<>>
    /\ lost = "no" /\ ender = "no"

-----------------------------------------------------------------------------
(* The service, which may also fall silent (external).                     *)

Serve ==
    /\ service = "serving" /\ sent < MaxEvent
    /\ sent' = sent + 1
    /\ UNCHANGED <<service, taken, recv, pump, events, callerVars, readVars, lost>>

ServiceEnds ==
    /\ service = "serving"
    /\ service' \in {"eof", "failed"}
    /\ UNCHANGED <<sent, taken, recv, pump, events, callerVars, readVars, lost>>

-----------------------------------------------------------------------------
(* The goroutine around stream.Recv; recvCh has room for its one result.   *)

RecvEvent ==
    /\ recv = "receiving" /\ taken < sent
    /\ taken' = taken + 1
    /\ recv' = "event"
    /\ UNCHANGED <<serviceVars, pump, events, callerVars, readVars, lost>>

\* A Recv that finds the call at its end finishes it: grpc-go cancels the
\* stream's context before it returns EOF or the error, so that recvPump's
\* select finds both recvCh and Done() ready.
RecvEnds ==
    /\ recv = "receiving"
    /\ \/ service = "eof" /\ taken = sent /\ recv' = "eof"
       \/ service = "failed" /\ taken = sent /\ recv' = "error"
       \/ ctx = "cancelled" /\ recv' = "error"
    /\ ctx' = "cancelled"
    /\ UNCHANGED <<serviceVars, taken, pump, events, closed, ender, readVars, lost>>

Recv == RecvEvent \/ RecvEnds

-----------------------------------------------------------------------------
(* recvPump.  Its deferred close(s.Events) is part of each return.         *)

EagerTakeEvent ==   \* mutant: the next Recv starts before the event is handed over
    /\ pump = "waiting" /\ recv = "event"
    /\ pump' = "emitting" /\ recv' = "receiving"
    /\ UNCHANGED <<serviceVars, taken, events, callerVars, readVars, lost>>

TakeEvent ==
    /\ pump = "waiting" /\ recv = "event"
    /\ pump' = "emitting" /\ recv' = "none"
    /\ UNCHANGED <<serviceVars, taken, events, callerVars, readVars, lost>>

\* EOF, or an error the caller brought about, ends the stream quietly.
TakeEnd ==
    /\ pump = "waiting" /\ recv \in {"eof", "error"}
    /\ recv' = "none"
    /\ pump' = IF recv = "eof" \/ closed = "yes" THEN "gone" ELSE "failing"
    /\ UNCHANGED <<serviceVars, taken, events, callerVars, readVars, lost>>

DroppingEmit ==   \* mutant: an event for a full channel is dropped
    /\ pump = "emitting"
    /\ events' = IF Len(events) < EventsCap THEN Append(events, taken) ELSE events
    /\ pump' = "waiting" /\ recv' = "receiving"
    /\ UNCHANGED <<serviceVars, taken, callerVars, readVars, lost>>

OverfullEmit ==   \* mutant: one event more than the channel holds
    /\ pump = "emitting" /\ Len(events) <= EventsCap
    /\ events' = Append(events, taken)
    /\ pump' = "waiting" /\ recv' = "receiving"
    /\ UNCHANGED <<serviceVars, taken, callerVars, readVars, lost>>

\* Room in Events: hand the event over, go round the loop, Recv again.
Emit ==
    /\ pump = "emitting" /\ Len(events) < EventsCap
    /\ events' = Append(events, taken)
    /\ pump' = "waiting" /\ recv' = "receiving"
    /\ UNCHANGED <<serviceVars, taken, callerVars, readVars, lost>>

\* The context's Done() case of either select: a silent return, whoever has
\* cancelled the context.
Cancelled ==
    /\ pump \in {"waiting", "emitting"} /\ ctx = "cancelled"
    /\ pump' = "gone"
    /\ UNCHANGED <<serviceVars, taken, recv, events, callerVars, readVars, lost>>

LeakyIdleTimeout ==   \* mutant: the call is not cancelled
    /\ pump = "waiting"
    /\ pump' = "failing"
    /\ UNCHANGED <<serviceVars, taken, recv, events, callerVars, readVars, lost>>

\* The timer may fire just as a result arrives: select takes either.
IdleTimeout ==
    /\ pump = "waiting"
    /\ ctx' = "cancelled"
    /\ pump' = "failing"
    /\ UNCHANGED <<serviceVars, taken, recv, events, closed, ender, readVars, lost>>

\* emitError, then return.
EmitError ==
    /\ pump = "failing"
    /\ IF Len(events) < EventsCap
       THEN events' = Append(events, Error) /\ lost' = lost
       ELSE events' = events /\ lost' = "yes"
    /\ pump' = "gone"
    /\ UNCHANGED <<serviceVars, taken, recv, callerVars, readVars>>

Pump == TakeEvent \/ TakeEnd \/ Emit \/ Cancelled \/ IdleTimeout \/ EmitError

-----------------------------------------------------------------------------
(* The session's side: the reader, Close, CloseSend and the session's end. *)

ReaderTakes ==
    /\ reader = "ranging" /\ events # <<>>
    /\ got' = Append(got, Head(events))
    /\ events' = Tail(events)
    /\ UNCHANGED <<serviceVars, taken, recv, pump, callerVars, reader, lost>>

ReaderEnds ==
    /\ reader = "ranging" /\ events = <<>> /\ pump = "gone"
    /\ reader' = "done"
    /\ UNCHANGED <<serviceVars, taken, recv, pump, events, callerVars, got, lost>>

\* An event comes and the turn is stale: forwardLLMEvents and synthesizeAndSend
\* just return.
ReaderLeaves ==
    /\ reader = "ranging" /\ got # <<>>
    /\ reader' = "left"
    /\ UNCHANGED <<serviceVars, taken, recv, pump, events, callerVars, got, lost>>

\* Close: the flag, then the context; the flag alone changes only what
\* TakeEnd does with a failure, which Cancelled may pass over as well.
Close ==
    /\ closed' = "yes" /\ ctx' = "cancelled" /\ ender' = "yes"
    /\ UNCHANGED <<serviceVars, taken, recv, pump, events, readVars, lost>>

\* CloseSend sets the flag too (STT only).
CloseSend ==
    /\ HalfCloses # {} /\ closed = "no"
    /\ closed' = "yes"
    /\ UNCHANGED <<serviceVars, taken, recv, pump, events, ctx, ender, readVars, lost>>

\* The session's context, the parent, is cancelled.
SessionEnds ==
    /\ ctx' = "cancelled" /\ ender' = "yes"
    /\ UNCHANGED <<serviceVars, taken, recv, pump, events, closed, readVars, lost>>

Reader == ReaderTakes \/ ReaderEnds

Over == pump = "gone" /\ reader # "ranging" /\ recv # "receiving" /\ UNCHANGED vars

Next == Serve \/ ServiceEnds \/ Recv \/ Pump \/ Reader \/ ReaderLeaves
        \/ Close \/ CloseSend \/ SessionEnds \/ Over

(* The goroutines are scheduled, the timer fires, Recv notices the end of  *)
(* its call.  Neither the service nor the caller has to do anything.       *)
Fairness == WF_vars(Recv) /\ WF_vars(Pump) /\ WF_vars(Reader)

Spec == Init /\ [][Next]_vars
FairSpec == Spec /\ Fairness

-----------------------------------------------------------------------------
(* Correctness.                                                            *)

\* What the reader is promised, with the reader's view of the stream's end.
Promise == INSTANCE EventStream WITH
    got  <- got,
    over <- IF reader # "ranging" \/ (got # <<>> /\ got[Len(got)] = Error)
            THEN "yes" ELSE "no"

(* Whatever the service does, wedged or chatty, and whoever closes the     *)
(* call meanwhile, the reader gets the service's events in order and       *)
(* without a gap, at most one error after them, and an end                 *)
(* (stt/client.go:131-135).                                                *)
KeepsPromise == Promise!Spec

(* A stream the gateway did not end, by Close or with the session, loses   *)
(* nothing of what the service said: its reader has got all of it, or an   *)
(* error that tells of the loss, or was a full channel behind when the     *)
(* error came.  In particular the context Recv cancels as it ends takes no *)
(* event with it (stt/client.go:151-178, 184-191).                         *)
EndLosesNothing ==
    reader = "done" /\ ender = "no" =>
        \/ got # <<>> /\ got[Len(got)] = Error
        \/ service # "serving" /\ Len(got) = sent
        \/ lost = "yes" /\ Len(got) >= EventsCap

(* Claimed by stt/client.go:64-67: Events also carries a terminal error    *)
(* that did not come from the service, such as that the stream died;       *)
(* :85-88: it is suppressed for an intentional shutdown only.  So a call   *)
(* that fails while nobody shuts it down, its reader within reach, is      *)
(* reported to have failed.                                                *)
FailureIsTold ==
    reader = "done" /\ closed = "no" /\ ender = "no" /\ lost = "no" =>
        \/ got # <<>> /\ got[Len(got)] = Error
        \/ service = "eof"

(* Nothing outlives a call: cancelling it, by Close, timeout or the end of *)
(* the session, frees both its goroutines even when nobody reads Events,   *)
(* and recvPump never returns with a Recv left behind for good             *)
(* (stt/client.go:145-149, 166-170, 178-179).                              *)
GoroutinesEnd ==
    (ctx = "cancelled" \/ pump = "gone") ~> (pump = "gone" /\ recv # "receiving")
=============================================================================
