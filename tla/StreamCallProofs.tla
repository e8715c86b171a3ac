-------------------------- MODULE StreamCallProofs --------------------------
(***************************************************************************)
(* Proofs about StreamCall, for any number of events and any capacity of   *)
(* the Events channel: every step the reader sees is one EventStream       *)
(* allows, a stream the gateway did not end loses no event unexplained,    *)
(* and every variable keeps its type.                                      *)
(***************************************************************************)
EXTENDS StreamCall, TLAPS

CallTypes ==
    /\ sent \in Nat /\ taken \in Nat /\ taken <= sent
    /\ service \in {"serving", "eof", "failed"}
    /\ recv \in {"none", "receiving", "event", "eof", "error"}
    /\ pump \in {"waiting", "emitting", "failing", "gone"}
    /\ events \in Seq(Nat) /\ got \in Seq(Nat)
    /\ reader \in {"ranging", "left", "done"}

\* Events that Recv has returned and the pump has not handed over.
Pending == IF pump = "emitting" \/ recv = "event" THEN 1 ELSE 0

\* The reader has got the error.
Failed == got # <<>> /\ got[Len(got)] = Error

\* The channel continues what the reader has got; the pump, while it runs, what
\* the channel holds.
Flowing ==
    /\ ~Failed
    /\ \A i \in 1..Len(events) : events[i] = Len(got) + i
    /\ pump \in {"waiting", "emitting"} => Len(got) + Len(events) + Pending = taken

\* The error is the last thing in the channel ...
Failing ==
    /\ ~Failed /\ pump = "gone"
    /\ events # <<>> /\ events[Len(events)] = Error
    /\ \A i \in 1..(Len(events) - 1) : events[i] = Len(got) + i

\* ... or has been taken out of it.
FailedForGood == Failed /\ pump = "gone" /\ events = <<>>

\* All the service had to say has been handed over, or waits in the channel.
HandedOver == service # "serving" /\ Len(got) + Len(events) = sent

\* A context nobody else has cancelled was cancelled by a Recv that found nothing
\* left, so that the pump has nothing in hand; and a pump that has returned
\* has reported an error, or handed everything over, or found the channel full.
Explained ==
    /\ recv \in {"eof", "error"} => ctx = "cancelled"
    /\ pump = "emitting" => recv = "none"
    /\ ctx = "cancelled" /\ ender = "no" /\ pump \in {"waiting", "emitting"} =>
          /\ pump = "waiting" /\ recv \in {"eof", "error"}
          /\ service # "serving" /\ taken = sent
    /\ pump = "gone" /\ ender = "no" =>
          \/ Failing \/ FailedForGood
          \/ HandedOver
          \/ lost = "yes" /\ Len(got) + Len(events) >= EventsCap
    /\ reader = "done" => pump = "gone" /\ events = <<>>

CallInv == CallTypes /\ (Flowing \/ Failing \/ FailedForGood) /\ Explained

LEMMA CallInvInit == Init => CallInv
BY DEF Init, CallInv, CallTypes, Flowing, Failed, Explained, Pending, HandedOver

\* Appending to and taking from a channel.
LEMMA Appended ==
    ASSUME NEW s \in Seq(Nat), NEW e \in Nat
    PROVE  /\ Append(s, e) \in Seq(Nat) /\ Append(s, e) # <<>>
           /\ Len(Append(s, e)) = Len(s) + 1 /\ Len(s) \in Nat
           /\ \A i \in 1..Len(s) : Append(s, e)[i] = s[i]
           /\ Append(s, e)[Len(s) + 1] = e
OBVIOUS

LEMMA EmptyHasNoLength == ASSUME NEW s \in Seq(Nat) PROVE s = <<>> <=> Len(s) = 0
OBVIOUS

LEMMA Taken ==
    ASSUME NEW s \in Seq(Nat), s # <<>>
    PROVE  /\ Tail(s) \in Seq(Nat) /\ Len(s) \in Nat \ {0} /\ Len(Tail(s)) = Len(s) - 1
           /\ Head(s) = s[1] /\ Head(s) \in Nat
           /\ \A i \in 1..(Len(s) - 1) : Tail(s)[i] = s[i + 1]
           /\ Tail(s) = <<>> <=> Len(s) = 1
<1>1. Len(s) \in Nat /\ Len(s) # 0
  OBVIOUS
<1>2. /\ Tail(s) \in Seq(Nat) /\ Len(Tail(s)) = Len(s) - 1
      /\ Head(s) = s[1] /\ Head(s) \in Nat
  BY <1>1
<1>3. \A i \in 1..(Len(s) - 1) : Tail(s)[i] = s[i + 1]
  BY <1>1
<1>4. Tail(s) = <<>> <=> Len(Tail(s)) = 0
  BY <1>2, EmptyHasNoLength
<1> QED
  BY SMTT(30), <1>1, <1>2, <1>3, <1>4

\* A step that leaves the channel and the reader alone keeps the stream's shape,
\* whatever recvPump does with what Recv has returned.
LEMMA ShapeKept ==
    ASSUME CallInv, UNCHANGED <<got, events>>,
           taken' \in Nat,
           pump = "gone" => pump' = "gone",
           pump' \in {"waiting", "emitting"} =>
               pump \in {"waiting", "emitting"} /\ taken' + Pending = taken + Pending'
    PROVE  /\ Flowing => Flowing'
           /\ Failing => Failing'
           /\ FailedForGood => FailedForGood'
<1>1. got' = got /\ events' = events /\ Failed' = Failed
  BY DEF Failed
<1>2. taken \in Nat /\ Len(got) \in Nat /\ Len(events) \in Nat
  BY DEF CallInv, CallTypes
<1>3. Pending \in {0, 1} /\ Pending' \in {0, 1}
  BY DEF Pending
<1>4. Flowing => Flowing'
  <2> SUFFICES ASSUME Flowing PROVE Flowing'
    OBVIOUS
  <2>1. pump' \in {"waiting", "emitting"} => Len(got) + Len(events) + Pending' = taken'
    BY <1>2, <1>3 DEF Flowing
  <2> QED
    BY <1>1, <2>1 DEF Flowing
<1>5. Failing => Failing'
  BY <1>1 DEF Failing
<1>6. FailedForGood => FailedForGood'
  BY <1>1 DEF FailedForGood
<1> QED
  BY <1>4, <1>5, <1>6

\* What the reader takes: the next event of the service, or the error.
LEMMA TakesNext ==
    ASSUME CallInv, ReaderTakes
    PROVE  /\ ~Failed /\ got' \in Seq(Nat) /\ events' \in Seq(Nat)
           /\ Len(got') + Len(events') = Len(got) + Len(events)
           /\ \/ /\ got' = Append(got, Len(got) + 1) /\ ~Failed'
                 /\ (Flowing => Flowing') /\ (Failing => Failing')
              \/ got' = Append(got, Error) /\ Failing /\ FailedForGood'
<1>0. /\ got \in Seq(Nat) /\ events \in Seq(Nat) /\ events # <<>>
      /\ got' = Append(got, Head(events)) /\ events' = Tail(events)
      /\ UNCHANGED <<pump, recv, taken>>
  BY DEF CallInv, CallTypes, ReaderTakes
<1>1. /\ events' \in Seq(Nat) /\ Len(events) \in Nat \ {0} /\ Len(events') = Len(events) - 1
      /\ Head(events) = events[1] /\ Head(events) \in Nat
      /\ \A i \in 1..(Len(events) - 1) : events'[i] = events[i + 1]
      /\ events' = <<>> <=> Len(events) = 1
  BY <1>0, Taken
<1>2. /\ got' \in Seq(Nat) /\ got' # <<>> /\ Len(got') = Len(got) + 1 /\ Len(got) \in Nat
      /\ got'[Len(got) + 1] = Head(events)
  BY <1>0, <1>1, Appended
<1>3. Flowing \/ Failing
  BY <1>0 DEF CallInv, FailedForGood
<1>4. Len(got') + Len(events') = Len(got) + Len(events)
  BY <1>1, <1>2
<1>5. Failed' <=> Head(events) = Error
  BY <1>2 DEF Failed
<1>6. CASE Flowing
  <2>1. Head(events) = Len(got) + 1
    BY <1>1, <1>6 DEF Flowing
  <2>2. got' = Append(got, Len(got) + 1) /\ ~Failed'
    BY <1>0, <1>2, <1>5, <2>1 DEF Error
  <2>3. \A i \in 1..Len(events') : events'[i] = Len(got') + i
    <3> SUFFICES ASSUME NEW i \in 1..Len(events') PROVE events'[i] = Len(got') + i
      OBVIOUS
    <3>1. i \in 1..(Len(events) - 1) /\ i + 1 \in 1..Len(events)
      BY <1>1
    <3>2. events'[i] = Len(got) + (i + 1)
      BY <1>1, <1>6, <3>1 DEF Flowing
    <3> QED
      BY <1>2, <3>1, <3>2
  <2>4. Flowing'
    BY <1>0, <1>4, <1>6, <2>2, <2>3 DEF Flowing, Pending
  <2>5. ~Failing
    <3>1. events[Len(events)] = Len(got) + Len(events)
      BY <1>1, <1>6 DEF Flowing
    <3> QED
      BY <1>1, <1>2, <3>1 DEF Failing, Error
  <2> QED
    BY <1>1, <1>2, <1>4, <1>6, <2>2, <2>4, <2>5 DEF Flowing
<1>7. CASE Failing /\ Len(events) # 1
  <2>1. Head(events) = Len(got) + 1
    BY <1>1, <1>7 DEF Failing
  <2>2. got' = Append(got, Len(got) + 1) /\ ~Failed'
    BY <1>0, <1>2, <1>5, <2>1 DEF Error
  <2>3. \A i \in 1..(Len(events') - 1) : events'[i] = Len(got') + i
    <3> SUFFICES ASSUME NEW i \in 1..(Len(events') - 1) PROVE events'[i] = Len(got') + i
      OBVIOUS
    <3>1. i \in 1..(Len(events) - 1) /\ i + 1 \in 1..(Len(events) - 1)
      BY <1>1
    <3>2. events'[i] = Len(got) + (i + 1)
      BY <1>1, <1>7, <3>1 DEF Failing
    <3> QED
      BY <1>2, <3>1, <3>2
  <2>4. events' # <<>> /\ events'[Len(events')] = Error
    <3>1. Len(events') \in 1..(Len(events) - 1) /\ Len(events') + 1 = Len(events)
      BY <1>1, <1>7
    <3>2. events'[Len(events')] = events[Len(events)]
      BY <1>1, <3>1
    <3> QED
      BY <1>1, <1>7, <3>2 DEF Failing
  <2>5. Failing'
    BY <1>0, <1>7, <2>2, <2>3, <2>4 DEF Failing
  <2>6. Flowing => Flowing'
    BY <1>6, <1>1, <1>7 DEF Flowing, Failing, Error
  <2> QED
    BY <1>1, <1>2, <1>4, <1>7, <2>2, <2>5, <2>6 DEF Failing
<1>8. CASE Failing /\ Len(events) = 1
  <2>1. Head(events) = Error
    BY <1>1, <1>8 DEF Failing
  <2>2. got' = Append(got, Error) /\ Failed' /\ events' = <<>>
    BY <1>0, <1>1, <1>5, <1>8, <2>1
  <2> QED
    BY <1>0, <1>1, <1>2, <1>4, <1>8, <2>2 DEF Failing, FailedForGood
<1> QED
  BY <1>3, <1>6, <1>7, <1>8

LEMMA CallInvStep == CallInv /\ [Next]_vars => CallInv'
<1> SUFFICES ASSUME CallInv, [Next]_vars PROVE CallInv'
  OBVIOUS
<1>0. /\ CallTypes /\ Explained /\ (Flowing \/ Failing \/ FailedForGood)
      /\ Len(events) \in Nat /\ Len(got) \in Nat
  BY DEF CallInv, CallTypes
<1> USE DEF CallTypes, serviceVars, callerVars, readVars
<1>1. CASE Serve \/ ServiceEnds
  <2>1. /\ sent' \in {sent, sent + 1} /\ service' \in {"serving", "eof", "failed"}
        /\ service = "serving"
        /\ UNCHANGED <<taken, recv, pump, events, ctx, closed, ender, reader, got, lost>>
    BY <1>0, <1>1 DEF Serve, ServiceEnds, Explained
  <2>2. /\ Flowing => Flowing'
        /\ Failing => Failing'
        /\ FailedForGood => FailedForGood'
    BY <1>0, <2>1, ShapeKept DEF Pending
  <2>3. CallTypes'
    BY <1>0, <2>1
  <2>4. Explained'
    BY <1>0, <2>1, <2>2 DEF Explained, HandedOver
  <2> QED
    BY <1>0, <2>2, <2>3, <2>4 DEF CallInv
<1>2. CASE RecvEvent
  <2>1. /\ recv = "receiving" /\ recv' = "event" /\ taken < sent /\ taken' = taken + 1
        /\ pump # "emitting"
        /\ UNCHANGED <<service, sent, pump, events, ctx, closed, ender, reader, got, lost>>
    BY <1>0, <1>2 DEF RecvEvent, Explained
  <2>2. /\ Flowing => Flowing'
        /\ Failing => Failing'
        /\ FailedForGood => FailedForGood'
    BY <1>0, <2>1, ShapeKept DEF Pending
  <2>3. CallTypes'
    BY <1>0, <2>1
  <2>4. Explained'
    BY <1>0, <2>1, <2>2 DEF Explained, HandedOver
  <2> QED
    BY <1>0, <2>2, <2>3, <2>4 DEF CallInv
<1>3. CASE RecvEnds
  <2>1. /\ recv = "receiving" /\ recv' \in {"eof", "error"} /\ ctx' = "cancelled"
        /\ ctx = "cancelled" \/ (service # "serving" /\ taken = sent)
        /\ pump # "emitting"
        /\ UNCHANGED <<service, sent, taken, pump, events, closed, ender, reader, got, lost>>
    BY <1>0, <1>3 DEF RecvEnds, Explained
  <2>2. /\ Flowing => Flowing'
        /\ Failing => Failing'
        /\ FailedForGood => FailedForGood'
    BY <1>0, <2>1, ShapeKept DEF Pending
  <2>3. CallTypes'
    BY <1>0, <2>1
  <2>4. Explained'
    BY <1>0, <2>1, <2>2 DEF Explained, HandedOver
  <2> QED
    BY <1>0, <2>2, <2>3, <2>4 DEF CallInv
<1>4. CASE TakeEvent
  <2>1. /\ recv = "event" /\ recv' = "none" /\ pump = "waiting" /\ pump' = "emitting"
        /\ UNCHANGED <<service, sent, taken, events, ctx, closed, ender, reader, got, lost>>
    BY <1>0, <1>4 DEF TakeEvent, Explained
  <2>2. /\ Flowing => Flowing'
        /\ Failing => Failing'
        /\ FailedForGood => FailedForGood'
    BY <1>0, <2>1, ShapeKept DEF Pending
  <2>3. CallTypes'
    BY <1>0, <2>1
  <2>4. Explained'
    BY <1>0, <2>1, <2>2 DEF Explained, HandedOver
  <2> QED
    BY <1>0, <2>2, <2>3, <2>4 DEF CallInv
<1>5. CASE TakeEnd
  <2>1. /\ recv \in {"eof", "error"} /\ recv' = "none" /\ pump = "waiting"
        /\ pump' \in {"gone", "failing"}
        /\ UNCHANGED <<service, sent, taken, events, ctx, closed, ender, reader, got, lost>>
    BY <1>0, <1>5 DEF TakeEnd, Explained
  <2>2. /\ Flowing => Flowing'
        /\ Failing => Failing'
        /\ FailedForGood => FailedForGood'
    BY <1>0, <2>1, ShapeKept DEF Pending
  <2>3. CallTypes'
    BY <1>0, <2>1
  <2>4. Explained'
    <3>1. ender = "no" => service # "serving" /\ taken = sent
      BY <1>0, <2>1 DEF Explained
    <3>2. Flowing /\ Len(got) + Len(events) = taken
      BY <1>0, <2>1 DEF Flowing, Failing, FailedForGood, Pending
    <3> QED
      BY <1>0, <2>1, <3>1, <3>2 DEF Explained, HandedOver
  <2> QED
    BY <1>0, <2>2, <2>3, <2>4 DEF CallInv
<1>6. CASE Emit
  <2>1. /\ events' = Append(events, taken) /\ pump = "emitting" /\ pump' = "waiting"
        /\ recv' = "receiving"
        /\ UNCHANGED <<service, sent, taken, ctx, closed, ender, reader, got, lost>>
    BY <1>6 DEF Emit
  <2>2. /\ events' \in Seq(Nat) /\ Len(events') = Len(events) + 1
        /\ \A i \in 1..Len(events) : events'[i] = events[i]
        /\ events'[Len(events) + 1] = taken
    BY <1>0, <2>1, Appended
  <2>3. Flowing /\ taken = Len(got) + Len(events) + 1
    BY <1>0, <2>1 DEF Flowing, Failing, FailedForGood, Pending
  <2>4. \A i \in 1..Len(events') : events'[i] = Len(got') + i
    <3> SUFFICES ASSUME NEW i \in 1..Len(events') PROVE events'[i] = Len(got) + i
      BY <2>1
    <3>1. CASE i \in 1..Len(events)
      BY <2>2, <2>3, <3>1 DEF Flowing
    <3>2. CASE i = Len(events) + 1
      BY <1>0, <2>2, <2>3, <3>2
    <3> QED
      BY <1>0, <2>2, <3>1, <3>2
  <2>5. Flowing'
    BY <1>0, <2>1, <2>2, <2>3, <2>4 DEF Flowing, Failed, Pending
  <2>6. CallTypes'
    BY <1>0, <2>1, <2>2
  <2>7. Explained'
    BY <1>0, <2>1 DEF Explained
  <2> QED
    BY <2>5, <2>6, <2>7 DEF CallInv
<1>7. CASE Cancelled
  <2>1. /\ ctx = "cancelled" /\ pump \in {"waiting", "emitting"} /\ pump' = "gone"
        /\ UNCHANGED <<service, sent, taken, recv, events, ctx, closed, ender, reader, got, lost>>
    BY <1>7 DEF Cancelled
  <2>2. Flowing /\ Len(got) + Len(events) + Pending = taken
    BY <1>0, <2>1 DEF Flowing, Failing, FailedForGood
  <2>3. ender = "no" => service # "serving" /\ taken = sent /\ Pending = 0
    BY <1>0, <2>1 DEF Explained, Pending
  <2>4. Flowing'
    BY <2>1, <2>2 DEF Flowing, Failed
  <2>5. CallTypes'
    BY <1>0, <2>1
  <2>6. Explained'
    BY <1>0, <2>1, <2>2, <2>3 DEF Explained, HandedOver
  <2> QED
    BY <2>4, <2>5, <2>6 DEF CallInv
<1>8. CASE EmitError
  <2>1. /\ pump = "failing" /\ pump' = "gone"
        /\ UNCHANGED <<service, sent, taken, recv, ctx, closed, ender, reader, got>>
        /\ \/ events' = Append(events, Error) /\ lost' = lost
           \/ events' = events /\ lost' = "yes" /\ ~(Len(events) < EventsCap)
    BY <1>8 DEF EmitError
  <2>2. Flowing /\ reader # "done"
    BY <1>0, <2>1 DEF Failing, FailedForGood, Explained
  <2>3. CASE events' = events /\ lost' = "yes" /\ ~(Len(events) < EventsCap)
    <3>1. Flowing'
      BY <2>1, <2>2, <2>3 DEF Flowing, Failed
    <3>2. Len(got) + Len(events) >= EventsCap
      BY <1>0, <2>3, BoundsAssumption
    <3>3. CallTypes' /\ Explained'
      BY <1>0, <2>1, <2>2, <2>3, <3>2 DEF Explained
    <3> QED
      BY <3>1, <3>3 DEF CallInv
  <2>4. CASE events' = Append(events, Error) /\ lost' = lost
    <3>1. /\ events' \in Seq(Nat) /\ Len(events') = Len(events) + 1 /\ events' # <<>>
          /\ \A i \in 1..Len(events) : events'[i] = events[i]
          /\ events'[Len(events) + 1] = Error
      BY <1>0, <2>4, Appended DEF Error
    <3>2. Failing'
      BY <1>0, <2>1, <2>2, <3>1 DEF Failing, Flowing, Failed
    <3>3. CallTypes' /\ Explained'
      BY <1>0, <2>1, <2>2, <2>4, <3>1, <3>2 DEF Explained
    <3> QED
      BY <3>2, <3>3 DEF CallInv
  <2> QED
    BY <2>1, <2>3, <2>4
<1>9. CASE ReaderTakes
  <2>1. /\ events # <<>> /\ reader = "ranging"
        /\ UNCHANGED <<service, sent, taken, recv, pump, ctx, closed, ender, reader, lost>>
    BY <1>9 DEF ReaderTakes
  <2>2. /\ ~Failed /\ got' \in Seq(Nat) /\ events' \in Seq(Nat)
        /\ Len(got') + Len(events') = Len(got) + Len(events)
        /\ Flowing => Flowing'
        /\ Failing => Failing' \/ FailedForGood'
        /\ Flowing \/ Failing
    <3>1. Flowing => ~Failing
      <4>1. Len(events) \in 1..Len(events)
        BY <1>0, <2>1
      <4> QED
        BY <1>0, <4>1 DEF Flowing, Failing, Error
    <3>2. ~FailedForGood
      BY <2>1 DEF FailedForGood
    <3> QED
      BY <1>0, <1>9, <3>1, <3>2, TakesNext
  <2>3. CallTypes'
    BY <1>0, <2>1, <2>2
  <2>4. Explained'
    BY <1>0, <2>1, <2>2 DEF Explained, FailedForGood, HandedOver
  <2> QED
    BY <2>2, <2>3, <2>4 DEF CallInv
<1>10. CASE ReaderEnds \/ ReaderLeaves
  BY <1>0, <1>10 DEF ReaderEnds, ReaderLeaves, CallInv, Flowing, Failing, FailedForGood,
                     Failed, Explained, Pending, HandedOver
<1>11. CASE Close \/ CloseSend \/ SessionEnds
  BY ZenonT(60), <1>0, <1>11 DEF Close, CloseSend, SessionEnds, CallInv, Flowing, Failing, FailedForGood,
                     Failed, Explained, Pending, HandedOver
<1>12. CASE UNCHANGED vars
  BY <1>0, <1>12 DEF vars, CallInv, Flowing, Failing, FailedForGood, Failed, Explained,
                     Pending, HandedOver
<1>13. CASE IdleTimeout
  <2>1. /\ ctx' = "cancelled" /\ pump = "waiting" /\ pump' = "failing"
        /\ UNCHANGED <<service, sent, taken, recv, events, closed, ender, reader, got, lost>>
    BY <1>13 DEF IdleTimeout
  <2>2. Flowing'
    BY <1>0, <2>1 DEF Flowing, Failing, FailedForGood, Failed
  <2>3. CallTypes'
    BY <1>0, <2>1
  <2>4. Explained'
    BY <1>0, <2>1 DEF Explained
  <2> QED
    BY <2>2, <2>3, <2>4 DEF CallInv
<1> QED
  BY <1>1, <1>2, <1>3, <1>4, <1>5, <1>6, <1>7, <1>8, <1>9, <1>10, <1>11, <1>12, <1>13
     DEF Next, Recv, Pump, Reader, Over

\* A stream the gateway did not end loses nothing of what the service said: its
\* reader has got all of it, or an error that tells of the loss, or was a full
\* channel behind when the error came (stt/client.go:151-178, 184-191).
THEOREM EndLosesNothingCorrect == Spec => []EndLosesNothing
<1>1. CallInv => EndLosesNothing
  <2> SUFFICES ASSUME CallInv, reader = "done", ender = "no"
               PROVE  \/ Failed \/ (service # "serving" /\ Len(got) = sent)
                      \/ (lost = "yes" /\ Len(got) >= EventsCap)
    BY DEF EndLosesNothing, Failed
  <2>1. pump = "gone" /\ events = <<>> /\ Len(got) \in Nat
    BY DEF CallInv, CallTypes, Explained
  <2> QED
    BY <2>1 DEF CallInv, Explained, Failing, FailedForGood, HandedOver
<1> QED
  BY <1>1, CallInvInit, CallInvStep, PTL DEF Spec

-----------------------------------------------------------------------------
(* The refinement.                                                         *)

\* The reader's view of the stream's end, as Promise has it.
Ended == IF reader # "ranging" \/ Failed THEN "yes" ELSE "no"

\* Every step of a call is a step of the promised stream or invisible to its
\* reader: the safety part of KeepsPromise (stt/client.go:131-182).
THEOREM StepsKeepPromise == Spec => Promise!Init /\ [][Promise!Next]_<<got, Ended>>
<1>1. Init => Promise!Init
  BY DEF Init, Promise!Init
<1>2. CallInv /\ [Next]_vars => [Promise!Next]_<<got, Ended>>
  <2> SUFFICES ASSUME CallInv, [Next]_vars PROVE [Promise!Next]_<<got, Ended>>
    OBVIOUS
  <2>1. CASE ReaderTakes
    <3>1. ~Failed /\ reader = "ranging" /\ reader' = "ranging"
      BY <2>1, TakesNext DEF ReaderTakes
    <3>2. CASE got' = Append(got, Len(got) + 1) /\ ~Failed'
      BY <3>1, <3>2 DEF Promise!Next, Promise!Deliver, Failed
    <3>3. CASE got' = Append(got, Error) /\ Failed'
      BY <3>1, <3>3 DEF Promise!Next, Promise!Fail, Failed, Error
    <3> QED
      BY <2>1, <3>2, <3>3, TakesNext DEF FailedForGood
  <2>2. CASE ReaderEnds \/ ReaderLeaves
    BY <2>2 DEF ReaderEnds, ReaderLeaves, Promise!Next, Promise!End, Ended, Failed
  <2>3. CASE UNCHANGED readVars
    BY <2>3 DEF readVars, Ended, Failed
  <2> QED
    BY <2>1, <2>2, <2>3
       DEF Next, vars, Recv, Pump, Reader, Over, Serve, ServiceEnds, RecvEvent, RecvEnds,
           TakeEvent, TakeEnd, Emit, Cancelled, IdleTimeout, EmitError, Close, CloseSend,
           SessionEnds
<1> QED
  BY <1>1, <1>2, CallInvInit, CallInvStep, PTL DEF Spec

-----------------------------------------------------------------------------
(* Every variable keeps its type.                                          *)

Numbers == 0..MaxEvent

\* Appending to and taking from a channel of events.
LEMMA EventsAppended ==
    ASSUME NEW s \in Seq(Numbers), NEW e \in Numbers
    PROVE  Append(s, e) \in Seq(Numbers) /\ Len(Append(s, e)) = Len(s) + 1 /\ Len(s) \in Nat
OBVIOUS

LEMMA EventsTaken ==
    ASSUME NEW s \in Seq(Numbers), s # <<>>
    PROVE  /\ Head(s) \in Numbers /\ Tail(s) \in Seq(Numbers)
           /\ Len(Tail(s)) = Len(s) - 1 /\ Len(s) \in Nat
OBVIOUS

LEMMA TypeStep == TypeOK /\ [Next]_vars => TypeOK'
<1> SUFFICES ASSUME TypeOK, [Next]_vars PROVE TypeOK'
  OBVIOUS
<1>0. /\ sent \in Numbers /\ taken \in 0..sent /\ taken \in Numbers /\ 0 \in Numbers
      /\ MaxEvent \in Nat /\ EventsCap \in Nat \ {0}
      /\ events \in Seq(Numbers) /\ Len(events) <= EventsCap /\ got \in Seq(Numbers)
  BY BoundsAssumption DEF TypeOK, Numbers
<1>1. CASE Serve
  <2>1. sent' \in 0..MaxEvent /\ taken' \in 0..sent'
    BY <1>0, <1>1 DEF Serve, Numbers
  <2> QED
    BY <1>1, <2>1 DEF Serve, TypeOK, callerVars, readVars
<1>2. CASE ServiceEnds
  BY <1>2 DEF ServiceEnds, TypeOK, callerVars, readVars
<1>3. CASE Recv
  <2>1. taken' \in 0..sent
    BY <1>0, <1>3 DEF Recv, RecvEvent, RecvEnds, Numbers
  <2> QED
    BY <1>3, <2>1 DEF Recv, RecvEvent, RecvEnds, TypeOK, serviceVars, callerVars, readVars
<1>4. CASE TakeEvent \/ TakeEnd \/ Cancelled \/ IdleTimeout
  BY <1>4 DEF TakeEvent, TakeEnd, Cancelled, IdleTimeout, TypeOK, serviceVars, callerVars,
              readVars
<1>5. CASE Emit \/ EmitError
  <2>1. /\ events' = events \/ \E e \in Numbers : events' = Append(events, e)
        /\ events' # events => Len(events) < EventsCap
    BY <1>0, <1>5 DEF Emit, EmitError, Error
  <2>2. events' \in Seq(Numbers) /\ Len(events') <= EventsCap
    BY <1>0, <2>1, EventsAppended
  <2> QED
    BY <1>5, <2>2
       DEF Emit, EmitError, TypeOK, serviceVars, callerVars, readVars, Numbers
<1>6. CASE ReaderTakes
  <2>1. /\ events # <<>> /\ events' = Tail(events) /\ got' = Append(got, Head(events))
    BY <1>6 DEF ReaderTakes
  <2>2. Head(events) \in Numbers /\ events' \in Seq(Numbers) /\ Len(events') <= EventsCap
    BY <1>0, <2>1, EventsTaken
  <2>3. got' \in Seq(Numbers)
    BY <1>0, <2>1, <2>2, EventsAppended
  <2> QED
    BY <1>6, <2>2, <2>3 DEF ReaderTakes, TypeOK, serviceVars, callerVars, Numbers
<1>7. CASE ReaderEnds \/ ReaderLeaves \/ Close \/ CloseSend \/ SessionEnds
  BY <1>7 DEF ReaderEnds, ReaderLeaves, Close, CloseSend, SessionEnds, TypeOK, serviceVars,
              callerVars, readVars
<1>8. CASE UNCHANGED vars
  BY <1>8 DEF vars, serviceVars, callerVars, readVars, TypeOK
<1> QED
  BY <1>1, <1>2, <1>3, <1>4, <1>5, <1>6, <1>7, <1>8 DEF Next, Pump, Reader, Over

\* Every variable keeps its type: nothing writes into a full Events channel, and
\* Recv returns no more than the service has sent (stt/client.go:140-199).
THEOREM TypeCorrect == Spec => []TypeOK
<1>1. Init => TypeOK
  BY BoundsAssumption DEF Init, TypeOK
<1> QED
  BY <1>1, TypeStep, PTL DEF Spec

=============================================================================
