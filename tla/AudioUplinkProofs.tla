------------------------- MODULE AudioUplinkProofs -------------------------
(***************************************************************************)
(* Proofs about AudioUplink, for any number of utterances and messages and *)
(* any capacity of the queue: one STT call at a time, and nothing is sent  *)
(* to a stream after its end marker.                                       *)
(***************************************************************************)
EXTENDS AudioUplink, TLAPS

\* A worker past loading has a frame and a stream of this session.
InHand ==
    /\ aw \in {"loading", "checking", "sending", "closing"} => frame \in Frames
    /\ aw \in {"checking", "sending", "closing"} => stream \in Streams

TypeInv == TypeOK /\ InHand

LEMMA NewFrames ==
    ASSUME TypeOK, turn # 0, NEW kind \in {"audio", "end"}
    PROVE  NewFrame(kind) \in Frames
BY BoundsAssumption DEF TypeOK, NewFrame, Frames, Streams

\* A frame is queued only while there is a stream, hence after a "start", and a
\* marker that waits for room is counted when it gets in.
StreamIsTurn ==
    /\ turn = 0 => sttStream = 0
    /\ rp \in {"closing", "opening", "ending"} => turn # 0
    /\ rp = "ending" => msgs < MaxMsg

UplinkTypes == TypeInv /\ StreamIsTurn

LEMMA UplinkTypesInit == Init => UplinkTypes
<1> SUFFICES ASSUME Init PROVE UplinkTypes
  OBVIOUS
<1>1. TypeOK
  BY BoundsAssumption, CapAssumption DEF Init, TypeOK
<1> QED
  BY <1>1 DEF Init, UplinkTypes, TypeInv, InHand, StreamIsTurn

LEMMA UplinkTypesStep == UplinkTypes /\ [Next]_vars => UplinkTypes'
<1> SUFFICES ASSUME UplinkTypes, [Next]_vars PROVE UplinkTypes'
  OBVIOUS
<1>0. /\ turn \in 0..MaxTurn
      /\ rp \in {"reading", "closing", "opening", "ending", "gone"}
      /\ msgs \in 0..MaxMsg /\ conn \in {"open", "closed"}
      /\ sttStream \in 0..MaxTurn /\ closed \subseteq Streams /\ live \subseteq Streams
      /\ aw \in {"idle", "loading", "checking", "sending", "closing", "gone"}
      /\ frame \in Frames \cup {NoFrame} /\ stream \in 0..MaxTurn
      /\ InHand /\ StreamIsTurn
  BY DEF UplinkTypes, TypeInv, TypeOK
<1>q. audioQueue \in Seq(Frames) /\ Len(audioQueue) <= AudioCap
  BY DEF UplinkTypes, TypeInv, TypeOK
<1>d. delivered \in [Streams -> Seq(Frames)]
  BY DEF UplinkTypes, TypeInv, TypeOK
<1>n. MaxTurn \in Nat \ {0} /\ MaxMsg \in Nat \ {0} /\ AudioCap \in Nat \ {0}
  BY BoundsAssumption, CapAssumption
<1> USE DEF Streams, InHand, StreamIsTurn, readVars, streamVars, workVars
<1>1. audioQueue' \in Seq(Frames) /\ Len(audioQueue') <= AudioCap
  <2>1. CASE UNCHANGED audioQueue
    BY <1>q, <2>1
  <2>2. CASE TakeFrame
    <3>1. audioQueue \in Seq(Frames) /\ audioQueue # <<>> /\ audioQueue' = Tail(audioQueue)
      BY <1>q, <2>2 DEF TakeFrame
    <3>2. Tail(audioQueue) \in Seq(Frames) /\ Len(Tail(audioQueue)) = Len(audioQueue) - 1
      BY <3>1
    <3> QED
      BY <1>q, <1>n, <3>1, <3>2
  <2>3. ASSUME NEW kind \in {"audio", "end"}, turn # 0, Len(audioQueue) < AudioCap,
               audioQueue' = Append(audioQueue, NewFrame(kind))
        PROVE  audioQueue' \in Seq(Frames) /\ Len(audioQueue') <= AudioCap
    <3>1. NewFrame(kind) \in Frames
      BY <2>3, NewFrames DEF UplinkTypes, TypeInv
    <3>2. /\ Append(audioQueue, NewFrame(kind)) \in Seq(Frames)
          /\ Len(Append(audioQueue, NewFrame(kind))) = Len(audioQueue) + 1
      BY <1>q, <3>1
    <3> QED
      BY <1>q, <1>n, <2>3, <3>2
  <2>4. CASE AudioMessage
    <3>1. sttStream # 0 => turn # 0
      BY <1>0
    <3> QED
      BY <1>q, <2>3, <2>4, <3>1 DEF AudioMessage
  <2>5. CASE EnqueueEnd
    BY <1>0, <2>3, <2>5 DEF EnqueueEnd
  <2> QED
    BY <2>1, <2>2, <2>4, <2>5
       DEF Next, vars, ReadPump, Worker, Start, CloseOld, OpenNew, EndMessage, ReadFails,
           LoadStream, CheckClosed, SendOk, SendFails, CloseSend, WorkerStops, CallEnds,
           Disconnect, Terminated
<1>2. delivered' \in [Streams -> Seq(Frames)]
  <2>1. CASE SendOk
    <3>1. stream \in Streams /\ frame \in Frames
      BY <1>0, <2>1 DEF SendOk
    <3>2. Append(delivered[stream], frame) \in Seq(Frames)
      BY <1>d, <3>1
    <3> QED
      BY <1>d, <2>1, <3>2 DEF SendOk
  <2>2. CASE UNCHANGED delivered
    BY <1>d, <2>2
  <2> QED
    BY <2>1, <2>2
       DEF Next, vars, ReadPump, Worker, Start, CloseOld, OpenNew, AudioMessage, EndMessage,
           EnqueueEnd, ReadFails, TakeFrame, LoadStream, CheckClosed, SendFails, CloseSend,
           WorkerStops, CallEnds, Disconnect, Terminated
<1>3. /\ turn' \in 0..MaxTurn
      /\ rp' \in {"reading", "closing", "opening", "ending", "gone"}
      /\ msgs' \in 0..MaxMsg /\ conn' \in {"open", "closed"}
      /\ sttStream' \in 0..MaxTurn /\ closed' \subseteq Streams /\ live' \subseteq Streams
      /\ StreamIsTurn'
  <2>1. CASE ReadPump
    <3>1. CASE Start
      BY <1>0, <1>n, <3>1 DEF Start
    <3>2. CASE CloseOld
      <4>1. /\ closed' \in {closed, closed \cup {sttStream}} /\ live' \subseteq live
            /\ sttStream = 0 => closed' = closed
            /\ rp = "closing" /\ rp' = "opening" /\ UNCHANGED <<turn, msgs, conn, sttStream>>
        BY <3>2 DEF CloseOld
      <4>2. sttStream # 0 => sttStream \in Streams
        BY <1>0, <1>n
      <4> QED
        BY <1>0, <4>1, <4>2
    <3>6. CASE OpenNew
      <4>1. turn \in Streams
        BY <1>0, <1>n, <3>6 DEF OpenNew
      <4>2. /\ sttStream' \in {0, turn} /\ live' \subseteq live \cup {turn}
            /\ rp = "opening" /\ rp' = "reading" /\ UNCHANGED <<turn, msgs, conn, closed>>
        BY <3>6 DEF OpenNew
      <4>3. sttStream' \in 0..MaxTurn /\ (turn = 0 => sttStream' = 0)
        BY <1>0, <1>n, <4>2
      <4> QED
        BY <1>0, <4>1, <4>2, <4>3
    <3>3. CASE AudioMessage \/ EndMessage
      <4>1. /\ rp = "reading" /\ msgs < MaxMsg /\ msgs' \in {msgs, msgs + 1}
            /\ rp' = "reading" \/ (rp' = "ending" /\ msgs' = msgs /\ sttStream # 0)
            /\ UNCHANGED <<turn, conn, sttStream, closed, live>>
        BY <3>3 DEF AudioMessage, EndMessage
      <4> QED
        BY <1>0, <1>n, <4>1
    <3>4. CASE EnqueueEnd
      <4>1. /\ rp = "ending" /\ rp' = "reading" /\ msgs' = msgs + 1
            /\ UNCHANGED <<turn, conn, sttStream, closed, live>>
        BY <3>4 DEF EnqueueEnd
      <4> QED
        BY <1>0, <1>n, <4>1
    <3>5. CASE ReadFails
      BY <1>0, <3>5 DEF ReadFails
    <3> QED
      BY <2>1, <3>1, <3>2, <3>3, <3>4, <3>5, <3>6 DEF ReadPump
  <2>2. CASE Worker
    BY <1>0, <2>2 DEF Worker, TakeFrame, LoadStream, CheckClosed, SendOk, SendFails,
                      CloseSend, WorkerStops
  <2>3. CASE Disconnect \/ Terminated \/ (\E s \in Streams : CallEnds(s)) \/ UNCHANGED vars
    BY <1>0, <2>3 DEF Disconnect, Terminated, CallEnds, vars
  <2> QED
    BY <2>1, <2>2, <2>3 DEF Next
<1>4. /\ aw' \in {"idle", "loading", "checking", "sending", "closing", "gone"}
      /\ frame' \in Frames \cup {NoFrame} /\ stream' \in 0..MaxTurn /\ InHand'
  <2>1. CASE TakeFrame
    <3>1. Head(audioQueue) \in Frames
      BY <1>q, <2>1 DEF TakeFrame
    <3> QED
      BY <1>0, <2>1, <3>1 DEF TakeFrame
  <2>2. CASE Worker /\ ~TakeFrame
    BY <1>0, <1>n, <2>2 DEF Worker, Rest, LoadStream, CheckClosed, SendOk, SendFails,
                      CloseSend, WorkerStops
  <2>3. CASE UNCHANGED workVars
    BY <1>0, <2>3
  <2> QED
    BY <2>1, <2>2, <2>3
       DEF Next, vars, ReadPump, Start, CloseOld, OpenNew, AudioMessage, EndMessage,
           EnqueueEnd, ReadFails, CallEnds, Disconnect, Terminated
<1> QED
  BY <1>1, <1>2, <1>3, <1>4 DEF UplinkTypes, TypeInv, TypeOK

\* The uplink keeps its types, and its queue its capacity.
THEOREM TypeCorrect == Spec => []TypeOK
<1>1. UplinkTypes => TypeOK
  BY DEF UplinkTypes, TypeInv
<1> QED
  BY <1>1, UplinkTypesInit, UplinkTypesStep, PTL DEF Spec

-----------------------------------------------------------------------------
(* One call.                                                               *)

\* A new call is opened only after the old one has been closed.
LiveInv == OneLiveCall /\ (rp \in {"opening", "gone"} => live = {})

\* Whatever starts, fails or ends, every live call is the one the session's
\* pointer names, so that the next "start" or the end reaches it
\* (session.go:342-353).
THEOREM OneLiveCallCorrect == Spec => []OneLiveCall
<1>1. Init => LiveInv
  BY DEF Init, LiveInv, OneLiveCall
<1>2. UplinkTypes /\ LiveInv /\ [Next]_vars => LiveInv'
  <2> SUFFICES ASSUME UplinkTypes, LiveInv, [Next]_vars PROVE LiveInv'
    OBVIOUS
  <2>0. live \subseteq Streams /\ 0 \notin Streams
    BY BoundsAssumption DEF UplinkTypes, TypeInv, TypeOK, Streams
  <2>1. CASE ReadPump
    <3>1. CASE CloseOld
      BY <2>0, <3>1 DEF LiveInv, OneLiveCall, CloseOld
    <3>2. CASE OpenNew
      BY <3>2 DEF LiveInv, OneLiveCall, OpenNew
    <3>3. CASE ReadFails
      BY <3>3 DEF LiveInv, OneLiveCall, ReadFails
    <3>4. CASE Start \/ AudioMessage \/ EndMessage \/ EnqueueEnd
      <4>1. UNCHANGED <<sttStream, live>> /\ rp' \in {"reading", "closing", "ending"}
        BY <3>4 DEF Start, AudioMessage, EndMessage, EnqueueEnd, streamVars
      <4> QED
        BY <4>1 DEF LiveInv, OneLiveCall
    <3> QED
      BY <2>1, <3>1, <3>2, <3>3, <3>4 DEF ReadPump
  <2>2. CASE ~ReadPump
    <3>1. UNCHANGED <<sttStream, rp>> /\ live' \subseteq live
      BY <2>2 DEF Next, vars, Worker, TakeFrame, LoadStream, CheckClosed, SendOk, SendFails,
                  CloseSend, WorkerStops, CallEnds, Disconnect, Terminated, streamVars,
                  readVars
    <3> QED
      BY <3>1 DEF LiveInv, OneLiveCall
  <2> QED
    BY <2>1, <2>2
<1>3. LiveInv => OneLiveCall
  BY DEF LiveInv
<1> QED
  BY <1>1, <1>2, <1>3, UplinkTypesInit, UplinkTypesStep, PTL DEF Spec

-----------------------------------------------------------------------------
(* The end marker.                                                         *)

Marked(s) == \E i \in DOMAIN delivered[s] : delivered[s][i].kind = "end"

\* A stream that has its marker is closed to the worker, or about to be; what
\* the worker is sending goes to one that has none, whoever closes it meanwhile.
MarkInv ==
    /\ EndMarkerLast
    /\ \A s \in Streams : Marked(s) => s \in closed \/ (aw = "closing" /\ stream = s)
    /\ aw = "sending" => ~Marked(stream)

LEMMA MarkInvStep == UplinkTypes /\ MarkInv /\ [Next]_vars => MarkInv'
<1> SUFFICES ASSUME UplinkTypes, MarkInv, [Next]_vars PROVE MarkInv'
  OBVIOUS
<1>0. /\ delivered \in [Streams -> Seq(Frames)] /\ InHand
      /\ aw \in {"idle", "loading", "checking", "sending", "closing", "gone"}
  BY DEF UplinkTypes, TypeInv, TypeOK
<1>1. CASE SendOk
  <2>1. /\ stream \in Streams /\ aw = "sending" /\ ~Marked(stream) /\ closed' = closed
        /\ delivered' = [delivered EXCEPT ![stream] = Append(delivered[stream], frame)]
        /\ aw' # "sending"
        /\ frame.kind = "end" => aw' = "closing" /\ stream' = stream
    BY <1>0, <1>1 DEF MarkInv, SendOk, InHand, Rest, streamVars
  <2>2. ASSUME NEW s \in Streams, s # stream PROVE delivered'[s] = delivered[s]
    BY <1>0, <2>1, <2>2
  <2>3. /\ delivered[stream] \in Seq(Frames)
        /\ delivered'[stream] = Append(delivered[stream], frame)
    BY <1>0, <2>1
  <2>4. /\ Len(delivered'[stream]) = Len(delivered[stream]) + 1
        /\ DOMAIN delivered'[stream] = 1..(Len(delivered[stream]) + 1)
        /\ DOMAIN delivered[stream] = 1..Len(delivered[stream])
        /\ Len(delivered[stream]) \in Nat
        /\ \A i \in 1..Len(delivered[stream]) : delivered'[stream][i] = delivered[stream][i]
        /\ delivered'[stream][Len(delivered[stream]) + 1] = frame
    BY <2>3
  <2>5. ASSUME NEW i \in DOMAIN delivered'[stream], delivered'[stream][i].kind = "end"
        PROVE  i = Len(delivered'[stream]) /\ frame.kind = "end"
    <3>1. i \notin 1..Len(delivered[stream])
      BY <2>1, <2>4, <2>5 DEF Marked
    <3>2. i = Len(delivered[stream]) + 1
      BY <2>4, <2>5, <3>1
    <3> QED
      BY <2>4, <2>5, <3>2
  <2>6. EndMarkerLast'
    BY <2>2, <2>5 DEF MarkInv, EndMarkerLast
  <2>7. \A s \in Streams : Marked(s)' => s \in closed' \/ (aw' = "closing" /\ stream' = s)
    BY <2>1, <2>2, <2>5 DEF MarkInv, Marked
  <2> QED
    BY <2>1, <2>6, <2>7 DEF MarkInv
<1>2. CASE Worker /\ ~SendOk
  <2>1. UNCHANGED delivered
    BY <1>2 DEF Worker, TakeFrame, LoadStream, CheckClosed, SendFails, CloseSend, WorkerStops
  <2>2. \A s \in Streams : Marked(s)' <=> Marked(s)
    BY <2>1 DEF Marked
  <2>3. EndMarkerLast'
    BY <2>1 DEF MarkInv, EndMarkerLast
  <2>4. \A s \in Streams : Marked(s) => s \in closed' \/ (aw' = "closing" /\ stream' = s)
    BY <1>2 DEF MarkInv, Worker, Rest, TakeFrame, LoadStream, CheckClosed, SendFails,
                CloseSend, WorkerStops, streamVars
  <2>5. ASSUME aw' = "sending" PROVE ~Marked(stream)'
    <3>1. aw = "checking" /\ stream \in Streams /\ stream \notin closed /\ stream' = stream
      BY <1>0, <1>2, <2>5
         DEF InHand, Worker, Rest, TakeFrame, LoadStream, CheckClosed, SendFails, CloseSend,
             WorkerStops
    <3> QED
      BY <2>2, <3>1 DEF MarkInv
  <2> QED
    BY <2>2, <2>3, <2>4, <2>5 DEF MarkInv
<1>3. CASE ~Worker
  <2>1. UNCHANGED <<delivered, aw, stream>> /\ closed \subseteq closed'
    BY <1>3 DEF Next, vars, ReadPump, Start, CloseOld, OpenNew, AudioMessage, EndMessage,
                EnqueueEnd, ReadFails, CallEnds, Disconnect, Terminated, workVars, streamVars
  <2> QED
    BY <2>1 DEF MarkInv, EndMarkerLast, Marked
<1> QED
  BY <1>1, <1>2, <1>3

\* Nothing is sent to a stream after its end marker, neither audio of its own
\* utterance nor audio queued for the next (session.go:229-233).
THEOREM EndMarkerLastCorrect == Spec => []EndMarkerLast
<1>1. Init => MarkInv
  BY DEF Init, MarkInv, EndMarkerLast, Marked
<1>2. MarkInv => EndMarkerLast
  BY DEF MarkInv
<1> QED
  BY <1>1, <1>2, MarkInvStep, UplinkTypesInit, UplinkTypesStep, PTL DEF Spec
=============================================================================
