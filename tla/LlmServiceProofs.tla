-------------------------- MODULE LlmServiceProofs --------------------------
(***************************************************************************)
(* Proofs about LlmService, for any number of calls, any tokens and any    *)
(* sizes of chunks: every call ends once, no generation starts unchecked   *)
(* without cause, what goes to speech is what was generated, and every     *)
(* variable keeps its type.                                                *)
(***************************************************************************)
EXTENDS LlmService, TLAPS, SequenceTheorems, WellFoundedInduction

-----------------------------------------------------------------------------
(* The end of a call.                                                      *)

Types == {"CHUNK", "DONE", "ERROR"}

\* A sequence of events, whatever their texts.
EventSeq(s) == \E texts : s \in Seq([type : Types, text : texts])

LEMMA Appended ==
    ASSUME NEW S, NEW s \in Seq(S), NEW e \in S
    PROVE  /\ Append(s, e) \in Seq(S) /\ Append(s, e) # <<>>
           /\ Len(Append(s, e)) = Len(s) + 1 /\ Len(s) \in Nat
           /\ DOMAIN s = 1..Len(s) /\ DOMAIN Append(s, e) = 1..(Len(s) + 1)
           /\ \A i \in 1..Len(s) : Append(s, e)[i] = s[i]
           /\ Append(s, e)[Len(s) + 1] = e
OBVIOUS

LEMMA AppendEvent ==
    ASSUME NEW s, EventSeq(s), NEW e, e.type \in Types, e = [type |-> e.type, text |-> e.text]
    PROVE  /\ EventSeq(Append(s, e)) /\ Append(s, e) # <<>>
           /\ Len(Append(s, e)) = Len(s) + 1 /\ Len(s) \in Nat
           /\ DOMAIN s = 1..Len(s) /\ DOMAIN Append(s, e) = 1..(Len(s) + 1)
           /\ \A i \in 1..Len(s) : Append(s, e)[i] = s[i]
           /\ Append(s, e)[Len(s) + 1] = e
<1>1. PICK texts : s \in Seq([type : Types, text : texts])
  BY DEF EventSeq
<1>2. PICK wider : wider = texts \cup {e.text}
  OBVIOUS
<1>3. [type : Types, text : texts] \subseteq [type : Types, text : wider]
  BY <1>2
<1>4. s \in Seq([type : Types, text : wider])
  BY <1>1, <1>3, SeqMonotonic
<1>5. e \in [type : Types, text : wider]
  BY <1>2
<1>6. PICK S : S = [type : Types, text : wider]
  OBVIOUS
<1>7. s \in Seq(S) /\ e \in S
  BY <1>4, <1>5, <1>6
<1>8. EventSeq(Append(s, e))
  <2>1. Append(s, e) \in Seq([type : Types, text : wider])
    BY <1>6, <1>7, Appended
  <2> QED
    BY <2>1 DEF EventSeq
<1> QED
  BY <1>7, <1>8, Appended

OnlyChunks(s) == \A i \in DOMAIN s : s[i].type = "CHUNK"

LEMMA NonEmptyEvents ==
    ASSUME NEW s, EventSeq(s), s # <<>>
    PROVE  Len(s) \in DOMAIN s
<1>1. PICK S : s \in Seq(S)
  BY DEF EventSeq
<1> QED
  BY <1>1

Places == {"new", "checking", "chatting", "ending", "refused", "done"}
Codes  == {"none", "ok", "bad_request", "not_found", "unavailable", "internal"}

EndTypes ==
    /\ pc \in [Calls -> Places] /\ status \in [Calls -> Codes]
    /\ DOMAIN events = Calls /\ events = [c \in Calls |-> events[c]]
    /\ \A c \in Calls : EventSeq(events[c])
    /\ cancelled \subseteq Calls

\* What a call has yielded, and answered, by where it is.
Yielded(c) ==
    /\ pc[c] \in {"new", "checking", "refused"} => events[c] = <<>>
    /\ pc[c] \in {"new", "checking"} => status[c] = "none"
    /\ pc[c] = "refused" => status[c] \notin {"none", "ok"}
    /\ pc[c] \in {"chatting", "ending"} =>
          /\ OnlyChunks(events[c])
          /\ status[c] = IF route[c] \in Streaming THEN "ok" ELSE "none"
    /\ pc[c] = "done" =>
          \A i \in DOMAIN events[c] : events[c][i].type # "CHUNK" => i = Len(events[c])
    /\ pc[c] = "done" /\ c \notin cancelled =>
          /\ status[c] # "none"
          /\ IF route[c] \in Streaming
             THEN events[c] # <<>> /\ events[c][Len(events[c])].type # "CHUNK"
             ELSE status[c] = "ok" <=>
                     events[c] # <<>> /\ events[c][Len(events[c])].type = "DONE"

EndInv == EndTypes /\ \A c \in Calls : Yielded(c)

LEMMA EndInvInit == Init => EndInv
<1> SUFFICES ASSUME Init PROVE EndInv
  OBVIOUS
<1>1. EventSeq(<<>>)
  BY DEF EventSeq
<1> QED
  BY <1>1 DEF Init, EndInv, EndTypes, Yielded, Places, Codes

\* A step of a call, by what it does to the call itself.
Steps(c) == \/ BlankPrompt(c) \/ SkipCheck(c) \/ Ask(c) \/ CheckPasses(c) \/ CheckFails(c)
            \/ \E token \in Tokens : Token(c, token)
            \/ GenerationEnds(c) \/ Finish(c) \/ Cancel(c) \/ Stop(c)
            \/ route[c] \in Streaming /\ StreamFails(c)
            \/ route[c] = "chat" /\ ChatFails(c)

\* What a step of c may do: leave its events, or yield one more.
Yields(c, type) ==
    \E text : events' = [events EXCEPT ![c] = Append(events[c], [type |-> type, text |-> text])]

LEMMA YieldEffect ==
    ASSUME EndTypes, NEW c \in Calls, NEW type \in Types, Yields(c, type)
    PROVE  /\ DOMAIN events' = Calls /\ events' = [d \in Calls |-> events'[d]]
           /\ \A d \in Calls : EventSeq(events'[d])
           /\ \A d \in Calls : d # c => events'[d] = events[d]
           /\ events'[c] # <<>> /\ Len(events'[c]) = Len(events[c]) + 1
           /\ DOMAIN events[c] = 1..Len(events[c])
           /\ DOMAIN events'[c] = 1..Len(events'[c]) /\ Len(events[c]) \in Nat
           /\ \A i \in 1..Len(events[c]) : events'[c][i] = events[c][i]
           /\ events'[c][Len(events'[c])].type = type
<1>1. PICK text : events' = [events EXCEPT ![c] =
                                Append(events[c], [type |-> type, text |-> text])]
  BY DEF Yields
<1>2. /\ DOMAIN events' = Calls /\ events' = [d \in Calls |-> events'[d]]
      /\ events'[c] = Append(events[c], [type |-> type, text |-> text])
      /\ \A d \in Calls : d # c => events'[d] = events[d]
  BY <1>1 DEF EndTypes
<1>3. EventSeq(events[c])
  BY DEF EndTypes
<1> DEFINE e == [type |-> type, text |-> text]
<1>e. e.type = type /\ e = [type |-> e.type, text |-> e.text]
  OBVIOUS
<1>f. events'[c] = Append(events[c], e)
  BY <1>2
<1> HIDE DEF e
<1>4. /\ EventSeq(events'[c])
      /\ events'[c] # <<>> /\ Len(events'[c]) = Len(events[c]) + 1
      /\ DOMAIN events[c] = 1..Len(events[c])
      /\ DOMAIN events'[c] = 1..Len(events'[c]) /\ Len(events[c]) \in Nat
      /\ \A i \in 1..Len(events[c]) : events'[c][i] = events[c][i]
      /\ events'[c][Len(events'[c])].type = type
  BY <1>3, <1>e, <1>f, AppendEvent
<1> QED
  BY <1>2, <1>4 DEF EndTypes

\* Where a step of c that yields nothing may lead.
Quiet(c) ==
    \/ /\ pc[c] \in {"new", "checking"} /\ pc'[c] = "refused"
       /\ status'[c] \notin {"none", "ok"}
    \/ /\ pc[c] \in {"new", "checking"} /\ pc'[c] = "chatting"
       /\ status'[c] = IF route[c] \in Streaming THEN "ok" ELSE status[c]
    \/ pc[c] = "new" /\ pc'[c] = "checking" /\ status'[c] = status[c]
    \/ pc'[c] = pc[c] /\ pc[c] # "done" /\ status'[c] = status[c]
    \/ pc[c] = "chatting" /\ pc'[c] = "ending" /\ status'[c] = status[c]
    \/ /\ pc[c] \in {"new", "checking", "chatting", "ending"}
       /\ pc'[c] = "done" /\ c \in cancelled /\ cancelled' = cancelled
    \/ /\ pc[c] = "chatting" /\ route[c] = "chat" /\ pc'[c] = "done"
       /\ status'[c] \in {"bad_request", "internal"}

\* What each step does to the call that takes it.
LEMMA StepEffect ==
    ASSUME EndTypes, NEW c \in Calls, Steps(c)
    PROVE  /\ pc' \in [Calls -> Places] /\ status' \in [Calls -> Codes]
           /\ route' = route /\ cancelled' \in {cancelled, cancelled \cup {c}}
           /\ \A d \in Calls : d # c => pc'[d] = pc[d] /\ status'[d] = status[d]
           /\ \/ events' = events /\ Quiet(c)
              \/ /\ Yields(c, "CHUNK") /\ status'[c] = status[c]
                 /\ pc[c] = "chatting" /\ pc'[c] \in {"chatting", "ending"}
              \/ /\ Yields(c, "DONE") /\ status'[c] = "ok"
                 /\ pc[c] = "ending" /\ pc'[c] = "done"
              \/ /\ Yields(c, "ERROR") /\ status'[c] = status[c] /\ route[c] \in Streaming
                 /\ pc[c] = "chatting" /\ pc'[c] = "done"
<1> USE DEF EndTypes, Places, Codes, callVars, Quiet
<1>1. CASE BlankPrompt(c) \/ SkipCheck(c) \/ Ask(c)
  BY <1>1 DEF BlankPrompt, SkipCheck, Ask, Refuse, StartChat
<1>2. CASE CheckPasses(c) \/ CheckFails(c)
  BY <1>2 DEF CheckPasses, CheckFails, Refuse, StartChat
<1>3. ASSUME NEW token \in Tokens, Token(c, token)
      PROVE  /\ UNCHANGED <<route, pc, status, cancelled>> /\ pc[c] = "chatting"
             /\ events' = events \/ Yields(c, "CHUNK")
  BY <1>3 DEF Token, Yield, Yields
<1>4. CASE \E token \in Tokens : Token(c, token)
  BY <1>3, <1>4
<1>5. CASE GenerationEnds(c)
  <2>1. events' = events \/ Yields(c, "CHUNK")
    BY <1>5 DEF GenerationEnds, Yield, Yields
  <2>2. /\ pc' = [pc EXCEPT ![c] = "ending"] /\ UNCHANGED <<status, route, cancelled>>
        /\ pc[c] = "chatting"
    BY <1>5 DEF GenerationEnds
  <2> QED
    BY <2>1, <2>2
<1>6. CASE Finish(c)
  <2>1. Yields(c, "DONE")
    BY <1>6 DEF Finish, Yield, Yields
  <2> QED
    BY <1>6, <2>1 DEF Finish
<1>7. CASE Cancel(c) \/ Stop(c)
  BY <1>7 DEF Cancel, Stop
<1>8. CASE route[c] \in Streaming /\ StreamFails(c)
  <2>1. Yields(c, "ERROR")
    BY <1>8 DEF StreamFails, Yield, Yields
  <2> QED
    BY <1>8, <2>1 DEF StreamFails
<1>9. CASE ChatFails(c)
  BY <1>9 DEF ChatFails
<1> QED
  BY <1>1, <1>2, <1>4, <1>5, <1>6, <1>7, <1>8, <1>9 DEF Steps

LEMMA StepsKeepEndInv == ASSUME EndInv, NEW c \in Calls, Steps(c) PROVE EndInv'
<1>0. EndTypes /\ \A d \in Calls : Yielded(d)
  BY DEF EndInv
<1>1. \A type \in Types : Yields(c, type) =>
        /\ DOMAIN events' = Calls /\ events' = [d \in Calls |-> events'[d]]
        /\ \A d \in Calls : EventSeq(events'[d])
        /\ \A d \in Calls : d # c => events'[d] = events[d]
  BY <1>0, YieldEffect
<1>2. EndTypes'
  <2>1. /\ pc' \in [Calls -> Places] /\ status' \in [Calls -> Codes]
        /\ cancelled' \subseteq Calls
        /\ events' = events \/ \E type \in Types : Yields(c, type)
    BY <1>0, StepEffect DEF EndTypes, Types
  <2> QED
    BY <1>0, <1>1, <2>1 DEF EndTypes
<1>3. ASSUME NEW d \in Calls, d # c PROVE Yielded(d)'
  <2>1. /\ pc'[d] = pc[d] /\ status'[d] = status[d] /\ route' = route
        /\ events'[d] = events[d] /\ (d \in cancelled' <=> d \in cancelled)
    BY <1>0, <1>1, <1>3, StepEffect DEF Types
  <2> QED
    BY <1>0, <2>1 DEF Yielded, OnlyChunks
<1>4. Yielded(c)'
  <2>0. Yielded(c)
    BY <1>0
  <2>1. CASE events' = events /\ Quiet(c)
    <3>1. route' = route /\ events'[c] = events[c] /\ status[c] \in Codes
      BY <1>0, <2>1, StepEffect DEF EndTypes
    <3>2. OnlyChunks(<<>>)
      BY DEF OnlyChunks
    <3>3. CASE /\ pc[c] \in {"new", "checking"} /\ pc'[c] = "refused"
               /\ status'[c] \notin {"none", "ok"}
      BY <2>0, <3>1, <3>3 DEF Yielded
    <3>4. CASE /\ pc[c] \in {"new", "checking"} /\ pc'[c] = "chatting"
               /\ status'[c] = IF route[c] \in Streaming THEN "ok" ELSE status[c]
      BY <2>0, <3>1, <3>2, <3>4 DEF Yielded
    <3>5. CASE pc[c] = "new" /\ pc'[c] = "checking" /\ status'[c] = status[c]
      BY <2>0, <3>1, <3>5 DEF Yielded
    <3>6. CASE pc'[c] = pc[c] /\ pc[c] # "done" /\ status'[c] = status[c]
      BY <2>0, <3>1, <3>6 DEF Yielded, OnlyChunks
    <3>7. CASE pc[c] = "chatting" /\ pc'[c] = "ending" /\ status'[c] = status[c]
      BY <2>0, <3>1, <3>7 DEF Yielded, OnlyChunks
    <3>8. CASE /\ pc[c] \in {"new", "checking", "chatting", "ending"}
               /\ pc'[c] = "done" /\ c \in cancelled /\ cancelled' = cancelled
      BY <2>0, <3>1, <3>2, <3>8 DEF Yielded, OnlyChunks
    <3>9. CASE /\ pc[c] = "chatting" /\ route[c] = "chat" /\ pc'[c] = "done"
               /\ status'[c] \in {"bad_request", "internal"}
      <4>1. OnlyChunks(events[c]) /\ "chat" \notin Streaming
        BY <2>0, <3>9 DEF Yielded, Streaming
      <4>2. events[c] # <<>> => events[c][Len(events[c])].type = "CHUNK"
        <5>1. EventSeq(events[c])
          BY <1>0 DEF EndTypes
        <5>2. events[c] # <<>> => Len(events[c]) \in DOMAIN events[c]
          BY <5>1, NonEmptyEvents
        <5> QED
          BY <4>1, <5>2 DEF OnlyChunks
      <4> QED
        BY <3>1, <3>9, <4>1, <4>2 DEF Yielded, OnlyChunks
    <3> QED
      BY <1>0, <2>1, <3>3, <3>4, <3>5, <3>6, <3>7, <3>8, <3>9 DEF Quiet
  <2>2. ASSUME NEW type \in Types, Yields(c, type), pc[c] \in {"chatting", "ending"},
               route' = route
        PROVE  /\ type = "CHUNK" => OnlyChunks(events'[c])
               /\ \A i \in DOMAIN events'[c] :
                     events'[c][i].type # "CHUNK" => i = Len(events'[c])
               /\ events'[c] # <<>> /\ events'[c][Len(events'[c])].type = type
    <3>1. /\ events'[c] # <<>> /\ Len(events'[c]) = Len(events[c]) + 1
          /\ DOMAIN events[c] = 1..Len(events[c])
          /\ DOMAIN events'[c] = 1..Len(events'[c]) /\ Len(events[c]) \in Nat
          /\ \A i \in 1..Len(events[c]) : events'[c][i] = events[c][i]
          /\ events'[c][Len(events'[c])].type = type
      BY <1>0, <2>2, YieldEffect
    <3>2. \A i \in 1..Len(events[c]) : events'[c][i].type = "CHUNK"
      BY <2>0, <2>2, <3>1 DEF Yielded, OnlyChunks
    <3>3. \A i \in DOMAIN events'[c] : i \in 1..Len(events[c]) \/ i = Len(events'[c])
      BY <3>1
    <3> QED
      BY <3>1, <3>2, <3>3 DEF OnlyChunks
  <2>3. CASE /\ Yields(c, "CHUNK") /\ status'[c] = status[c] /\ route' = route
             /\ pc[c] = "chatting" /\ pc'[c] \in {"chatting", "ending"}
    BY <2>0, <2>2, <2>3 DEF Yielded, Types
  <2>4. CASE /\ Yields(c, "DONE") /\ status'[c] = "ok" /\ route' = route
             /\ pc[c] = "ending" /\ pc'[c] = "done"
    BY <2>2, <2>4 DEF Yielded, Types
  <2>5. CASE /\ Yields(c, "ERROR") /\ status'[c] = status[c] /\ route[c] \in Streaming
             /\ route' = route /\ pc[c] = "chatting" /\ pc'[c] = "done"
    BY <2>0, <2>2, <2>5 DEF Yielded, Types
  <2> QED
    BY <1>0, <2>1, <2>3, <2>4, <2>5, StepEffect DEF Types
<1> QED
  BY <1>2, <1>3, <1>4 DEF EndInv

LEMMA EndInvStep == EndInv /\ [Next]_vars => EndInv'
<1> SUFFICES ASSUME EndInv, [Next]_vars PROVE EndInv'
  OBVIOUS
<1>1. ASSUME NEW c \in Calls, StreamChat(c) \/ ChatStream(c) \/ Chat(c) PROVE Steps(c)
  BY <1>1 DEF StreamChat, ChatStream, Chat, Call, Steps, Streaming
<1>2. CASE UNCHANGED <<route, callVars, events, cancelled>>
  BY <1>2 DEF EndInv, EndTypes, Yielded, OnlyChunks, callVars
<1> QED
  BY <1>1, <1>2, StepsKeepEndInv DEF Next, Tick, Terminated, vars

\* A call that was accepted and not cancelled ends with one DONE or ERROR and
\* nothing after it, a refused one has yielded nothing, and /chat succeeds only
\* when whole (grpc_servicer.py:26-67, routes.py:45-140).
THEOREM EndsOnceCorrect == Spec => []EndsOnce
<1>1. EndInv => EndsOnce
  <2> SUFFICES ASSUME EndInv, NEW c \in Calls
               PROVE  /\ pc[c] = "refused" => events[c] = <<>> /\ status[c] \notin {"none", "ok"}
                      /\ \A i \in DOMAIN events[c] :
                            Type(c, i) # "CHUNK" => i = Len(events[c]) /\ pc[c] = "done"
                      /\ pc[c] = "done" /\ c \notin cancelled =>
                            /\ status[c] # "none"
                            /\ IF route[c] \in Streaming
                               THEN events[c] # <<>> /\ Last(events[c]).type # "CHUNK"
                               ELSE status[c] = "ok" <=>
                                       events[c] # <<>> /\ Last(events[c]).type = "DONE"
    BY DEF EndsOnce
  <2>1. Yielded(c) /\ pc[c] \in Places
    BY DEF EndInv, EndTypes
  <2>2. pc[c] # "done" => \A i \in DOMAIN events[c] : Type(c, i) = "CHUNK"
    BY <2>1 DEF Yielded, OnlyChunks, Type, Places
  <2>3. Last(events[c]) = events[c][Len(events[c])]
    BY DEF Last
  <2> QED
    BY <2>1, <2>2, <2>3 DEF Yielded, Type
<1> QED
  BY <1>1, EndInvInit, EndInvStep, PTL DEF Spec

-----------------------------------------------------------------------------
(* The availability check.                                                 *)

\* The cached time is never later than when Ollama was last seen with the model.
CheckInv ==
    /\ clock \in Nat /\ lastSeen \in Nat \cup {Never} /\ lastChecked \in Nat \cup {Never}
    /\ now \in [Calls -> Nat] /\ \A c \in Calls : now[c] <= clock
    /\ lastChecked # Never => lastSeen # Never /\ lastChecked <= lastSeen

LEMMA CheckInvInit == Init => CheckInv
BY DEF Init, CheckInv, Never

LEMMA CheckInvStep == CheckInv /\ [Next]_vars => CheckInv'
<1> SUFFICES ASSUME CheckInv, [Next]_vars PROVE CheckInv'
  OBVIOUS
<1> USE DEF CheckInv
<1>1. CASE Tick
  BY <1>1 DEF Tick, Never
<1>2. ASSUME NEW c \in Calls, Ask(c) PROVE CheckInv'
  BY <1>2 DEF Ask
<1>3. ASSUME NEW c \in Calls, CheckPasses(c) PROVE CheckInv'
  BY <1>3 DEF CheckPasses, Never
<1>4. ASSUME NEW c \in Calls, CheckFails(c) \/ Stop(c) PROVE CheckInv'
  BY <1>4 DEF CheckFails, Stop
<1>5. CASE UNCHANGED checkVars
  BY <1>5 DEF checkVars
<1> QED
  BY ZenonT(60), <1>1, <1>2, <1>3, <1>4, <1>5
     DEF Next, vars, Terminated, StreamChat, ChatStream, Chat, Call, BlankPrompt, SkipCheck,
         Token, GenerationEnds, Finish, StreamFails, ChatFails, Cancel

\* Whatever the checks of other calls do meanwhile, a call goes unchecked only
\* if Ollama had the model less than Ttl ago (ollama_engine.py:50-73).
THEOREM SkipIsJustifiedCorrect == Spec => SkipIsJustified
<1>1. CheckInv /\ EndTypes /\ [Next]_vars =>
        [\A c \in Calls : pc[c] = "new" /\ pc'[c] = "chatting" =>
             lastSeen # Never /\ clock - lastSeen < Ttl]_vars
  <2> SUFFICES ASSUME CheckInv, EndTypes, Next, NEW c \in Calls, pc[c] = "new", pc'[c] = "chatting"
               PROVE  lastSeen # Never /\ clock - lastSeen < Ttl
    OBVIOUS
  <2>1. Cached
    <3>1. ASSUME NEW d \in Calls, c # d \/ ~SkipCheck(d),
                 Call(d) \/ BlankPrompt(d) \/ StreamFails(d) \/ ChatFails(d)
          PROVE  pc'[c] # "chatting" \/ pc[c] # "new"
      BY <3>1 DEF Call, BlankPrompt, StreamFails, ChatFails, SkipCheck, Ask, CheckPasses,
                  CheckFails, Token, GenerationEnds, Finish, Cancel, Stop, StartChat, Refuse,
                  callVars, EndTypes
    <3> QED
      BY <3>1 DEF Next, Tick, Terminated, vars, callVars, StreamChat, ChatStream, Chat,
                  SkipCheck
  <2>2. Ttl \in Nat
    BY BoundsAssumption
  <2> QED
    BY <2>1, <2>2 DEF CheckInv, Cached, Never
<1>2. EndInv => EndTypes
  BY DEF EndInv
<1> QED
  BY <1>1, <1>2, CheckInvInit, CheckInvStep, EndInvInit, EndInvStep, PTL
     DEF Spec, SkipIsJustified

-----------------------------------------------------------------------------
(* Recursion and induction.                                                *)

\* A set of naturals has a smallest one.
LEMMA Smallest ==
    ASSUME NEW S \in SUBSET Nat, S # {}
    PROVE  \E n \in S : \A m \in S : n <= m
<1> DEFINE Less == OpToRel(<, Nat)
<1>1. PICK n \in S : \A m \in S : <<m, n>> \notin Less
  <2>1. IsWellFoundedOn(Less, Nat)
    BY NatLessThanWellFounded
  <2> HIDE DEF Less
  <2> QED
    BY <2>1, WFMin
<1>2. \A m \in S : n <= m
  <2> SUFFICES ASSUME NEW m \in S, m < n PROVE FALSE
    OBVIOUS
  <2>1. m \in Nat /\ n \in Nat
    OBVIOUS
  <2>2. <<m, n>> \in Less
    BY <2>1 DEF OpToRel
  <2> QED
    BY <1>1, <2>2
<1> HIDE DEF Less
<1> QED
  BY <1>2

\* Induction up to a number, for a set in place of a predicate.
Inductive(S, n) == 0 \in S /\ \A k \in 0..n : k # n /\ k \in S => k + 1 \in S

LEMMA UpTo ==
    ASSUME NEW n \in Nat, NEW S, Inductive(S, n)
    PROVE  \A k \in 0..n : k \in S
<1> SUFFICES ASSUME \E k \in 0..n : k \notin S PROVE FALSE
  OBVIOUS
<1> DEFINE Rest == (0..n) \ S
<1>0. Rest \in SUBSET Nat /\ Rest # {}
  OBVIOUS
<1>r. \A k : k \in Rest <=> k \in 0..n /\ k \notin S
  OBVIOUS
<1> HIDE DEF Rest
<1>1. PICK k \in Rest : \A m \in Rest : k <= m
  BY <1>0, Smallest
<1>2. k # 0 /\ k - 1 \in 0..n /\ k - 1 # n /\ (k - 1) + 1 = k
  BY <1>r DEF Inductive
<1>3. k - 1 \in S
  <2>1. ~(k <= k - 1)
    BY <1>r
  <2> QED
    BY <1>r, <1>1, <1>2, <2>1
<1>4. k \in S
  BY <1>2, <1>3 DEF Inductive
<1> QED
  BY <1>r, <1>4

\* A recursion over 1..n has a solution, ...
Run(f, n, start, step) == f[0] = start /\ \A i \in 1..n : f[i] = step[i][f[i - 1]]

LEMMA Running ==
    ASSUME NEW T, NEW n \in Nat, NEW start \in T, NEW step \in [1..n -> [T -> T]]
    PROVE  \E f \in [0..n -> T] : Run(f, n, start, step)
<1> DEFINE S == {k \in 0..n : \E f \in [0..k -> T] : Run(f, k, start, step)}
<1>1. 0 \in S
  <2>1. [i \in 0..0 |-> start] \in [0..0 -> T] /\ Run([i \in 0..0 |-> start], 0, start, step)
    BY DEF Run
  <2> QED
    BY <2>1
<1>2. ASSUME NEW k \in 0..n, k # n, k \in S PROVE k + 1 \in S
  <2>1. PICK f \in [0..k -> T] : Run(f, k, start, step)
    BY <1>2
  <2>2. k \in Nat /\ k + 1 \in 1..n /\ f[k] \in T
    BY <1>2, <2>1
  <2>3. step[k + 1][f[k]] \in T
    BY <2>2
  <2> DEFINE g == [i \in 0..(k + 1) |-> IF i = k + 1 THEN step[k + 1][f[k]] ELSE f[i]]
  <2>4. g \in [0..(k + 1) -> T]
    <3>1. \A i \in 0..(k + 1) : i # k + 1 => i \in 0..k
      BY <2>2
    <3> QED
      BY <2>1, <2>3, <3>1
  <2>5. /\ g[0] = f[0] /\ g[k + 1] = step[k + 1][f[k]]
        /\ \A i \in 1..k : g[i] = f[i] /\ g[i - 1] = f[i - 1]
        /\ g[k] = f[k]
    BY <2>2
  <2> HIDE DEF g
  <2>6. \A i \in 1..(k + 1) : i \in 1..k \/ i = k + 1
    BY <2>2
  <2>7. (k + 1) - 1 = k
    BY <2>2
  <2>8. Run(g, k + 1, start, step)
    BY <2>1, <2>5, <2>6, <2>7 DEF Run
  <2> QED
    BY <2>2, <2>4, <2>8
<1>3. Inductive(S, n)
  BY <1>1, <1>2 DEF Inductive
<1> HIDE DEF S
<1>4. n \in S
  BY <1>3, UpTo
<1> QED
  BY <1>4 DEF S

\* ... and only one.
Alike(f, g, n) == f[0] = g[0] /\ \A i \in 1..n : f[i - 1] = g[i - 1] => f[i] = g[i]

LEMMA SameRun ==
    ASSUME NEW n \in Nat, NEW f, NEW g, Alike(f, g, n)
    PROVE  \A i \in 0..n : f[i] = g[i]
<1> DEFINE S == {k \in 0..n : f[k] = g[k]}
<1>1. 0 \in S
  BY DEF Alike
<1>2. ASSUME NEW k \in 0..n, k # n, k \in S PROVE k + 1 \in S
  <2>1. k + 1 \in 1..n /\ (k + 1) - 1 = k /\ k + 1 \in 0..n
    BY <1>2
  <2> QED
    BY <1>2, <2>1 DEF Alike
<1>3. Inductive(S, n)
  BY <1>1, <1>2 DEF Inductive
<1> HIDE DEF S
<1>4. \A k \in 0..n : k \in S
  BY <1>3, UpTo
<1> QED
  BY <1>4 DEF S

-----------------------------------------------------------------------------
(* What is not blank.                                                      *)

Inks(kept, text) ==
    /\ kept[0] = <<>>
    /\ \A i \in 1..Len(text) :
          kept[i] = IF text[i] = "space" THEN kept[i - 1] ELSE Append(kept[i - 1], text[i])

\* Ink is what its recursive definition says.
LEMMA InkEquation ==
    ASSUME NEW text \in Seq(Chars)
    PROVE  \E kept \in [0..Len(text) -> Seq(Chars)] :
              Ink(text) = kept[Len(text)] /\ Inks(kept, text)
<1> DEFINE n == Len(text)
           T == Seq(Chars)
           step == [i \in 1..n |-> [old \in T |-> IF text[i] = "space" THEN old
                                                  ELSE Append(old, text[i])]]
           Kept(f) == f = [i \in 0..n |->
                             IF i = 0 THEN <<>>
                             ELSE IF text[i] = "space" THEN f[i - 1]
                             ELSE Append(f[i - 1], text[i])]
<1>1. n \in Nat /\ <<>> \in T /\ \A i \in 1..n : text[i] \in Chars
  OBVIOUS
<1>2. step \in [1..n -> [T -> T]]
  <2>1. \A old \in T, e \in Chars : Append(old, e) \in T
    OBVIOUS
  <2> HIDE DEF n, T
  <2> QED
    BY <1>1, <2>1
<1>3. PICK f \in [0..n -> T] : Run(f, n, <<>>, step)
  <2> HIDE DEF n, T, step
  <2> QED
    BY <1>1, <1>2, Running
<1>4. /\ f[0] = <<>>
      /\ \A i \in 1..n : f[i] = IF text[i] = "space" THEN f[i - 1] ELSE Append(f[i - 1], text[i])
  <2>1. ASSUME NEW i \in 1..n
        PROVE  f[i] = IF text[i] = "space" THEN f[i - 1] ELSE Append(f[i - 1], text[i])
    <3> HIDE DEF T, n
    <3>1. f[i - 1] \in T
      BY <1>1, <1>3
    <3>2. f[i] = step[i][f[i - 1]]
      BY <1>3 DEF Run
    <3> QED
      BY <3>1, <3>2
  <2> QED
    BY <1>3, <2>1 DEF Run
<1>5. Kept(f)
  <2>1. \A i \in 0..n : i # 0 => i \in 1..n
    BY <1>1
  <2> HIDE DEF n, T, step
  <2> QED
    BY <1>3, <1>4, <2>1
<1>6. PICK g : g = CHOOSE h : Kept(h)
  OBVIOUS
<1>7. Kept(g)
  BY <1>5, <1>6
<1>8. Ink(text) = g[n]
  BY <1>6 DEF Ink
<1>9. \A i \in 0..n : f[i] = g[i]
  <2>1. g[0] = <<>> /\ \A i \in 1..n : g[i] = IF text[i] = "space" THEN g[i - 1]
                                              ELSE Append(g[i - 1], text[i])
    <3>1. 0 \in 0..n /\ \A i \in 1..n : i \in 0..n /\ i # 0
      BY <1>1
    <3> HIDE DEF n
    <3> QED
      BY <1>7, <3>1
  <2>2. Alike(f, g, n)
    BY <1>4, <2>1 DEF Alike
  <2> HIDE DEF n
  <2> QED
    BY <1>1, <2>2, SameRun
<1>10. f[n] = g[n]
  BY <1>1, <1>9
<1> QED
  BY <1>3, <1>4, <1>8, <1>10 DEF Inks

\* One more character.
LEMMA InkAppend ==
    ASSUME NEW text \in Seq(Chars), NEW e \in Chars
    PROVE  /\ Ink(text) \in Seq(Chars)
           /\ Ink(Append(text, e)) = IF e = "space" THEN Ink(text) ELSE Append(Ink(text), e)
<1>1. PICK more \in Seq(Chars) : more = Append(text, e)
  BY AppendProperties
<1>2. PICK n \in Nat : n = Len(text) /\ Len(more) = n + 1 /\ more[n + 1] = e
                       /\ \A i \in 1..n : more[i] = text[i]
  BY <1>1
<1>3. PICK f \in [0..n -> Seq(Chars)] : Ink(text) = f[n] /\ Inks(f, text)
  BY <1>2, InkEquation
<1>4. PICK g \in [0..(n + 1) -> Seq(Chars)] : Ink(more) = g[n + 1] /\ Inks(g, more)
  BY <1>2, InkEquation
<1>5. \A i \in 0..n : f[i] = g[i]
  <2>1. Alike(f, g, n)
    <3>1. \A i \in 1..n : i \in 1..(n + 1)
      OBVIOUS
    <3> QED
      BY <1>2, <1>3, <1>4, <3>1 DEF Inks, Alike
  <2> QED
    BY <1>2, <2>1, SameRun
<1>6. g[n + 1] = IF e = "space" THEN g[n] ELSE Append(g[n], e)
  <2>1. n + 1 \in 1..(n + 1) /\ (n + 1) - 1 = n
    OBVIOUS
  <2> QED
    BY <1>2, <1>4, <2>1 DEF Inks
<1>7. n \in 0..n /\ f[n] \in Seq(Chars)
  BY <1>3
<1> QED
  BY <1>1, <1>3, <1>4, <1>5, <1>6, <1>7

LEMMA InkEmpty == Ink(<<>>) = <<>>
<1>1. <<>> \in Seq(Chars) /\ Len(<<>>) = 0
  OBVIOUS
<1> QED
  BY <1>1, InkEquation DEF Inks

LEMMA ConcatAppend ==
    ASSUME NEW S, NEW left \in Seq(S), NEW right \in Seq(S), NEW elt \in S
    PROVE  left \o Append(right, elt) = Append(left \o right, elt)
<1>1. <<elt>> \in Seq(S) /\ left \o right \in Seq(S)
  BY ConcatProperties
<1>2. Append(right, elt) = right \o <<elt>> /\ Append(left \o right, elt) = (left \o right) \o <<elt>>
  BY <1>1, AppendIsConcat
<1> QED
  BY <1>1, <1>2, ConcatAssociative

\* The first n + 1 characters.
LEMMA Prefix ==
    ASSUME NEW text \in Seq(Chars), NEW n \in 0..Len(text)
    PROVE  /\ SubSeq(text, 1, n) \in Seq(Chars)
           /\ n # Len(text) =>
                 text[n + 1] \in Chars /\ SubSeq(text, 1, n + 1) = Append(SubSeq(text, 1, n), text[n + 1])
<1>1. SubSeq(text, 1, n) \in Seq(Chars)
  OBVIOUS
<1>2. ASSUME n # Len(text)
      PROVE  text[n + 1] \in Chars /\ SubSeq(text, 1, n + 1) = SubSeq(text, 1, n) \o <<text[n + 1]>>
  <2>1. 1 \in 1..Len(text) /\ n + 1 \in 1..Len(text) /\ (n + 1) - 1 = n /\ Len(text) \in Nat
    BY <1>2
  <2> QED
    BY <2>1, SubSeqRecursiveSecond
<1> QED
  BY <1>1, <1>2, AppendIsConcat

\* The ink of two texts in a row.
LEMMA InkConcat ==
    ASSUME NEW left \in Seq(Chars), NEW right \in Seq(Chars)
    PROVE  /\ Ink(left) \in Seq(Chars)
           /\ Ink(left \o right) = Ink(left) \o Ink(right)
<1>1. PICK n \in Nat : n = Len(right)
  OBVIOUS
<1> DEFINE S == {k \in 0..n : Ink(left \o SubSeq(right, 1, k))
                                 = Ink(left) \o Ink(SubSeq(right, 1, k))}
<1>0. Ink(left) \in Seq(Chars)
  BY InkAppend DEF Chars
<1>2. 0 \in S
  <2>1. SubSeq(right, 1, 0) = <<>>
    BY SubSeqEmpty
  <2>2. left \o SubSeq(right, 1, 0) = left
    BY <2>1, ConcatEmptySeq
  <2>3. Ink(left) \o Ink(SubSeq(right, 1, 0)) = Ink(left)
    BY <1>0, <2>1, ConcatEmptySeq, InkEmpty
  <2>4. Ink(left \o SubSeq(right, 1, 0)) = Ink(left) \o Ink(SubSeq(right, 1, 0))
    BY <2>2, <2>3
  <2>5. 0 \in 0..n
    OBVIOUS
  <2> QED
    BY <2>4, <2>5
<1>3. ASSUME NEW k \in 0..n, k # n, k \in S PROVE k + 1 \in S
  <2>1. PICK part \in Seq(Chars) : part = SubSeq(right, 1, k)
    BY <1>1, Prefix
  <2>2. PICK e \in Chars : SubSeq(right, 1, k + 1) = Append(part, e)
    BY <1>1, <1>3, <2>1, Prefix
  <2>3. PICK ink \in Seq(Chars) : ink = Ink(left)
    BY <1>0
  <2>4. PICK more \in Seq(Chars) : more = Ink(part)
    BY InkAppend DEF Chars
  <2>5. PICK whole \in Seq(Chars) : whole = left \o part
    BY ConcatProperties
  <2>6. Ink(whole) = ink \o more
    BY <1>3, <2>1, <2>3, <2>4, <2>5
  <2>7. left \o Append(part, e) = Append(whole, e)
    BY <2>5, ConcatAppend
  <2>8. Ink(Append(whole, e)) = IF e = "space" THEN ink \o more ELSE Append(ink \o more, e)
    BY <2>6, InkAppend
  <2>9. Ink(Append(part, e)) = IF e = "space" THEN more ELSE Append(more, e)
    BY <2>4, InkAppend
  <2>10. ink \o Append(more, e) = Append(ink \o more, e)
    BY ConcatAppend
  <2>11. Ink(left \o SubSeq(right, 1, k + 1)) = Ink(left) \o Ink(SubSeq(right, 1, k + 1))
    BY <2>2, <2>3, <2>7, <2>8, <2>9, <2>10
  <2>12. k + 1 \in 0..n
    BY <1>3
  <2> QED
    BY <2>11, <2>12
<1>i. Inductive(S, n)
  BY <1>2, <1>3 DEF Inductive
<1> HIDE DEF S
<1>4. n \in S
  BY <1>i, UpTo
<1>5. SubSeq(right, 1, n) = right
  BY <1>1, SubSeqFull
<1> QED
  BY <1>0, <1>4, <1>5 DEF S

\* A blank text has none.
LEMMA InkBlank ==
    ASSUME NEW text \in Seq(Chars), \A i \in 1..Len(text) : text[i] = "space"
    PROVE  Ink(text) = <<>>
<1>1. PICK n \in Nat : n = Len(text)
  OBVIOUS
<1>2. PICK f \in [0..n -> Seq(Chars)] : Ink(text) = f[n] /\ Inks(f, text)
  BY <1>1, InkEquation
<1>3. PICK g : g = [i \in 0..n |-> <<>>]
  OBVIOUS
<1>4. Alike(f, g, n)
  <2>1. 0 \in 0..n /\ \A i \in 1..n : i \in 0..n /\ i - 1 \in 0..n
    OBVIOUS
  <2> QED
    BY <1>1, <1>2, <1>3, <2>1 DEF Inks, Alike
<1>5. f[n] = g[n]
  <2>1. \A i \in 0..n : f[i] = g[i]
    BY <1>4, SameRun
  <2> QED
    BY <2>1
<1> QED
  BY <1>2, <1>3, <1>5

\* Blanks before or after a text add no ink.
LEMMA InkBeside ==
    ASSUME NEW blank \in Seq(Chars), Ink(blank) = <<>>, NEW text \in Seq(Chars)
    PROVE  Ink(blank \o text) = Ink(text) /\ Ink(text \o blank) = Ink(text)
<1>0. <<>> \in Seq(Chars)
  OBVIOUS
<1>1. PICK none \in Seq(Chars) : none = <<>>
  BY <1>0
<1>2. PICK ink \in Seq(Chars) : ink = Ink(text)
  BY InkConcat
<1>3. none \o ink = ink /\ ink \o none = ink
  BY <1>1, ConcatEmptySeq
<1>4. Ink(blank) = none
  BY <1>1
<1>5. Ink(blank \o text) = none \o ink /\ Ink(text \o blank) = ink \o none
  BY <1>2, <1>4, InkConcat
<1> QED
  BY <1>2, <1>3, <1>5

LEMMA FirstAndLast ==
    ASSUME NEW n \in Nat, NEW S \in SUBSET (1..n), S # {}
    PROVE  /\ Min(S) \in S /\ \A k \in S : Min(S) <= k
           /\ Max(S) \in S /\ \A k \in S : k <= Max(S)
<1>1. \E x \in S : \A y \in S : x <= y
  <2>1. S \in SUBSET Nat
    OBVIOUS
  <2> QED
    BY <2>1, Smallest
<1>2. \E x \in S : \A y \in S : x >= y
  <2> DEFINE Mirror == {n - k : k \in S}
  <2>0. \A k \in S : k \in 1..n
    OBVIOUS
  <2>1. Mirror \in SUBSET Nat /\ Mirror # {}
    <3>1. \A k \in S : n - k \in Nat
      BY <2>0
    <3> QED
      BY <3>1
  <2> HIDE DEF Mirror
  <2>2. PICK m \in Mirror : \A k \in Mirror : m <= k
    BY <2>1, Smallest
  <2>3. PICK x \in S : m = n - x
    BY DEF Mirror
  <2>4. \A y \in S : n - y \in Mirror
    BY DEF Mirror
  <2>5. ASSUME NEW y \in S PROVE x >= y
    <3>1. n - x <= n - y
      BY <2>2, <2>3, <2>4
    <3> QED
      BY <2>0, <3>1
  <2> QED
    BY <2>5
<1>3. Min(S) \in S /\ \A k \in S : Min(S) <= k
  BY <1>1 DEF Min
<1>4. Max(S) \in S /\ \A k \in S : Max(S) >= k
  BY <1>2 DEF Max
<1>5. ASSUME NEW k \in S PROVE k <= Max(S)
  <2>1. PICK m \in S : m = Max(S)
    BY <1>4
  <2>2. m \in 1..n /\ k \in 1..n /\ m >= k
    BY <1>4, <2>1
  <2> QED
    BY <2>1, <2>2
<1> QED
  BY <1>3, <1>4, <1>5

\* Strip takes away blanks only.
LEMMA StripKeepsInk ==
    ASSUME NEW text \in Seq(Chars)
    PROVE  Strip(text) \in Seq(Chars) /\ Ink(Strip(text)) = Ink(text)
<1>1. PICK n \in Nat : n = Len(text)
  OBVIOUS
<1>2. /\ DOMAIN text = 1..n /\ \A i \in 1..n : text[i] \in Chars
      /\ Inked(text) \in SUBSET (1..n)
  BY <1>1 DEF Inked
<1>3. CASE Inked(text) = {}
  <2>1. \A i \in 1..Len(text) : text[i] = "space"
    BY <1>1, <1>2, <1>3 DEF Inked
  <2>2. Ink(text) = <<>>
    BY <2>1, InkBlank
  <2>3. Strip(text) = <<>> /\ <<>> \in Seq(Chars)
    BY <1>3 DEF Strip
  <2> QED
    BY <2>2, <2>3, InkEmpty
<1>4. CASE Inked(text) # {}
  <2>1. PICK a \in 1..n, b \in 1..n :
           a = Min(Inked(text)) /\ b = Max(Inked(text)) /\ a <= b
           /\ \A k \in Inked(text) : a <= k /\ k <= b
    BY <1>2, <1>4, FirstAndLast
  <2>2. \A i \in 1..n : i < a \/ b < i => text[i] = "space"
    <3> SUFFICES ASSUME NEW i \in 1..n, i < a \/ b < i PROVE i \notin Inked(text)
      BY <1>2 DEF Inked
    <3> QED
      BY <2>1
  <2>3. Strip(text) = SubSeq(text, a, b)
    BY <1>4, <2>1 DEF Strip
  <2>4. PICK left \in Seq(Chars) : left = SubSeq(text, 1, a - 1) /\ Ink(left) = <<>>
    <3>1. \A i \in 1..(a - 1) : text[i] \in Chars
      BY <1>2
    <3>2. /\ SubSeq(text, 1, a - 1) \in Seq(Chars)
          /\ Len(SubSeq(text, 1, a - 1)) = a - 1
          /\ \A i \in 1..(a - 1) : SubSeq(text, 1, a - 1)[i] = text[i]
      BY <3>1, SubSeqProperties
    <3>3. PICK left \in Seq(Chars) : left = SubSeq(text, 1, a - 1)
      BY <3>2
    <3>4. \A i \in 1..Len(left) : left[i] = "space"
      BY <2>2, <3>2, <3>3
    <3> QED
      BY <3>3, <3>4, InkBlank
  <2>5. PICK right \in Seq(Chars) : right = SubSeq(text, b + 1, n) /\ Ink(right) = <<>>
    <3>1. \A i \in (b + 1)..n : text[i] \in Chars
      BY <1>2
    <3>2. /\ SubSeq(text, b + 1, n) \in Seq(Chars)
          /\ Len(SubSeq(text, b + 1, n)) = n - b
          /\ \A i \in 1..(n - b) : SubSeq(text, b + 1, n)[i] = text[b + i]
      <4>1. n - (b + 1) + 1 = n - b /\ \A i \in 1..(n - b) : (b + 1) + i - 1 = b + i
        OBVIOUS
      <4>2. b + 1 <= n \/ n - b = 0
        OBVIOUS
      <4>3. /\ SubSeq(text, b + 1, n) \in Seq(Chars)
            /\ Len(SubSeq(text, b + 1, n)) = IF b + 1 <= n THEN n - (b + 1) + 1 ELSE 0
            /\ \A i \in 1..(n - (b + 1) + 1) :
                  SubSeq(text, b + 1, n)[i] = text[(b + 1) + i - 1]
        <5>1. b + 1 \in Int /\ n \in Int
          BY <1>1, <2>1
        <5> QED
          BY <3>1, <5>1, SubSeqProperties
      <4> QED
        BY <4>1, <4>2, <4>3
    <3>3. PICK right \in Seq(Chars) : right = SubSeq(text, b + 1, n)
      BY <3>2
    <3>4. \A i \in 1..Len(right) : right[i] = "space"
      <4> SUFFICES ASSUME NEW i \in 1..(n - b) PROVE right[i] = "space"
        BY <3>2, <3>3
      <4>1. b + i \in 1..n /\ b < b + i
        OBVIOUS
      <4> QED
        BY <2>2, <3>2, <3>3, <4>1
    <3> QED
      BY <3>3, <3>4, InkBlank
  <2>6. PICK mid \in Seq(Chars) : mid = SubSeq(text, a, b)
    <3>1. a \in Int /\ b \in Int /\ \A i \in a..b : text[i] \in Chars
      BY <1>1, <1>2, <2>1
    <3> QED
      BY <3>1, SubSeqProperties
  <2>7. PICK most \in Seq(Chars) : most = left \o mid
    BY ConcatProperties
  <2>8. SubSeq(text, 1, a - 1) \o SubSeq(text, (a - 1) + 1, b) = SubSeq(text, 1, b)
    <3>1. 1 \in 1..(Len(text) + 1) /\ a - 1 \in (1 - 1)..Len(text) /\ b \in (a - 1)..Len(text)
      BY <1>1, <2>1
    <3> QED
      BY <3>1, ConcatAdjacentSubSeq
  <2>9. SubSeq(text, 1, b) \o SubSeq(text, b + 1, n) = SubSeq(text, 1, n)
    <3>1. 1 \in 1..(Len(text) + 1) /\ b \in (1 - 1)..Len(text) /\ n \in b..Len(text)
      BY <1>1, <2>1
    <3> QED
      BY <3>1, ConcatAdjacentSubSeq
  <2>10. (a - 1) + 1 = a /\ SubSeq(text, 1, n) = text
    BY <1>1, SubSeqFull
  <2>11. text = most \o right
    BY <2>4, <2>5, <2>6, <2>7, <2>8, <2>9, <2>10
  <2>12. Ink(most) = Ink(mid)
    BY <2>4, <2>7, InkBeside
  <2>13. Ink(most \o right) = Ink(most)
    BY <2>5, InkBeside
  <2> QED
    BY <2>3, <2>6, <2>11, <2>12, <2>13
<1> QED
  BY <1>3, <1>4

-----------------------------------------------------------------------------
(* What was sent to speech.                                                *)

Flattens(flat, seqs) ==
    flat[0] = <<>> /\ \A i \in 1..Len(seqs) : flat[i] = flat[i - 1] \o seqs[i]

\* FlattenSeq is what its recursive definition says.
LEMMA FlattenEquation ==
    ASSUME NEW S, NEW seqs \in Seq(Seq(S))
    PROVE  \E flat \in [0..Len(seqs) -> Seq(S)] :
              FlattenSeq(seqs) = flat[Len(seqs)] /\ Flattens(flat, seqs)
<1> DEFINE n == Len(seqs)
           T == Seq(S)
           step == [i \in 1..n |-> [old \in T |-> old \o seqs[i]]]
           Flat(f) == f = [i \in 1..n |-> IF i = 1 THEN seqs[i] ELSE f[i - 1] \o seqs[i]]
<1>1. n \in Nat /\ <<>> \in T /\ \A i \in 1..n : seqs[i] \in T
  OBVIOUS
<1>c. \A old, new \in T : old \o new \in T
  BY ConcatProperties
<1>2. step \in [1..n -> [T -> T]]
  <2> HIDE DEF n, T
  <2> QED
    BY <1>1, <1>c
<1>3. PICK f \in [0..n -> T] : Run(f, n, <<>>, step)
  <2> HIDE DEF n, T, step
  <2> QED
    BY <1>1, <1>2, Running
<1>4. f[0] = <<>> /\ \A i \in 1..n : f[i] = f[i - 1] \o seqs[i]
  <2>1. ASSUME NEW i \in 1..n PROVE f[i] = f[i - 1] \o seqs[i]
    <3> HIDE DEF T, n
    <3>1. f[i - 1] \in T
      BY <1>1, <1>3
    <3>2. f[i] = step[i][f[i - 1]]
      BY <1>3 DEF Run
    <3> QED
      BY <3>1, <3>2
  <2> QED
    BY <1>3, <2>1 DEF Run
<1>5. CASE n = 0
  <2>1. FlattenSeq(seqs) = <<>>
    BY <1>5 DEF FlattenSeq
  <2> QED
    BY <1>3, <1>4, <1>5, <2>1 DEF Flattens
<1>6. CASE n # 0
  <2>1. 1 \in 1..n /\ n \in 1..n /\ \A i \in 1..n : i # 1 => i - 1 \in 1..n
    BY <1>1, <1>6
  <2>2. f[1] = seqs[1]
    <3>1. PICK first \in T : first = seqs[1]
      BY <1>1, <2>1
    <3>2. <<>> \o first = first
      BY <3>1, ConcatEmptySeq
    <3>3. f[1] = f[0] \o seqs[1]
      <4> HIDE DEF n, T, step
      <4>1. f[1] = f[1 - 1] \o seqs[1]
        BY <1>4, <2>1
      <4>2. 1 - 1 = 0
        OBVIOUS
      <4> QED
        BY <4>1, <4>2
    <3> QED
      BY <1>4, <3>1, <3>2, <3>3
  <2>3. Flat([i \in 1..n |-> f[i]])
    <3> HIDE DEF n, T, step
    <3>1. \A i \in 1..n : f[i] = IF i = 1 THEN seqs[i] ELSE f[i - 1] \o seqs[i]
      BY <1>4, <2>2
    <3>2. PICK h : h = [i \in 1..n |-> f[i]]
      OBVIOUS
    <3>3. \A i \in 1..n : h[i] = f[i] /\ (i # 1 => h[i - 1] = f[i - 1])
      BY <2>1, <3>2
    <3>4. h = [i \in 1..n |-> IF i = 1 THEN seqs[i] ELSE h[i - 1] \o seqs[i]]
      <4>1. \A i \in 1..n : f[i] = IF i = 1 THEN seqs[i] ELSE h[i - 1] \o seqs[i]
        BY <3>1, <3>3
      <4> QED
        BY <3>2, <4>1
    <3> QED
      BY <3>2, <3>4
  <2>4. PICK g : g = CHOOSE h : Flat(h)
    OBVIOUS
  <2>5. Flat(g)
    BY <2>3, <2>4
  <2>6. FlattenSeq(seqs) = g[n]
    BY <1>6, <2>4 DEF FlattenSeq
  <2> HIDE DEF n, T, step
  <2>7. \A i \in 1..n : g[i] = IF i = 1 THEN seqs[i] ELSE g[i - 1] \o seqs[i]
    BY <2>5
  <2>8. PICK k : k = [i \in 0..n |-> IF i = 0 THEN <<>> ELSE g[i]]
    OBVIOUS
  <2>9. k[0] = <<>> /\ \A i \in 1..n : k[i] = g[i] /\ (i # 1 => k[i - 1] = g[i - 1])
    BY <1>1, <2>8
  <2>10. Alike(f, k, n)
    <3>1. f[0] = k[0]
      BY <1>4, <2>9
    <3>2. ASSUME NEW i \in 1..n, f[i - 1] = k[i - 1] PROVE f[i] = k[i]
      <4>1. CASE i = 1
        BY <2>1, <2>2, <2>7, <2>9, <4>1
      <4>2. CASE i # 1
        <5>1. f[i] = f[i - 1] \o seqs[i]
          BY <1>4
        <5>2. k[i] = g[i] /\ k[i - 1] = g[i - 1]
          BY <2>9, <4>2
        <5>3. g[i] = g[i - 1] \o seqs[i]
          BY <2>7, <4>2
        <5> QED
          BY <3>2, <5>1, <5>2, <5>3
      <4> QED
        BY <4>1, <4>2
    <3> QED
      BY <3>1, <3>2 DEF Alike
  <2>11. f[n] = k[n]
    <3>1. \A i \in 0..n : f[i] = k[i]
      BY <1>1, <2>10, SameRun
    <3> QED
      BY <1>1, <3>1
  <2>12. FlattenSeq(seqs) = f[n]
    BY <2>1, <2>6, <2>9, <2>11
  <2>13. Flattens(f, seqs)
    BY <1>4 DEF Flattens, n
  <2> QED
    BY <1>3, <2>12, <2>13 DEF n, T
<1> QED
  BY <1>5, <1>6

\* Flattening one more sequence appends it.
LEMMA FlattenAppend ==
    ASSUME NEW S, NEW seqs \in Seq(Seq(S)), NEW seq \in Seq(S)
    PROVE  /\ FlattenSeq(seqs) \in Seq(S)
           /\ FlattenSeq(Append(seqs, seq)) = FlattenSeq(seqs) \o seq
<1>1. PICK more \in Seq(Seq(S)) : more = Append(seqs, seq)
  BY AppendProperties
<1>2. PICK n \in Nat : n = Len(seqs) /\ Len(more) = n + 1 /\ more[n + 1] = seq
                       /\ \A i \in 1..n : more[i] = seqs[i]
  BY <1>1
<1>3. PICK f \in [0..n -> Seq(S)] : FlattenSeq(seqs) = f[n] /\ Flattens(f, seqs)
  BY <1>2, FlattenEquation
<1>4. PICK g \in [0..(n + 1) -> Seq(S)] : FlattenSeq(more) = g[n + 1] /\ Flattens(g, more)
  BY <1>2, FlattenEquation
<1>5. Alike(f, g, n)
  <2>1. \A i \in 1..n : i \in 1..(n + 1)
    BY <1>2
  <2> QED
    BY <1>2, <1>3, <1>4, <2>1 DEF Flattens, Alike
<1>6. f[n] = g[n] /\ f[n] \in Seq(S)
  <2>1. \A i \in 0..n : f[i] = g[i]
    <3>1. PICK left, right : left = f /\ right = g
      OBVIOUS
    <3>2. n \in Nat /\ Alike(left, right, n)
      BY <1>2, <1>5, <3>1
    <3>3. \A i \in 0..n : left[i] = right[i]
      BY <3>2, SameRun
    <3> QED
      BY <3>1, <3>3
  <2>2. n \in 0..n
    BY <1>2
  <2> QED
    BY <1>3, <2>1, <2>2
<1>7. g[n + 1] = g[n] \o seq
  <2>1. n + 1 \in 1..(n + 1) /\ (n + 1) - 1 = n
    BY <1>2
  <2> QED
    BY <1>2, <1>4, <2>1 DEF Flattens
<1> QED
  BY <1>1, <1>3, <1>4, <1>6, <1>7

Event == [type : Types, text : Seq(Chars)]

Parts(stream) == [i \in DOMAIN stream |-> stream[i].text]

\* One more event is one more part.
LEMMA PartsAppend ==
    ASSUME NEW stream \in Seq(Event), NEW event \in Event
    PROVE  /\ Parts(stream) \in Seq(Seq(Chars))
           /\ Parts(Append(stream, event)) = Append(Parts(stream), event.text)
<1>1. PICK n \in Nat : n = Len(stream) /\ DOMAIN stream = 1..n
  OBVIOUS
<1>2. \A i \in 1..n : stream[i].text \in Seq(Chars)
  <2>1. \A i \in 1..n : stream[i] \in Event
    BY <1>1
  <2> QED
    BY <2>1 DEF Event
<1>3. Parts(stream) \in [1..n -> Seq(Chars)]
  BY <1>1, <1>2 DEF Parts
<1>4. Parts(stream) \in Seq(Seq(Chars)) /\ Len(Parts(stream)) = n
  BY <1>1, <1>3
<1>5. PICK more \in Seq(Event) : more = Append(stream, event)
  BY AppendProperties
<1>6. /\ DOMAIN more = 1..(n + 1) /\ more[n + 1] = event
      /\ \A i \in 1..n : more[i] = stream[i]
  BY <1>1, <1>5
<1>t. event.text \in Seq(Chars)
  BY DEF Event
<1>7. PICK all \in Seq(Seq(Chars)) : all = Append(Parts(stream), event.text)
  BY <1>4, <1>t, AppendProperties
<1>8. /\ DOMAIN all = 1..(n + 1) /\ all[n + 1] = event.text
      /\ \A i \in 1..n : all[i] = stream[i].text
  BY <1>1, <1>4, <1>7 DEF Parts
<1>9. \A i \in 1..(n + 1) : i \in 1..n \/ i = n + 1
  BY <1>1
<1>10. Parts(more) = [i \in 1..(n + 1) |-> more[i].text]
  BY <1>6 DEF Parts
<1>11. all = [i \in 1..(n + 1) |-> all[i]]
  BY <1>8
<1>12. \A i \in 1..(n + 1) : all[i] = more[i].text
  BY <1>6, <1>8, <1>9
<1>13. Parts(more) = all
  BY <1>10, <1>11, <1>12
<1> QED
  BY <1>4, <1>5, <1>7, <1>13

Speech(stream) == FlattenSeq(Parts(stream))

\* One more event is so much more speech.
LEMMA SpeechAppend ==
    ASSUME NEW stream \in Seq(Event), NEW type \in Types, NEW text \in Seq(Chars),
           NEW event, event = [type |-> type, text |-> text]
    PROVE  /\ Speech(stream) \in Seq(Chars) /\ Append(stream, event) \in Seq(Event)
           /\ Append(stream, event) # <<>> /\ Last(Append(stream, event)).type = type
           /\ Speech(Append(stream, event)) = Speech(stream) \o text
<1>1. event \in Event /\ event.text = text /\ event.type = type
  BY DEF Event
<1>2. PICK parts \in Seq(Seq(Chars)) : parts = Parts(stream)
  BY <1>1, PartsAppend
<1>3. Parts(Append(stream, event)) = Append(parts, text)
  BY <1>1, <1>2, PartsAppend
<1>4. FlattenSeq(parts) \in Seq(Chars) /\ FlattenSeq(Append(parts, text)) = FlattenSeq(parts) \o text
  BY FlattenAppend
<1>5. /\ Append(stream, event) \in Seq(Event) /\ Append(stream, event) # <<>>
      /\ Append(stream, event)[Len(Append(stream, event))] = event
  <2> HIDE DEF Event
  <2> QED
    BY <1>1, Appended
<1> QED
  BY <1>1, <1>2, <1>3, <1>4, <1>5 DEF Speech, Last

\* The speech and the buffer are together what was said.
Whole(text, stream, rest) == Ink(text) = Ink(Speech(stream) \o rest)

LEMMA SpeechType == ASSUME NEW stream \in Seq(Event) PROVE Speech(stream) \in Seq(Chars)
<1>1. <<>> \in Seq(Chars) /\ "DONE" \in Types
  BY DEF Types
<1> QED
  BY <1>1, SpeechAppend

\* Concatenation, grouped either way.
Regrouped(a, b, c) == (a \o b) \o c = a \o (b \o c)

LEMMA Regroup ==
    ASSUME NEW a \in Seq(Chars), NEW b \in Seq(Chars), NEW c \in Seq(Chars)
    PROVE  Regrouped(a, b, c)
BY SMTT(30), ConcatAssociative DEF Regrouped

LEMMA WholeToken ==
    ASSUME NEW text \in Seq(Chars), NEW stream \in Seq(Event), NEW rest \in Seq(Chars),
           NEW token \in Seq(Chars), Whole(text, stream, rest)
    PROVE  Whole(text \o token, stream, rest \o token)
<1>1. PICK speech \in Seq(Chars) : speech = Speech(stream)
  BY SpeechType
<1>2. PICK all \in Seq(Chars) : all = speech \o rest
  BY ConcatProperties
<1>3. Ink(text) = Ink(all)
  BY <1>1, <1>2 DEF Whole
<1>4. Ink(text \o token) = Ink(text) \o Ink(token) /\ Ink(all \o token) = Ink(all) \o Ink(token)
  BY InkConcat
<1>5. (speech \o rest) \o token = speech \o (rest \o token)
  <2>1. Regrouped(speech, rest, token)
    BY Regroup
  <2> QED
    BY <2>1 DEF Regrouped
<1> QED
  BY <1>1, <1>2, <1>3, <1>4, <1>5 DEF Whole

LEMMA WholeCut ==
    ASSUME NEW text \in Seq(Chars), NEW stream \in Seq(Event), NEW rest \in Seq(Chars),
           NEW event, event = [type |-> "CHUNK", text |-> Strip(rest)],
           Whole(text, stream, rest)
    PROVE  Whole(text, Append(stream, event), <<>>)
<1>1. PICK speech \in Seq(Chars) : speech = Speech(stream)
  BY SpeechType
<1>2. PICK chunk \in Seq(Chars) : chunk = Strip(rest) /\ Ink(chunk) = Ink(rest)
  BY StripKeepsInk
<1>3. Speech(Append(stream, event)) = speech \o chunk
  <2>1. "CHUNK" \in Types
    BY DEF Types
  <2> QED
    BY ZenonT(60), <1>1, <1>2, <2>1, SpeechAppend
<1>4. PICK more \in Seq(Chars) : more = speech \o chunk
  BY ConcatProperties
<1>5. more \o <<>> = more
  BY ConcatEmptySeq
<1>6. Ink(more) = Ink(speech \o rest)
  <2>1. Ink(speech \o chunk) = Ink(speech) \o Ink(chunk)
    BY InkConcat
  <2>2. Ink(speech \o rest) = Ink(speech) \o Ink(rest)
    BY InkConcat
  <2> QED
    BY <1>2, <1>4, <2>1, <2>2
<1> QED
  BY <1>1, <1>3, <1>4, <1>5, <1>6 DEF Whole

LEMMA WholeBlank ==
    ASSUME NEW text \in Seq(Chars), NEW stream \in Seq(Event), NEW rest \in Seq(Chars),
           Strip(rest) = <<>>, Whole(text, stream, rest)
    PROVE  Whole(text, stream, <<>>)
<1>1. PICK speech \in Seq(Chars) : speech = Speech(stream)
  BY SpeechType
<1>2. Ink(rest) = <<>>
  BY StripKeepsInk, InkEmpty
<1>3. Ink(speech \o rest) = Ink(speech)
  BY <1>2, InkBeside
<1>4. speech \o <<>> = speech
  BY ConcatEmptySeq
<1> QED
  BY <1>1, <1>3, <1>4 DEF Whole

LEMMA WholeEnd ==
    ASSUME NEW text \in Seq(Chars), NEW stream \in Seq(Event), NEW rest \in Seq(Chars),
           NEW type \in Types, NEW event, event = [type |-> type, text |-> <<>>],
           Whole(text, stream, rest)
    PROVE  Whole(text, Append(stream, event), rest)
<1>1. PICK speech \in Seq(Chars) : speech = Speech(stream)
  BY SpeechType
<1>2. <<>> \in Seq(Chars)
  OBVIOUS
<1>3. Speech(Append(stream, event)) = speech \o <<>>
  BY ZenonT(60), <1>1, <1>2, SpeechAppend
<1>4. speech \o <<>> = speech
  BY ConcatEmptySeq
<1> QED
  BY <1>1, <1>3, <1>4 DEF Whole

TextTypes ==
    /\ said \in [Calls -> Seq(Chars)] /\ buffer \in [Calls -> Seq(Chars)]
    /\ cuts \in [Calls -> SUBSET Nat] /\ events \in [Calls -> Seq(Event)]

\* What a call has said, sent to speech and kept.
TextOf(c) ==
    /\ cuts[c] \subseteq DOMAIN said[c] /\ Len(Strip(buffer[c])) < MaxChunk
    /\ Whole(said[c], events[c], buffer[c])
    /\ pc[c] = "ending" => buffer[c] = <<>>
    /\ events[c] # <<>> /\ Last(events[c]).type = "DONE" => buffer[c] = <<>>

TextInv == TextTypes /\ \A c \in Calls : TextOf(c)

LEMMA EmptyText == Strip(<<>>) = <<>> /\ Len(<<>>) = 0 /\ 0 < MaxChunk /\ <<>> \in Seq(Chars)
<1>1. Inked(<<>>) = {}
  BY DEF Inked
<1> QED
  BY <1>1, BoundsAssumption DEF Strip

LEMMA TextInvInit == Init => TextInv
<1> SUFFICES ASSUME Init PROVE TextInv
  OBVIOUS
<1>1. <<>> \in Seq(Event) /\ <<>> \in Seq(Chars)
  OBVIOUS
<1>2. TextTypes
  BY <1>1 DEF Init, TextTypes
<1>3. Whole(<<>>, <<>>, <<>>)
  <2>1. Parts(<<>>) = <<>>
    BY DEF Parts
  <2>2. Speech(<<>>) = <<>>
    BY <2>1 DEF Speech, FlattenSeq
  <2>3. <<>> \o <<>> = <<>>
    BY <1>1, ConcatEmptySeq
  <2> QED
    BY <2>2, <2>3 DEF Whole
<1> QED
  BY <1>2, <1>3, EmptyText DEF Init, TextInv, TextOf

\* What a step of c may do to the text.
Silent(c) == UNCHANGED <<textVars, events>> /\ (pc'[c] = "ending" => pc[c] = "ending")
Closing(c, type) == /\ Yield(c, type, <<>>) /\ UNCHANGED textVars
                    /\ pc'[c] = "done" /\ (type = "DONE" => pc[c] = "ending")

LEMMA TextEffect ==
    ASSUME EndTypes, NEW c \in Calls, Steps(c)
    PROVE  Silent(c) \/ Closing(c, "DONE") \/ Closing(c, "ERROR")
           \/ (\E token \in Tokens : Token(c, token)) \/ GenerationEnds(c)
<1> USE DEF EndTypes, callVars
<1>1. CASE \/ BlankPrompt(c) \/ SkipCheck(c) \/ Ask(c) \/ CheckPasses(c) \/ CheckFails(c)
           \/ Cancel(c) \/ Stop(c) \/ ChatFails(c)
  BY <1>1 DEF Silent, BlankPrompt, SkipCheck, Ask, CheckPasses, CheckFails, Cancel, Stop,
              ChatFails, Refuse, StartChat
<1>2. CASE Finish(c)
  BY <1>2 DEF Finish, Closing
<1>3. CASE StreamFails(c)
  BY <1>3 DEF StreamFails, Closing
<1> QED
  BY <1>1, <1>2, <1>3 DEF Steps

\* Nothing but chunks has been sent while the generation runs.
LEMMA NotDone ==
    ASSUME EndInv, NEW c \in Calls, pc[c] = "chatting"
    PROVE  ~(events[c] # <<>> /\ Last(events[c]).type = "DONE")
<1> SUFFICES ASSUME events[c] # <<>> PROVE Last(events[c]).type = "CHUNK"
  OBVIOUS
<1>1. EventSeq(events[c]) /\ OnlyChunks(events[c])
  BY DEF EndInv, EndTypes, Yielded
<1>2. Len(events[c]) \in DOMAIN events[c]
  BY <1>1, NonEmptyEvents
<1> QED
  BY <1>1, <1>2 DEF OnlyChunks, Last

\* The rest of a text that is not cut is short.
LEMMA ShortRest ==
    ASSUME NEW text \in Seq(Chars), ~Flushable(text)
    PROVE  Len(text) < MaxChunk
<1>1. MaxChunk \in Nat /\ Len(text) \in Nat
  BY BoundsAssumption
<1> QED
  BY <1>1, EmptyText DEF Flushable

LEMMA SilentKeeps ==
    ASSUME TextInv, NEW c \in Calls, Silent(c)
    PROVE  TextTypes' /\ TextOf(c)'
<1>1. TextTypes /\ TextOf(c)
  BY DEF TextInv
<1> QED
  BY <1>1 DEF Silent, TextTypes, TextOf, textVars

LEMMA ClosingKeeps ==
    ASSUME TextInv, NEW c \in Calls, NEW type \in {"DONE", "ERROR"}, Closing(c, type)
    PROVE  TextTypes' /\ TextOf(c)'
<1>1. TextTypes /\ TextOf(c)
  BY DEF TextInv
<1>2. UNCHANGED <<said, cuts, buffer>> /\ pc'[c] = "done" /\ (type = "DONE" => pc[c] = "ending")
  BY DEF Closing, textVars
<1>3. PICK event : event = [type |-> type, text |-> <<>>]
  OBVIOUS
<1>4. events' = [events EXCEPT ![c] = Append(events[c], event)] /\ events[c] \in Seq(Event)
  BY <1>1, <1>3 DEF Closing, Yield, TextTypes
<1>5. /\ Append(events[c], event) \in Seq(Event) /\ Last(Append(events[c], event)).type = type
  <2>1. type \in Types /\ events[c] \in Seq(Event) /\ <<>> \in Seq(Chars)
    BY <1>4, EmptyText DEF Types
  <2>2. PICK stream \in Seq(Event), none \in Seq(Chars), kind \in Types :
           stream = events[c] /\ none = <<>> /\ kind = type
    BY <2>1
  <2>3. event = [type |-> kind, text |-> none]
    BY <1>3, <2>2
  <2>4. Append(stream, event) \in Seq(Event) /\ Last(Append(stream, event)).type = kind
    BY <2>3, SpeechAppend
  <2> QED
    BY <2>2, <2>4
<1>6. events' \in [Calls -> Seq(Event)] /\ events'[c] = Append(events[c], event)
  <2> HIDE DEF Event
  <2> QED
    BY <1>1, <1>4, <1>5 DEF TextTypes
<1>7. TextTypes'
  BY <1>1, <1>2, <1>6 DEF TextTypes
<1>8. Whole(said'[c], events'[c], buffer'[c])
  <2>1. said[c] \in Seq(Chars) /\ buffer[c] \in Seq(Chars) /\ Whole(said[c], events[c], buffer[c])
    BY <1>1 DEF TextTypes, TextOf
  <2>2. type \in Types
    BY DEF Types
  <2>3. Whole(said[c], Append(events[c], event), buffer[c])
    BY <1>3, <1>4, <2>1, <2>2, WholeEnd
  <2> QED
    BY <1>2, <1>6, <2>3
<1>9. Last(events'[c]).type = "DONE" => buffer'[c] = <<>>
  BY <1>1, <1>2, <1>5, <1>6 DEF TextOf
<1> QED
  BY <1>1, <1>2, <1>7, <1>8, <1>9 DEF TextOf

LEMMA TokenKeeps ==
    ASSUME EndInv, TextInv, NEW c \in Calls, NEW token \in Tokens, Token(c, token)
    PROVE  TextTypes' /\ TextOf(c)'
<1>1. TextTypes /\ TextOf(c) /\ token \in Seq(Chars) /\ token # <<>>
  BY TokensAssumption DEF TextInv
<1>2. pc[c] = "chatting" /\ pc' = pc
  BY DEF Token, callVars
<1>3. PICK old \in Seq(Chars) : old = said[c]
  BY <1>1 DEF TextTypes
<1>4. PICK rest \in Seq(Chars) : rest = buffer[c]
  BY <1>1 DEF TextTypes
<1>5. PICK all \in Seq(Chars) : all = old \o token
  BY <1>1, ConcatProperties
<1>6. PICK more \in Seq(Chars) : more = rest \o token
  BY <1>1, ConcatProperties
<1>7. PICK text \in Seq(Chars) : text = Strip(more)
  BY StripKeepsInk
<1>8. said' = [said EXCEPT ![c] = all] /\ said'[c] = all /\ said' \in [Calls -> Seq(Chars)]
  BY <1>1, <1>3, <1>5 DEF Token, TextTypes
<1>9. /\ Len(all) \in Nat \ {0} /\ Len(all) \in DOMAIN all /\ DOMAIN old \subseteq DOMAIN all
  BY <1>1, <1>3, <1>5
<1>10. PICK stream \in Seq(Event) : stream = events[c]
  BY <1>1 DEF TextTypes
<1>11. Whole(all, stream, more)
  <2>1. Whole(old, stream, rest)
    BY <1>1, <1>3, <1>4, <1>10 DEF TextOf
  <2> QED
    BY <1>1, <1>5, <1>6, <2>1, WholeToken
<1>12. cuts[c] \subseteq DOMAIN old
  BY <1>1, <1>3 DEF TextOf
<1>13. CASE Flushable(text)
  <2>1. PICK event : event = [type |-> "CHUNK", text |-> text]
    OBVIOUS
  <2>2. /\ events' = [events EXCEPT ![c] = Append(stream, event)]
        /\ cuts' = [cuts EXCEPT ![c] = cuts[c] \cup {Len(all)}]
        /\ buffer' = [buffer EXCEPT ![c] = <<>>]
    <3>1. /\ events' = [events EXCEPT ![c] = Append(@, [type |-> "CHUNK", text |-> Strip(buffer[c] \o token)])]
          /\ cuts' = [cuts EXCEPT ![c] = @ \cup {Len(said'[c])}]
          /\ buffer' = [buffer EXCEPT ![c] = <<>>]
      BY <1>4, <1>6, <1>7, <1>13 DEF Token, Yield
    <3> QED
      BY <1>4, <1>6, <1>7, <1>8, <1>10, <2>1, <3>1
  <2>3. /\ Append(stream, event) \in Seq(Event) /\ Last(Append(stream, event)).type = "CHUNK"
    BY <2>1, SpeechAppend DEF Types
  <2>4. /\ events' \in [Calls -> Seq(Event)] /\ events'[c] = Append(stream, event)
    <3> HIDE DEF Event
    <3> QED
      BY <1>1, <2>2, <2>3 DEF TextTypes
  <2>5. /\ buffer' \in [Calls -> Seq(Chars)] /\ buffer'[c] = <<>>
        /\ cuts' \in [Calls -> SUBSET Nat] /\ cuts'[c] = cuts[c] \cup {Len(all)}
    BY <1>1, <1>9, <2>2, EmptyText DEF TextTypes
  <2>6. Whole(all, Append(stream, event), <<>>)
    BY <1>7, <1>11, <2>1, WholeCut
  <2>7. TextTypes'
    BY <1>8, <2>4, <2>5 DEF TextTypes
  <2>8. cuts'[c] \subseteq DOMAIN said'[c]
    BY <1>8, <1>9, <1>12, <2>5
  <2> QED
    BY <1>8, <2>3, <2>4, <2>5, <2>6, <2>7, <2>8, EmptyText DEF TextOf
<1>14. CASE ~Flushable(text)
  <2>1. events' = events /\ cuts' = cuts /\ buffer' = [buffer EXCEPT ![c] = more]
    BY <1>4, <1>6, <1>7, <1>14 DEF Token
  <2>2. buffer' \in [Calls -> Seq(Chars)] /\ buffer'[c] = more
    BY <1>1, <2>1 DEF TextTypes
  <2>3. TextTypes'
    BY <1>1, <1>8, <2>1, <2>2 DEF TextTypes
  <2>4. cuts'[c] \subseteq DOMAIN said'[c]
    BY <1>8, <1>9, <1>12, <2>1
  <2>5. Len(Strip(buffer'[c])) < MaxChunk
    BY <1>7, <1>14, <2>2, ShortRest
  <2>6. Whole(said'[c], events'[c], buffer'[c])
    BY <1>8, <1>10, <1>11, <2>1, <2>2
  <2>7. ~(events'[c] # <<>> /\ Last(events'[c]).type = "DONE")
    BY <1>2, <2>1, NotDone
  <2> QED
    BY <1>2, <2>3, <2>4, <2>5, <2>6, <2>7 DEF TextOf
<1> QED
  BY <1>13, <1>14

LEMMA GenerationEndsKeeps ==
    ASSUME EndInv, TextInv, NEW c \in Calls, GenerationEnds(c)
    PROVE  TextTypes' /\ TextOf(c)'
<1>1. TextTypes /\ TextOf(c)
  BY DEF TextInv
<1>2. /\ pc[c] = "chatting" /\ said' = said /\ cuts' = cuts
      /\ buffer' = [buffer EXCEPT ![c] = <<>>]
  BY DEF GenerationEnds
<1>3. buffer' \in [Calls -> Seq(Chars)] /\ buffer'[c] = <<>>
  BY <1>1, <1>2, EmptyText DEF TextTypes
<1>4. PICK rest \in Seq(Chars) : rest = buffer[c]
  BY <1>1 DEF TextTypes
<1>5. PICK stream \in Seq(Event) : stream = events[c]
  BY <1>1 DEF TextTypes
<1>6. PICK text \in Seq(Chars) : text = said[c]
  BY <1>1 DEF TextTypes
<1>7. Whole(text, stream, rest)
  BY <1>1, <1>4, <1>5, <1>6 DEF TextOf
<1>8. events' \in [Calls -> Seq(Event)] /\ Whole(text, events'[c], <<>>)
  <2>1. CASE Strip(rest) = <<>>
    <3>1. events' = events
      BY <1>4, <2>1 DEF GenerationEnds
    <3>2. Whole(text, stream, <<>>)
      BY <1>7, <2>1, WholeBlank
    <3> QED
      BY <1>1, <1>5, <3>1, <3>2 DEF TextTypes
  <2>2. CASE Strip(rest) # <<>>
    <3>1. PICK event : event = [type |-> "CHUNK", text |-> Strip(rest)]
      OBVIOUS
    <3>2. events' = [events EXCEPT ![c] = Append(stream, event)]
      <4>1. events' = [events EXCEPT ![c] = Append(@, [type |-> "CHUNK", text |-> Strip(buffer[c])])]
        BY <1>4, <2>2 DEF GenerationEnds, Yield
      <4> QED
        BY <1>4, <1>5, <3>1, <4>1
    <3>3. Append(stream, event) \in Seq(Event)
      <4>1. Strip(rest) \in Seq(Chars)
        BY StripKeepsInk
      <4> QED
        BY <3>1, <4>1, SpeechAppend DEF Types
    <3>4. events' \in [Calls -> Seq(Event)] /\ events'[c] = Append(stream, event)
      <4> HIDE DEF Event
      <4> QED
        BY <1>1, <3>2, <3>3 DEF TextTypes
    <3>5. Whole(text, Append(stream, event), <<>>)
      BY <1>7, <3>1, WholeCut
    <3> QED
      BY <3>4, <3>5
  <2> QED
    BY <2>1, <2>2
<1>9. TextTypes'
  BY <1>1, <1>2, <1>3, <1>8 DEF TextTypes
<1> QED
  BY <1>1, <1>2, <1>3, <1>6, <1>8, <1>9, EmptyText DEF TextOf

LEMMA StepsKeepText ==
    ASSUME EndInv, TextInv, NEW c \in Calls, Steps(c)
    PROVE  TextInv'
<1>0. EndTypes
  BY DEF EndInv
<1>1. TextTypes' /\ TextOf(c)'
  BY <1>0, TextEffect, SilentKeeps, ClosingKeeps, TokenKeeps, GenerationEndsKeeps
<1>2. ASSUME NEW d \in Calls, d # c PROVE TextOf(d)'
  <2>1. TextOf(d) /\ TextTypes
    BY DEF TextInv
  <2>2. pc'[d] = pc[d]
    BY <1>0, <1>2, StepEffect
  <2>3. /\ said'[d] = said[d] /\ cuts'[d] = cuts[d] /\ buffer'[d] = buffer[d]
        /\ events'[d] = events[d]
    <3>1. CASE Silent(c)
      BY <3>1 DEF Silent, textVars
    <3>2. ASSUME NEW type \in {"DONE", "ERROR"}, Closing(c, type)
          PROVE  /\ said'[d] = said[d] /\ cuts'[d] = cuts[d] /\ buffer'[d] = buffer[d]
                 /\ events'[d] = events[d]
      BY <1>2, <2>1, <3>2 DEF Closing, Yield, TextTypes, textVars
    <3>3. ASSUME NEW token \in Tokens, Token(c, token)
          PROVE  /\ said'[d] = said[d] /\ cuts'[d] = cuts[d] /\ buffer'[d] = buffer[d]
                 /\ events'[d] = events[d]
      BY <1>2, <2>1, <3>3 DEF Token, Yield, TextTypes
    <3>4. CASE GenerationEnds(c)
      BY <1>2, <2>1, <3>4 DEF GenerationEnds, Yield, TextTypes
    <3> QED
      BY <1>0, <3>1, <3>2, <3>3, <3>4, TextEffect
  <2> QED
    BY <2>1, <2>2, <2>3 DEF TextOf
<1> QED
  BY <1>1, <1>2 DEF TextInv

LEMMA TextInvStep == EndInv /\ TextInv /\ [Next]_vars => TextInv'
<1> SUFFICES ASSUME EndInv, TextInv, [Next]_vars PROVE TextInv'
  OBVIOUS
<1>1. ASSUME NEW c \in Calls, StreamChat(c) \/ ChatStream(c) \/ Chat(c) PROVE Steps(c)
  BY <1>1 DEF StreamChat, ChatStream, Chat, Call, Steps, Streaming
<1>2. CASE UNCHANGED <<callVars, textVars, events>>
  BY <1>2 DEF TextInv, TextTypes, TextOf, callVars, textVars
<1> QED
  BY <1>1, <1>2, StepsKeepText DEF Next, Tick, Terminated, vars

\* Wherever the text is cut, and whenever it ends, what goes to speech and what
\* is kept are together what was generated, blanks apart, and after DONE nothing
\* is kept (chunker.py:40-67).
THEOREM SaidIsSpokenCorrect == Spec => []SaidIsSpoken
<1>1. TextInv => SaidIsSpoken
  <2> SUFFICES ASSUME TextInv, NEW c \in Calls
               PROVE  /\ Ink(said[c]) = Ink(Spoken(c) \o buffer[c])
                      /\ events[c] # <<>> /\ Last(events[c]).type = "DONE" => buffer[c] = <<>>
    BY DEF SaidIsSpoken
  <2>1. Spoken(c) = Speech(events[c])
    BY DEF Spoken, Speech, Parts
  <2> QED
    BY <2>1 DEF TextInv, TextOf, Whole
<1> QED
  BY <1>1, EndInvInit, EndInvStep, TextInvInit, TextInvStep, PTL DEF Spec

\* The times, and the routes, keep their types.
CheckTypes ==
    /\ clock \in Times /\ lastChecked \in Times \cup {Never} /\ lastSeen \in Times \cup {Never}
    /\ route \in [Calls -> Routes] /\ now \in [Calls -> Times]

LEMMA CheckTypesInit == Init => CheckTypes
BY BoundsAssumption DEF Init, CheckTypes, Times, Never

LEMMA CheckTypesStep == CheckTypes /\ [Next]_vars => CheckTypes'
<1> SUFFICES ASSUME CheckTypes, [Next]_vars PROVE CheckTypes'
  OBVIOUS
<1> USE DEF CheckTypes
<1>t. MaxTime \in Nat /\ 0 \in Times
  BY BoundsAssumption DEF Times
<1>1. CASE Tick
  BY <1>1, <1>t DEF Tick, Times
<1>2. ASSUME NEW c \in Calls, Ask(c) PROVE CheckTypes'
  BY <1>2 DEF Ask
<1>3. ASSUME NEW c \in Calls, CheckPasses(c) PROVE CheckTypes'
  BY <1>3, <1>t DEF CheckPasses
<1>4. ASSUME NEW c \in Calls, CheckFails(c) \/ Stop(c) PROVE CheckTypes'
  BY <1>4, <1>t DEF CheckFails, Stop
<1>5. CASE UNCHANGED <<checkVars, route>>
  BY <1>5 DEF checkVars
<1> QED
  BY ZenonT(60), <1>1, <1>2, <1>3, <1>4, <1>5
     DEF Next, vars, Terminated, StreamChat, ChatStream, Chat, Call, BlankPrompt, SkipCheck,
         Token, GenerationEnds, Finish, StreamFails, ChatFails, Cancel

\* Every variable has its type, and the buffer is shorter than a chunk.
THEOREM TypeCorrect == Spec => []TypeOK
<1>1. EndInv /\ TextInv /\ CheckTypes => TypeOK
  BY DEF EndInv, EndTypes, Places, Codes, TextInv, TextTypes, TextOf, CheckTypes, TypeOK,
         Event, Types
<1> QED
  BY <1>1, EndInvInit, EndInvStep, TextInvInit, TextInvStep, CheckTypesInit, CheckTypesStep,
     PTL DEF Spec
=============================================================================
