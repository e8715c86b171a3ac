-------------------------- MODULE SttServiceProofs --------------------------
(***************************************************************************)
(* Proofs about SttService, for every set of requests, every number of     *)
(* messages and every capacity: its requests take only steps of the engine *)
(* cache, native calls are exclusive, whoever was answered has left        *)
(* nothing behind, and every byte that arrived is accounted for.  And      *)
(* about AudioConvert, for every audio, every format and every target:     *)
(* what an engine is given sounds, and lasts, as what was said.            *)
(***************************************************************************)
EXTENDS MCSttService, EngineManagerProofs

-----------------------------------------------------------------------------
(* The requests of the service use the cache as EngineManager says.        *)

LEMMA RequestKinds ==
    /\ Streams \subseteq Requests /\ Uploads \subseteq Requests
    /\ Streams \cap Uploads = {} /\ Warmup \in Requests
    /\ Warmup \notin Streams /\ Warmup \notin Uploads
BY StreamsAssumption DEF Streams, Uploads

\* Every step of the service is a step of the cache, or leaves it alone.
LEMMA LeasesStep == [Next]_vars => [CacheNext]_cacheVars
<1> SUFFICES ASSUME [Next]_vars PROVE [CacheNext]_cacheVars
  OBVIOUS
<1> USE RequestKinds
<1>1. ASSUME NEW r \in Requests, LeaseStep(r) PROVE [CacheNext]_cacheVars
  BY <1>1 DEF CacheNext
<1>2. CASE WarmUp
  BY <1>1, <1>2 DEF WarmUp, LeaseStep
<1>3. ASSUME NEW s \in Streams, Stream(s) PROVE [CacheNext]_cacheVars
  BY <1>1, <1>3 DEF Stream, Acquire, AcquireFails, Open, Answer, Fail, Raise, LeaseStep
<1>4. ASSUME NEW s \in Streams, Client(s) PROVE [CacheNext]_cacheVars
  <2>1. CASE ReceiveAudio(s) \/ ReceiveEnd(s)
    BY <1>1, <2>1 DEF ReceiveAudio, ReceiveEnd, Transcribe, Raise, LeaseStep
  <2>2. CASE InputEnds(s) \/ Sent(s) \/ Cancel(s)
    BY <1>1, <2>2 DEF InputEnds, Sent, Cancel, LeaseStep
  <2> QED
    BY <1>4, <2>1, <2>2 DEF Client
<1>5. ASSUME NEW u \in Uploads, Upload(u) \/ UploadThread(u) \/ Poster(u)
      PROVE  [CacheNext]_cacheVars
  <2>1. CASE Upload(u) \/ Poster(u)
    BY <2>1 DEF Upload, Poster, Spooled, Respond, Clean, RefuseUpload, Spool
  <2>2. CASE UploadThread(u)
    BY <1>1, <2>2 DEF UploadThread, ThreadAcquire, ThreadRelease, LeaseStep
  <2> QED
    BY <1>5, <2>1, <2>2
<1>6. ASSUME NEW r \in Requests, Thread(r) PROVE [CacheNext]_cacheVars
  BY <1>6 DEF Thread, Convert, Lock, Unlock
<1>7. CASE UNCHANGED vars
  BY <1>7 DEF vars
<1> QED
  BY <1>2, <1>3, <1>4, <1>5, <1>6, <1>7 DEF Next, Terminated

\* The service runs its cache as EngineManager specifies it, so what is proved
\* of the cache holds in the service (grpc_servicer.py:29, routes.py:47, 76).
THEOREM LeasesFollowCache == Spec => CacheSpec
<1>1. Init => CacheInit
  BY DEF Init
<1> QED
  BY <1>1, LeasesStep, PTL DEF Spec, CacheSpec

\* The counts are exact in the service (engine_manager.py:59-72).
THEOREM ServiceRefsMatchUsers == Spec => []RefsMatchUsers
BY LeasesFollowCache, RefsMatchUsersCorrect, PTL

\* The service keeps more models than it may only while it uses all of them but
\* one it has just loaded (engine_manager.py:118-132).
THEOREM ServiceOverCapacity == Spec => []OverCapacityInUse
BY LeasesFollowCache, OverCapacityCorrect, PTL

-----------------------------------------------------------------------------
(* The native lock.                                                        *)

Coroutine == {"opening", "reading", "transcribing", "writing",
              "receiving", "spooling", "cleaning", "done"}
ThreadStates == {"none", "acquiring", "converting", "locking", "native",
                 "ok", "refused", "failed", "missing"}

\* What TypeOK says of the variables the locks depend on.
CallTypes ==
    /\ CacheTypes
    /\ pc \in [Requests -> Coroutine]
    /\ thread \in [Requests -> ThreadStates]

\* A stream past opening holds its lease, and a thread past acquiring has, or
\* had, one: the instance it works on is settled.
Settled ==
    /\ \A s \in Streams : pc[s] \in {"reading", "transcribing", "writing"} =>
                              lease[s] = "using"
    /\ \A r \in Requests : thread[r] \notin {"none", "acquiring"} =>
                               lease[r] \in {"using", "done"}

\* Whoever is in the native call has locked its instance.
NativeLocked == \A r \in Requests : thread[r] = "native" => engine[r] \in locked

NativeInv == CallTypes /\ Settled /\ NativeLocked /\ NativeExclusive

\* What the steps of the cache do to a lease; none touches another request's.
LEMMA LeaseEffect ==
    ASSUME CacheTypes, NEW r \in Requests
    PROVE  /\ Hit(r) \/ Miss(r) \/ Insert(r) =>
                /\ lease[r] \in {"new", "loading"}
                /\ \E next \in {"loading", "loaded"} : lease' = [lease EXCEPT ![r] = next]
                /\ \A q \in Requests : q # r => engine'[q] = engine[q]
           /\ LoadFails(r) =>
                /\ lease[r] = "loading" /\ lease' = [lease EXCEPT ![r] = "done"]
                /\ engine' = engine
           /\ Pin(r) =>
                /\ lease[r] = "loaded" /\ lease' = [lease EXCEPT ![r] = "using"]
                /\ engine' = engine
           /\ LeaveUnpinned(r) =>
                /\ lease[r] = "loaded" /\ lease' = [lease EXCEPT ![r] = "done"]
                /\ engine' = engine
           /\ Release(r) =>
                /\ lease[r] = "using" /\ lease' = [lease EXCEPT ![r] = "done"]
                /\ engine' = engine
BY DEF CacheTypes, Hit, Miss, Insert, LoadFails, Pin, LeaveUnpinned, Release, leaseVars

\* The types of the cache are kept, as a consequence of the above.
LEMMA CacheTypesStep ==
    ASSUME Counted, [Next]_vars
    PROVE  Counted' /\ CacheTypes /\ CacheTypes'
BY LeasesStep, CountedStep DEF Counted

\* An action that leaves the leases alone, and moves no thread into the native
\* call, preserves it all, provided it keeps the streams where they have leases.
LEMMA NativeInvStep == Counted /\ NativeInv /\ [Next]_vars => NativeInv'
<1> SUFFICES ASSUME Counted, NativeInv, [Next]_vars
             PROVE  CallTypes' /\ Settled' /\ NativeLocked' /\ NativeExclusive'
  BY DEF NativeInv
<1> USE RequestKinds, LeaseEffect
<1> USE DEF NativeInv, CallTypes, Coroutine, ThreadStates, Settled, NativeLocked, NativeExclusive
<1>0. CacheTypes /\ CacheTypes'
  BY CacheTypesStep
<1>c. lease \in [Requests -> {"new", "loading", "loaded", "using", "done"}]
  BY <1>0 DEF CacheTypes
<1>1. CASE WarmUp
  BY <1>0, <1>1, <1>c DEF WarmUp, sttVars
<1>2. ASSUME NEW s \in Streams, Acquire(s) \/ AcquireFails(s) \/ Open(s)
      PROVE  CallTypes' /\ Settled' /\ NativeLocked' /\ NativeExclusive'
  BY <1>0, <1>2, <1>c DEF Acquire, AcquireFails, Open, sttVars
<1>3. ASSUME NEW s \in Streams, ReceiveAudio(s) \/ ReceiveEnd(s)
      PROVE  CallTypes' /\ Settled' /\ NativeLocked' /\ NativeExclusive'
  BY <1>0, <1>3, <1>c DEF ReceiveAudio, ReceiveEnd, Transcribe, Raise, cacheVars
<1>4. ASSUME NEW s \in Streams, InputEnds(s) \/ Answer(s) \/ Sent(s) \/ Fail(s) \/ Cancel(s)
      PROVE  CallTypes' /\ Settled' /\ NativeLocked' /\ NativeExclusive'
  BY <1>0, <1>4, <1>c DEF InputEnds, Answer, Sent, Fail, Raise, Cancel, cacheVars
<1>5. ASSUME NEW u \in Uploads, Upload(u) \/ Poster(u)
      PROVE  CallTypes' /\ Settled' /\ NativeLocked' /\ NativeExclusive'
  BY <1>0, <1>5, <1>c DEF Upload, Poster, RefuseUpload, Spool, Spooled, Respond, Clean, cacheVars
<1>6. ASSUME NEW u \in Uploads, UploadThread(u)
      PROVE  CallTypes' /\ Settled' /\ NativeLocked' /\ NativeExclusive'
  BY <1>0, <1>6, <1>c DEF UploadThread, ThreadAcquire, ThreadRelease, sttVars
<1>7. ASSUME NEW r \in Requests, Thread(r)
      PROVE  CallTypes' /\ Settled' /\ NativeLocked' /\ NativeExclusive'
  BY <1>0, <1>7, <1>c DEF Thread, Convert, Lock, Unlock, cacheVars
<1>8. CASE UNCHANGED vars
  BY <1>0, <1>8 DEF vars, cacheVars, sttVars
<1> QED
  BY <1>1, <1>2, <1>3, <1>4, <1>5, <1>6, <1>7, <1>8
     DEF Next, Stream, Client, Terminated

LEMMA NativeInvInit == Init => NativeInv
BY CountedInit, RequestKinds
   DEF Init, NativeInv, CallTypes, Coroutine, ThreadStates, Settled, NativeLocked,
       NativeExclusive, CacheInit, CacheTypes

\* No engine is ever in two native calls at a time, whatever threads cancelled
\* calls leave behind and whatever is evicted and loaded again meanwhile
\* (whispercpp_engine.py:43-50, 59).
THEOREM NativeExclusiveCorrect == Spec => []NativeExclusive
<1>1. Init => Counted /\ NativeInv
  BY CountedInit, NativeInvInit DEF Init
<1>2. Counted /\ NativeInv /\ [Next]_vars => (Counted /\ NativeInv)'
  BY CacheTypesStep, NativeInvStep
<1>3. NativeInv => NativeExclusive
  BY DEF NativeInv
<1> QED
  BY <1>1, <1>2, <1>3, PTL DEF Spec

-----------------------------------------------------------------------------
(* What an answered request leaves behind.                                 *)

\* Where a stream is, and what it may have there.
StreamClean ==
    \A s \in Streams :
        /\ pc[s] \in {"opening", "reading", "transcribing", "writing", "done"}
        /\ pc[s] = "opening" => lease[s] \in {"new", "loading", "loaded"}
        /\ pc[s] = "done" => lease[s] \in {"new", "done"}
        /\ pc[s] = "transcribing" \/ s \in cancelled \/ thread[s] = "none"

\* Where an upload is: its thread runs, and has a lease, only while it is
\* transcribed, and its file exists only from there on to the cleaning.
UploadClean ==
    \A u \in Uploads :
        /\ pc[u] \in {"receiving", "spooling", "transcribing", "cleaning", "done"}
        /\ pc[u] \in {"receiving", "spooling"} => lease[u] = "new"
        /\ pc[u] \in {"cleaning", "done"} => lease[u] \in {"new", "done"}
        /\ pc[u] # "transcribing" => thread[u] = "none"
        /\ pc[u] \in {"receiving", "done"} => u \notin temps

CleanInv == temps \subseteq Uploads /\ StreamClean /\ UploadClean

LEMMA CleanInvStep == Counted /\ NativeInv /\ CleanInv /\ [Next]_vars => CleanInv'
<1> SUFFICES ASSUME Counted, NativeInv, CleanInv, [Next]_vars
             PROVE  temps' \subseteq Uploads /\ StreamClean' /\ UploadClean'
  BY DEF CleanInv
<1> USE RequestKinds, LeaseEffect
<1> USE DEF CleanInv, StreamClean, UploadClean
<1>0. /\ CacheTypes /\ pc \in [Requests -> Coroutine] /\ thread \in [Requests -> ThreadStates]
      /\ lease \in [Requests -> {"new", "loading", "loaded", "using", "done"}]
      /\ Settled
  BY CacheTypesStep DEF NativeInv, CallTypes, CacheTypes
<1>1. CASE WarmUp
  BY <1>0, <1>1 DEF WarmUp, sttVars, callVars
<1>2. ASSUME NEW s \in Streams, Acquire(s) \/ AcquireFails(s) \/ Open(s)
      PROVE  temps' \subseteq Uploads /\ StreamClean' /\ UploadClean'
  BY <1>0, <1>2 DEF Acquire, AcquireFails, Open, sttVars, callVars
<1>3. ASSUME NEW s \in Streams, ReceiveAudio(s) \/ ReceiveEnd(s)
      PROVE  temps' \subseteq Uploads /\ StreamClean' /\ UploadClean'
  BY <1>0, <1>3 DEF ReceiveAudio, ReceiveEnd, Transcribe, Raise, cacheVars
<1>4. ASSUME NEW s \in Streams, InputEnds(s) \/ Answer(s) \/ Sent(s) \/ Fail(s)
      PROVE  temps' \subseteq Uploads /\ StreamClean' /\ UploadClean'
  BY <1>0, <1>4 DEF InputEnds, Answer, Sent, Fail, Raise, cacheVars, callVars
<1>5. ASSUME NEW s \in Streams, Cancel(s)
      PROVE  temps' \subseteq Uploads /\ StreamClean' /\ UploadClean'
  BY <1>0, <1>5 DEF Cancel, LoopFree, Acquiring, Settled, cacheVars
<1>6. ASSUME NEW u \in Uploads, Upload(u) \/ Poster(u)
      PROVE  temps' \subseteq Uploads /\ StreamClean' /\ UploadClean'
  BY <1>0, <1>6 DEF Upload, Poster, RefuseUpload, Spool, Spooled, Respond, Clean,
                    cacheVars, callVars
<1>7. ASSUME NEW u \in Uploads, UploadThread(u)
      PROVE  temps' \subseteq Uploads /\ StreamClean' /\ UploadClean'
  BY <1>0, <1>7 DEF UploadThread, ThreadAcquire, ThreadRelease, sttVars, callVars
<1>8. ASSUME NEW r \in Requests, Thread(r)
      PROVE  temps' \subseteq Uploads /\ StreamClean' /\ UploadClean'
  BY <1>0, <1>8 DEF Thread, Convert, Lock, Unlock, cacheVars, callVars
<1>9. CASE UNCHANGED vars
  BY <1>0, <1>9 DEF vars, cacheVars, sttVars, callVars
<1> QED
  BY <1>1, <1>2, <1>3, <1>4, <1>5, <1>6, <1>7, <1>8, <1>9
     DEF Next, Stream, Client, Terminated

\* An answered request has left no file, lease or thread behind, on whatever
\* path it ended (routes.py:60-63, grpc_servicer.py:29, engine_manager.py:62).
THEOREM AnsweredIsCleanCorrect == Spec => []AnsweredIsClean
<1>1. Init => Counted /\ NativeInv /\ CleanInv
  <2>1. Init => Counted /\ NativeInv
    BY CountedInit, NativeInvInit DEF Init
  <2>2. Init => CleanInv
    BY RequestKinds DEF Init, CacheInit, CleanInv, StreamClean, UploadClean
  <2> QED
    BY <2>1, <2>2
<1>2. Counted /\ NativeInv /\ CleanInv /\ [Next]_vars => (Counted /\ NativeInv /\ CleanInv)'
  BY CacheTypesStep, NativeInvStep, CleanInvStep
<1>3. CleanInv => AnsweredIsClean
  BY RequestKinds DEF CleanInv, StreamClean, UploadClean, AnsweredIsClean
<1> QED
  BY <1>1, <1>2, <1>3, PTL DEF Spec

-----------------------------------------------------------------------------
(* Types.                                                                  *)

Event == [type : EventTypes, audio : Audio]

\* What TypeOK says of the service's own variables, as functions.
SttTypes ==
    /\ taken \in [Streams -> 0..MaxMsg]
    /\ ended \subseteq Streams
    /\ buffer \in [Streams -> Audio]
    /\ job \in [Streams -> Audio]
    /\ locked \subseteq Requests
    /\ events \in [Streams -> Seq(Event)]
    /\ status \in [Uploads -> {"none", "ok", "bad", "unknown", "error"}]
    /\ cancelled \subseteq Streams

\* A buffer is below the window while its stream reads, and never beyond it.
WindowKept ==
    \A s \in Streams : /\ Len(buffer[s]) <= Window
                       /\ pc[s] \in {"opening", "reading"} => Len(buffer[s]) < Window

\* A thread past acquiring works on an instance; the thread of an upload that is
\* being transcribed is where its lease is.
ThreadHasEngine ==
    /\ \A r \in Requests : thread[r] \in {"converting", "locking", "native"} =>
          engine[r] # NoEngine
    /\ \A u \in Uploads : pc[u] = "transcribing" =>
          /\ thread[u] # "none"
          /\ thread[u] = "acquiring" => lease[u] # "done"
          /\ thread[u] \in {"converting", "locking", "native"} => lease[u] = "using"

SttInv == SttTypes /\ WindowKept /\ ThreadHasEngine
Base   == PinInv /\ OrderedDict /\ NativeInv /\ CleanInv

LEMMA BaseInit == Init => Base
<1>1. Init => Counted /\ OrderedDict /\ NativeInv
  BY CountedInit, OrderedDictInit, NativeInvInit DEF Init
<1>2. Init => CleanInv
  BY RequestKinds DEF Init, CacheInit, CleanInv, StreamClean, UploadClean
<1>3. Init => Progress /\ PinnedStaysLoaded
  BY DEF Init, CacheInit, Progress, PinnedStaysLoaded
<1> QED
  BY <1>1, <1>2, <1>3 DEF Base, PinInv

LEMMA BaseStep == Base /\ [Next]_vars => Base'
BY LeasesStep, PinInvStep, OrderedDictStep, NativeInvStep, CleanInvStep
   DEF Base, PinInv, Counted

\* What the proofs below use of all that.
LEMMA BaseFacts ==
    ASSUME Base
    PROVE  /\ CacheTypes /\ pc \in [Requests -> Coroutine] /\ thread \in [Requests -> ThreadStates]
           /\ lease \in [Requests -> {"new", "loading", "loaded", "using", "done"}]
           /\ engine \in [Requests -> Requests \cup {NoEngine}]
           /\ Settled /\ StreamClean /\ UploadClean /\ temps \subseteq Uploads
           /\ \A r \in Requests : lease[r] \in {"loaded", "using"} => engine[r] # NoEngine
BY DEF Base, PinInv, Counted, CacheTypes, NativeInv, CallTypes, CleanInv, Progress

LEMMA SttInvInit == Init => SttInv
<1> SUFFICES ASSUME Init PROVE SttTypes /\ WindowKept /\ ThreadHasEngine
  BY DEF SttInv
<1>1. <<>> \in Audio /\ <<>> \in Seq(Event) /\ Len(<<>>) = 0
  BY EmptySeq DEF Audio
<1>2. SttTypes
  BY <1>1, BoundsAssumption DEF Init, SttTypes
<1>3. WindowKept
  BY <1>1, BoundsAssumption DEF Init, WindowKept
<1>4. ThreadHasEngine
  BY RequestKinds DEF Init, ThreadHasEngine
<1> QED
  BY <1>2, <1>3, <1>4

\* An event is appended to those of its stream.
LEMMA YieldTypes ==
    ASSUME events \in [Streams -> Seq(Event)],
           NEW s \in Streams, NEW type \in EventTypes, NEW audio \in Audio,
           Yield(s, type, audio)
    PROVE  events' \in [Streams -> Seq(Event)]
<1>1. PICK event \in Event : event = [type |-> type, audio |-> audio]
  BY DEF Event
<1>2. PICK more \in Seq(Event) : more = Append(events[s], event)
  BY AppendProperties
<1>3. events' = [events EXCEPT ![s] = more]
  BY <1>1, <1>2 DEF Yield
<1> QED
  BY <1>3

\* The error that ends a stream.
LEMMA RaiseTypes ==
    ASSUME events \in [Streams -> Seq(Event)], NEW s \in Streams,
           Yield(s, "ERROR", <<>>) \/ Raise(s)
    PROVE  events' \in [Streams -> Seq(Event)]
<1>1. <<>> \in Audio /\ "ERROR" \in EventTypes
  BY EmptySeq DEF Audio, EventTypes
<1> QED
  BY <1>1, YieldTypes DEF Raise

\* Receiving a message appends it.
LEMMA Received ==
    ASSUME SttTypes, NEW s \in Streams, ReceiveAudio(s)
    PROVE  \E chunks \in Audio :
              /\ taken[s] + 1 \in 1..MaxMsg /\ pc[s] = "reading"
              /\ chunks = Append(buffer[s], taken[s] + 1) /\ Len(chunks) = Len(buffer[s]) + 1
              /\ taken' = [taken EXCEPT ![s] = taken[s] + 1]
              /\ buffer' = [buffer EXCEPT ![s] = chunks]
              /\ \/ Len(chunks) >= Window /\ Transcribe(s, chunks)
                 \/ Len(chunks) < Window /\ UNCHANGED <<cacheVars, pc, thread, job, events>>
              /\ UNCHANGED <<ended, locked, cancelled, temps, status>>
<1>1. taken'[s] = taken[s] + 1 /\ taken[s] + 1 \in 1..MaxMsg
  BY BoundsAssumption DEF ReceiveAudio, SttTypes
<1>2. PICK chunks \in Audio :
         chunks = Append(buffer[s], taken[s] + 1) /\ Len(chunks) = Len(buffer[s]) + 1
  <2>1. buffer[s] \in Seq(1..MaxMsg)
    BY DEF SttTypes, Audio
  <2>2. PICK number \in 1..MaxMsg : number = taken[s] + 1
    BY <1>1
  <2>3. /\ Append(buffer[s], number) \in Seq(1..MaxMsg)
        /\ Len(Append(buffer[s], number)) = Len(buffer[s]) + 1
    BY <2>1, AppendProperties
  <2> QED
    BY <2>2, <2>3 DEF Audio
<1>3. Len(chunks) \in Nat
  BY LenProperties DEF Audio
<1>4. /\ pc[s] = "reading" /\ taken' = [taken EXCEPT ![s] = taken[s] + 1]
      /\ UNCHANGED <<ended, locked, cancelled, temps, status>>
      /\ buffer' = [buffer EXCEPT ![s] = chunks]
      /\ IF Len(chunks) >= Window THEN Transcribe(s, chunks)
         ELSE UNCHANGED <<cacheVars, pc, thread, job, events>>
  BY <1>1, <1>2 DEF ReceiveAudio
<1>5. \/ Len(chunks) >= Window /\ Transcribe(s, chunks)
      \/ Len(chunks) < Window /\ UNCHANGED <<cacheVars, pc, thread, job, events>>
  BY <1>3, <1>4, BoundsAssumption
<1> QED
  BY <1>1, <1>2, <1>4, <1>5

LEMMA SttTypesStep == Base /\ SttInv /\ [Next]_vars => SttTypes'
<1> SUFFICES ASSUME Base, SttInv, [Next]_vars PROVE SttTypes'
  OBVIOUS
<1> USE DEF SttTypes
<1>0. SttTypes
  BY DEF SttInv
<1>1. CASE WarmUp
  BY <1>0, <1>1 DEF WarmUp, sttVars, callVars
<1>2. ASSUME NEW s \in Streams, Acquire(s) \/ Open(s) \/ InputEnds(s) \/ Cancel(s)
      PROVE  SttTypes'
  BY <1>0, <1>2 DEF Acquire, Open, InputEnds, Cancel, sttVars, callVars
<1>3. ASSUME NEW s \in Streams, AcquireFails(s) \/ Fail(s) PROVE SttTypes'
  BY <1>0, <1>3, RaiseTypes DEF AcquireFails, Fail
<1>4. ASSUME NEW s \in Streams, NEW chunks \in Audio, Transcribe(s, chunks)
      PROVE  events' \in [Streams -> Seq(Event)] /\ job' \in [Streams -> Audio]
  <2>1. CASE Raise(s) /\ job' = job
    BY <1>0, <2>1, RaiseTypes
  <2>2. CASE job' = [job EXCEPT ![s] = chunks] /\ events' = events
    BY <1>0, <2>2
  <2> QED
    BY <1>4, <2>1, <2>2 DEF Transcribe
<1>5. ASSUME NEW s \in Streams, ReceiveAudio(s) PROVE SttTypes'
  <2>1. PICK chunks \in Audio :
              /\ taken[s] + 1 \in 1..MaxMsg
              /\ taken' = [taken EXCEPT ![s] = taken[s] + 1]
              /\ buffer' = [buffer EXCEPT ![s] = chunks]
              /\ Transcribe(s, chunks) \/ UNCHANGED <<job, events>>
              /\ UNCHANGED <<ended, locked, cancelled, temps, status>>
    BY <1>0, <1>5, Received
  <2>2. events' \in [Streams -> Seq(Event)] /\ job' \in [Streams -> Audio]
    BY <1>0, <1>4, <2>1
  <2>3. 1..MaxMsg \subseteq 0..MaxMsg
    BY BoundsAssumption
  <2> QED
    BY <1>0, <2>1, <2>2, <2>3
<1>6. ASSUME NEW s \in Streams, ReceiveEnd(s) PROVE SttTypes'
  <2>1. events' \in [Streams -> Seq(Event)] /\ job' \in [Streams -> Audio]
    BY <1>0, <1>4, <1>6 DEF ReceiveEnd
  <2> QED
    BY <1>0, <1>6, <2>1 DEF ReceiveEnd
<1>7. ASSUME NEW s \in Streams, Answer(s) PROVE SttTypes'
  <2>1. events' \in [Streams -> Seq(Event)]
    BY <1>0, <1>7, YieldTypes DEF Answer, EventTypes
  <2> QED
    BY <1>0, <1>7, <2>1 DEF Answer
<1>8. ASSUME NEW s \in Streams, Sent(s) PROVE SttTypes'
  BY <1>0, <1>8, EmptySeq DEF Sent, Audio
<1>9. ASSUME NEW u \in Uploads, Spooled(u) \/ Clean(u) \/ Poster(u) PROVE SttTypes'
  BY <1>0, <1>9 DEF Poster, RefuseUpload, Spool, Spooled, Clean, callVars
<1>10. ASSUME NEW u \in Uploads, Respond(u) PROVE SttTypes'
  <2>1. thread[u] \in {"ok", "refused", "missing", "failed"}
    <3>1. thread[u] \in ThreadStates
      BY BaseFacts, RequestKinds
    <3>2. thread[u] \notin {"none", "acquiring", "converting", "locking", "native"}
      BY <1>10 DEF SttInv, ThreadHasEngine, Respond
    <3> QED
      BY <3>1, <3>2 DEF ThreadStates
  <2> QED
    BY <1>0, <1>10, <2>1 DEF Respond, callVars
<1>11. ASSUME NEW u \in Uploads, UploadThread(u) PROVE SttTypes'
  BY <1>0, <1>11 DEF UploadThread, ThreadAcquire, ThreadRelease, sttVars, callVars
<1>12. ASSUME NEW r \in Requests, Thread(r) PROVE SttTypes'
  <2>1. thread[r] \in {"locking", "native"} => engine[r] \in Requests
    BY BaseFacts DEF SttInv, ThreadHasEngine
  <2> QED
    BY <1>0, <1>12, <2>1 DEF Thread, Convert, Lock, Unlock, callVars
<1>13. CASE UNCHANGED vars
  BY <1>0, <1>13 DEF vars, sttVars, callVars
<1> QED
  BY <1>1, <1>2, <1>3, <1>5, <1>6, <1>7, <1>8, <1>9, <1>10, <1>11, <1>12, <1>13
     DEF Next, Stream, Upload, Client, Terminated

LEMMA WindowKeptStep == Base /\ SttInv /\ [Next]_vars => WindowKept'
<1> SUFFICES ASSUME Base, SttInv, [Next]_vars PROVE WindowKept'
  OBVIOUS
<1> USE RequestKinds DEF WindowKept
<1>0. /\ SttTypes /\ WindowKept /\ pc \in [Requests -> Coroutine]
      /\ buffer \in [Streams -> Audio] /\ StreamClean
  BY BaseFacts DEF SttInv, SttTypes
<1>1. ASSUME buffer' = buffer,
             \A s \in Streams : pc'[s] \in {"opening", "reading"} => pc[s] \in {"opening", "reading"}
      PROVE  WindowKept'
  BY <1>0, <1>1
<1>2. ASSUME NEW s \in Streams, Acquire(s) \/ Open(s) \/ InputEnds(s) \/ Cancel(s) \/ AcquireFails(s)
                                  \/ Fail(s) \/ Answer(s)
      PROVE  WindowKept'
  BY <1>0, <1>1, <1>2
     DEF Acquire, Open, InputEnds, Cancel, AcquireFails, Fail, Raise, Answer, sttVars, callVars
<1>3. ASSUME NEW s \in Streams, NEW chunks, Transcribe(s, chunks)
      PROVE  /\ pc'[s] \in {"transcribing", "done"}
             /\ \A t \in Streams : t # s => pc'[t] = pc[t]
  BY <1>0, <1>3 DEF Transcribe, Raise
<1>4. ASSUME NEW s \in Streams, ReceiveAudio(s) PROVE WindowKept'
  <2>1. PICK chunks \in Audio :
              /\ pc[s] = "reading"
              /\ Len(chunks) = Len(buffer[s]) + 1
              /\ buffer' = [buffer EXCEPT ![s] = chunks]
              /\ \/ Len(chunks) >= Window /\ Transcribe(s, chunks)
                 \/ Len(chunks) < Window /\ UNCHANGED pc
    BY <1>0, <1>4, Received
  <2>2. Len(buffer[s]) < Window /\ Len(buffer[s]) \in Nat
    BY <1>0, <2>1, LenProperties DEF Audio
  <2>3. Len(chunks) <= Window /\ Len(chunks) \in Nat
    BY <2>1, <2>2, BoundsAssumption
  <2>4. /\ Len(chunks) < Window \/ pc'[s] \notin {"opening", "reading"}
        /\ \A t \in Streams : t # s => pc'[t] = pc[t]
    BY <1>3, <2>1
  <2> QED
    BY <1>0, <2>1, <2>3, <2>4
<1>5. ASSUME NEW s \in Streams, ReceiveEnd(s) PROVE WindowKept'
  BY <1>0, <1>1, <1>3, <1>5 DEF ReceiveEnd
<1>6. ASSUME NEW s \in Streams, Sent(s) PROVE WindowKept'
  <2>1. Len(<<>>) = 0
    BY EmptySeq
  <2>2. \A t \in Streams : t # s => pc'[t] = pc[t] /\ buffer'[t] = buffer[t]
    BY <1>0, <1>6 DEF Sent
  <2>3. buffer'[s] = <<>>
    BY <1>0, <1>6 DEF Sent
  <2> QED
    BY <1>0, <2>1, <2>2, <2>3, BoundsAssumption
<1>7. ASSUME NEW u \in Uploads, Upload(u) \/ Poster(u) \/ UploadThread(u) PROVE WindowKept'
  BY <1>0, <1>1, <1>7 DEF Upload, Poster, RefuseUpload, Spool, Spooled, Respond, Clean,
     UploadThread, ThreadAcquire, ThreadRelease, sttVars, callVars
<1>8. CASE WarmUp \/ UNCHANGED vars
  BY <1>0, <1>1, <1>8 DEF WarmUp, vars, sttVars, callVars
<1>9. ASSUME NEW r \in Requests, Thread(r) PROVE WindowKept'
  BY <1>0, <1>1, <1>9 DEF Thread, Convert, Lock, Unlock, callVars
<1> QED
  BY <1>2, <1>4, <1>5, <1>6, <1>7, <1>8, <1>9 DEF Next, Stream, Client, Terminated

LEMMA ThreadHasEngineStep == Base /\ SttInv /\ [Next]_vars => ThreadHasEngine'
<1> SUFFICES ASSUME Base, SttInv, [Next]_vars PROVE ThreadHasEngine'
  OBVIOUS
<1> USE RequestKinds, LeaseEffect DEF ThreadHasEngine
<1>0. /\ CacheTypes /\ pc \in [Requests -> Coroutine] /\ thread \in [Requests -> ThreadStates]
      /\ lease \in [Requests -> {"new", "loading", "loaded", "using", "done"}]
      /\ Settled /\ StreamClean /\ UploadClean /\ ThreadHasEngine
      /\ \A r \in Requests : lease[r] \in {"loaded", "using"} => engine[r] # NoEngine
  BY BaseFacts DEF SttInv
<1>1. CASE WarmUp
  BY <1>0, <1>1 DEF WarmUp, sttVars, Settled
<1>2. ASSUME NEW s \in Streams, Acquire(s) \/ AcquireFails(s) \/ Open(s) PROVE ThreadHasEngine'
  BY <1>0, <1>2 DEF Acquire, AcquireFails, Open, sttVars, Settled, StreamClean
<1>3. ASSUME NEW s \in Streams, ReceiveAudio(s) \/ ReceiveEnd(s) PROVE ThreadHasEngine'
  BY <1>0, <1>3 DEF ReceiveAudio, ReceiveEnd, Transcribe, Raise, cacheVars, Settled
<1>4. ASSUME NEW s \in Streams, InputEnds(s) \/ Answer(s) \/ Sent(s) \/ Fail(s) \/ Cancel(s)
      PROVE  ThreadHasEngine'
  BY <1>0, <1>4 DEF InputEnds, Answer, Sent, Fail, Raise, Cancel, cacheVars
<1>5. ASSUME NEW u \in Uploads, Upload(u) \/ Poster(u) PROVE ThreadHasEngine'
  BY <1>0, <1>5 DEF Upload, Poster, RefuseUpload, Spool, Spooled, Respond, Clean, cacheVars, UploadClean
<1>6. ASSUME NEW u \in Uploads, UploadThread(u) PROVE ThreadHasEngine'
  BY <1>0, <1>6 DEF UploadThread, ThreadAcquire, ThreadRelease, sttVars, UploadClean
<1>7. ASSUME NEW r \in Requests, Thread(r) PROVE ThreadHasEngine'
  BY <1>0, <1>7 DEF Thread, Convert, Lock, Unlock, cacheVars
<1>8. CASE UNCHANGED vars
  BY <1>0, <1>8 DEF vars, cacheVars, sttVars
<1> QED
  BY <1>1, <1>2, <1>3, <1>4, <1>5, <1>6, <1>7, <1>8 DEF Next, Stream, Client, Terminated

\* Every variable keeps its type: no buffer grows past the window, no status is
\* taken from a thread that has not finished, and the cache keeps its order
\* (grpc_servicer.py:31-44, routes.py:38-63).
THEOREM TypeCorrect == Spec => []TypeOK
<1>1. Init => Base /\ SttInv
  BY BaseInit, SttInvInit
<1>2. Base /\ SttInv /\ [Next]_vars => (Base /\ SttInv)'
  BY BaseStep, SttTypesStep, WindowKeptStep, ThreadHasEngineStep DEF SttInv
<1>3. Base /\ SttInv => TypeOK
  <2> SUFFICES ASSUME Base, SttInv PROVE TypeOK
    OBVIOUS
  <2>1. CacheTypeOK
    BY BaseFacts DEF Base, CacheTypes, CacheTypeOK
  <2>2. SttTypes /\ WindowKept
    BY DEF SttInv
  <2> QED
    BY <2>1, <2>2, BaseFacts
       DEF Coroutine, ThreadStates, SttTypes, WindowKept, Event, TypeOK
<1> QED
  BY <1>1, <1>2, <1>3, PTL DEF Spec

-----------------------------------------------------------------------------
(* The audio of a stream.                                                  *)

\* How the concatenations of the first 1, 2, ... sequences follow each other.
Flattens(flat, seqs) ==
    /\ flat[1] = seqs[1]
    /\ \A i \in 1..Len(seqs) : i # 1 => flat[i] = flat[i - 1] \o seqs[i]

\* FlattenSeq is what its recursive definition says.
LEMMA FlattenEquation ==
    ASSUME NEW S, NEW seqs \in Seq(Seq(S)), seqs # <<>>
    PROVE  \E flat \in [1..Len(seqs) -> Seq(S)] :
              FlattenSeq(seqs) = flat[Len(seqs)] /\ Flattens(flat, seqs)
<1> DEFINE n == Len(seqs)
           T == Seq(S)
           IsFlat(f) == f = [i \in 1..n |-> IF i = 1 THEN seqs[i] ELSE f[i - 1] \o seqs[i]]
           Next1(i, before) == before \o seqs[i]
           Runs(k, f) == f[1] = seqs[1] /\ \A i \in 1..k : i # 1 => f[i] = Next1(i, f[i - 1])
<1>1. n \in Nat \ {0} /\ n # 0 /\ 1 \in 1..n /\ \A i \in 1..n : seqs[i] \in T
  BY EmptySeq
<1>2. \A i \in 1..n : \A before \in T : Next1(i, before) \in T
  BY <1>1, ConcatProperties
<1>3. PICK f \in [1..n -> T] : Runs(n, f)
  <2> DEFINE D == {k \in Nat : k + 1 <= n => \E f \in [1..(k + 1) -> T] : Runs(k + 1, f)}
  <2>1. 0 \in D
    <3>1. [i \in 1..1 |-> seqs[1]] \in [1..1 -> T]
      BY <1>1
    <3>2. Runs(1, [i \in 1..1 |-> seqs[1]])
      OBVIOUS
    <3>3. 0 + 1 = 1
      OBVIOUS
    <3> HIDE DEF Runs, n, T
    <3> QED
      BY <3>1, <3>2, <3>3
  <2>2. ASSUME NEW j \in Nat, j \in D PROVE j + 1 \in D
    <3> HIDE DEF Next1, Runs, n, T
    <3> DEFINE k == j + 1
    <3> SUFFICES ASSUME k + 1 <= n PROVE \E f \in [1..(k + 1) -> T] : Runs(k + 1, f)
      OBVIOUS
    <3>1. PICK f \in [1..k -> T] : Runs(k, f)
      BY <1>1, <2>2
    <3> DEFINE g == [i \in 1..(k + 1) |-> IF i <= k THEN f[i] ELSE Next1(k + 1, f[k])]
    <3>2. Next1(k + 1, f[k]) \in T
      BY <1>1, <1>2
    <3>3. g \in [1..(k + 1) -> T]
      BY <3>1, <3>2
    <3>4. g[1] = seqs[1]
      BY <3>1 DEF Runs
    <3>5. \A i \in 1..(k + 1) : i # 1 => g[i] = Next1(i, g[i - 1])
      <4>1. \A i \in 1..(k + 1) : i <= k \/ i = k + 1
        OBVIOUS
      <4>2. \A i \in 1..(k + 1) : g[i] = IF i <= k THEN f[i] ELSE Next1(k + 1, f[k])
        OBVIOUS
      <4> HIDE DEF g
      <4> QED
        BY <3>1, <4>1, <4>2 DEF Runs
    <3>6. Runs(k + 1, g)
      BY <3>4, <3>5 DEF Runs
    <3> HIDE DEF g
    <3> QED
      BY <3>3, <3>6
  <2> HIDE DEF D
  <2>3. Nat \subseteq D
    BY <2>1, <2>2, Induction
  <2>4. n - 1 \in Nat /\ (n - 1) + 1 = n
    BY <1>1
  <2> HIDE DEF Runs, n, T
  <2> QED
    BY <2>3, <2>4 DEF D
<1>4. IsFlat(f)
  <2> HIDE DEF n, T
  <2> QED
    BY <1>3
<1>5. PICK g : g = CHOOSE h : IsFlat(h)
  OBVIOUS
<1>6. IsFlat(g)
  BY <1>4, <1>5
<1>7. FlattenSeq(seqs) = g[n]
  BY <1>1, <1>5 DEF FlattenSeq
<1>8. Flattens(g, seqs)
  BY <1>1, <1>6 DEF Flattens
<1>9. \A k \in Nat : k + 1 <= n => g[k + 1] \in T
  <2> DEFINE D == {k \in Nat : k + 1 <= n => g[k + 1] \in T}
  <2>1. 0 \in D
    BY <1>1, <1>8 DEF Flattens
  <2>2. ASSUME NEW k \in Nat, k \in D PROVE k + 1 \in D
    <3> SUFFICES ASSUME k + 2 <= n PROVE g[k + 2] \in T
      BY <1>1
    <3>1. k + 2 \in 1..n /\ k + 2 # 1 /\ g[k + 1] \in T /\ (k + 2) - 1 = k + 1
      BY <1>1, <2>2
    <3>2. g[k + 2] = Next1(k + 2, g[k + 1])
      BY <1>8, <3>1 DEF Flattens
    <3> QED
      BY <1>2, <3>1, <3>2
  <2> HIDE DEF D
  <2>3. Nat \subseteq D
    BY <2>1, <2>2, Induction
  <2> QED
    BY <2>3 DEF D
<1>10. g \in [1..n -> T]
  <2>1. g = [i \in 1..n |-> g[i]]
    BY <1>6
  <2>2. \A i \in 1..n : g[i] \in T
    <3> SUFFICES ASSUME NEW i \in 1..n PROVE g[i] \in T
      OBVIOUS
    <3>1. i - 1 \in Nat /\ (i - 1) + 1 = i /\ i <= n
      BY <1>1
    <3> QED
      BY <1>9, <3>1
  <2> QED
    BY <2>1, <2>2
<1> QED
  BY <1>7, <1>8, <1>10

\* Flattening one more sequence appends it.
LEMMA FlattenAppend ==
    ASSUME NEW S, NEW seqs \in Seq(Seq(S)), NEW seq \in Seq(S)
    PROVE  /\ FlattenSeq(seqs) \in Seq(S)
           /\ FlattenSeq(Append(seqs, seq)) = FlattenSeq(seqs) \o seq
<1>1. PICK more \in Seq(Seq(S)) : more = Append(seqs, seq) /\ more # <<>>
  BY AppendProperties
<1>2. PICK n \in Nat : n = Len(seqs)
  OBVIOUS
<1>3. /\ Len(more) = n + 1 /\ more[n + 1] = seq
      /\ \A i \in 1..n : more[i] = seqs[i]
  BY <1>1, <1>2
<1>4. PICK all \in [1..Len(more) -> Seq(S)] :
         FlattenSeq(more) = all[Len(more)] /\ Flattens(all, more)
  BY <1>1, FlattenEquation
<1>5. CASE seqs = <<>>
  <2>1. n = 0 /\ FlattenSeq(seqs) = <<>>
    BY <1>2, <1>5 DEF FlattenSeq
  <2>2. FlattenSeq(more) = seq
    BY <1>3, <1>4, <2>1 DEF Flattens
  <2>3. <<>> \o seq = seq
    BY ConcatEmptySeq
  <2> QED
    BY <1>1, <2>1, <2>2, <2>3
<1>6. CASE seqs # <<>>
  <2>1. n # 0
    BY <1>2, <1>6, EmptySeq
  <2>2. PICK flat \in [1..Len(seqs) -> Seq(S)] :
           FlattenSeq(seqs) = flat[Len(seqs)] /\ Flattens(flat, seqs)
    BY <1>6, FlattenEquation
  <2> DEFINE D == {k \in Nat : k + 1 <= n => all[k + 1] = flat[k + 1]}
  <2>3. 0 \in D
    BY <1>2, <1>3, <1>4, <2>1, <2>2 DEF Flattens
  <2>4. ASSUME NEW k \in Nat, k \in D PROVE k + 1 \in D
    <3> SUFFICES ASSUME k + 2 <= n PROVE all[k + 2] = flat[k + 2]
      OBVIOUS
    <3>1. /\ k + 2 \in 1..Len(more) /\ k + 2 \in 1..Len(seqs) /\ k + 2 # 1
          /\ (k + 2) - 1 = k + 1 /\ k + 2 \in 1..n /\ k + 1 <= n
      BY <1>2, <1>3
    <3>4. all[k + 1] = flat[k + 1]
      BY <2>4, <3>1
    <3>2. all[k + 2] = all[k + 1] \o more[k + 2] /\ flat[k + 2] = flat[k + 1] \o seqs[k + 2]
      BY <1>4, <2>2, <3>1 DEF Flattens
    <3>3. more[k + 2] = seqs[k + 2]
      BY <1>3, <3>1
    <3> QED
      BY <3>2, <3>3, <3>4
  <2> HIDE DEF D
  <2>5. Nat \subseteq D
    BY <2>3, <2>4, Induction
  <2>6. all[n] = flat[n]
    <3>1. PICK k \in Nat : k + 1 = n
      BY <2>1
    <3>2. k \in D
      BY <2>5
    <3> QED
      BY <3>1, <3>2 DEF D
  <2>7. all[n + 1] = all[n] \o more[n + 1]
    <3>1. n + 1 \in 1..Len(more) /\ n + 1 # 1 /\ (n + 1) - 1 = n
      BY <1>3, <2>1
    <3> QED
      BY <1>4, <3>1 DEF Flattens
  <2>8. flat[n] \in Seq(S)
    <3>1. n \in 1..Len(seqs)
      BY <1>2, <2>1
    <3> QED
      BY <3>1
  <2> QED
    BY <1>1, <1>2, <1>3, <1>4, <2>2, <2>6, <2>7, <2>8
<1> QED
  BY <1>5, <1>6

Parts(stream) == [i \in DOMAIN stream |-> stream[i].audio]

\* One more event is one more part.
LEMMA PartsAppend ==
    ASSUME NEW stream \in Seq(Event), NEW event \in Event
    PROVE  /\ Parts(stream) \in Seq(Audio)
           /\ Parts(Append(stream, event)) = Append(Parts(stream), event.audio)
<1>1. PICK n \in Nat : n = Len(stream) /\ DOMAIN stream = 1..n
  OBVIOUS
<1>2. \A i \in 1..n : stream[i].audio \in Audio
  <2>1. \A i \in 1..n : stream[i] \in Event
    BY <1>1
  <2> QED
    BY <2>1 DEF Event
<1>3. Parts(stream) \in [1..n -> Audio]
  BY <1>1, <1>2 DEF Parts
<1>4. Parts(stream) \in Seq(Audio) /\ Len(Parts(stream)) = n
  BY <1>3, SeqDef
<1>5. PICK more \in Seq(Event) : more = Append(stream, event)
  BY AppendProperties
<1>6. /\ DOMAIN more = 1..(n + 1) /\ more[n + 1] = event
      /\ \A i \in 1..n : more[i] = stream[i]
  BY <1>1, <1>5
<1>7. PICK all \in Seq(Audio) : all = Append(Parts(stream), event.audio)
  BY <1>4, AppendProperties DEF Event
<1>8. /\ DOMAIN all = 1..(n + 1) /\ all[n + 1] = event.audio
      /\ \A i \in 1..n : all[i] = stream[i].audio
  BY <1>1, <1>4, <1>7 DEF Parts
<1>9. \A i \in 1..(n + 1) : i \in 1..n \/ i = n + 1
  OBVIOUS
<1>10. Parts(more) = [i \in 1..(n + 1) |-> more[i].audio]
  BY <1>6 DEF Parts
<1>11. all = [i \in 1..(n + 1) |-> all[i]]
  BY <1>8
<1>12. \A i \in 1..(n + 1) : all[i] = more[i].audio
  BY <1>6, <1>8, <1>9
<1>13. Parts(more) = all
  BY <1>10, <1>11, <1>12
<1> QED
  BY <1>4, <1>5, <1>7, <1>13

\* An event adds its audio to what was transcribed in its stream.
LEMMA TranscribedYield ==
    ASSUME events \in [Streams -> Seq(Event)],
           NEW s \in Streams, NEW type \in EventTypes, NEW audio \in Audio,
           Yield(s, type, audio)
    PROVE  /\ Transcribed(s) \in Audio
           /\ Transcribed(s)' = Transcribed(s) \o audio
           /\ Failed(s)' <=> Failed(s) \/ type = "ERROR"
           /\ \A t \in Streams : t # s => events'[t] = events[t]
<1>1. PICK event \in Event : event = [type |-> type, audio |-> audio]
  BY DEF Event
<1>2. PICK stream \in Seq(Event) : stream = events[s]
  OBVIOUS
<1>3. events'[s] = Append(stream, event)
  BY <1>1, <1>2 DEF Yield
<1>4. Transcribed(s) = FlattenSeq(Parts(stream)) /\ Parts(stream) \in Seq(Audio)
  BY <1>2, PartsAppend DEF Transcribed, Parts
<1>5. Transcribed(s)' = FlattenSeq(Append(Parts(stream), audio))
  <2>1. Transcribed(s)' = FlattenSeq(Parts(events'[s]))
    BY DEF Transcribed, Parts
  <2>2. Parts(Append(stream, event)) = Append(Parts(stream), audio)
    BY <1>1, PartsAppend
  <2> QED
    BY <1>3, <2>1, <2>2
<1>6. /\ FlattenSeq(Parts(stream)) \in Seq(1..MaxMsg)
      /\ FlattenSeq(Append(Parts(stream), audio)) = FlattenSeq(Parts(stream)) \o audio
  BY <1>4, FlattenAppend DEF Audio
<1>7. Failed(s)' <=> Failed(s) \/ type = "ERROR"
  <2>1. PICK n \in Nat : n = Len(stream) /\ DOMAIN stream = 1..n
    OBVIOUS
  <2>2. /\ DOMAIN events'[s] = 1..(n + 1) /\ events'[s][n + 1].type = type
        /\ \A i \in 1..n : events'[s][i].type = stream[i].type
    BY <1>1, <1>3, <2>1
  <2>3. \A i \in 1..(n + 1) : i \in 1..n \/ i = n + 1
    OBVIOUS
  <2>4. 1..n \subseteq 1..(n + 1) /\ n + 1 \in 1..(n + 1)
    OBVIOUS
  <2> QED
    BY <1>2, <2>1, <2>2, <2>3, <2>4 DEF Failed
<1>8. \A t \in Streams : t # s => events'[t] = events[t]
  BY DEF Yield
<1> QED
  BY <1>4, <1>5, <1>6, <1>7, <1>8 DEF Audio

\* What a thread transcribes is the buffer, which no one touches meanwhile.
JobIsBuffer == \A s \in Streams : pc[s] = "transcribing" => job[s] = buffer[s]

Accounted(s) == ~Failed(s) /\ s \notin cancelled =>
    Transcribed(s) \o (IF pc[s] = "writing" THEN <<>> ELSE buffer[s]) = [i \in 1..taken[s] |-> i]

AudioInv == JobIsBuffer /\ AudioAccounted

\* A stream none of whose variables a step changes.
Same(s) == /\ taken'[s] = taken[s] /\ buffer'[s] = buffer[s] /\ events'[s] = events[s]
           /\ s \in cancelled => s \in cancelled'
           /\ (pc'[s] = "writing") = (pc[s] = "writing")
           /\ pc'[s] = "transcribing" => pc[s] = "transcribing" /\ job'[s] = job[s]

LEMMA SameAccounted ==
    ASSUME AudioInv, NEW s \in Streams, Same(s)
    PROVE  Accounted(s)' /\ (pc'[s] = "transcribing" => job'[s] = buffer'[s])
<1>1. Transcribed(s)' = Transcribed(s) /\ Failed(s)' = Failed(s)
  BY DEF Same, Transcribed, Failed
<1>2. Accounted(s)
  BY DEF AudioInv, AudioAccounted, Accounted
<1> QED
  BY <1>1, <1>2 DEF Same, Accounted, AudioInv, JobIsBuffer

LEMMA ConcatAppend ==
    ASSUME NEW S, NEW left \in Seq(S), NEW right \in Seq(S), NEW elt \in S
    PROVE  left \o Append(right, elt) = Append(left \o right, elt)
<1>1. <<elt>> \in Seq(S) /\ left \o right \in Seq(S)
  BY ConcatProperties
<1>2. Append(right, elt) = right \o <<elt>> /\ Append(left \o right, elt) = (left \o right) \o <<elt>>
  BY <1>1, AppendIsConcat
<1> QED
  BY <1>1, <1>2, ConcatAssociative

\* One more number.
LEMMA CountOn ==
    ASSUME NEW n \in Nat
    PROVE  Append([i \in 1..n |-> i], n + 1) = [i \in 1..(n + 1) |-> i]
<1>1. PICK some \in Seq(Nat) : some = [i \in 1..n |-> i] /\ Len(some) = n
  <2>1. PICK some : some = [i \in 1..n |-> i]
    OBVIOUS
  <2>2. some \in [1..n -> Nat]
    BY <2>1
  <2>3. some \in Seq(Nat)
    BY <2>2, SeqDef
  <2> QED
    BY <2>1, <2>2, <2>3, LenProperties
<1>2. PICK more \in Seq(Nat) : more = Append(some, n + 1)
  <2>1. PICK next \in Nat : next = n + 1
    OBVIOUS
  <2> QED
    BY <2>1, AppendProperties
<1>3. DOMAIN more = 1..(n + 1) /\ \A i \in 1..(n + 1) : more[i] = i
  BY <1>1, <1>2
<1> QED
  BY <1>1, <1>2, <1>3

\* The steps that receive, transcribe and answer.
LEMMA StreamAccounted ==
    ASSUME Base, SttInv, AudioInv, NEW s \in Streams,
           ReceiveAudio(s) \/ ReceiveEnd(s) \/ Answer(s) \/ Sent(s)
    PROVE  Accounted(s)' /\ (pc'[s] = "transcribing" => job'[s] = buffer'[s])
<1> DEFINE Numbers(n) == [i \in 1..n |-> i]
<1>0. /\ SttTypes /\ pc \in [Requests -> Coroutine] /\ thread \in [Requests -> ThreadStates]
      /\ buffer[s] \in Seq(1..MaxMsg) /\ job[s] \in Seq(1..MaxMsg)
      /\ events \in [Streams -> Seq(Event)] /\ s \in Requests
      /\ taken[s] \in Nat
  BY BaseFacts, RequestKinds DEF SttInv, SttTypes, Audio
<1>1. Transcribed(s) \in Seq(1..MaxMsg)
  <2>1. PICK stream \in Seq(Event) : stream = events[s]
    BY <1>0
  <2>2. PICK event \in Event : event.audio = <<>>
    <3>1. [type |-> "ERROR", audio |-> <<>>] \in Event
      BY EmptySeq DEF Event, EventTypes, Audio
    <3> QED
      BY <3>1
  <2>3. Parts(stream) \in Seq(Seq(1..MaxMsg))
    BY PartsAppend DEF Audio
  <2>4. <<>> \in Seq(1..MaxMsg)
    OBVIOUS
  <2>5. FlattenSeq(Parts(stream)) \in Seq(1..MaxMsg)
    BY <2>3, <2>4, FlattenAppend
  <2> QED
    BY <2>1, <2>5 DEF Transcribed, Parts
<1>2. Accounted(s) /\ (pc[s] = "transcribing" => job[s] = buffer[s])
  BY DEF AudioInv, AudioAccounted, Accounted, JobIsBuffer
<1>3. \A n \in Nat : Numbers(n) = [i \in 1..n |-> i] /\ Append(Numbers(n), n + 1) = Numbers(n + 1)
  BY CountOn
<1> HIDE DEF Numbers
<1>4. ASSUME ReceiveAudio(s)
      PROVE  Accounted(s)' /\ (pc'[s] = "transcribing" => job'[s] = buffer'[s])
  <2>1. PICK chunks \in Audio :
              /\ taken[s] + 1 \in 1..MaxMsg /\ pc[s] = "reading"
              /\ chunks = Append(buffer[s], taken[s] + 1)
              /\ taken' = [taken EXCEPT ![s] = taken[s] + 1]
              /\ buffer' = [buffer EXCEPT ![s] = chunks]
              /\ \/ Transcribe(s, chunks)
                 \/ UNCHANGED <<cacheVars, pc, thread, job, events>>
              /\ UNCHANGED <<ended, locked, cancelled, temps, status>>
    BY <1>0, <1>4, Received
  <2>2. taken'[s] = taken[s] + 1 /\ buffer'[s] = chunks
    BY <1>0, <2>1 DEF SttTypes
  <2>3. CASE Raise(s) /\ UNCHANGED <<thread, job>>
    <3>1. Failed(s)'
      BY <1>0, <2>3, TranscribedYield, EmptySeq DEF Raise, EventTypes, Audio
    <3>2. pc'[s] # "transcribing"
      BY <1>0, <2>3 DEF Raise
    <3> QED
      BY <3>1, <3>2 DEF Accounted
  <2>4. CASE events' = events /\ pc'[s] # "writing" /\ (pc'[s] = "transcribing" => job'[s] = chunks)
    <3>1. Transcribed(s)' = Transcribed(s) /\ (Failed(s)' <=> Failed(s))
      BY <2>4 DEF Transcribed, Failed
    <3>2. Transcribed(s) \o Append(buffer[s], taken[s] + 1) =
             Append(Transcribed(s) \o buffer[s], taken[s] + 1)
      <4>1. PICK next \in 1..MaxMsg : next = taken[s] + 1
        BY <2>1
      <4>2. PICK left \in Seq(1..MaxMsg) : left = Transcribed(s)
        BY <1>1
      <4>3. PICK right \in Seq(1..MaxMsg) : right = buffer[s]
        BY <1>0
      <4>4. left \o Append(right, next) = Append(left \o right, next)
        BY ConcatAppend
      <4> QED
        BY <4>1, <4>2, <4>3, <4>4
    <3>3. ~Failed(s) /\ s \notin cancelled => Transcribed(s) \o buffer[s] = Numbers(taken[s])
      BY <1>0, <1>2, <1>3, <2>1 DEF Accounted
    <3>4. ~Failed(s) /\ s \notin cancelled => Transcribed(s) \o chunks = Numbers(taken[s] + 1)
      BY <1>0, <1>3, <2>1, <3>2, <3>3
    <3>5. Numbers(taken[s] + 1) = [i \in 1..(taken[s] + 1) |-> i]
      <4>1. PICK n \in Nat : n = taken[s] + 1
        BY <1>0
      <4> QED
        BY <1>3, <4>1
    <3> QED
      BY <2>1, <2>2, <2>4, <3>1, <3>4, <3>5 DEF Accounted
  <2>5. CASE Transcribe(s, chunks)
    <3>1. \/ Raise(s) /\ UNCHANGED <<thread, job>>
          \/ events' = events /\ pc'[s] = "transcribing" /\ job'[s] = chunks
      BY <1>0, <2>5 DEF Transcribe, SttTypes
    <3> QED
      BY <2>3, <2>4, <3>1
  <2>6. CASE UNCHANGED <<cacheVars, pc, thread, job, events>>
    BY <2>1, <2>4, <2>6
  <2> QED
    BY <2>1, <2>5, <2>6
<1>5. ASSUME ReceiveEnd(s)
      PROVE  Accounted(s)' /\ (pc'[s] = "transcribing" => job'[s] = buffer'[s])
  <2>1. /\ pc[s] = "reading" /\ Transcribe(s, buffer[s])
        /\ UNCHANGED <<taken, buffer, cancelled>>
    BY <1>5 DEF ReceiveEnd
  <2>2. CASE Raise(s)
    <3>1. Failed(s)'
      BY <1>0, <2>2, TranscribedYield, EmptySeq DEF Raise, EventTypes, Audio
    <3>2. pc'[s] # "transcribing"
      BY <1>0, <2>2 DEF Raise
    <3> QED
      BY <3>1, <3>2 DEF Accounted
  <2>3. CASE events' = events /\ pc'[s] = "transcribing" /\ job'[s] = buffer[s]
    <3>1. Transcribed(s)' = Transcribed(s) /\ (Failed(s)' <=> Failed(s))
      BY <2>3 DEF Transcribed, Failed
    <3> QED
      BY <1>2, <2>1, <2>3, <3>1 DEF Accounted
  <2>4. ASSUME ~Raise(s)
        PROVE  events' = events /\ pc'[s] = "transcribing" /\ job'[s] = buffer[s]
    BY <1>0, <2>1, <2>4 DEF Transcribe, SttTypes
  <2> QED
    BY <2>2, <2>3, <2>4
<1>6. ASSUME Answer(s)
      PROVE  Accounted(s)' /\ (pc'[s] = "transcribing" => job'[s] = buffer'[s])
  <2>1. /\ pc[s] = "transcribing" /\ pc'[s] = "writing"
        /\ UNCHANGED <<taken, buffer, job, cancelled>>
        /\ \E type \in {"PARTIAL", "FINAL"} : Yield(s, type, job[s])
    BY <1>0, <1>6 DEF Answer
  <2>2. PICK type \in {"PARTIAL", "FINAL"} : Yield(s, type, job[s])
    BY <2>1
  <2>3. Transcribed(s)' = Transcribed(s) \o job[s] /\ (Failed(s)' <=> Failed(s))
    BY <1>0, <2>2, TranscribedYield DEF EventTypes, Audio
  <2>4. Transcribed(s) \o job[s] \in Seq(1..MaxMsg)
    BY <1>0, <1>1, ConcatProperties
  <2>5. (Transcribed(s) \o job[s]) \o <<>> = Transcribed(s) \o job[s]
    BY <2>4, ConcatEmptySeq
  <2> QED
    BY <1>2, <2>1, <2>3, <2>5 DEF Accounted
<1>7. ASSUME Sent(s)
      PROVE  Accounted(s)' /\ (pc'[s] = "transcribing" => job'[s] = buffer'[s])
  <2>1. /\ pc[s] = "writing" /\ pc'[s] \in {"done", "reading"} /\ buffer'[s] = <<>>
        /\ UNCHANGED <<taken, events, cancelled>>
    BY <1>0, <1>7 DEF Sent, SttTypes
  <2>2. Transcribed(s)' = Transcribed(s) /\ (Failed(s)' <=> Failed(s))
    BY <2>1 DEF Transcribed, Failed
  <2> QED
    BY <1>2, <2>1, <2>2 DEF Accounted
<1> QED
  BY <1>4, <1>5, <1>6, <1>7

LEMMA AudioInvStep == Base /\ SttInv /\ AudioInv /\ [Next]_vars => AudioInv'
<1> SUFFICES ASSUME Base, SttInv, AudioInv, [Next]_vars, NEW s \in Streams
             PROVE  Accounted(s)' /\ (pc'[s] = "transcribing" => job'[s] = buffer'[s])
  BY DEF AudioInv, AudioAccounted, Accounted, JobIsBuffer
<1> USE RequestKinds
<1>0. /\ SttTypes /\ pc \in [Requests -> Coroutine]
      /\ taken \in [Streams -> 0..MaxMsg] /\ buffer \in [Streams -> Audio]
      /\ job \in [Streams -> Audio] /\ events \in [Streams -> Seq(Event)]
  BY BaseFacts DEF SttInv, SttTypes
<1>1. Same(s) => Accounted(s)' /\ (pc'[s] = "transcribing" => job'[s] = buffer'[s])
  BY SameAccounted
<1>2. ASSUME NEW t \in Streams, ReceiveAudio(t) \/ ReceiveEnd(t) \/ Answer(t) \/ Sent(t), t # s
      PROVE  Same(s)
  BY <1>0, <1>2 DEF ReceiveAudio, ReceiveEnd, Answer, Sent, Transcribe, Raise, Yield, Same
<1>3. ASSUME NEW t \in Streams, Acquire(t) \/ Open(t) \/ InputEnds(t)
      PROVE  Same(s)
  BY <1>0, <1>3 DEF Acquire, Open, InputEnds, sttVars, callVars, Same
<1>4. ASSUME NEW t \in Streams, Cancel(t)
      PROVE  Accounted(s)' /\ (pc'[s] = "transcribing" => job'[s] = buffer'[s])
  <2>1. CASE t = s
    BY <1>0, <1>4, <2>1 DEF Cancel, Accounted
  <2>2. CASE t # s
    BY <1>0, <1>1, <1>4, <2>2 DEF Cancel, Same
  <2> QED
    BY <2>1, <2>2
<1>5. ASSUME NEW t \in Streams, AcquireFails(t) \/ Fail(t)
      PROVE  Accounted(s)' /\ (pc'[s] = "transcribing" => job'[s] = buffer'[s])
  <2>1. CASE t = s
    <3>1. Yield(s, "ERROR", <<>>) /\ pc'[s] = "done"
      BY <1>0, <1>5, <2>1 DEF AcquireFails, Fail, Raise
    <3>2. Failed(s)'
      BY <1>0, <3>1, TranscribedYield, EmptySeq DEF EventTypes, Audio
    <3> QED
      BY <3>1, <3>2 DEF Accounted
  <2>2. CASE t # s
    BY <1>0, <1>1, <1>5, <2>2 DEF AcquireFails, Fail, Raise, Yield, Same
  <2> QED
    BY <2>1, <2>2
<1>6. ASSUME NEW u \in Uploads, Upload(u) \/ Poster(u) \/ UploadThread(u)
      PROVE  Same(s)
  BY <1>0, <1>6 DEF Upload, Poster, RefuseUpload, Spool, Spooled, Respond, Clean,
     UploadThread, ThreadAcquire, ThreadRelease, sttVars, callVars, Same
<1>7. ASSUME NEW r \in Requests, Thread(r)
      PROVE  Same(s)
  BY <1>0, <1>7 DEF Thread, Convert, Lock, Unlock, callVars, Same
<1>8. CASE WarmUp \/ UNCHANGED vars
  BY <1>0, <1>1, <1>8 DEF WarmUp, vars, sttVars, callVars, Same
<1>9. ASSUME NEW t \in Streams, ReceiveAudio(t) \/ ReceiveEnd(t) \/ Answer(t) \/ Sent(t)
      PROVE  Accounted(s)' /\ (pc'[s] = "transcribing" => job'[s] = buffer'[s])
  BY <1>1, <1>2, <1>9, StreamAccounted
<1> QED
  BY <1>1, <1>3, <1>4, <1>5, <1>6, <1>7, <1>8, <1>9 DEF Next, Stream, Client, Terminated

\* Until a stream fails or its client leaves, every audio message is transcribed
\* exactly once, in order, or still buffered, for any number of messages and any
\* window (grpc_servicer.py:35-51, routes.py:91-101).
THEOREM AudioAccountedCorrect == Spec => []AudioAccounted
<1>1. Init => Base /\ SttInv /\ AudioInv
  <2> SUFFICES ASSUME Init PROVE JobIsBuffer /\ AudioAccounted
    BY BaseInit, SttInvInit DEF AudioInv
  <2>1. JobIsBuffer
    BY RequestKinds DEF Init, JobIsBuffer
  <2>2. ASSUME NEW s \in Streams
        PROVE  Transcribed(s) \o (IF pc[s] = "writing" THEN <<>> ELSE buffer[s])
                  = [i \in 1..taken[s] |-> i]
    <3>1. events[s] = <<>> /\ buffer[s] = <<>> /\ taken[s] = 0
      BY DEF Init
    <3>2. Parts(events[s]) = <<>>
      BY <3>1 DEF Parts
    <3>3. Transcribed(s) = <<>>
      BY <3>2 DEF Transcribed, Parts, FlattenSeq
    <3>4. <<>> \o <<>> = <<>> /\ [i \in 1..0 |-> i] = <<>>
      OBVIOUS
    <3> QED
      BY <3>1, <3>3, <3>4
  <2> QED
    BY <2>1, <2>2 DEF AudioAccounted
<1>2. Base /\ SttInv /\ AudioInv /\ [Next]_vars => (Base /\ SttInv /\ AudioInv)'
  BY BaseStep, SttTypesStep, WindowKeptStep, ThreadHasEngineStep, AudioInvStep DEF SttInv
<1>3. AudioInv => AudioAccounted
  BY DEF AudioInv
<1> QED
  BY <1>1, <1>2, <1>3, PTL DEF Spec

-----------------------------------------------------------------------------
(* The audio an engine is given.                                           *)

\* How the sums of the first 0, 1, 2, ... of some numbers follow each other.
Sums(sum, samples, first, n) ==
    sum[0] = 0 /\ \A k \in 1..n : sum[k] = sum[k - 1] + samples[first + k]

\* Total is what its recursive definition says.
LEMMA TotalEquation ==
    ASSUME NEW samples, NEW first \in Nat, NEW n \in Nat,
           \A k \in 1..n : samples[first + k] \in Int
    PROVE  \E sum \in [0..n -> Int] :
              Total(samples, first, n) = sum[n] /\ Sums(sum, samples, first, n)
<1> DEFINE IsSum(f) == f = [k \in 0..n |-> IF k = 0 THEN 0 ELSE f[k - 1] + samples[first + k]]
<1>1. PICK f \in [0..n -> Int] : Sums(f, samples, first, n)
  <2> DEFINE D == {m \in Nat : m <= n => \E f \in [0..m -> Int] : Sums(f, samples, first, m)}
  <2>1. 0 \in D
    <3>1. [k \in 0..0 |-> 0] \in [0..0 -> Int] /\ Sums([k \in 0..0 |-> 0], samples, first, 0)
      BY DEF Sums
    <3> QED
      BY <3>1
  <2>2. ASSUME NEW m \in Nat, m \in D PROVE m + 1 \in D
    <3> SUFFICES ASSUME m + 1 <= n
                 PROVE  \E f \in [0..(m + 1) -> Int] : Sums(f, samples, first, m + 1)
      OBVIOUS
    <3>1. PICK f \in [0..m -> Int] : Sums(f, samples, first, m)
      BY <2>2
    <3> DEFINE g == [k \in 0..(m + 1) |-> IF k = m + 1 THEN f[m] + samples[first + (m + 1)]
                                          ELSE f[k]]
    <3>2. g \in [0..(m + 1) -> Int]
      <4>1. samples[first + (m + 1)] \in Int
        <5>1. m + 1 \in 1..n
          OBVIOUS
        <5> HIDE DEF g, D, IsSum
        <5> QED
          BY <5>1
      <4>2. \A k \in 0..(m + 1) : k # m + 1 => k \in 0..m
        OBVIOUS
      <4> QED
        BY <3>1, <4>1, <4>2
    <3>3. /\ g[0] = f[0] /\ g[m + 1] = f[m] + samples[first + (m + 1)] /\ g[m] = f[m]
          /\ \A k \in 1..m : g[k] = f[k] /\ g[k - 1] = f[k - 1]
      OBVIOUS
    <3> HIDE DEF g
    <3>4. \A k \in 1..(m + 1) : k \in 1..m \/ (k = m + 1 /\ k - 1 = m)
      OBVIOUS
    <3>5. Sums(g, samples, first, m + 1)
      BY <3>1, <3>3, <3>4 DEF Sums
    <3> QED
      BY <3>2, <3>5
  <2> HIDE DEF D
  <2>3. Nat \subseteq D
    BY <2>1, <2>2, Induction
  <2> QED
    BY <2>3 DEF D
<1>2. IsSum(f)
  <2>1. \A k \in 0..n : k # 0 => k \in 1..n
    OBVIOUS
  <2> QED
    BY <1>1, <2>1 DEF Sums
<1>3. PICK g : g = CHOOSE h : IsSum(h)
  OBVIOUS
<1>4. IsSum(g)
  BY <1>2, <1>3
<1>5. Total(samples, first, n) = g[n]
  BY <1>3 DEF Total
<1>6. g[0] = 0 /\ \A k \in 1..n : g[k] = g[k - 1] + samples[first + k]
  <2>1. 0 \in 0..n /\ \A k \in 1..n : k \in 0..n /\ k # 0
    OBVIOUS
  <2> QED
    BY <1>4, <2>1
<1>7. \A k \in 0..n : f[k] = g[k]
  <2> DEFINE D == {k \in Nat : k <= n => f[k] = g[k]}
  <2>1. 0 \in D
    BY <1>1, <1>6 DEF Sums
  <2>2. ASSUME NEW k \in Nat, k \in D PROVE k + 1 \in D
    <3>1. k + 1 <= n => k + 1 \in 1..n /\ (k + 1) - 1 = k /\ k <= n
      OBVIOUS
    <3> QED
      BY <1>1, <1>6, <2>2, <3>1 DEF Sums
  <2> HIDE DEF D
  <2>3. Nat \subseteq D
    BY <2>1, <2>2, Induction
  <2> QED
    BY <2>3 DEF D
<1> QED
  BY <1>1, <1>5, <1>7

\* A sum of n numbers is between n times the least and n times the greatest.
LEMMA TotalBetween ==
    ASSUME NEW samples, NEW first \in Nat, NEW n \in Nat, NEW lo \in Int, NEW hi \in Int,
           \A k \in 1..n : samples[first + k] \in lo..hi
    PROVE  Total(samples, first, n) \in (n * lo)..(n * hi)
<1>0. \A k \in 1..n : samples[first + k] \in Int
  OBVIOUS
<1>1. PICK sum \in [0..n -> Int] :
         Total(samples, first, n) = sum[n] /\ Sums(sum, samples, first, n)
  BY <1>0, TotalEquation
<1> DEFINE D == {k \in Nat : k <= n => k * lo <= sum[k] /\ sum[k] <= k * hi}
<1>2. 0 \in D
  BY <1>1 DEF Sums
<1>3. ASSUME NEW k \in Nat, k \in D PROVE k + 1 \in D
  <2> SUFFICES ASSUME k + 1 <= n PROVE (k + 1) * lo <= sum[k + 1] /\ sum[k + 1] <= (k + 1) * hi
    OBVIOUS
  <2>1. k + 1 \in 1..n /\ (k + 1) - 1 = k /\ k \in 0..n
    OBVIOUS
  <2>2. sum[k + 1] = sum[k] + samples[first + (k + 1)]
    BY <1>1, <2>1 DEF Sums
  <2>3. PICK x \in Int : x = sum[k] /\ k * lo <= x /\ x <= k * hi
    <3>1. sum[k] \in Int /\ k <= n
      BY <1>1, <2>1
    <3> QED
      BY <1>3, <3>1
  <2>e. PICK e \in lo..hi : e = samples[first + (k + 1)]
    <3> HIDE DEF D
    <3> QED
      BY <2>1
  <2>4. lo <= e /\ e <= hi /\ sum[k + 1] = x + e
    BY <2>2, <2>3, <2>e
  <2>5. (k + 1) * lo = k * lo + lo /\ (k + 1) * hi = k * hi + hi
    OBVIOUS
  <2>6. k * lo \in Int /\ k * hi \in Int /\ e \in Int
    OBVIOUS
  <2> QED
    BY <2>3, <2>4, <2>5, <2>6
<1> HIDE DEF D
<1>4. Nat \subseteq D
  BY <1>2, <1>3, Induction
<1>5. n * lo <= sum[n] /\ sum[n] <= n * hi /\ sum[n] \in Int /\ n * lo \in Int /\ n * hi \in Int
  BY <1>1, <1>4 DEF D
<1> QED
  BY <1>1, <1>5

\* Products are integers.
LEMMA Product ==
    ASSUME NEW a \in Int, NEW b \in Int
    PROVE  a * b \in Int
OBVIOUS

\* Products keep their order, and lose it only together.
LEMMA Ordered ==
    ASSUME NEW a \in Int, NEW b \in Int, NEW c \in Nat
    PROVE  (a <= b => a * c <= b * c) /\ (c # 0 /\ a * c < b * c => a < b)
OBVIOUS

\* Division with a remainder.
LEMMA Division ==
    ASSUME NEW a \in Int, NEW b \in Nat \ {0}
    PROVE  /\ a \div b \in Int /\ a % b \in 0..(b - 1)
           /\ a = (a \div b) * b + (a % b)
           /\ a >= 0 => a \div b >= 0
OBVIOUS

LEMMA Quotient ==
    ASSUME NEW q \in Int, NEW b \in Nat \ {0}
    PROVE  (q * b) \div b = q /\ (q * b) % b = 0
OBVIOUS

\* A quotient of a number between multiples is between them.
LEMMA TruncBetween ==
    ASSUME NEW a \in Int, NEW b \in Nat \ {0}, NEW lo \in Int, NEW hi \in Int,
           lo * b <= a, a <= hi * b
    PROVE  Trunc(a, b) \in lo..hi
<1>1. CASE a >= 0
  <2>1. PICK q \in Int, r \in 0..(b - 1) : q = a \div b /\ a = q * b + r
    BY Division
  <2>2. (q + 1) * b = q * b + b /\ (hi + 1) * b = hi * b + b
    OBVIOUS
  <2>3. q < hi + 1
    <3>1. q * b < (hi + 1) * b
      BY <2>1, <2>2
    <3> QED
      BY <3>1, Ordered
  <2>4. lo < q + 1
    <3>1. lo * b < (q + 1) * b
      BY <2>1, <2>2
    <3> QED
      BY <3>1, Ordered
  <2> QED
    BY <1>1, <2>1, <2>3, <2>4 DEF Trunc
<1>2. CASE a < 0
  <2>1. PICK q \in Int, r \in 0..(b - 1) : q = (-a) \div b /\ -a = q * b + r
    <3>1. PICK minus \in Int : minus = -a
      OBVIOUS
    <3>2. PICK q \in Int, r \in 0..(b - 1) : q = minus \div b /\ minus = q * b + r
      BY Division
    <3> QED
      BY <3>1, <3>2
  <2>2. PICK p \in Int : p = -q
    BY <2>1
  <2>3. a = p * b - r
    BY <2>1, <2>2
  <2>4. (p - 1) * b = p * b - b /\ (lo - 1) * b = lo * b - b
    OBVIOUS
  <2>5. lo - 1 < p
    <3>1. (lo - 1) * b < p * b
      BY <2>1, <2>3, <2>4
    <3> QED
      BY <3>1, Ordered
  <2>6. p - 1 < hi
    <3>1. (p - 1) * b < hi * b
      BY <2>1, <2>3, <2>4
    <3> QED
      BY <3>1, Ordered
  <2> QED
    BY <1>2, <2>1, <2>2, <2>5, <2>6 DEF Trunc
<1> QED
  BY <1>1, <1>2

\* A quotient of a number that is less than a divisor away from such multiples
\* is cut off toward zero.
LEMMA TruncNear ==
    ASSUME NEW a \in Int, NEW b \in Nat \ {0}, NEW lo \in Int, NEW hi \in Int,
           (lo - 1) * b < a, a < (hi + 1) * b
    PROVE  Trunc(a, b) \in (IF lo > 0 THEN lo - 1 ELSE lo)..(IF hi < 0 THEN hi + 1 ELSE hi)
<1>1. CASE a >= 0
  <2>1. PICK q \in Int, r \in 0..(b - 1) : q = a \div b /\ a = q * b + r /\ q >= 0
    BY <1>1, Division
  <2>2. (q + 1) * b = q * b + b
    OBVIOUS
  <2>3. q < hi + 1
    <3>1. q * b < (hi + 1) * b
      BY <2>1
    <3> QED
      BY <3>1, Ordered
  <2>4. lo - 1 < q + 1
    <3>1. (lo - 1) * b < (q + 1) * b
      BY <2>1, <2>2
    <3> QED
      BY <3>1, Ordered
  <2> QED
    BY <1>1, <2>1, <2>3, <2>4 DEF Trunc
<1>2. CASE a < 0
  <2>1. PICK q \in Int, r \in 0..(b - 1) : q = (-a) \div b /\ -a = q * b + r /\ q >= 0
    <3>1. PICK minus \in Int : minus = -a /\ minus >= 0
      BY <1>2
    <3>2. PICK q \in Int, r \in 0..(b - 1) : q = minus \div b /\ minus = q * b + r /\ q >= 0
      BY <3>1, Division
    <3> QED
      BY <3>1, <3>2
  <2>2. PICK p \in Int : p = -q /\ p <= 0
    BY <2>1
  <2>3. a = p * b - r
    BY <2>1, <2>2
  <2>4. (p - 1) * b = p * b - b
    OBVIOUS
  <2>5. lo - 1 < p
    <3>1. (lo - 1) * b < p * b
      BY <2>1, <2>3
    <3> QED
      BY <3>1, Ordered
  <2>6. p - 1 < hi + 1
    <3>1. (p - 1) * b < (hi + 1) * b
      BY <2>1, <2>3, <2>4
    <3> QED
      BY <3>1, Ordered
  <2> QED
    BY <1>2, <2>1, <2>2, <2>5, <2>6 DEF Trunc
<1> QED
  BY <1>1, <1>2

\* So is one that is off by a slip.
LEMMA SlipNear ==
    ASSUME NEW s \in Int, NEW b \in Nat \ {0}, NEW slip \in -1..1,
           NEW lo \in Int, NEW hi \in Int, lo * b <= s, s <= hi * b
    PROVE  Trunc(2 * s + slip * (2 * b - 1), 2 * b)
              \in (IF lo > 0 THEN lo - 1 ELSE lo)..(IF hi < 0 THEN hi + 1 ELSE hi)
<1>1. PICK d \in Nat \ {0} : d = 2 * b
  OBVIOUS
<1>2. PICK e \in Int : e = slip * (2 * b - 1) /\ -d < e /\ e < d
  <2>1. slip = -1 \/ slip = 0 \/ slip = 1
    OBVIOUS
  <2>2. (-1) * (2 * b - 1) = 1 - d /\ 0 * (2 * b - 1) = 0 /\ 1 * (2 * b - 1) = d - 1
    BY <1>1
  <2> QED
    BY <1>1, <2>1, <2>2
<1>3. (lo - 1) * d = 2 * (lo * b) - d /\ (hi + 1) * d = 2 * (hi * b) + d
  BY <1>1
<1>4. PICK low \in Int, high \in Int : low = lo * b /\ high = hi * b
  OBVIOUS
<1>5. (lo - 1) * d < 2 * s + e /\ 2 * s + e < (hi + 1) * d
  BY <1>2, <1>3, <1>4
<1>6. PICK a \in Int : a = 2 * s + e
  OBVIOUS
<1>7. Trunc(a, d) \in (IF lo > 0 THEN lo - 1 ELSE lo)..(IF hi < 0 THEN hi + 1 ELSE hi)
  BY <1>5, <1>6, TruncNear
<1> QED
  BY <1>1, <1>2, <1>6, <1>7

\* A sequence whose samples are all in a range.
Between(samples, lo, hi) == samples \in Seq(Int) /\ \A i \in 1..Len(samples) : samples[i] \in lo..hi

\* Mixing to mono does not overshoot.
LEMMA MonoBetween ==
    ASSUME NEW samples, NEW channels \in Nat \ {0}, NEW lo \in Int, NEW hi \in Int,
           Between(samples, lo, hi)
    PROVE  Between(Mono(samples, channels), lo, hi)
<1>1. PICK n \in Nat : n = Len(samples)
  BY DEF Between
<1>2. PICK m \in Int, rest \in 0..(channels - 1) : m = n \div channels /\ n = m * channels + rest /\ m >= 0
  <2>1. n \in Int /\ n >= 0
    OBVIOUS
  <2> QED
    BY <2>1, Division
<1>3. ASSUME NEW i \in 1..m
      PROVE  Trunc(Total(samples, (i - 1) * channels, channels), channels) \in lo..hi
  <2>1. PICK first \in Nat : first = (i - 1) * channels /\ first + channels <= n
    <3>1. PICK j \in Nat : j = i - 1 /\ j + 1 <= m
      OBVIOUS
    <3>2. j * channels \in Nat /\ (j + 1) * channels = j * channels + channels
      OBVIOUS
    <3>3. (j + 1) * channels <= m * channels
      BY <1>2, <3>1, Ordered
    <3>4. m * channels <= n /\ m * channels \in Int
      BY <1>2
    <3> QED
      BY <3>1, <3>2, <3>3, <3>4
  <2>2. \A k \in 1..channels : samples[first + k] \in lo..hi
    <3>1. \A k \in 1..channels : first + k \in 1..n
      BY <2>1
    <3> QED
      BY <1>1, <3>1 DEF Between
  <2>3. Total(samples, first, channels) \in (channels * lo)..(channels * hi)
    BY <2>2, TotalBetween
  <2>4. PICK a \in Int : a = Total(samples, first, channels) /\ lo * channels <= a /\ a <= hi * channels
    BY <2>3
  <2>5. Trunc(a, channels) \in lo..hi
    BY <2>4, TruncBetween
  <2> QED
    BY <2>1, <2>4, <2>5
<1>4. PICK mixed : mixed = [i \in 1..m |-> Trunc(Total(samples, (i - 1) * channels, channels), channels)]
  OBVIOUS
<1>5. \A i \in 1..m : mixed[i] \in lo..hi
  BY <1>3, <1>4
<1>6. mixed \in [1..m -> Int] /\ m \in Nat
  <2>1. \A i \in 1..m : mixed[i] \in Int
    BY <1>5
  <2>2. m \in Nat
    BY <1>2
  <2> QED
    BY <1>4, <2>1, <2>2
<1>7. mixed \in Seq(Int) /\ Len(mixed) = m
  BY <1>6
<1>8. Mono(samples, channels) = mixed
  BY <1>1, <1>2, <1>4 DEF Mono
<1> QED
  BY <1>5, <1>7, <1>8 DEF Between

\* Nor does interpolation, but for a step toward zero.
LEMMA ValueBetween ==
    ASSUME NEW samples, NEW lo \in Int, NEW hi \in Int, Between(samples, lo, hi),
           NEW a \in Nat, NEW b \in Nat \ {0}, a < Len(samples) * b, NEW slip \in -1..1
    PROVE  ValueAt(samples, a, b, slip)
              \in (IF lo > 0 THEN lo - 1 ELSE lo)..(IF hi < 0 THEN hi + 1 ELSE hi)
<1>1. PICK n \in Nat : n = Len(samples)
  BY DEF Between
<1>2. PICK low \in Int, part \in 0..(b - 1) :
         low = a \div b /\ part = a % b /\ a = low * b + part /\ low >= 0
  <2>1. a \in Int /\ a >= 0
    OBVIOUS
  <2> QED
    BY <2>1, Division
<1>3. low < n
  <2>1. low * b < n * b
    BY <1>1, <1>2
  <2> QED
    BY <1>2, <2>1, Ordered
<1>4. PICK x \in lo..hi : x = samples[low + 1]
  <2>1. low + 1 \in 1..n
    BY <1>1, <1>2, <1>3
  <2> QED
    BY <1>1, <2>1 DEF Between
<1>5. PICK y \in lo..hi : y = IF low + 2 <= n THEN samples[low + 2] ELSE x
  <2>1. low + 2 <= n => low + 2 \in 1..n
    BY <1>1, <1>2
  <2> QED
    BY <1>1, <1>4, <2>1 DEF Between
<1>6. PICK c \in Nat : c = b - part
  <2>1. b - part \in Nat
    BY <1>2
  <2> QED
    BY <2>1
<1>7. part \in Nat /\ c + part = b
  BY <1>2, <1>6
<1>8. lo * c <= x * c /\ x * c <= hi * c
  BY <1>4, Ordered
<1>9. lo * part <= y * part /\ y * part <= hi * part
  BY <1>5, <1>7, Ordered
<1>10. lo * b = lo * c + lo * part /\ hi * b = hi * c + hi * part
  BY <1>6, <1>7
<1>11. PICK s \in Int : s = x * c + y * part
  <2>1. PICK u \in Int, v \in Int : u = x * c /\ v = y * part
    BY <1>7
  <2>2. u + v \in Int
    BY <2>1
  <2> QED
    BY <2>1, <2>2
<1>12. lo * b <= s /\ s <= hi * b
  <2>1. PICK p \in Int, q \in Int : p = lo * c /\ q = lo * part
    BY <1>6, <1>7, Product
  <2>2. PICK r \in Int, t \in Int : r = hi * c /\ t = hi * part
    BY <1>6, <1>7, Product
  <2>3. PICK u \in Int, v \in Int : u = x * c /\ v = y * part
    BY <1>4, <1>5, <1>6, <1>7, Product
  <2>4. p + q <= u + v /\ u + v <= r + t
    BY <1>8, <1>9, <2>1, <2>2, <2>3
  <2> QED
    BY <1>10, <1>11, <2>1, <2>2, <2>3, <2>4
<1>13. ValueAt(samples, a, b, slip) = Trunc(2 * s + slip * (2 * b - 1), 2 * b)
  BY <1>1, <1>2, <1>4, <1>5, <1>6, <1>11 DEF ValueAt
<1>14. Trunc(2 * s + slip * (2 * b - 1), 2 * b)
          \in (IF lo > 0 THEN lo - 1 ELSE lo)..(IF hi < 0 THEN hi + 1 ELSE hi)
  BY <1>12, SlipNear
<1> QED
  BY <1>13, <1>14

\* Rounding is to the nearest, whichever way a tie goes.
LEMMA Nearest ==
    ASSUME NEW a \in Nat, NEW b \in Nat \ {0}, NEW slip
    PROVE  /\ Round(a, b, slip) \in Nat
           /\ 2 * (Round(a, b, slip) * b) <= 2 * a + b
           /\ 2 * a <= 2 * (Round(a, b, slip) * b) + b
<1>1. PICK low \in Int, part \in 0..(b - 1) :
         low = a \div b /\ part = a % b /\ low >= 0 /\ a = low * b + part
  BY SMTT(30), Division
<1>2. (low + 1) * b = low * b + b /\ low * b \in Int
  BY <1>1
<1>3. CASE Round(a, b, slip) = low
  <2>1. 2 * part <= b
    <3>1. 2 * part < b \/ 2 * part = b \/ low = low + 1
      BY <1>1, <1>3 DEF Round
    <3> QED
      BY <1>1, <3>1
  <2> QED
    BY <1>1, <1>2, <1>3, <2>1
<1>4. CASE Round(a, b, slip) = low + 1
  <2>1. 2 * part >= b
    <3>1. ~(2 * part < b) \/ low = low + 1
      BY <1>1, <1>4 DEF Round
    <3> QED
      BY <1>1, <3>1
  <2> QED
    BY <1>1, <1>2, <1>4, <2>1
<1> QED
  BY <1>1, <1>3, <1>4 DEF Round

LEMMA Longer ==
    ASSUME NEW n \in Nat
    PROVE  Max({1, n}) = IF n >= 1 THEN n ELSE 1
<1>1. \E x \in {1, n} : \A y \in {1, n} : x >= y
  OBVIOUS
<1>2. Max({1, n}) \in {1, n} /\ \A y \in {1, n} : Max({1, n}) >= y
  BY <1>1 DEF Max
<1> QED
  BY <1>2

\* The samples at equal distances, each with its slip.
Spread(timed, samples, n, new, slip) ==
    timed = [j \in 1..new |-> ValueAt(samples, (j - 1) * n, new, slip[j])]

LEMMA ResampleShape ==
    ASSUME NEW samples \in Seq(Int), samples # <<>>, NEW slip \in Slips,
           NEW from \in Nat \ {0}, NEW to \in Nat \ {0}, from # to, NEW n \in Nat, n = Len(samples)
    PROVE  \E new \in Nat \ {0} :
              /\ new = IF Round(n * to, from, slip[0]) >= 1 THEN Round(n * to, from, slip[0]) ELSE 1
              /\ Spread(Resample(samples, from, to, slip), samples, n, new, slip)
<1>1. PICK a \in Nat : a = n * to
  OBVIOUS
<1>2. PICK m \in Nat : m = Round(a, from, slip[0])
  BY Nearest
<1>3. PICK new \in Nat \ {0} : new = Max({1, m}) /\ new = IF m >= 1 THEN m ELSE 1
  BY Longer
<1>4. NewLength(Len(samples), from, to, slip[0]) = new
  BY <1>1, <1>2, <1>3 DEF NewLength
<1>5. Spread(Resample(samples, from, to, slip), samples, n, new, slip)
  BY <1>4 DEF Resample, Spread
<1> QED
  BY <1>1, <1>2, <1>3, <1>5

\* The ends of a range stay integers.
LEMMA Ends ==
    ASSUME NEW lo \in Int, NEW hi \in Int, NEW from, NEW to
    PROVE  Lowest(lo, from, to) \in Int /\ Highest(hi, from, to) \in Int
BY DEF Lowest, Highest

LEMMA ResampleBetween ==
    ASSUME NEW samples, NEW lo \in Int, NEW hi \in Int, Between(samples, lo, hi),
           NEW from \in Nat \ {0}, NEW to \in Nat \ {0}, NEW slip \in Slips
    PROVE  /\ Between(Resample(samples, from, to, slip), Lowest(lo, from, to), Highest(hi, from, to))
           /\ samples # <<>> => Resample(samples, from, to, slip) # <<>>
<1>1. PICK n \in Nat : n = Len(samples)
  BY DEF Between
<1>2. CASE from = to \/ samples = <<>>
  <2>1. Resample(samples, from, to, slip) = samples
    BY <1>2 DEF Resample
  <2>2. CASE from = to
    BY <2>1, <2>2 DEF Lowest, Highest
  <2>3. CASE samples = <<>>
    BY <2>1, <2>3 DEF Between
  <2> QED
    BY <1>2, <2>2, <2>3
<1>3. CASE from # to /\ samples # <<>>
  <2>1. n >= 1 /\ samples \in Seq(Int)
    BY <1>1, <1>3, EmptySeq DEF Between
  <2>2. PICK new \in Nat \ {0} : Spread(Resample(samples, from, to, slip), samples, n, new, slip)
    BY <1>1, <1>3, <2>1, ResampleShape
  <2>3. PICK low \in Int, high \in Int : low = Lowest(lo, from, to) /\ high = Highest(hi, from, to)
    BY Ends
  <2>4. ASSUME NEW j \in 1..new PROVE ValueAt(samples, (j - 1) * n, new, slip[j]) \in low..high
    <3>1. PICK a \in Nat : a = (j - 1) * n /\ a < n * new
      <4>1. PICK k \in Nat : k = j - 1 /\ k + 1 <= new
        OBVIOUS
      <4>2. (k + 1) * n <= new * n /\ (k + 1) * n = k * n + n
        BY <4>1, Ordered
      <4>3. k * n \in Nat /\ new * n = n * new
        BY <4>1
      <4> QED
        BY <2>1, <4>1, <4>2, <4>3
    <3>2. slip[j] \in -1..1
      BY DEF Slips
    <3>3. ValueAt(samples, a, new, slip[j])
             \in (IF lo > 0 THEN lo - 1 ELSE lo)..(IF hi < 0 THEN hi + 1 ELSE hi)
      BY <1>1, <3>1, <3>2, ValueBetween
    <3> QED
      BY <1>3, <2>3, <3>1, <3>3 DEF Lowest, Highest
  <2>5. PICK timed : timed = Resample(samples, from, to, slip)
    OBVIOUS
  <2>6. timed = [j \in 1..new |-> ValueAt(samples, (j - 1) * n, new, slip[j])]
    BY <2>2, <2>5 DEF Spread
  <2>7. \A j \in 1..new : timed[j] \in low..high
    BY <2>4, <2>6
  <2>8. timed \in [1..new -> Int]
    <3>1. \A j \in 1..new : timed[j] \in Int
      BY <2>7
    <3> QED
      BY <2>6, <3>1
  <2>9. timed \in Seq(Int) /\ Len(timed) = new /\ timed # <<>>
    BY <2>8
  <2> QED
    BY <2>3, <2>5, <2>7, <2>9 DEF Between
<1> QED
  BY <1>2, <1>3

\* What may come, and what may be asked for.
Playable(chunk) == /\ {chunk.rate, chunk.channels} \subseteq Nat \ {0} /\ chunk.width \in Widths
                   /\ chunk.samples \in Seq(Int)
Requires(target) == {target.rate, target.channels} \subseteq Nat \ {0} /\ target.width \in Widths
WholeFrames(chunk) == \E n \in Nat : Len(chunk.samples) = n * chunk.channels

LEMMA Integers16 ==
    ASSUME NEW v \in Int, NEW width \in Widths
    PROVE  /\ ToInt16(v, width) \in Int
           /\ width # 1 => ToInt16(FromInt16(v, width), width) = v
<1>1. (v * 65536) \div 65536 = v /\ v \div 65536 \in Int /\ (v - 128) * 256 \in Int
  OBVIOUS
<1>2. width = 1 \/ width = 2 \/ width = 4
  BY DEF Widths
<1>3. CASE width = 1
  BY <1>1, <1>3 DEF ToInt16
<1>4. CASE width = 2
  BY <1>4 DEF ToInt16, FromInt16
<1>5. CASE width = 4
  BY <1>1, <1>5 DEF ToInt16, FromInt16
<1> QED
  BY <1>2, <1>3, <1>4, <1>5

\* The 16-bit values of a chunk are in a range, ...
Source(chunk, lo, hi) ==
    \A i \in 1..Len(chunk.samples) : ToInt16(chunk.samples[i], chunk.width) \in lo..hi

\* ... and those it is converted to.
Result(timed, chunk, target, slip, lo, hi) ==
    /\ Between(timed, Lowest(lo, chunk.rate, target.rate), Highest(hi, chunk.rate, target.rate))
    /\ Converted(chunk, target, slip) = [i \in DOMAIN timed |-> FromInt16(timed[i], target.width)]
    /\ chunk.samples # <<>> /\ WholeFrames(chunk) => timed # <<>>

\* A conversion gives samples in the range of the given ones, if any.
LEMMA ConvertedBetween ==
    ASSUME NEW chunk, NEW target, Playable(chunk), Requires(target), ~Refused(chunk, target),
           Format(chunk) # target, NEW lo \in Int, NEW hi \in Int,
           Source(chunk, lo, hi), NEW slip \in Slips
    PROVE  \E timed : Result(timed, chunk, target, slip, lo, hi)
<1>1. PICK n \in Nat : n = Len(chunk.samples) /\ DOMAIN chunk.samples = 1..n
  BY DEF Playable
<1>2. PICK wide : wide = [i \in 1..n |-> ToInt16(chunk.samples[i], chunk.width)]
  OBVIOUS
<1>3. \A i \in 1..n : wide[i] \in lo..hi /\ wide[i] \in Int
  BY <1>1, <1>2 DEF Source
<1>4. wide \in [1..n -> Int]
  BY <1>2, <1>3
<1>5. wide \in Seq(Int) /\ Len(wide) = n
  BY <1>4
<1>6. Between(wide, lo, hi)
  BY <1>3, <1>5 DEF Between
<1>7. PICK mixed : mixed = IF chunk.channels = target.channels THEN wide
                           ELSE Mono(wide, chunk.channels)
  OBVIOUS
<1>8. Between(mixed, lo, hi)
  <2>1. chunk.channels \in Nat \ {0}
    BY DEF Playable
  <2> QED
    BY <1>6, <1>7, <2>1, MonoBetween
<1>9. chunk.samples # <<>> /\ WholeFrames(chunk) => mixed # <<>>
  <2> SUFFICES ASSUME chunk.samples # <<>>, WholeFrames(chunk) PROVE mixed # <<>>
    OBVIOUS
  <2>1. n # 0
    BY <1>1, EmptySeq DEF Playable
  <2>2. CASE chunk.channels = target.channels
    BY <1>5, <1>7, <2>1, <2>2
  <2>3. CASE chunk.channels # target.channels
    <3>1. PICK c \in Nat \ {0} : c = chunk.channels
      BY DEF Playable
    <3>2. PICK m \in Nat : n = m * c
      BY <1>1, <3>1 DEF WholeFrames
    <3>3. m # 0
      BY <2>1, <3>1, <3>2
    <3>4. n \div c = m
      <4>1. m \in Int /\ (m * c) \div c = m
        BY Quotient
      <4> QED
        BY <3>2, <4>1
    <3>5. DOMAIN mixed = 1..m
      BY <1>5, <1>7, <2>3, <3>1, <3>4 DEF Mono
    <3>6. 1 \in DOMAIN mixed
      BY <3>2, <3>3, <3>5
    <3> QED
      BY <3>6
  <2> QED
    BY <2>2, <2>3
<1>10. PICK timed : timed = Resample(mixed, chunk.rate, target.rate, slip)
  OBVIOUS
<1>11. /\ Between(timed, Lowest(lo, chunk.rate, target.rate),
                   Highest(hi, chunk.rate, target.rate))
       /\ mixed # <<>> => timed # <<>>
  <2>1. chunk.rate \in Nat \ {0} /\ target.rate \in Nat \ {0}
    BY DEF Playable, Requires
  <2> QED
    BY <1>8, <1>10, <2>1, ResampleBetween
<1>12. Converted(chunk, target, slip) = [i \in DOMAIN timed |-> FromInt16(timed[i], target.width)]
  BY <1>1, <1>2, <1>7, <1>10 DEF Converted
<1> QED
  BY <1>9, <1>11, <1>12 DEF Result

\* Integers in a row have a least and a greatest.
LEMMA Extremes ==
    ASSUME NEW n \in Nat \ {0}, NEW f \in [1..n -> Int]
    PROVE  \E i, j \in 1..n : \A k \in 1..n : f[i] <= f[k] /\ f[k] <= f[j]
<1> DEFINE D == {m \in Nat : m + 1 <= n => \E i, j \in 1..(m + 1) : \A k \in 1..(m + 1) :
                                               f[i] <= f[k] /\ f[k] <= f[j]}
<1>1. 0 \in D
  <2>1. 1 \in 1..(0 + 1) /\ \A k \in 1..(0 + 1) : k = 1
    OBVIOUS
  <2>2. f[1] \in Int
    OBVIOUS
  <2> QED
    BY <2>1, <2>2
<1>2. ASSUME NEW m \in Nat, m \in D PROVE m + 1 \in D
  <2> SUFFICES ASSUME (m + 1) + 1 <= n
               PROVE  \E i, j \in 1..((m + 1) + 1) : \A k \in 1..((m + 1) + 1) :
                         f[i] <= f[k] /\ f[k] <= f[j]
    OBVIOUS
  <2>1. PICK i \in 1..(m + 1), j \in 1..(m + 1) :
           \A k \in 1..(m + 1) : f[i] <= f[k] /\ f[k] <= f[j]
    BY <1>2
  <2> DEFINE new == (m + 1) + 1
  <2>2. /\ new \in 1..new /\ i \in 1..new /\ j \in 1..new
        /\ \A k \in 1..new : k \in 1..(m + 1) \/ k = new
    BY <2>1
  <2>3. f[new] \in Int /\ f[i] \in Int /\ f[j] \in Int /\ \A k \in 1..new : f[k] \in Int
    BY <2>1
  <2> HIDE DEF new, D
  <2>4. PICK a \in 1..new : a = IF f[new] < f[i] THEN new ELSE i
    BY <2>2
  <2>5. PICK b \in 1..new : b = IF f[new] > f[j] THEN new ELSE j
    BY <2>2
  <2>6. ASSUME NEW k \in 1..new PROVE f[a] <= f[k]
    <3>1. f[a] <= f[new] /\ f[a] <= f[i]
      BY <2>3, <2>4
    <3>2. f[a] \in Int /\ f[k] \in Int /\ f[i] \in Int
      BY <2>3
    <3>3. k \in 1..(m + 1) => f[i] <= f[k]
      BY <2>1
    <3> QED
      BY <2>2, <3>1, <3>2, <3>3
  <2>7. ASSUME NEW k \in 1..new PROVE f[k] <= f[b]
    <3>1. f[new] <= f[b] /\ f[j] <= f[b]
      BY <2>3, <2>5
    <3>2. f[b] \in Int /\ f[k] \in Int /\ f[j] \in Int
      BY <2>3
    <3>3. k \in 1..(m + 1) => f[k] <= f[j]
      BY <2>1
    <3> QED
      BY <2>2, <3>1, <3>2, <3>3
  <2>8. \E i1, j1 \in 1..new : \A k \in 1..new : f[i1] <= f[k] /\ f[k] <= f[j1]
    BY <2>6, <2>7
  <2> QED
    BY <2>8 DEF new
<1> HIDE DEF D
<1>3. Nat \subseteq D
  BY <1>1, <1>2, Induction
<1>4. n - 1 \in D /\ (n - 1) + 1 = n
  BY <1>3
<1> QED
  BY <1>4 DEF D

\* No sample overshoots or wraps around, in whatever format it comes, at
\* whatever rate and however the interpolation is rounded, if the engine does
\* not require 8-bit audio (utils/audio.py:45-98).
THEOREM StaysInRangeCorrect ==
    ASSUME NEW chunk, NEW target, Playable(chunk), Requires(target), ~Refused(chunk, target),
           target.width # 1, NEW slip \in Slips
    PROVE  StaysInRange(chunk, target, slip)
<1>1. PICK n \in Nat : n = Len(chunk.samples) /\ DOMAIN chunk.samples = 1..n
  BY DEF Playable
<1>2. PICK wide : wide = [i \in 1..n |-> ToInt16(chunk.samples[i], chunk.width)]
  OBVIOUS
<1>3. wide \in [1..n -> Int]
  <2>1. \A i \in 1..n : ToInt16(chunk.samples[i], chunk.width) \in Int
    BY <1>1, Integers16 DEF Playable
  <2> QED
    BY <1>2, <2>1
<1>4. PICK source : source = {ToInt16(v, chunk.width) : v \in Range(chunk.samples)}
  OBVIOUS
<1>5. source = {wide[i] : i \in 1..n}
  BY <1>1, <1>2, <1>4 DEF Range
<1>6. CASE n # 0
  <2>1. PICK i \in 1..n, j \in 1..n : \A k \in 1..n : wide[i] <= wide[k] /\ wide[k] <= wide[j]
    BY <1>3, <1>6, Extremes
  <2>2. \E x \in source : \A y \in source : x <= y
    BY <1>5, <2>1
  <2>3. \E x \in source : \A y \in source : x >= y
    BY <1>3, <1>5, <2>1
  <2>4. Min(source) \in source /\ \A y \in source : Min(source) <= y
    BY <2>2 DEF Min
  <2>5. Max(source) \in source /\ \A y \in source : Max(source) >= y
    BY <2>3 DEF Max
  <2>6. source \subseteq Int
    BY <1>3, <1>5
  <2>7. PICK lo \in Int, hi \in Int : lo = Min(source) /\ hi = Max(source)
    BY <2>4, <2>5, <2>6
  <2>8. \A y \in source : y \in lo..hi
    BY <2>4, <2>5, <2>6, <2>7
  <2>9. CASE Format(chunk) = target
    <3>1. chunk.width = target.width /\ chunk.rate = target.rate /\ Converted(chunk, target, slip) = chunk.samples
      BY <2>9 DEF Format, Converted
    <3>2. \A v \in Range(Converted(chunk, target, slip)) : ToInt16(v, target.width) \in source
      BY <1>4, <3>1
    <3> QED
      BY <1>4, <2>7, <2>8, <3>1, <3>2 DEF StaysInRange, Lowest, Highest
  <2>10. CASE Format(chunk) # target
    <3>1. Source(chunk, lo, hi)
      BY <1>1, <1>2, <1>5, <2>8 DEF Source
    <3>2. PICK timed : Result(timed, chunk, target, slip, lo, hi)
      BY <2>10, <3>1, ConvertedBetween
    <3>t. PICK low \in Int, high \in Int : /\ low = Lowest(lo, chunk.rate, target.rate)
                                           /\ high = Highest(hi, chunk.rate, target.rate)
      BY Ends
    <3>3. ASSUME NEW v \in Range(Converted(chunk, target, slip))
          PROVE  ToInt16(v, target.width) \in low..high
      <4>1. PICK h \in DOMAIN timed : v = FromInt16(timed[h], target.width)
        BY <3>2 DEF Range, Result
      <4>2. timed[h] \in low..high /\ timed[h] \in Int
        BY <3>2, <3>t DEF Between, Result
      <4>3. PICK x \in Int : x = timed[h] /\ x \in low..high
        BY <4>2
      <4>4. ToInt16(FromInt16(x, target.width), target.width) = x
        BY Integers16 DEF Requires
      <4> QED
        BY <4>1, <4>3, <4>4
    <3> QED
      BY <1>4, <2>7, <3>t, <3>3 DEF StaysInRange
  <2> QED
    BY <2>9, <2>10
<1>7. CASE n = 0
  <2>1. Range(Converted(chunk, target, slip)) = {}
    <3>1. CASE Format(chunk) = target
      BY <1>1, <1>7, <3>1 DEF Converted, Range
    <3>2. CASE Format(chunk) # target
      <4>1. Source(chunk, 3, 0)
        BY <1>1, <1>7 DEF Source
      <4>2. PICK timed : Result(timed, chunk, target, slip, 3, 0)
        BY <3>2, <4>1, ConvertedBetween
      <4>3. DOMAIN timed = {}
        BY <4>2 DEF Between, Result, Lowest, Highest
      <4> QED
        BY <4>2, <4>3 DEF Range, Result
    <3> QED
      BY <3>1, <3>2
  <2> QED
    BY <2>1 DEF StaysInRange
<1> QED
  BY <1>6, <1>7

\* Silence stays silent, in whatever format and however the interpolation is
\* rounded: what is off by less than a step is cut off to zero again
\* (utils/audio.py:61-98).
THEOREM KeepsSilenceCorrect ==
    ASSUME NEW chunk, NEW target, Playable(chunk), Requires(target), ~Refused(chunk, target),
           WholeFrames(chunk), NEW slip \in Slips
    PROVE  KeepsSilence(chunk, target, slip)
<1> DEFINE Zero(width) == IF width = 1 THEN 128 ELSE 0
<1> SUFFICES ASSUME Range(chunk.samples) = {Zero(chunk.width)}
             PROVE  Range(Converted(chunk, target, slip)) = {Zero(target.width)}
  BY DEF KeepsSilence
<1>1. CASE Format(chunk) = target
  BY <1>1 DEF Format, Converted
<1>2. CASE Format(chunk) # target
  <2>1. PICK n \in Nat : n = Len(chunk.samples) /\ DOMAIN chunk.samples = 1..n
    BY DEF Playable
  <2>2. \A i \in 1..n : chunk.samples[i] = Zero(chunk.width)
    BY <2>1 DEF Range
  <2>3. ToInt16(Zero(chunk.width), chunk.width) = 0
    <3>1. (128 - 128) * 256 = 0 /\ 0 \div 65536 = 0
      OBVIOUS
    <3> QED
      BY <3>1 DEF Playable, Widths, ToInt16
  <2>4. FromInt16(0, target.width) = Zero(target.width)
    <3>1. 0 \div 256 + 128 = 128 /\ 0 * 65536 = 0
      OBVIOUS
    <3> QED
      BY <3>1 DEF Requires, Widths, FromInt16
  <2>5. chunk.samples # <<>>
    <3>1. PICK i \in DOMAIN chunk.samples : TRUE
      BY DEF Range
    <3> QED
      BY <2>1, <3>1
  <2> HIDE DEF Zero
  <2>6. Source(chunk, 0, 0)
    BY <2>1, <2>2, <2>3 DEF Source
  <2>t. PICK timed : Result(timed, chunk, target, slip, 0, 0)
    BY <1>2, <2>6, ConvertedBetween
  <2>7. /\ Between(timed, 0, 0) /\ timed # <<>>
        /\ Converted(chunk, target, slip)
              = [i \in DOMAIN timed |-> FromInt16(timed[i], target.width)]
    BY <2>5, <2>t DEF Result, Lowest, Highest
  <2>8. 1 \in DOMAIN timed /\ \A i \in DOMAIN timed : timed[i] = 0
    BY <2>7, EmptySeq DEF Between
  <2> QED
    BY <2>4, <2>7, <2>8 DEF Range
<1> QED
  BY <1>1, <1>2

\* A length without a fraction is exact.
LEMMA Exact ==
    ASSUME NEW x \in Nat, NEW b \in Nat \ {0}, NEW slip
    PROVE  Round(x * b, b, slip) = x
<1>1. (x * b) \div b = x /\ (x * b) % b = 0
  BY Quotient
<1> QED
  BY <1>1 DEF Round

\* At the position of a sample, interpolation finds it, to a step.
LEMMA ValueNear ==
    ASSUME NEW samples \in Seq(Int), NEW i \in 1..Len(samples), NEW b \in Nat \ {0},
           NEW slip \in -1..1
    PROVE  ValueAt(samples, (i - 1) * b, b, slip) \in (samples[i] - 1)..(samples[i] + 1)
<1>1. PICK n \in Nat : n = Len(samples)
  OBVIOUS
<1>2. PICK low \in Int : low = i - 1 /\ i \in 1..n /\ low + 1 = i
  BY <1>1
<1>3. (low * b) \div b = low /\ (low * b) % b = 0
  BY Quotient
<1>4. PICK x \in Int : x = samples[i]
  OBVIOUS
<1>5. PICK y \in Int : y = IF low + 2 <= n THEN samples[low + 2] ELSE x
  <2>1. low + 2 <= n => low + 2 \in 1..Len(samples)
    BY <1>1, <1>2
  <2> QED
    BY <1>4, <2>1
<1>6. PICK s \in Int : s = x * b /\ x * b <= s /\ s <= x * b
  OBVIOUS
<1>7. x * (b - 0) + y * 0 = s
  BY <1>6
<1>8. ValueAt(samples, low * b, b, slip) = Trunc(2 * s + slip * (2 * b - 1), 2 * b)
  BY <1>1, <1>2, <1>3, <1>4, <1>5, <1>7 DEF ValueAt
<1>9. Trunc(2 * s + slip * (2 * b - 1), 2 * b) \in (x - 1)..(x + 1)
  <2>1. PICK t : t = Trunc(2 * s + slip * (2 * b - 1), 2 * b)
    OBVIOUS
  <2>2. t \in (IF x > 0 THEN x - 1 ELSE x)..(IF x < 0 THEN x + 1 ELSE x)
    BY <1>6, <2>1, SlipNear
  <2>3. t \in (x - 1)..(x + 1)
    BY <2>2
  <2> QED
    BY <2>1, <2>3
<1> QED
  BY <1>2, <1>4, <1>8, <1>9

\* Interpolated samples are integers.
LEMMA ResampleType ==
    ASSUME NEW samples \in Seq(Int), samples # <<>>, NEW slip \in Slips,
           NEW from \in Nat \ {0}, NEW to \in Nat \ {0}
    PROVE  Resample(samples, from, to, slip) \in Seq(Int) /\ Resample(samples, from, to, slip) # <<>>
<1>1. PICK n \in Nat \ {0} : n = Len(samples) /\ samples \in [1..n -> Int]
  BY EmptySeq
<1>2. PICK i \in 1..n, j \in 1..n : \A k \in 1..n : samples[i] <= samples[k] /\ samples[k] <= samples[j]
  BY <1>1, Extremes
<1>3. PICK lo \in Int, hi \in Int : lo = samples[i] /\ hi = samples[j]
  BY <1>1
<1>4. \A k \in 1..n : samples[k] \in Int /\ lo <= samples[k] /\ samples[k] <= hi
  BY <1>1, <1>2, <1>3
<1>5. Between(samples, lo, hi)
  BY <1>1, <1>4 DEF Between
<1> QED
  BY <1>5, ResampleBetween DEF Between

\* Resampling up by a whole factor keeps the samples, to a step, and down again
\* finds as many, to two steps, however many they are and however each
\* interpolation is rounded (utils/audio.py:86-98).
THEOREM KeepsSamplesCorrect ==
    ASSUME NEW samples \in Seq(Int), samples # <<>>,
           NEW rate \in Nat \ {0}, NEW factor \in Nat \ {0},
           NEW slipUp \in Slips, NEW slipDown \in Slips
    PROVE  KeepsSamples(samples, rate, factor, slipUp, slipDown)
<1>1. PICK n \in Nat \ {0} : n = Len(samples) /\ DOMAIN samples = 1..n
  BY EmptySeq
<1>2. PICK high \in Nat \ {0} : high = rate * factor
  OBVIOUS
<1>3. PICK up : up = Resample(samples, rate, high, slipUp)
  OBVIOUS
<1>4. PICK down : down = Resample(up, high, rate, slipDown)
  OBVIOUS
<1> SUFFICES /\ \A i \in 1..n : up[(i - 1) * factor + 1] - samples[i] \in -1..1
             /\ DOMAIN down = 1..n
             /\ \A i \in 1..n : down[i] - samples[i] \in -2..2
  BY <1>1, <1>2, <1>3, <1>4 DEF KeepsSamples
<1>5. \A i \in 1..n : samples[i] \in Int
  BY <1>1
<1>6. CASE factor = 1
  <2>1. high = rate
    BY <1>2, <1>6
  <2>2. up = samples /\ down = samples
    BY <1>3, <1>4, <2>1 DEF Resample
  <2>3. \A i \in 1..n : (i - 1) * factor + 1 = i
    BY <1>6
  <2>4. \A i \in 1..n : samples[i] - samples[i] = 0
    BY <1>5
  <2>5. 0 \in -1..1 /\ 0 \in -2..2
    OBVIOUS
  <2>6. \A i \in 1..n : up[(i - 1) * factor + 1] - samples[i] = 0
    BY <2>2, <2>3, <2>4
  <2>7. \A i \in 1..n : down[i] - samples[i] = 0
    BY <2>2, <2>4
  <2>8. DOMAIN down = 1..n
    BY <1>1, <2>2
  <2> QED
    BY <2>5, <2>6, <2>7, <2>8, Zenon
<1>7. CASE factor # 1
  <2>1. rate # high
    BY <1>2, <1>7
  <2>2. PICK size \in Nat \ {0} : size = n * factor
    OBVIOUS
  <2>3. n * high = size * rate /\ size * rate = n * high
    BY <1>2, <2>2
  <2>4. up = [j \in 1..size |-> ValueAt(samples, (j - 1) * n, size, slipUp[j])]
    <3>1. Round(n * high, rate, slipUp[0]) = size
      BY <2>3, Exact
    <3>2. PICK new \in Nat \ {0} :
             /\ new = IF Round(n * high, rate, slipUp[0]) >= 1
                      THEN Round(n * high, rate, slipUp[0]) ELSE 1
             /\ Spread(up, samples, n, new, slipUp)
      BY <1>1, <1>3, <2>1, ResampleShape
    <3>3. new = size
      BY <3>1, <3>2
    <3> QED
      BY <3>2, <3>3 DEF Spread
  <2>5. up \in Seq(Int) /\ Len(up) = size /\ up # <<>>
    <3>1. up \in Seq(Int) /\ up # <<>>
      BY <1>2, <1>3, ResampleType
    <3>2. Len(up) \in Nat /\ DOMAIN up = 1..Len(up)
      BY <3>1
    <3>3. DOMAIN up = 1..size
      BY <2>4
    <3>4. \A j \in 1..size : up[j] \in Int
      BY <3>1, <3>2, <3>3
    <3>5. up \in [1..size -> Int]
      BY <2>4, <3>4
    <3> QED
      BY <3>1, <3>5
  <2>6. ASSUME NEW i \in 1..n
        PROVE  /\ (i - 1) * factor + 1 \in 1..size
               /\ up[(i - 1) * factor + 1] \in (samples[i] - 1)..(samples[i] + 1)
    <3>1. PICK k \in Nat : k = i - 1 /\ k + 1 <= n
      OBVIOUS
    <3>2. PICK at \in Nat : at = k * factor
      BY <3>1
    <3>3. at + factor <= size
      <4>1. (k + 1) * factor = at + factor
        BY <3>1, <3>2
      <4>2. (k + 1) * factor <= n * factor
        BY <3>1, Ordered
      <4> QED
        BY <2>2, <4>1, <4>2
    <3>4. at + 1 \in 1..size /\ (at + 1) - 1 = at
      BY <3>2, <3>3
    <3>5. at * n = k * size
      BY <2>2, <3>1, <3>2
    <3>6. PICK slip \in -1..1 : slip = slipUp[at + 1]
      BY DEF Slips
    <3>7. up[at + 1] = ValueAt(samples, k * size, size, slip)
      BY <2>4, <3>4, <3>5, <3>6
    <3>8. ValueAt(samples, k * size, size, slip) \in (samples[i] - 1)..(samples[i] + 1)
      BY <1>1, <3>1, ValueNear
    <3> QED
      BY <3>1, <3>2, <3>4, <3>7, <3>8
  <2>7. down = [j \in 1..n |-> ValueAt(up, (j - 1) * size, n, slipDown[j])]
    <3>1. Round(size * rate, high, slipDown[0]) = n
      BY <2>3, Exact
    <3>2. PICK new \in Nat \ {0} :
             /\ new = IF Round(size * rate, high, slipDown[0]) >= 1
                      THEN Round(size * rate, high, slipDown[0]) ELSE 1
             /\ Spread(down, up, size, new, slipDown)
      BY <1>4, <2>1, <2>5, ResampleShape
    <3>3. new = n
      BY <3>1, <3>2
    <3> QED
      BY <3>2, <3>3 DEF Spread
  <2>8. ASSUME NEW j \in 1..n PROVE down[j] - samples[j] \in -2..2
    <3>1. PICK k \in Nat : k = (j - 1) * factor
      <4>1. j - 1 \in Nat
        OBVIOUS
      <4> QED
        BY <4>1
    <3>2. PICK at \in 1..size : at = k + 1 /\ up[at] \in (samples[j] - 1)..(samples[j] + 1)
      BY <2>6, <3>1
    <3>3. (at - 1) * n = (j - 1) * size
      <4>1. PICK d \in Int : d = j - 1
        OBVIOUS
      <4>2. (d * factor) * n = d * (n * factor)
        BY <4>1
      <4> QED
        BY <2>2, <3>1, <3>2, <4>1, <4>2
    <3>4. PICK slip \in -1..1 : slip = slipDown[j]
      BY DEF Slips
    <3>5. ValueAt(up, (at - 1) * n, n, slip) \in (up[at] - 1)..(up[at] + 1)
      BY <2>5, <3>2, ValueNear
    <3>6. down[j] \in (up[at] - 1)..(up[at] + 1)
      BY <2>7, <3>3, <3>4, <3>5
    <3>7. PICK x \in Int, y \in Int : x = samples[j] /\ y = up[at]
      BY <1>5, <2>5
    <3>8. PICK z \in Int : z = down[j] /\ z \in (y - 1)..(y + 1)
      <4>1. down[j] \in (y - 1)..(y + 1)
        BY <3>6, <3>7, Zenon
      <4>2. \A z \in (y - 1)..(y + 1) : z \in Int
        BY <3>7
      <4> QED
        BY <4>1, <4>2, Zenon
    <3>9. y \in (x - 1)..(x + 1)
      BY <3>2, <3>7
    <3>10. PICK e \in Int : e = z - x /\ -2 <= e /\ e <= 2
      BY <3>8, <3>9
    <3>11. e \in -2..2
      BY <3>10
    <3>12. down[j] - samples[j] = e
      BY <3>7, <3>8, <3>10
    <3> QED
      BY <3>11, <3>12
  <2>9. ASSUME NEW i \in 1..n PROVE up[(i - 1) * factor + 1] - samples[i] \in -1..1
    <3>1. PICK x \in Int : x = samples[i]
      BY <1>5
    <3>2. PICK y \in Int : y = up[(i - 1) * factor + 1] /\ y \in (x - 1)..(x + 1)
      BY <2>6, <3>1
    <3>3. PICK e \in Int : e = y - x /\ e \in -1..1
      BY <3>2
    <3>4. up[(i - 1) * factor + 1] - samples[i] = e
      BY <3>1, <3>2, <3>3
    <3> QED
      BY <3>3, <3>4
  <2> QED
    BY <2>7, <2>8, <2>9
<1> QED
  BY <1>6, <1>7

\* after samples at one rate last as long as before at another, to half a sample.
AsLong(after, from, before, to) ==
    2 * (after * from) <= 2 * (before * to) + from /\ 2 * (before * to) <= 2 * (after * from) + from

\* What is resampled lasts as long.
LEMMA ResampleLength ==
    ASSUME NEW samples \in Seq(Int), NEW n \in Nat, n = Len(samples), NEW slip \in Slips,
           NEW from \in Nat \ {0}, NEW to \in Nat \ {0}, 2 * (n * to) >= from
    PROVE  \E k \in Nat : DOMAIN Resample(samples, from, to, slip) = 1..k /\ AsLong(k, from, n, to)
<1>1. CASE from = to
  <2>1. Resample(samples, from, to, slip) = samples
    BY <1>1 DEF Resample
  <2>2. DOMAIN Resample(samples, from, to, slip) = 1..n /\ AsLong(n, from, n, to)
    BY <1>1, <2>1 DEF AsLong
  <2> QED
    BY <2>2
<1>2. CASE from # to
  <2>1. samples # <<>>
    <3>1. n # 0
      OBVIOUS
    <3> QED
      BY <3>1
  <2>2. PICK a \in Nat : a = n * to
    OBVIOUS
  <2>3. PICK m \in Nat : /\ m = Round(a, from, slip[0]) /\ 2 * (m * from) <= 2 * a + from
                         /\ 2 * a <= 2 * (m * from) + from
    BY Nearest
  <2>4. PICK new \in Nat \ {0} :
           /\ new = IF Round(n * to, from, slip[0]) >= 1 THEN Round(n * to, from, slip[0]) ELSE 1
           /\ Spread(Resample(samples, from, to, slip), samples, n, new, slip)
    BY <1>2, <2>1, ResampleShape
  <2>5. DOMAIN Resample(samples, from, to, slip) = 1..new
    BY <2>4 DEF Spread
  <2>6. CASE m >= 1
    <3>1. new = m
      BY <2>2, <2>3, <2>4, <2>6
    <3>2. AsLong(new, from, n, to)
      BY <2>2, <2>3, <3>1 DEF AsLong
    <3> QED
      BY <2>5, <3>2
  <2>7. CASE m = 0
    <3>1. new = 1 /\ m * from = 0 /\ new * from = from
      BY <2>2, <2>3, <2>4, <2>7
    <3>2. 2 * a <= from /\ from <= 2 * a
      BY <2>2, <2>3, <3>1
    <3>3. AsLong(new, from, n, to)
      BY <2>2, <3>1, <3>2 DEF AsLong
    <3> QED
      BY <2>5, <3>3
  <2> QED
    BY <2>3, <2>6, <2>7
<1> QED
  BY <1>1, <1>2

\* The mixed samples of a chunk, and those they are converted to.
Lengths(chunk, target, slip, mixed, after) ==
    /\ Len(chunk.samples) * target.channels = mixed * chunk.channels
    /\ Len(Converted(chunk, target, slip)) = after
    /\ AsLong(after, chunk.rate, mixed, target.rate)

LEMMA ChunkLength ==
    ASSUME NEW chunk, NEW target, Playable(chunk), Requires(target), ~Refused(chunk, target),
           WholeFrames(chunk), LongEnough(chunk, target), NEW slip \in Slips
    PROVE  \E mixed, after \in Nat : Lengths(chunk, target, slip, mixed, after)
<1>1. PICK n \in Nat : n = Len(chunk.samples) /\ DOMAIN chunk.samples = 1..n
  BY DEF Playable
<1>2. PICK from \in Nat \ {0}, to \in Nat \ {0}, c \in Nat \ {0}, d \in Nat \ {0} :
         from = chunk.rate /\ to = target.rate /\ c = chunk.channels /\ d = target.channels
  BY DEF Playable, Requires
<1>3. PICK m \in Nat : n = m * c
  BY <1>1, <1>2 DEF WholeFrames
<1>4. n \div c = m
  <2>1. m \in Int /\ (m * c) \div c = m
    BY Quotient
  <2> QED
    BY <1>3, <2>1
<1>5. 2 * (m * to) >= from
  <2>1. 2 * m * to >= from
    BY <1>1, <1>2, <1>4 DEF LongEnough, Frames
  <2>2. 2 * m * to = 2 * (m * to)
    OBVIOUS
  <2> QED
    BY <2>1, <2>2
<1>6. CASE Format(chunk) = target
  <2>1. Converted(chunk, target, slip) = chunk.samples /\ from = to /\ c = d
    BY <1>2, <1>6 DEF Format, Converted
  <2> QED
    BY <1>1, <1>2, <2>1 DEF Lengths, AsLong
<1>7. CASE Format(chunk) # target
  <2>1. PICK wide : wide = [i \in 1..n |-> ToInt16(chunk.samples[i], chunk.width)]
    OBVIOUS
  <2>2. wide \in [1..n -> Int]
    <3>1. \A i \in 1..n : ToInt16(chunk.samples[i], chunk.width) \in Int
      BY <1>1, Integers16 DEF Playable
    <3> QED
      BY <2>1, <3>1
  <2>3. PICK mixed : mixed = IF c = d THEN wide ELSE Mono(wide, c)
    OBVIOUS
  <2>4. PICK lo \in Int, hi \in Int : Between(wide, lo, hi)
    <3>1. m # 0 /\ n # 0
      BY <1>3, <1>5
    <3>2. PICK i \in 1..n, j \in 1..n : \A k \in 1..n : wide[i] <= wide[k] /\ wide[k] <= wide[j]
      BY <2>2, <3>1, Extremes
    <3>3. wide \in Seq(Int) /\ Len(wide) = n /\ \A k \in 1..n : wide[k] \in Int
      BY <2>2
    <3>4. Between(wide, wide[i], wide[j])
      BY <3>2, <3>3 DEF Between
    <3> QED
      BY <3>2, <3>3, <3>4
  <2>5. Between(mixed, lo, hi)
    BY <2>3, <2>4, MonoBetween
  <2>6. PICK k \in Nat : k = Len(mixed) /\ n * d = k * c /\ 2 * (k * to) >= from
    <3>1. CASE c = d
      <4>1. Len(mixed) = n
        BY <2>2, <2>3, <3>1
      <4>2. 2 * (n * to) >= from
        <5>1. m * to <= n * to
          <6>1. m <= n
            BY <1>3
          <6> QED
            BY <6>1, Ordered
        <5>2. m * to \in Nat /\ n * to \in Nat
          OBVIOUS
        <5> QED
          BY <1>5, <5>1, <5>2
      <4> QED
        BY <3>1, <4>1, <4>2
    <3>2. CASE c # d
      <4>1. d = 1
        BY <1>2, <1>7, <3>2 DEF Refused
      <4>2. DOMAIN mixed = 1..m
        <5>1. mixed = Mono(wide, c) /\ Len(wide) = n
          BY <2>2, <2>3, <3>2
        <5> QED
          BY <1>4, <5>1 DEF Mono
      <4>3. Len(mixed) = m
        BY <2>5, <4>2 DEF Between
      <4> QED
        BY <1>3, <1>5, <4>1, <4>3
    <3> QED
      BY <3>1, <3>2
  <2>7. PICK after \in Nat : DOMAIN Resample(mixed, from, to, slip) = 1..after
                            /\ AsLong(after, from, k, to)
    <3>1. k = Len(mixed) /\ 2 * (k * to) >= from /\ mixed \in Seq(Int)
      BY <2>5, <2>6 DEF Between
    <3> QED
      BY <3>1, ResampleLength
  <2>8. PICK timed : timed = Resample(mixed, from, to, slip)
    OBVIOUS
  <2>9. Converted(chunk, target, slip) = [i \in 1..after |-> FromInt16(timed[i], target.width)]
    BY <1>1, <1>2, <1>7, <2>1, <2>3, <2>7, <2>8 DEF Converted
  <2>10. Len(Converted(chunk, target, slip)) = after
    BY <2>9
  <2> QED
    BY <1>1, <1>2, <2>6, <2>7, <2>10 DEF Lengths
<1> QED
  BY <1>6, <1>7

\* What is almost so for each is almost so for the sums.
Near(a, x, b, y, e) == a * x - b * y <= e /\ b * y - a * x <= e

LEMMA Spreads ==
    ASSUME NEW a \in Int, NEW p \in Int, NEW u \in Int
    PROVE  a * p \in Int /\ a * u \in Int /\ a * (p + u) = a * p + a * u
OBVIOUS

LEMMA SumsNear ==
    ASSUME NEW n \in Nat, NEW x \in [1..n -> Int], NEW y \in [1..n -> Int],
           NEW a \in Int, NEW b \in Int, NEW e \in Int, \A i \in 1..n : Near(a, x[i], b, y[i], e)
    PROVE  /\ Total(x, 0, n) \in Int /\ Total(y, 0, n) \in Int
           /\ Near(a, Total(x, 0, n), b, Total(y, 0, n), n * e)
<1>1. \A k \in 1..n : x[0 + k] = x[k] /\ y[0 + k] = y[k] /\ x[k] \in Int /\ y[k] \in Int
  OBVIOUS
<1>2. PICK s \in [0..n -> Int] : Total(x, 0, n) = s[n] /\ Sums(s, x, 0, n)
  BY <1>1, TotalEquation
<1>3. PICK t \in [0..n -> Int] : Total(y, 0, n) = t[n] /\ Sums(t, y, 0, n)
  BY <1>1, TotalEquation
<1> DEFINE D == {k \in Nat : k <= n => Near(a, s[k], b, t[k], k * e)}
<1>4. 0 \in D
  <2>1. s[0] = 0 /\ t[0] = 0
    BY <1>2, <1>3 DEF Sums
  <2> QED
    BY <2>1 DEF Near
<1>5. ASSUME NEW k \in Nat, k \in D PROVE k + 1 \in D
  <2> SUFFICES ASSUME k + 1 <= n PROVE Near(a, s[k + 1], b, t[k + 1], (k + 1) * e)
    OBVIOUS
  <2>1. k + 1 \in 1..n /\ (k + 1) - 1 = k /\ k \in 0..n /\ k <= n
    OBVIOUS
  <2>2. Near(a, s[k], b, t[k], k * e)
    BY <1>5, <2>1
  <2>3. PICK u \in Int, v \in Int : u = x[k + 1] /\ v = y[k + 1] /\ Near(a, u, b, v, e)
    <3>1. x[k + 1] \in Int /\ y[k + 1] \in Int /\ Near(a, x[k + 1], b, y[k + 1], e)
      BY <1>1, <2>1
    <3> QED
      BY <3>1
  <2> HIDE DEF D
  <2>4. PICK p \in Int, q \in Int : p = s[k] /\ q = t[k]
    BY <1>2, <1>3, <2>1
  <2>5. s[k + 1] = p + u /\ t[k + 1] = q + v
    BY <1>1, <1>2, <1>3, <2>1, <2>3, <2>4 DEF Sums
  <2>6. Near(a, p + u, b, q + v, (k + 1) * e)
    <3>1. /\ a * p \in Int /\ a * u \in Int /\ a * (p + u) = a * p + a * u
          /\ b * q \in Int /\ b * v \in Int /\ b * (q + v) = b * q + b * v
      BY Spreads
    <3>2. k * e \in Int /\ (k + 1) * e = k * e + e
      <4>1. k \in Int /\ 1 \in Int
        OBVIOUS
      <4>2. e * k \in Int /\ e * (k + 1) = e * k + e * 1
        BY <4>1, Spreads
      <4>3. e * k = k * e /\ e * (k + 1) = (k + 1) * e /\ e * 1 = e
        OBVIOUS
      <4> QED
        BY <4>2, <4>3
    <3>3. /\ a * p - b * q <= k * e /\ b * q - a * p <= k * e
          /\ a * u - b * v <= e /\ b * v - a * u <= e
      BY <2>2, <2>3, <2>4 DEF Near
    <3> QED
      BY <3>1, <3>2, <3>3 DEF Near
  <2> QED
    BY <2>5, <2>6
<1> HIDE DEF D
<1>6. Nat \subseteq D
  BY <1>4, <1>5, Induction
<1>7. Near(a, s[n], b, t[n], n * e)
  BY <1>6 DEF D
<1>8. s[n] \in Int /\ t[n] \in Int
  BY <1>2, <1>3
<1> QED
  BY <1>2, <1>3, <1>7, <1>8

\* One chunk, before and after.
LEMMA LengthsNear ==
    ASSUME NEW n \in Nat, NEW k \in Nat, NEW m \in Nat,
           NEW from \in Nat \ {0}, NEW to \in Nat \ {0}, NEW c \in Nat \ {0}, NEW d \in Nat \ {0},
           NEW w \in Nat \ {0}, NEW v \in Nat \ {0},
           n * d = m * c, AsLong(k, from, m, to)
    PROVE  LET before == from * c * w
               after == to * d * v
           IN  Near(2 * to * after, n * w, 2 * to * before, k * v, before * after)
<1>1. PICK f \in Nat, t \in Nat : f = k * from /\ t = m * to
  OBVIOUS
<1>2. 2 * f <= 2 * t + from /\ 2 * t <= 2 * f + from
  BY <1>1 DEF AsLong
<1>3. PICK g \in Nat : g = to * w * v * c
  OBVIOUS
<1>4. (2 * to * (to * d * v)) * (n * w) = (2 * t) * g
  <2>1. (2 * to * (to * d * v)) * (n * w) = (2 * to * to * v * w) * (n * d)
    OBVIOUS
  <2>2. (2 * to * to * v * w) * (m * c) = (2 * (m * to)) * (to * w * v * c)
    OBVIOUS
  <2> QED
    BY <1>1, <1>3, <2>1, <2>2
<1>5. (2 * to * (from * c * w)) * (k * v) = (2 * f) * g
  <2>1. (2 * to * (from * c * w)) * (k * v) = (2 * (k * from)) * (to * w * v * c)
    OBVIOUS
  <2> QED
    BY <1>1, <1>3, <2>1
<1>6. (from * c * w) * (to * d * v) = (from * g) * d
  <2>1. (from * c * w) * (to * d * v) = (from * (to * w * v * c)) * d
    OBVIOUS
  <2> QED
    BY <1>3, <2>1
<1>7. (2 * t) * g - (2 * f) * g <= from * g /\ (2 * f) * g - (2 * t) * g <= from * g
  <2>1. (2 * t) * g <= (2 * f + from) * g /\ (2 * f) * g <= (2 * t + from) * g
    BY <1>2, Ordered
  <2>2. (2 * f + from) * g = (2 * f) * g + from * g /\ (2 * t + from) * g = (2 * t) * g + from * g
    OBVIOUS
  <2>3. (2 * f) * g \in Int /\ (2 * t) * g \in Int /\ from * g \in Int
    OBVIOUS
  <2> QED
    BY <2>1, <2>2, <2>3
<1>8. from * g <= (from * g) * d
  <2>1. PICK h \in Nat : h = from * g
    OBVIOUS
  <2>2. 1 * h <= d * h
    BY Ordered
  <2> QED
    BY <2>1, <2>2
<1> QED
  <2>1. PICK p \in Int, q \in Int, h \in Int, e \in Int :
           p = (2 * t) * g /\ q = (2 * f) * g /\ h = from * g /\ e = (from * g) * d
    OBVIOUS
  <2>2. p - q <= e /\ q - p <= e
    BY <1>7, <1>8, <2>1
  <2> QED
    BY <1>4, <1>5, <1>6, <2>1, <2>2 DEF Near

\* The chunks that are converted together: of one format, which can be converted.
OneFormat(chunks, target) ==
    \A i \in 1..Len(chunks) :
        /\ Playable(chunks[i]) /\ WholeFrames(chunks[i]) /\ ~Refused(chunks[i], target)
        /\ Format(chunks[i]) = Format(chunks[1])

\* Audio is neither cut nor stretched: converted, its chunks play as long as
\* before, to half a sample of the target's rate for each of them, whatever the
\* rates, the channels and the widths are and whichever way a length half-way
\* between two is rounded (stt/utils/audio.py:9-16, :19-98).
THEOREM KeepsDurationCorrect ==
    ASSUME NEW S, NEW chunks \in Seq(S), chunks # <<>>, NEW target, Requires(target),
           OneFormat(chunks, target), NEW slips \in [Nat -> Slips]
    PROVE  KeepsDuration(chunks, target, slips)
<1> SUFFICES ASSUME \A i \in DOMAIN chunks : LongEnough(chunks[i], target)
             PROVE  LET after == ConvertedChunks(chunks, target, slips)
                        drift == Bytes(chunks) * BytesPerSecond(after)
                                 - Bytes(after) * BytesPerSecond(chunks)
                        bound == Len(chunks) * BytesPerSecond(chunks) * BytesPerSecond(after)
                    IN  2 * target.rate * drift \in -bound..bound
  BY DEF KeepsDuration
<1>1. PICK n \in Nat \ {0} : n = Len(chunks) /\ DOMAIN chunks = 1..n
  BY EmptySeq
<1>2. PICK from \in Nat \ {0}, to \in Nat \ {0}, c \in Nat \ {0}, d \in Nat \ {0},
           w \in Nat \ {0}, v \in Nat \ {0} :
         /\ from = chunks[1].rate /\ c = chunks[1].channels /\ w = chunks[1].width
         /\ to = target.rate /\ d = target.channels /\ v = target.width
  <2>1. Playable(chunks[1])
    <3>1. 1 \in 1..Len(chunks)
      BY <1>1
    <3> QED
      BY <3>1 DEF OneFormat
  <2>2. {chunks[1].rate, chunks[1].channels, chunks[1].width} \subseteq Nat \ {0}
    BY <2>1 DEF Playable, Widths
  <2>3. {target.rate, target.channels, target.width} \subseteq Nat \ {0}
    BY DEF Requires, Widths
  <2> QED
    BY <2>2, <2>3
<1>3. \A i \in 1..n : chunks[i].rate = from /\ chunks[i].channels = c /\ chunks[i].width = w
  BY <1>1, <1>2 DEF OneFormat, Format
<1>4. PICK after : /\ after = ConvertedChunks(chunks, target, slips) /\ DOMAIN after = 1..n /\ Len(after) = n
                   /\ \A i \in 1..n : /\ after[i].rate = to /\ after[i].channels = d
                                      /\ after[i].width = v
                                      /\ after[i].samples = Converted(chunks[i], target, slips[i])
  <2>1. PICK after : after = ConvertedChunks(chunks, target, slips)
    OBVIOUS
  <2>2. after = [i \in 1..n |-> [rate |-> to, channels |-> d, width |-> v,
                                 samples |-> Converted(chunks[i], target, slips[i])]]
    BY <1>1, <1>2, <2>1 DEF ConvertedChunks
  <2>3. DOMAIN after = 1..n /\ Len(after) = n
    BY <2>2
  <2>4. \A i \in 1..n : /\ after[i].rate = to /\ after[i].channels = d /\ after[i].width = v
                        /\ after[i].samples = Converted(chunks[i], target, slips[i])
    BY <2>2
  <2> QED
    BY <2>1, <2>3, <2>4
<1>5. PICK before \in Nat, then \in Nat : before = from * c * w /\ then = to * d * v
  OBVIOUS
<1>6. BytesPerSecond(chunks) = before /\ BytesPerSecond(after) = then
  BY <1>1, <1>2, <1>4, <1>5 DEF BytesPerSecond
<1>7. \A i \in 1..n : \E m, k \in Nat : Lengths(chunks[i], target, slips[i], m, k)
  <2>1. \A i \in 1..n : slips[i] \in Slips
    OBVIOUS
  <2> QED
    BY <1>1, <2>1, ChunkLength DEF OneFormat
<1>8. PICK x : x = [i \in 1..n |-> Len(chunks[i].samples) * w]
  OBVIOUS
<1>9. PICK y : y = [i \in 1..n |-> Len(Converted(chunks[i], target, slips[i])) * v]
  OBVIOUS
<1>10. Bytes(chunks) = Total(x, 0, n)
  <2>1. x = [i \in DOMAIN chunks |-> Len(chunks[i].samples) * chunks[i].width]
    BY <1>1, <1>3, <1>8
  <2> QED
    BY <1>1, <2>1 DEF Bytes
<1>11. Bytes(after) = Total(y, 0, n)
  <2>1. y = [i \in DOMAIN after |-> Len(after[i].samples) * after[i].width]
    BY <1>4, <1>9
  <2> QED
    BY <1>4, <2>1 DEF Bytes
<1>12. ASSUME NEW i \in 1..n
       PROVE  /\ x[i] \in Int /\ y[i] \in Int
              /\ Near(2 * to * then, x[i], 2 * to * before, y[i], before * then)
  <2>1. PICK m \in Nat, k \in Nat : Lengths(chunks[i], target, slips[i], m, k)
    BY <1>7
  <2>2. PICK l \in Nat : l = Len(chunks[i].samples)
    <3>1. Playable(chunks[i])
      BY <1>1 DEF OneFormat
    <3> QED
      BY <3>1 DEF Playable
  <2>3. l * d = m * c /\ Len(Converted(chunks[i], target, slips[i])) = k /\ AsLong(k, from, m, to)
    BY <1>2, <1>3, <2>1, <2>2 DEF Lengths
  <2>4. Near(2 * to * (to * d * v), l * w, 2 * to * (from * c * w), k * v,
             (from * c * w) * (to * d * v))
    BY <2>3, LengthsNear
  <2>5. x[i] = l * w /\ y[i] = k * v /\ l * w \in Int /\ k * v \in Int
    <3>1. x[i] = Len(chunks[i].samples) * w /\ y[i] = Len(Converted(chunks[i], target, slips[i])) * v
      BY <1>8, <1>9
    <3>2. l * w \in Int /\ k * v \in Int
      OBVIOUS
    <3> QED
      BY <2>2, <2>3, <3>1, <3>2
  <2> QED
    BY <1>5, <2>4, <2>5
<1>13. x \in [1..n -> Int] /\ y \in [1..n -> Int]
  <2>1. \A i \in 1..n : x[i] \in Int /\ y[i] \in Int
    BY <1>12
  <2>2. x = [i \in 1..n |-> x[i]] /\ y = [i \in 1..n |-> y[i]]
    BY <1>8, <1>9
  <2> QED
    BY <2>1, <2>2
<1>14. PICK p \in Int, q \in Int :
         p = Total(x, 0, n) /\ q = Total(y, 0, n)
         /\ Near(2 * to * then, p, 2 * to * before, q, n * (before * then))
  <2>1. /\ 2 * to * then \in Int /\ 2 * to * before \in Int /\ before * then \in Int
        /\ n \in Nat
    OBVIOUS
  <2>2. \A i \in 1..n : Near(2 * to * then, x[i], 2 * to * before, y[i], before * then)
    BY <1>12
  <2>3. /\ Total(x, 0, n) \in Int /\ Total(y, 0, n) \in Int
        /\ Near(2 * to * then, Total(x, 0, n), 2 * to * before, Total(y, 0, n),
                n * (before * then))
    BY <1>13, <2>1, <2>2, SumsNear
  <2> QED
    BY <2>3
<1>15. 2 * to * (p * then - q * before) \in -(n * before * then)..(n * before * then)
  <2>1. (2 * to * then) * p - (2 * to * before) * q = 2 * to * (p * then - q * before)
    OBVIOUS
  <2>2. n * (before * then) = n * before * then
    OBVIOUS
  <2>3. PICK f \in Int, g \in Int, e \in Int :
           f = (2 * to * then) * p /\ g = (2 * to * before) * q /\ e = n * (before * then)
    OBVIOUS
  <2>4. f - g <= e /\ g - f <= e
    BY <1>14, <2>3 DEF Near
  <2>5. f - g \in -e..e
    BY <2>4
  <2> QED
    BY <2>1, <2>2, <2>3, <2>5
<1> QED
  BY <1>1, <1>2, <1>4, <1>6, <1>10, <1>11, <1>14, <1>15

LEMMA MCTargetFormat == MCTarget.width \in Widths /\ MCTarget.channels = 1
BY DEF MCTarget, Widths

\* What TLC asks of conversion is an instance of these theorems.
LEMMA MCChunk ==
    ASSUME NEW format \in MCFormats, NEW samples \in Samples(format), NEW chunk,
           chunk = [rate |-> format.rate, channels |-> format.channels,
                    width |-> format.width, samples |-> samples]
    PROVE  IF Refused(chunk, MCTarget) THEN format.width = 3
           ELSE /\ Playable(chunk) /\ WholeFrames(chunk) /\ samples # <<>>
                /\ samples \in Seq(Int)
<1>1. /\ format.rate \in Nat \ {0} /\ format.channels \in {1, 2} /\ format.width \in {1, 2, 3, 4}
  BY DEF MCFormats
<1>2. /\ chunk.rate = format.rate /\ chunk.channels = format.channels
      /\ chunk.width = format.width /\ chunk.samples = samples
  OBVIOUS
<1>3. MCTarget.channels = 1 /\ MCTarget.width = 2
  BY DEF MCTarget
<1>4. CASE Refused(chunk, MCTarget)
  <2>1. {chunk.width, 2} \ {1, 2, 4} # {}
    BY <1>3, <1>4 DEF Refused, Widths
  <2> QED
    BY <1>1, <1>2, <1>4, <2>1
<1>5. CASE ~Refused(chunk, MCTarget)
  <2>1. format.width \in Widths
    BY <1>1, <1>2, <1>3, <1>5, MCTargetFormat DEF Refused, Format, Widths
  <2>2. PICK n \in Nat \ {0} : samples \in [1..(format.channels * n) -> Values(format.width)]
    BY DEF Samples
  <2>3. Values(format.width) \subseteq Int
    BY <2>1 DEF Values, Widths
  <2>4. PICK l \in Nat \ {0} : l = format.channels * n /\ l = n * format.channels
    BY <1>1
  <2>5. samples \in [1..l -> Int]
    BY <2>2, <2>3, <2>4
  <2>6. samples \in Seq(Int) /\ Len(samples) = l /\ samples # <<>>
    BY <2>5
  <2>7. Playable(chunk)
    BY <1>1, <1>2, <2>1, <2>6 DEF Playable
  <2>8. WholeFrames(chunk)
    BY <1>2, <2>4, <2>6 DEF WholeFrames
  <2> QED
    BY <1>5, <2>6, <2>7, <2>8
<1> QED
  BY <1>4, <1>5

LEMMA MCSlipTypes ==
    ASSUME NEW s \in -1..1
    PROVE  MCSlip(s) \in Slips /\ MCSlips(s) \in [Nat -> Slips]
BY DEF MCSlip, MCSlips, Slips

LEMMA MCAnswered == EveryChunkSound
<1> SUFFICES ASSUME NEW format \in MCFormats, NEW samples \in Samples(format), NEW chunk,
                    chunk = [rate |-> format.rate, channels |-> format.channels,
                             width |-> format.width, samples |-> samples]
             PROVE  IF Refused(chunk, MCTarget) THEN format.width = 3
                    ELSE \A s \in -1..1 :
                         /\ StaysInRange(chunk, MCTarget, MCSlip(s))
                         /\ KeepsSilence(chunk, MCTarget, MCSlip(s))
                         /\ Range(samples) = {0} =>
                               \A n \in 1..2 :
                                  KeepsDuration([i \in 1..n |-> chunk], MCTarget, MCSlips(s))
                         /\ format = MCTarget =>
                               \A factor \in 2..3, t \in -1..1 :
                                  KeepsSamples(samples, format.rate, factor,
                                               MCSlip(s), MCSlip(t))
  BY DEF EveryChunkSound
<1>1. CASE Refused(chunk, MCTarget)
  BY <1>1, MCChunk
<1>2. CASE ~Refused(chunk, MCTarget)
  <2>1. /\ Playable(chunk) /\ WholeFrames(chunk) /\ samples # <<>> /\ samples \in Seq(Int)
    BY <1>2, MCChunk
  <2>2. Requires(MCTarget) /\ MCTarget.width # 1
    BY DEF Requires, MCTarget, Widths
  <2>3. ASSUME NEW s \in -1..1
        PROVE  /\ StaysInRange(chunk, MCTarget, MCSlip(s))
               /\ KeepsSilence(chunk, MCTarget, MCSlip(s))
    BY <1>2, <2>1, <2>2, MCSlipTypes, StaysInRangeCorrect, KeepsSilenceCorrect
  <2>4. ASSUME NEW s \in -1..1, NEW n \in 1..2
        PROVE  KeepsDuration([i \in 1..n |-> chunk], MCTarget, MCSlips(s))
    <3>1. PICK chunks : chunks = [i \in 1..n |-> chunk]
      OBVIOUS
    <3>2. /\ chunks \in Seq({chunk}) /\ Len(chunks) = n /\ chunks # <<>>
          /\ \A i \in 1..n : chunks[i] = chunk
      BY <3>1
    <3>3. 1 \in 1..n
      OBVIOUS
    <3>4. OneFormat(chunks, MCTarget)
      BY <1>2, <2>1, <3>2, <3>3 DEF OneFormat
    <3>5. KeepsDuration(chunks, MCTarget, MCSlips(s))
      BY <2>2, <3>2, <3>4, MCSlipTypes, KeepsDurationCorrect
    <3> QED
      BY <3>1, <3>5
  <2>5. ASSUME NEW s \in -1..1, NEW t \in -1..1, NEW factor \in 2..3
        PROVE  KeepsSamples(samples, format.rate, factor, MCSlip(s), MCSlip(t))
    <3>1. format.rate \in Nat \ {0} /\ factor \in Nat \ {0}
      BY DEF MCFormats
    <3> QED
      BY <2>1, <3>1, MCSlipTypes, KeepsSamplesCorrect
  <2> QED
    BY <1>2, <2>3, <2>4, <2>5
<1> QED
  BY <1>1, <1>2

\* What an engine is given is what was said: in the format it requires, as long,
\* undistorted, and refused only in a format nobody can convert
\* (stt/utils/audio.py:19-98).
THEOREM ConversionSoundCorrect == Spec => []ConversionSound
<1>1. ConversionSound
  BY MCAnswered DEF ConversionSound
<1> QED
  BY <1>1, PTL
=============================================================================
