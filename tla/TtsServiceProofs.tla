-------------------------- MODULE TtsServiceProofs --------------------------
(***************************************************************************)
(* Proofs about TtsService, for every set of requests and voices, every    *)
(* capacity and every number of chunks: its requests take only steps of    *)
(* the voice cache, what ends well is whole, and every variable keeps its  *)
(* type.                                                                   *)
(***************************************************************************)
EXTENDS TtsService, EngineManagerProofs

-----------------------------------------------------------------------------
(* The requests of the service use the cache as EngineManager says.        *)

LEMMA LeasesStep == [Next]_vars => [CacheNext]_cacheVars
<1> SUFFICES ASSUME [Next]_vars PROVE [CacheNext]_cacheVars
  OBVIOUS
<1>1. ASSUME NEW r \in Requests, LeaseStep(r) PROVE [CacheNext]_cacheVars
  BY <1>1 DEF CacheNext
<1>2. ASSUME NEW r \in Requests, Opening(r) PROVE [CacheNext]_cacheVars
  BY <1>1, <1>2 DEF Opening, Load, Unwanted, NotFound, Start, LeaseStep
<1>3. ASSUME NEW r \in Requests, Encoding(r) PROVE [CacheNext]_cacheVars
  BY <1>1, <1>3 DEF Encoding, Collect, EncodingEnds, EncodingFails, LeaseStep
<1>4. ASSUME NEW r \in Requests, Thread(r) PROVE [CacheNext]_cacheVars
  BY <1>4 DEF Thread, Synthesize, SynthesisEnds, CheckStopped, Enqueue, Put
<1>5. ASSUME NEW r \in Requests, Servicer(r) \/ Client(r) PROVE [CacheNext]_cacheVars
  BY <1>1, <1>5 DEF Servicer, Client, GetChunk, GetEnd, Leave, Closed, Refuse, Begin,
                    Written, CancelLoading, CancelPolling, CancelWriting, LeaseStep
<1>6. ASSUME NEW m \in Models, UnloadVoice(m) PROVE [CacheNext]_cacheVars
  BY <1>6 DEF UnloadVoice, CacheNext
<1>7. CASE UNCHANGED vars
  BY <1>7 DEF vars
<1> QED
  BY <1>2, <1>3, <1>4, <1>5, <1>6, <1>7 DEF Next, Terminated

\* The service runs its cache as EngineManager specifies it, so what is proved
\* of the cache holds in the service (grpc_servicer.py:18, routes.py:35, 55).
THEOREM LeasesFollowCache == Spec => CacheSpec
<1>1. Init => CacheInit
  BY DEF Init
<1> QED
  BY <1>1, LeasesStep, PTL DEF Spec, CacheSpec

\* A voice in the cache when it was pinned stays until its user is done,
\* whatever is evicted, unloaded or loaded twice (engine_manager.py:112-122).
THEOREM VoicesStayLoaded == Spec => []PinnedStaysLoaded
BY LeasesFollowCache, PinnedStaysLoadedCorrect, PTL

-----------------------------------------------------------------------------
(* The queue.                                                              *)

Chunks == 0..MaxChunk

\* What TypeOK says of the variables the queue depends on.
QueueTypes ==
    /\ kind \in [Requests -> {"grpc", "ws", "http"}]
    /\ producer \in [Requests -> {"none", "synthesizing", "got", "enqueuing",
                                  "putting", "gone"}]
    /\ made \in [Requests -> Chunks] /\ sent \in [Requests -> Chunks]
    /\ result \in [Requests -> {"none", "whole", "raised", "broken"}]
    /\ item \in [Requests -> Items]
    /\ items \in [Requests -> Seq(Items)]
    /\ stopped \subseteq Requests
    /\ servicer \in [Requests -> {"new", "loading", "polling", "writing", "leaving",
                                  "closing", "encoding", "done"}]
    /\ status \in [Requests -> {"none", "ok", "empty", "error", "refused", "cancelled"}]

\* How far a request is, by its coroutine and its thread.
Stage(r) ==
    /\ servicer[r] \in {"new", "loading"} => producer[r] = "none"
    /\ producer[r] = "none" => /\ made[r] = 0 /\ sent[r] = 0 /\ items[r] = <<>>
                               /\ result[r] = "none" /\ status[r] # "ok"
                               /\ servicer[r] \in {"new", "loading", "done"}
    /\ status[r] \in {"ok", "empty", "error", "refused"} => servicer[r] = "done"
    /\ r \in stopped => servicer[r] = "done" /\ kind[r] # "http"
    /\ IF kind[r] = "http"
       THEN /\ producer[r] \in {"none", "synthesizing", "gone"}
            /\ producer[r] = "synthesizing" <=> servicer[r] = "encoding"
            /\ servicer[r] \in {"new", "loading", "encoding", "done"}
       ELSE servicer[r] # "encoding"

\* The thread of a request, with k chunks in its queue.
Holding(r, k) ==
    /\ made[r] = sent[r] + k + 1 /\ result[r] = "none" /\ Len(items[r]) = k
    /\ \/ producer[r] = "got"
       \/ producer[r] \in {"enqueuing", "putting"} /\ item[r] = made[r]

Between(r, k) ==
    /\ made[r] = sent[r] + k /\ Len(items[r]) = k
    /\ \/ producer[r] = "synthesizing" /\ result[r] = "none"
       \/ /\ producer[r] \in {"enqueuing", "putting"}
          /\ \/ item[r] = Failure /\ result[r] = "raised"
             \/ item[r] = Sentinel /\ result[r] = "whole"

Ending(r, k) ==
    /\ made[r] = sent[r] + k
    /\ \/ /\ producer[r] \in {"enqueuing", "putting"} /\ item[r] = Sentinel
          /\ result[r] = "raised"
          /\ Len(items[r]) = k + 1 /\ items[r][k + 1] = Failure
       \/ /\ producer[r] = "gone" /\ result[r] = "whole"
          /\ Len(items[r]) = k + 1 /\ items[r][k + 1] = Sentinel
       \/ /\ producer[r] = "gone" /\ item[r] = Sentinel /\ result[r] = "raised"
          /\ Len(items[r]) = k + 2
          /\ items[r][k + 1] = Failure /\ items[r][k + 2] = Sentinel

\* A queue nobody has given up holds the chunks made and not sent, in order,
\* but for the one in the thread's hand; then what tells how synthesis ended.
Queue(r, k) ==
    /\ \A i \in 1..k : items[r][i] = sent[r] + i
    /\ Holding(r, k) \/ Between(r, k) \/ Ending(r, k)

Queued(r) ==
    kind[r] # "http" /\ producer[r] # "none" /\ r \notin stopped =>
        \E k \in Chunks : Queue(r, k)

\* What EndIsWhole says, and that it is settled.
Settled(r) ==
    /\ status[r] = "ok" =>
          /\ producer[r] = "gone" /\ result[r] = "whole" /\ sent[r] = made[r]
          /\ kind[r] = "http" => sent[r] > 0
    /\ status[r] = "error" /\ producer[r] # "none" =>
          /\ producer[r] \in {"enqueuing", "putting", "gone"} /\ result[r] = "raised"
          /\ \/ kind[r] = "http" /\ producer[r] = "gone"
             \/ item[r] = Sentinel /\ sent[r] = made[r]

Whole(r) == Stage(r) /\ Queued(r) /\ Settled(r)
WholeInv == QueueTypes /\ \A r \in Requests : Whole(r)

LEMMA WholeInvInit == Init => WholeInv
BY BoundsAssumption
   DEF Init, WholeInv, Whole, QueueTypes, Chunks, Stage, Queued, Settled, Items, Sentinel

\* Counting up to MaxChunk, and what may be put into a queue.
LEMMA Counting ==
    /\ 0 \in Chunks
    /\ \A n \in Chunks : n < MaxChunk => n + 1 \in Chunks
    /\ Sentinel \in Items /\ Failure \in Items /\ Chunks \subseteq Items
BY BoundsAssumption DEF Chunks, Items, Sentinel, Failure

LEMMA QueueTypesStep == WholeInv /\ [Next]_vars => QueueTypes'
<1> SUFFICES ASSUME WholeInv, [Next]_vars PROVE QueueTypes'
  OBVIOUS
<1>c. /\ \A n \in Chunks : n < MaxChunk => n + 1 \in Chunks
      /\ Sentinel \in Items /\ Failure \in Items /\ Chunks \subseteq Items
  BY Counting
<1>d. MaxChunk \in Nat /\ \A n \in Chunks : n \in Int
  BY BoundsAssumption DEF Chunks
<1>0. /\ kind \in [Requests -> {"grpc", "ws", "http"}]
      /\ producer \in [Requests -> {"none", "synthesizing", "got", "enqueuing",
                                    "putting", "gone"}]
      /\ made \in [Requests -> Chunks] /\ sent \in [Requests -> Chunks]
      /\ result \in [Requests -> {"none", "whole", "raised", "broken"}]
      /\ item \in [Requests -> Items]
      /\ items \in [Requests -> Seq(Items)]
      /\ stopped \subseteq Requests
      /\ servicer \in [Requests -> {"new", "loading", "polling", "writing", "leaving",
                                    "closing", "encoding", "done"}]
      /\ status \in [Requests -> {"none", "ok", "empty", "error", "refused", "cancelled"}]
  BY DEF WholeInv, QueueTypes
<1>m. made \in [Requests -> Chunks] /\ sent \in [Requests -> Chunks]
  BY <1>0
<1>i. item \in [Requests -> Items]
  BY <1>0
<1>q. items \in [Requests -> Seq(Items)]
  BY <1>0
<1>p. producer \in [Requests -> {"none", "synthesizing", "got", "enqueuing",
                                 "putting", "gone"}]
  BY <1>0
<1> USE DEF QueueTypes
<1>1. ASSUME NEW r \in Requests, Load(r) \/ Unwanted(r) PROVE QueueTypes'
  BY <1>0, <1>1 DEF Load, Unwanted, ttsVars, threadVars, callVars
<1>2. ASSUME NEW r \in Requests, NotFound(r) \/ Start(r) PROVE QueueTypes'
  BY ZenonT(60), <1>0, <1>2 DEF NotFound, Start, End, threadVars
<1>3. ASSUME NEW r \in Requests, Collect(r) \/ Synthesize(r) PROVE QueueTypes'
  <2>1. made' \in [Requests -> Chunks]
    BY <1>m, <1>c, <1>3 DEF Collect, Synthesize
  <2> QED
    BY <1>0, <1>3, <2>1 DEF Collect, Synthesize, callVars
<1>4. ASSUME NEW r \in Requests, EncodingEnds(r) \/ EncodingFails(r) PROVE QueueTypes'
  <2>1. sent' \in [Requests -> Chunks]
    BY <1>m, <1>4 DEF EncodingEnds, EncodingFails
  <2> QED
    BY ZenonT(60), <1>0, <1>4, <2>1 DEF EncodingEnds, EncodingFails, End
<1>5. ASSUME NEW r \in Requests, SynthesisEnds(r) \/ CheckStopped(r) PROVE QueueTypes'
  <2>1. item' \in [Requests -> Items]
    BY <1>m, <1>i, <1>c, <1>5 DEF SynthesisEnds, CheckStopped
  <2>2. result' \in [Requests -> {"none", "whole", "raised", "broken"}]
    BY ZenonT(60), <1>0, <1>5 DEF SynthesisEnds, CheckStopped
  <2> QED
    BY ZenonT(60), <1>0, <1>5, <2>1, <2>2 DEF SynthesisEnds, CheckStopped, callVars
<1>6. ASSUME NEW r \in Requests, Enqueue(r) \/ Put(r) PROVE QueueTypes'
  <2>1. item' \in [Requests -> Items]
    BY <1>i, <1>c, <1>6 DEF Enqueue, Put, AfterItem
  <2>2. items' \in [Requests -> Seq(Items)]
    <3>1. Append(items[r], item[r]) \in Seq(Items)
      BY <1>i, <1>q
    <3>2. items' = items \/ items' = [items EXCEPT ![r] = Append(items[r], item[r])]
      BY <1>6 DEF Enqueue, Put
    <3> QED
      BY <1>q, <3>1, <3>2
  <2>3. producer' \in [Requests -> {"none", "synthesizing", "got", "enqueuing",
                                    "putting", "gone"}]
    BY <1>p, <1>6 DEF Enqueue, Put, AfterItem
  <2> QED
    BY <1>0, <1>6, <2>1, <2>2, <2>3 DEF Enqueue, Put, callVars
<1>7. ASSUME NEW r \in Requests, GetChunk(r) PROVE QueueTypes'
  <2>1. items' \in [Requests -> Seq(Items)]
    BY <1>q, <1>7 DEF GetChunk
  <2>2. PICK k \in Chunks : Queue(r, k)
    BY <1>0, <1>7 DEF WholeInv, Whole, Stage, Queued, GetChunk
  <2>3. k # 0
    <3>1. /\ items[r] \in Seq(Items) /\ items[r] # <<>>
          /\ items[r][1] # Sentinel /\ items[r][1] # Failure
      BY <1>d, <1>q, <1>7 DEF GetChunk, Sentinel, Failure
    <3> QED
      BY <2>2, <3>1 DEF Queue, Holding, Between, Ending
  <2>4. sent[r] < MaxChunk
    BY <1>0, <1>d, <2>2, <2>3 DEF Queue, Holding, Between, Ending, Chunks
  <2>5. sent' \in [Requests -> Chunks]
    BY <1>0, <1>c, <1>7, <2>4 DEF GetChunk
  <2> QED
    BY <1>0, <1>7, <2>1, <2>5 DEF GetChunk, threadVars
<1>8. ASSUME NEW r \in Requests, GetEnd(r) PROVE QueueTypes'
  <2>1. items' \in [Requests -> Seq(Items)]
    BY <1>q, <1>8 DEF GetEnd
  <2> QED
    BY <1>0, <1>8, <2>1 DEF GetEnd, End, threadVars
<1>9. ASSUME NEW r \in Requests, Leave(r) \/ Closed(r) \/ Client(r) PROVE QueueTypes'
  BY ZenonT(60), <1>0, <1>9 DEF Leave, Closed, Client, Refuse, Begin, Written, CancelLoading,
                    CancelPolling, CancelWriting, End, threadVars
<1>10. CASE UNCHANGED ttsVars
  BY <1>0, <1>10 DEF ttsVars, threadVars, callVars
<1> QED
  BY <1>1, <1>2, <1>3, <1>4, <1>5, <1>6, <1>7, <1>8, <1>9, <1>10
     DEF Next, Terminated, UnloadVoice, vars, Opening, Encoding, Thread, Servicer

\* What nobody touches stays as it is.
LEMMA Untouched ==
    ASSUME NEW q \in Requests, Whole(q),
           kind'[q] = kind[q], producer'[q] = producer[q], made'[q] = made[q],
           sent'[q] = sent[q], result'[q] = result[q], item'[q] = item[q],
           items'[q] = items[q], q \in stopped' <=> q \in stopped,
           servicer'[q] = servicer[q], status'[q] = status[q]
    PROVE  Whole(q)'
BY DEF Whole, Stage, Queued, Queue, Holding, Between, Ending, Settled

\* A step of one request touches no other.
LEMMA OthersStep ==
    ASSUME WholeInv, NEW r \in Requests, NEW q \in Requests, q # r,
           Opening(r) \/ Encoding(r) \/ Thread(r) \/ Servicer(r) \/ Client(r)
    PROVE  Whole(q)'
<1>0. QueueTypes /\ Whole(q)
  BY DEF WholeInv
<1> USE DEF QueueTypes
<1>1. CASE Opening(r)
  BY ZenonT(60), <1>0, <1>1, Untouched
     DEF Opening, Load, Unwanted, NotFound, Start, End, ttsVars, threadVars, callVars
<1>2. CASE Encoding(r)
  BY ZenonT(60), <1>0, <1>2, Untouched DEF Encoding, Collect, EncodingEnds, EncodingFails, End, callVars
<1>3. CASE Thread(r)
  <2>1. /\ producer'[q] = producer[q] /\ item'[q] = item[q] /\ items'[q] = items[q]
        /\ made'[q] = made[q] /\ result'[q] = result[q]
    BY <1>0, <1>3
       DEF Thread, Synthesize, SynthesisEnds, CheckStopped, Enqueue, Put, AfterItem
  <2>2. UNCHANGED <<kind, stopped, callVars>>
    BY <1>3 DEF Thread, Synthesize, SynthesisEnds, CheckStopped, Enqueue, Put
  <2> QED
    BY <1>0, <2>1, <2>2, Untouched DEF callVars
<1>4. CASE Servicer(r)
  <2>1. CASE GetChunk(r)
    BY ZenonT(60), <1>0, <2>1, Untouched DEF GetChunk, threadVars
  <2>2. CASE GetEnd(r)
    BY ZenonT(60), <1>0, <2>2, Untouched DEF GetEnd, End, threadVars
  <2>3. CASE Leave(r)
    BY ZenonT(60), <1>0, <2>3, Untouched DEF Leave, End, threadVars
  <2>4. CASE Closed(r)
    BY ZenonT(60), <1>0, <2>4, Untouched DEF Closed, End, threadVars
  <2> QED
    BY <1>4, <2>1, <2>2, <2>3, <2>4 DEF Servicer
<1>5. CASE Client(r)
  BY ZenonT(60), <1>0, <1>5, Untouched
     DEF Client, Refuse, Begin, Written, CancelLoading, CancelPolling, CancelWriting, End,
         threadVars
<1> QED
  BY <1>1, <1>2, <1>3, <1>4, <1>5

LEMMA OpeningStep ==
    ASSUME WholeInv, NEW r \in Requests, Opening(r)
    PROVE  Whole(r)'
<1>0. QueueTypes /\ Stage(r) /\ Queued(r) /\ Settled(r)
  BY DEF WholeInv, Whole
<1> USE DEF QueueTypes
<1>1. CASE Load(r) \/ Unwanted(r)
  BY <1>0, <1>1, Untouched
     DEF Load, Unwanted, WholeInv, ttsVars, threadVars, callVars
<1>2. CASE NotFound(r)
  BY <1>0, <1>2 DEF NotFound, End, threadVars, Whole, Stage, Queued, Settled
<1>3. CASE Start(r)
  <2>1. kind'[r] # "http" => Queue(r, 0)'
    BY <1>0, <1>3 DEF Start, Stage, Queue, Between
  <2>2. Stage(r)' /\ Settled(r)'
    BY <1>0, <1>3 DEF Start, Stage, Settled
  <2> QED
    BY <2>1, <2>2, Counting DEF Whole, Queued
<1> QED
  BY <1>1, <1>2, <1>3 DEF Opening

LEMMA EncodingStep ==
    ASSUME WholeInv, NEW r \in Requests, Encoding(r)
    PROVE  Whole(r)'
<1>0. Stage(r) /\ Settled(r) /\ made[r] \in Chunks /\ Chunks \subseteq Nat
  BY DEF WholeInv, Whole, QueueTypes, Chunks
<1>1. /\ servicer[r] = "encoding" /\ kind' = kind /\ item' = item /\ items' = items
      /\ stopped' = stopped
  BY DEF Encoding, Collect, EncodingEnds, EncodingFails
<1>2. kind[r] = "http" /\ producer[r] = "synthesizing" /\ status[r] \notin {"ok", "error"}
  BY <1>0, <1>1 DEF Stage
<1>t. QueueTypes
  BY DEF WholeInv
<1>3. Stage(r)'
  BY <1>0, <1>1, <1>2, <1>t
     DEF Encoding, Collect, EncodingEnds, EncodingFails, End, Stage, QueueTypes, callVars
<1>4. Settled(r)'
  <2>1. CASE Collect(r)
    BY <1>2, <2>1 DEF Collect, Settled, callVars
  <2>2. CASE EncodingEnds(r)
    <3>1. /\ producer'[r] = "gone" /\ result'[r] = "whole" /\ made'[r] = made[r]
          /\ sent'[r] = made[r]
      BY <1>t, <2>2 DEF EncodingEnds, QueueTypes
    <3>2. status'[r] = IF made[r] = 0 THEN "empty" ELSE "ok"
      BY <1>t, <2>2 DEF EncodingEnds, End, QueueTypes
    <3>3. made[r] # 0 => made[r] > 0
      <4>1. made[r] \in Chunks
        BY <1>t DEF QueueTypes
      <4> QED
        BY <4>1, BoundsAssumption DEF Chunks
    <3> QED
      BY <3>1, <3>2, <3>3 DEF Settled
  <2>3. CASE EncodingFails(r)
    BY <1>0, <1>2, <1>t, <2>3 DEF EncodingFails, End, Settled, QueueTypes
  <2> QED
    BY <2>1, <2>2, <2>3 DEF Encoding
<1> QED
  BY <1>1, <1>2, <1>3, <1>4 DEF Whole, Queued

\* The thread fills the queue.
LEMMA ThreadStep ==
    ASSUME WholeInv, NEW r \in Requests, Thread(r)
    PROVE  Whole(r)'
<1>t. QueueTypes
  BY DEF WholeInv
<1>0. /\ Stage(r) /\ Queued(r) /\ Settled(r)
      /\ made[r] \in Nat /\ sent[r] \in Nat /\ MaxChunk \in Nat
      /\ items[r] \in Seq(Items) /\ item[r] \in Items
  BY BoundsAssumption DEF WholeInv, Whole, QueueTypes, Chunks
<1>1. /\ UNCHANGED <<kind, stopped, servicer, sent, status>>
      /\ producer[r] \in {"synthesizing", "got", "enqueuing", "putting"}
      /\ producer[r] = "synthesizing" => servicer[r] # "encoding"
      /\ producer'[r] \in {"synthesizing", "got", "enqueuing", "putting", "gone"}
  BY <1>t DEF Thread, Synthesize, SynthesisEnds, CheckStopped, Enqueue, Put, AfterItem,
              callVars, QueueTypes
<1>2. kind[r] # "http" /\ status[r] # "ok"
  BY <1>0, <1>1 DEF Stage, Settled
<1>3. Stage(r)'
  BY <1>0, <1>1, <1>2 DEF Stage
<1>4. Settled(r)'
  <2>1. ASSUME status[r] = "error"
        PROVE  /\ producer'[r] \in {"enqueuing", "putting", "gone"}
               /\ item'[r] = Sentinel /\ made'[r] = made[r] /\ result'[r] = result[r]
    <3>1. producer[r] \in {"enqueuing", "putting"} /\ item[r] = Sentinel
      BY <1>0, <1>1, <1>2, <2>1 DEF Settled
    <3> QED
      BY <1>t, <3>1 DEF Thread, Synthesize, SynthesisEnds, CheckStopped, Enqueue, Put,
                        AfterItem, QueueTypes
  <2> QED
    BY <1>0, <1>1, <1>2, <2>1 DEF Settled
<1>5. ASSUME r \notin stopped, NEW k \in Chunks, Queue(r, k)
      PROVE  \E n \in Chunks : Queue(r, n)'
  <2>0. k \in Nat /\ Len(items[r]) \in Nat
    BY <1>0, <1>5, BoundsAssumption DEF Chunks
  <2>1. CASE Synthesize(r)
    <3>1. /\ producer[r] = "synthesizing" /\ producer'[r] = "got"
          /\ made'[r] = made[r] + 1 /\ UNCHANGED <<items, result, sent>>
      BY <1>t, <2>1 DEF Synthesize, QueueTypes, callVars
    <3>2. Queue(r, k)'
      BY <1>0, <1>5, <2>0, <3>1 DEF Queue, Holding, Between, Ending
    <3> QED
      BY <3>2
  <2>2. CASE SynthesisEnds(r)
    <3>1. /\ producer[r] = "synthesizing" /\ producer'[r] = "enqueuing"
          /\ UNCHANGED <<items, made, sent>>
          /\ \/ result'[r] = "whole" /\ item'[r] = Sentinel
             \/ result'[r] = "raised" /\ item'[r] = Failure
      BY <1>t, <2>2 DEF SynthesisEnds, QueueTypes, callVars
    <3>2. Queue(r, k)'
      BY <1>0, <1>5, <2>0, <3>1 DEF Queue, Holding, Between, Ending
    <3> QED
      BY <3>2
  <2>3. CASE CheckStopped(r)
    <3>1. /\ producer[r] = "got" /\ producer'[r] = "enqueuing" /\ item'[r] = made[r]
          /\ UNCHANGED <<items, made, sent, result>>
      BY <1>t, <1>5, <2>3 DEF CheckStopped, QueueTypes, callVars
    <3>2. Queue(r, k)'
      BY <1>0, <1>5, <2>0, <3>1 DEF Queue, Holding, Between, Ending
    <3> QED
      BY <3>2
  <2>4. CASE Enqueue(r) \/ (Put(r) /\ Len(items[r]) >= QueueCap)
    <3>1. /\ producer[r] \in {"enqueuing", "putting"}
          /\ producer'[r] \in {"enqueuing", "putting"}
          /\ UNCHANGED <<items, made, sent, result, item>>
      BY <1>t, <1>5, <2>0, <2>4, BoundsAssumption DEF Enqueue, Put, QueueTypes, callVars
    <3>2. Queue(r, k)'
      BY <1>0, <1>5, <2>0, <3>1 DEF Queue, Holding, Between, Ending
    <3> QED
      BY <3>2
  <2>5. CASE Put(r) /\ Len(items[r]) < QueueCap
    <3>1. /\ producer[r] = "putting" /\ UNCHANGED <<made, sent, result>>
          /\ items' = [items EXCEPT ![r] = Append(items[r], item[r])]
          /\ item'[r] = Sentinel
          /\ producer'[r] = CASE item[r] = Sentinel -> "gone"
                              [] item[r] = Failure  -> "enqueuing"
                              [] OTHER              -> "synthesizing"
      BY <1>t, <2>5 DEF Put, AfterItem, QueueTypes, callVars
    <3>2. /\ items'[r] = Append(items[r], item[r])
          /\ Len(items'[r]) = Len(items[r]) + 1
          /\ \A i \in 1..Len(items[r]) : items'[r][i] = items[r][i]
          /\ items'[r][Len(items[r]) + 1] = item[r]
      BY <1>t, <1>0, <3>1 DEF QueueTypes
    <3>3. CASE Holding(r, k)
      <4>1. item[r] = made[r] /\ made[r] \in 1..MaxChunk /\ made[r] = sent[r] + k + 1
        BY <1>t, <1>0, <2>0, <3>1, <3>3 DEF Holding, QueueTypes, Chunks
      <4>2. producer'[r] = "synthesizing"
        BY <1>0, <3>1, <4>1 DEF Sentinel, Failure
      <4>a. \A i \in 1..(k + 1) : items'[r][i] = sent'[r] + i
        <5>1. /\ Len(items[r]) = k /\ sent'[r] = sent[r]
              /\ \A i \in 1..k : items[r][i] = sent[r] + i
          BY <1>5, <3>1, <3>3 DEF Queue, Holding
        <5>3. item[r] = sent[r] + (k + 1)
          <6>1. sent[r] \in Nat /\ item[r] = sent[r] + k + 1
            BY <1>0, <4>1
          <6> QED
            BY <2>0, <6>1
        <5>2. ASSUME NEW i \in 1..(k + 1), i # k + 1 PROVE i \in 1..k
          BY <2>0, <5>2
        <5> QED
          BY <3>2, <5>1, <5>2, <5>3
      <4>b. Between(r, k + 1)'
        <5>1. made'[r] = sent'[r] + (k + 1) /\ Len(items'[r]) = k + 1
          <6>1. /\ sent[r] \in Nat /\ made[r] = sent[r] + k + 1
                /\ made'[r] = made[r] /\ sent'[r] = sent[r]
            BY <1>0, <3>1, <4>1
          <6>2. Len(items'[r]) = k + 1
            BY <3>2, <3>3 DEF Holding
          <6> QED
            BY <2>0, <6>1, <6>2
        <5>2. result'[r] = "none"
          BY <3>1, <3>3 DEF Holding
        <5> QED
          BY <4>2, <5>1, <5>2 DEF Between
      <4>3. Queue(r, k + 1)'
        BY <4>a, <4>b DEF Queue
      <4> QED
        BY <1>0, <2>0, <4>1, <4>3 DEF Chunks
    <3>4. CASE Between(r, k)
      <4>1. \/ item[r] = Failure /\ producer'[r] = "enqueuing" /\ result[r] = "raised"
            \/ item[r] = Sentinel /\ producer'[r] = "gone" /\ result[r] = "whole"
        BY <1>0, <3>1, <3>4 DEF Between, Sentinel, Failure
      <4>2. Ending(r, k)'
        BY <1>0, <2>0, <3>1, <3>2, <3>4, <4>1 DEF Between, Ending
      <4>3. \A i \in 1..k : items'[r][i] = sent'[r] + i
        BY <1>0, <1>5, <2>0, <3>1, <3>2, <3>4 DEF Between, Queue
      <4> QED
        BY <4>2, <4>3 DEF Queue
    <3>5. CASE Ending(r, k)
      <4>1. /\ item[r] = Sentinel /\ producer'[r] = "gone" /\ result[r] = "raised"
            /\ Len(items[r]) = k + 1 /\ items[r][k + 1] = Failure
        BY <1>0, <3>1, <3>5 DEF Ending, Sentinel, Failure
      <4>2. Ending(r, k)'
        BY <1>0, <2>0, <3>1, <3>2, <3>5, <4>1 DEF Ending
      <4>3. \A i \in 1..k : items'[r][i] = sent'[r] + i
        BY <1>0, <1>5, <2>0, <3>1, <3>2, <4>1 DEF Queue
      <4> QED
        BY <4>2, <4>3 DEF Queue
    <3> QED
      BY <1>5, <3>3, <3>4, <3>5 DEF Queue
  <2> QED
    BY <2>0, <2>1, <2>2, <2>3, <2>4, <2>5, BoundsAssumption DEF Thread
<1>6. Queued(r)'
  BY <1>0, <1>1, <1>2, <1>5 DEF Queued
<1> QED
  BY <1>3, <1>4, <1>6 DEF Whole

\* The head of a queue nobody has given up tells what is left of it.
LEMMA HeadOfQueue ==
    ASSUME WholeInv, NEW r \in Requests, NEW k \in Chunks, Queue(r, k), items[r] # <<>>
    PROVE  /\ Head(items[r]) \in 1..MaxChunk => k > 0
           /\ Head(items[r]) = Sentinel =>
                 /\ producer[r] = "gone" /\ result[r] = "whole" /\ made[r] = sent[r]
           /\ Head(items[r]) = Failure =>
                 /\ producer[r] \in {"enqueuing", "putting", "gone"}
                 /\ result[r] = "raised" /\ item[r] = Sentinel /\ made[r] = sent[r]
<1>1. /\ made[r] \in Nat /\ made[r] <= MaxChunk /\ sent[r] \in Nat /\ MaxChunk \in Nat
      /\ k \in Nat
  BY BoundsAssumption DEF WholeInv, QueueTypes, Chunks
<1>2. Head(items[r]) = items[r][1] /\ Len(items[r]) \in Nat /\ Len(items[r]) # 0
  <2>1. items[r] \in Seq(Items) /\ items[r] # <<>>
    BY DEF WholeInv, QueueTypes
  <2> QED
    BY <2>1
<1>3. k > 0 => Head(items[r]) \in 1..MaxChunk
  <2>1. k > 0 => Head(items[r]) = sent[r] + 1
    BY <1>1, <1>2 DEF Queue
  <2>2. sent[r] + k <= made[r]
    BY <1>1 DEF Queue, Holding, Between, Ending
  <2> QED
    BY <1>1, <2>1, <2>2
<1>4. k = 0 => Ending(r, 0)
  BY <1>2 DEF Queue, Holding, Between
<1>5. Sentinel # Failure /\ Sentinel \notin 1..MaxChunk /\ Failure \notin 1..MaxChunk
  BY <1>1 DEF Sentinel, Failure
<1>6. k = 0 => \/ /\ Head(items[r]) = Sentinel
                  /\ producer[r] = "gone" /\ result[r] = "whole"
               \/ /\ Head(items[r]) = Failure /\ result[r] = "raised" /\ item[r] = Sentinel
                  /\ producer[r] \in {"enqueuing", "putting", "gone"}
  BY <1>2, <1>4 DEF Ending
<1>7. k = 0 => made[r] = sent[r]
  BY <1>1, <1>4 DEF Ending
<1> QED
  BY <1>1, <1>3, <1>5, <1>6, <1>7

\* Taking a chunk out leaves the others in order.
LEMMA GetChunkQueue ==
    ASSUME WholeInv, NEW r \in Requests, NEW k \in Chunks, Queue(r, k), GetChunk(r)
    PROVE  \E n \in Chunks : Queue(r, n)'
<1>0. /\ QueueTypes /\ items[r] \in Seq(Items) /\ items[r] # <<>>
      /\ Head(items[r]) \in 1..MaxChunk
  BY DEF WholeInv, QueueTypes, GetChunk
<1>1. k \in Nat /\ k > 0 /\ sent[r] \in Nat /\ made[r] \in Nat
  BY <1>0, HeadOfQueue, BoundsAssumption DEF QueueTypes, Chunks
<1>2. k - 1 \in Chunks
  BY <1>1, BoundsAssumption DEF Chunks
<1>3. /\ UNCHANGED <<made, producer, result, item>> /\ sent'[r] = sent[r] + 1
      /\ items'[r] = Tail(items[r])
  BY <1>0 DEF GetChunk, QueueTypes, threadVars
<1>4. /\ Len(items'[r]) = Len(items[r]) - 1 /\ Len(items[r]) \in Nat
      /\ \A i \in 1..(Len(items[r]) - 1) : items'[r][i] = items[r][i + 1]
  BY <1>0, <1>3
<1>5. Len(items[r]) >= k /\ made[r] >= sent[r] + k
  BY <1>0, <1>1 DEF Queue, Holding, Between, Ending
<1>6. \A i \in 1..(k - 1) : items'[r][i] = sent'[r] + i
  <2> SUFFICES ASSUME NEW i \in 1..(k - 1) PROVE items'[r][i] = sent'[r] + i
    OBVIOUS
  <2>1. i + 1 \in 1..k /\ i \in 1..(Len(items[r]) - 1)
    BY <1>1, <1>4, <1>5
  <2>2. items[r][i + 1] = sent[r] + (i + 1)
    BY <2>1 DEF Queue
  <2>3. /\ items'[r][i] = items[r][i + 1] /\ sent'[r] = sent[r] + 1
        /\ sent[r] \in Nat /\ i \in Int
    BY <1>1, <1>3, <1>4, <2>1
  <2> QED
    BY <2>2, <2>3
<1>7. CASE Holding(r, k)
  <2>1. Holding(r, k - 1)'
    BY <1>1, <1>3, <1>4, <1>7 DEF Holding
  <2> QED
    BY <1>2, <1>6, <2>1 DEF Queue
<1>8. CASE Between(r, k)
  <2>1. Between(r, k - 1)'
    BY <1>1, <1>3, <1>4, <1>8 DEF Between
  <2> QED
    BY <1>2, <1>6, <2>1 DEF Queue
<1>9. CASE Ending(r, k)
  <2>1. /\ k \in 1..(Len(items[r]) - 1)
        /\ Len(items[r]) = k + 2 => k + 1 \in 1..(Len(items[r]) - 1)
    BY <1>1, <1>4, <1>9 DEF Ending
  <2>2. /\ items'[r][k] = items[r][k + 1]
        /\ Len(items[r]) = k + 2 => items'[r][k + 1] = items[r][k + 2]
    <3>1. (k + 1) + 1 = k + 2
      BY <1>1
    <3> QED
      BY <1>4, <2>1, <3>1
  <2>3. /\ (k - 1) + 1 = k /\ (k - 1) + 2 = k + 1
        /\ made'[r] = sent'[r] + (k - 1) <=> made[r] = sent[r] + k
    BY <1>1, <1>3
  <2>4. /\ Len(items[r]) = k + 1 => Len(items'[r]) = k
        /\ Len(items[r]) = k + 2 => Len(items'[r]) = k + 1
    BY <1>1, <1>4
  <2>5. Ending(r, k - 1)'
    BY <1>3, <1>9, <2>2, <2>3, <2>4 DEF Ending
  <2> QED
    BY <1>2, <1>6, <2>5 DEF Queue
<1> QED
  BY <1>7, <1>8, <1>9 DEF Queue

\* The coroutine empties the queue.
LEMMA ServicerStep ==
    ASSUME WholeInv, NEW r \in Requests, Servicer(r)
    PROVE  Whole(r)'
<1>t. QueueTypes
  BY DEF WholeInv
<1>0. Stage(r) /\ Queued(r) /\ Settled(r)
  BY DEF WholeInv, Whole
<1>1. /\ UNCHANGED <<kind, made, producer, result, item>>
      /\ servicer[r] \in {"polling", "leaving", "closing"}
  BY DEF Servicer, GetChunk, GetEnd, Leave, Closed, threadVars
<1>2. /\ kind[r] # "http" /\ producer[r] # "none" /\ r \notin stopped
      /\ status[r] \notin {"ok", "empty", "error", "refused"}
  BY <1>t, <1>0, <1>1 DEF Stage, QueueTypes
<1>3. PICK k \in Chunks : Queue(r, k)
  BY <1>0, <1>2 DEF Queued
<1>4. CASE GetChunk(r)
  <2>1. /\ servicer'[r] = "writing" /\ UNCHANGED <<stopped, status>>
    BY <1>t, <1>4 DEF GetChunk, QueueTypes
  <2>2. Stage(r)'
    BY <1>0, <1>1, <1>2, <2>1 DEF Stage
  <2>3. Queued(r)'
    BY <1>3, <1>4, GetChunkQueue DEF Queued
  <2>4. Settled(r)'
    BY <1>2, <2>1 DEF Settled
  <2> QED
    BY <2>2, <2>3, <2>4 DEF Whole
<1>5. CASE GetEnd(r)
  <2>1. /\ servicer'[r] = "done" /\ r \in stopped' /\ sent' = sent
        /\ status'[r] = IF Head(items[r]) = Failure THEN "error" ELSE "ok"
        /\ Head(items[r]) \in {Sentinel, Failure} /\ items[r] # <<>>
    BY <1>t, <1>5 DEF GetEnd, End, QueueTypes
  <2>2. Stage(r)'
    BY <1>0, <1>1, <1>2, <2>1 DEF Stage
  <2>3. Settled(r)'
    BY <1>1, <1>2, <1>3, <2>1, HeadOfQueue DEF Settled
  <2> QED
    BY <2>1, <2>2, <2>3 DEF Whole, Queued
<1>6. CASE Leave(r)
  <2>1. /\ servicer'[r] = "closing" /\ UNCHANGED <<items, stopped, sent, status>>
    BY <1>t, <1>6 DEF Leave, QueueTypes
  <2>2. Stage(r)'
    BY <1>0, <1>1, <1>2, <2>1 DEF Stage
  <2>3. Queued(r)'
    BY <1>0, <1>1, <2>1 DEF Queued, Queue, Holding, Between, Ending
  <2>4. Settled(r)'
    BY <1>2, <2>1 DEF Settled
  <2> QED
    BY <2>2, <2>3, <2>4 DEF Whole
<1>7. CASE Closed(r)
  <2>1. /\ servicer'[r] = "done" /\ r \in stopped' /\ UNCHANGED <<items, sent, status>>
    BY <1>t, <1>7 DEF Closed, QueueTypes, threadVars
  <2>2. Stage(r)'
    BY <1>0, <1>1, <1>2, <2>1 DEF Stage
  <2>3. Settled(r)'
    BY <1>2, <2>1 DEF Settled
  <2> QED
    BY <2>1, <2>2, <2>3 DEF Whole, Queued
<1> QED
  BY <1>4, <1>5, <1>6, <1>7 DEF Servicer

\* What the client does never makes an end less than whole.
LEMMA ClientStep ==
    ASSUME WholeInv, NEW r \in Requests, Client(r)
    PROVE  Whole(r)'
<1>t. QueueTypes
  BY DEF WholeInv
<1>0. Stage(r) /\ Queued(r) /\ Settled(r)
  BY DEF WholeInv, Whole
<1>1. UNCHANGED <<kind, made, producer, result, item, items, sent>>
  BY DEF Client, Refuse, Begin, Written, CancelLoading, CancelPolling, CancelWriting,
         threadVars
<1>2. /\ stopped' = stopped \/ (stopped' = stopped \cup {r} /\ servicer[r] = "polling")
      /\ \/ servicer[r] = "new" /\ servicer'[r] = "done" /\ status'[r] = "refused"
         \/ servicer[r] = "new" /\ servicer'[r] = "loading" /\ status'[r] = status[r]
         \/ servicer[r] = "writing" /\ servicer'[r] = "polling" /\ status'[r] = status[r]
         \/ servicer[r] = "loading" /\ servicer'[r] = "done" /\ status'[r] = "cancelled"
         \/ servicer[r] = "polling" /\ servicer'[r] = "done" /\ status'[r] = "cancelled"
         \/ servicer[r] = "writing" /\ servicer'[r] = "leaving" /\ status'[r] = "cancelled"
      /\ r \in stopped' => servicer'[r] = "done" \/ r \in stopped
  BY <1>t DEF Client, Refuse, Begin, Written, CancelLoading, CancelPolling, CancelWriting,
              End, QueueTypes
<1>3. Stage(r)'
  BY <1>0, <1>1, <1>2 DEF Stage
<1>4. Queued(r)'
  BY <1>0, <1>1, <1>2 DEF Queued, Queue, Holding, Between, Ending
<1>5. Settled(r)'
  BY <1>0, <1>1, <1>2 DEF Stage, Settled
<1> QED
  BY <1>3, <1>4, <1>5 DEF Whole

LEMMA WholeInvStep == WholeInv /\ [Next]_vars => WholeInv'
<1> SUFFICES ASSUME WholeInv, [Next]_vars PROVE WholeInv'
  OBVIOUS
<1>1. ASSUME NEW r \in Requests, NEW q \in Requests,
             Opening(r) \/ Encoding(r) \/ Thread(r) \/ Servicer(r) \/ Client(r)
      PROVE  Whole(q)'
  <2>1. CASE q = r
    BY <1>1, <2>1, OpeningStep, EncodingStep, ThreadStep, ServicerStep, ClientStep
  <2> QED
    BY <1>1, <2>1, OthersStep
<1>2. ASSUME UNCHANGED ttsVars, NEW q \in Requests PROVE Whole(q)'
  BY <1>2, Untouched DEF WholeInv, ttsVars, threadVars, callVars
<1>3. \A q \in Requests : Whole(q)'
  BY <1>1, <1>2 DEF Next, Terminated, UnloadVoice, vars
<1> QED
  BY <1>3, QueueTypesStep DEF WholeInv

\* A stream that ends well has sent all of a synthesis that ran to its end, one
\* that fails for an exception all that came before it, and POST /tts answers no
\* empty file, whatever the queue holds and whoever is waiting for room in it
\* (async_io.py:21-53, routes.py:18-48).
THEOREM EndIsWholeCorrect == Spec => []EndIsWhole
<1>1. WholeInv => EndIsWhole
  BY DEF WholeInv, Whole, Settled, EndIsWhole
<1> QED
  BY <1>1, WholeInvInit, WholeInvStep, PTL DEF Spec

-----------------------------------------------------------------------------
(* Every variable keeps its type.                                          *)

Room == \A r \in Requests : Len(items[r]) <= QueueCap

\* Only Put lengthens a queue, and it looks first: nobody else fills the queue
\* of a request between the look and the put, for each has its own.
LEMMA RoomStep == QueueTypes /\ Room /\ [Next]_vars => Room'
<1> SUFFICES ASSUME QueueTypes, Room, [Next]_vars PROVE Room'
  OBVIOUS
<1>0. items \in [Requests -> Seq(Items)] /\ item \in [Requests -> Items] /\ QueueCap \in Nat
  BY BoundsAssumption DEF QueueTypes
<1>1. CASE UNCHANGED items
  BY <1>1 DEF Room
<1>2. ASSUME NEW r \in Requests, Put(r), ~UNCHANGED items PROVE Room'
  <2>1. /\ Len(items[r]) < QueueCap
        /\ items' = [items EXCEPT ![r] = Append(items[r], item[r])]
    BY <1>2 DEF Put
  <2>2. Len(Append(items[r], item[r])) = Len(items[r]) + 1 /\ Len(items[r]) \in Nat
    BY <1>0
  <2> QED
    BY <1>0, <2>1, <2>2 DEF Room
<1>3. ASSUME NEW r \in Requests, GetChunk(r) \/ GetEnd(r) PROVE Room'
  <2>1. items[r] # <<>> /\ items' = [items EXCEPT ![r] = Tail(items[r])]
    BY <1>3 DEF GetChunk, GetEnd
  <2>2. Len(Tail(items[r])) = Len(items[r]) - 1 /\ Len(items[r]) \in Nat
    BY <1>0, <2>1
  <2> QED
    BY <1>0, <2>1, <2>2 DEF Room
<1>4. ASSUME NEW r \in Requests, Opening(r) \/ Encoding(r) PROVE UNCHANGED items
  BY <1>4 DEF Opening, Encoding, Load, Unwanted, NotFound, Start, Collect, EncodingEnds,
              EncodingFails, ttsVars
<1>5. ASSUME NEW r \in Requests, Thread(r), ~Put(r) PROVE UNCHANGED items
  BY <1>5 DEF Thread, Synthesize, SynthesisEnds, CheckStopped, Enqueue
<1>6. ASSUME NEW r \in Requests, Leave(r) \/ Closed(r) \/ Client(r) PROVE UNCHANGED items
  BY <1>6 DEF Leave, Closed, Client, Refuse, Begin, Written, CancelLoading, CancelPolling,
              CancelWriting
<1> QED
  BY <1>1, <1>2, <1>3, <1>4, <1>5, <1>6
     DEF Next, Terminated, UnloadVoice, vars, ttsVars, Servicer

\* Every variable keeps its type: no queue grows past its size, no more chunks
\* are sent than a synthesis has, and the cache keeps its order, under threads,
\* cancellations and evictions in any order (async_io.py:15-55,
\* engine_manager.py:84-132).
THEOREM TypeCorrect == Spec => []TypeOK
<1>1. Init => Room
  BY BoundsAssumption DEF Init, Room
<1>2. WholeInv => QueueTypes
  BY DEF WholeInv
<1>3. CacheTypeOK /\ QueueTypes /\ Room => TypeOK
  BY DEF QueueTypes, Room, TypeOK, Chunks
<1>4. CacheSpec => []CacheTypeOK
  BY CacheTypeCorrect
<1>5. Spec => CacheSpec
  BY LeasesFollowCache
<1> QED
  BY <1>1, <1>2, <1>3, <1>4, <1>5, RoomStep, WholeInvInit, WholeInvStep, PTL DEF Spec

\* The cache of voices exceeds its capacity only by voices in use and one that
\* was loaded and not counted yet (engine_manager.py:118-132).
THEOREM OverCapacityInService == Spec => []OverCapacityInUse
BY LeasesFollowCache, OverCapacityCorrect, PTL

=============================================================================
