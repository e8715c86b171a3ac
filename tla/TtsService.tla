----------------------------- MODULE TtsService -----------------------------
(***************************************************************************)
(* The TTS service: requests that lease a voice from EngineManager and     *)
(* synthesize with it.  A StreamSynthesize call (tts/grpc_servicer.py) and *)
(* a /tts-stream WebSocket load the voice in a thread (aacquire_engine)    *)
(* and synthesize in another, which iter_in_thread bridges to the event    *)
(* loop through a bounded queue and an event (tts/utils/async_io.py).  A   *)
(* POST /tts does everything on one thread and collects a WAV file.        *)
(*                                                                         *)
(* Chunks are numbered in the order they are synthesized; Failure stands   *)
(* for the queue item of an exception, Sentinel for the last item.         *)
(*                                                                         *)
(* Bounds: MaxChunk chunks per request, QueueCap for the size of the queue *)
(* (8), and those of EngineManager.                                        *)
(***************************************************************************)
EXTENDS EngineManager

CONSTANTS
    Streams,   \* requests that stream; the others are POST /tts
    MaxChunk, QueueCap

ASSUME StreamsAssumption == Streams \subseteq Requests
ASSUME BoundsAssumption == MaxChunk \in Nat \ {0} /\ QueueCap \in Nat \ {0}

Sentinel == 0
Failure  == MaxChunk + 1
Items    == 0..(MaxChunk + 1)

VARIABLES
    kind,      \* how each request came
    producer,  \* the thread that synthesizes for it
    made,      \* chunks synthesized
    result,    \* how the synthesis ended
    item,      \* what enqueue is to put
    items,     \* the queue
    stopped,   \* the threading.Event: requests for which it is set
    servicer,  \* the coroutine, or the route's thread
    sent,      \* chunks sent to the client
    status     \* how the request ended

threadVars == <<producer, made, result, item>>
callVars   == <<servicer, sent, status>>
ttsVars    == <<kind, threadVars, items, stopped, callVars>>
vars       == <<cacheVars, ttsVars>>

TypeOK ==
    /\ CacheTypeOK
    /\ kind \in [Requests -> {"grpc", "ws", "http"}]
    /\ producer \in [Requests -> {"none", "synthesizing", "got", "enqueuing",
                                  "putting", "gone"}]
    /\ made \in [Requests -> 0..MaxChunk]
    /\ result \in [Requests -> {"none", "whole", "raised", "broken"}]
    /\ item \in [Requests -> Items]
    /\ \A r \in Requests : items[r] \in Seq(Items) /\ Len(items[r]) <= QueueCap
    /\ stopped \subseteq Requests
    /\ servicer \in [Requests -> {"new", "loading", "polling", "writing", "leaving",
                                  "closing", "encoding", "done"}]
    /\ sent \in [Requests -> 0..MaxChunk]
    /\ status \in [Requests -> {"none", "ok", "empty", "error", "refused", "cancelled"}]

Init ==
    /\ CacheInit
    /\ kind \in {k \in [Requests -> {"grpc", "ws", "http"}] :
                    \A r \in Requests : k[r] = "http" <=> r \notin Streams}
    /\ producer = [r \in Requests |-> "none"]
    /\ made = [r \in Requests |-> 0]
    /\ result = [r \in Requests |-> "none"]
    /\ item = [r \in Requests |-> Sentinel]
    /\ items = [r \in Requests |-> <<>>]
    /\ stopped = {}
    /\ servicer = [r \in Requests |-> "new"]
    /\ sent = [r \in Requests |-> 0]
    /\ status = [r \in Requests |-> "none"]

\* The request is over.
End(r, how) == /\ servicer' = [servicer EXCEPT ![r] = "done"]
               /\ status' = [status EXCEPT ![r] = how]

-----------------------------------------------------------------------------
(* Getting the voice.                                                      *)

\* /tts refuses a format other than WAV, /tts-stream a blank text.
Refuse(r) ==
    /\ servicer[r] = "new" /\ kind[r] # "grpc"
    /\ End(r, "refused")
    /\ UNCHANGED <<cacheVars, kind, threadVars, items, stopped, sent>>

\* The voice is asked for, on a thread in every case.
Begin(r) ==
    /\ servicer[r] = "new"
    /\ servicer' = [servicer EXCEPT ![r] = "loading"]
    /\ UNCHANGED <<cacheVars, kind, threadVars, items, stopped, sent, status>>

\* _get_or_load on that thread.  It goes on when the call is cancelled.
Load(r) ==
    /\ servicer[r] = "loading" \/ status[r] = "cancelled"
    /\ Hit(r) \/ Miss(r) \/ LoadFails(r) \/ Insert(r)
    /\ UNCHANGED ttsVars

\* A cancelled aacquire_engine never counts the voice it had loaded.
Unwanted(r) == status[r] = "cancelled" /\ LeaveUnpinned(r) /\ UNCHANGED ttsVars

\* NOT_FOUND, close code 1008 or 404.
NotFound(r) ==
    /\ servicer[r] = "loading" /\ lease[r] = "done"
    /\ End(r, "error")
    /\ UNCHANGED <<cacheVars, kind, threadVars, items, stopped, sent>>

\* The voice is counted and synthesis begins: iter_in_thread starts its thread;
\* /tts goes on where it is.
Start(r) ==
    /\ servicer[r] = "loading" /\ Pin(r)
    /\ producer' = [producer EXCEPT ![r] = "synthesizing"]
    /\ servicer' = [servicer EXCEPT ![r] = IF kind[r] = "http" THEN "encoding"
                                           ELSE "polling"]
    /\ UNCHANGED <<kind, made, result, item, items, stopped, sent, status>>

UnloadVoice(m) == Unload(m) /\ UNCHANGED ttsVars

-----------------------------------------------------------------------------
(* POST /tts: the encoder takes every chunk before there is a response.    *)

Collect(r) ==
    /\ servicer[r] = "encoding" /\ made[r] < MaxChunk
    /\ made' = [made EXCEPT ![r] = @ + 1]
    /\ UNCHANGED <<cacheVars, kind, producer, result, item, items, stopped, callVars>>

\* The with block ends; a synthesis without any audio is a 422.
EncodingEnds(r) ==
    /\ servicer[r] = "encoding" /\ Release(r)
    /\ producer' = [producer EXCEPT ![r] = "gone"]
    /\ result' = [result EXCEPT ![r] = "whole"]
    /\ sent' = [sent EXCEPT ![r] = made[r]]
    /\ End(r, IF made[r] = 0 THEN "empty" ELSE "ok")
    /\ UNCHANGED <<kind, made, item, items, stopped>>

\* Synthesis raises: an error response, what was collected is dropped.
EncodingFails(r) ==
    /\ servicer[r] = "encoding" /\ Release(r)
    /\ producer' = [producer EXCEPT ![r] = "gone"]
    /\ result' = [result EXCEPT ![r] = "raised"]
    /\ End(r, "error")
    /\ UNCHANGED <<kind, made, item, items, stopped, sent>>

-----------------------------------------------------------------------------
(* The thread of iter_in_thread.                                           *)

\* The generator yields a chunk.
Synthesize(r) ==
    /\ producer[r] = "synthesizing" /\ servicer[r] # "encoding" /\ made[r] < MaxChunk
    /\ made' = [made EXCEPT ![r] = @ + 1]
    /\ producer' = [producer EXCEPT ![r] = "got"]
    /\ UNCHANGED <<cacheVars, kind, result, item, items, stopped, callVars>>

SilentSynthesisEnds(r) ==   \* mutant: an exception is not handed over
    /\ producer[r] = "synthesizing" /\ servicer[r] # "encoding"
    /\ \E how \in {"whole", "raised"} : result' = [result EXCEPT ![r] = how]
    /\ item' = [item EXCEPT ![r] = Sentinel]
    /\ producer' = [producer EXCEPT ![r] = "enqueuing"]
    /\ UNCHANGED <<cacheVars, kind, made, items, stopped, callVars>>

\* It ends or raises.
SynthesisEnds(r) ==
    /\ producer[r] = "synthesizing" /\ servicer[r] # "encoding"
    /\ \E how \in {"whole", "raised"} :
          /\ result' = [result EXCEPT ![r] = how]
          /\ item' = [item EXCEPT ![r] = IF how = "raised" THEN Failure ELSE Sentinel]
    /\ producer' = [producer EXCEPT ![r] = "enqueuing"]
    /\ UNCHANGED <<cacheVars, kind, made, items, stopped, callVars>>

\* A chunk for nobody ends the loop; any other is enqueued.
CheckStopped(r) ==
    /\ producer[r] = "got"
    /\ IF r \in stopped
       THEN /\ result' = [result EXCEPT ![r] = "broken"]
            /\ item' = [item EXCEPT ![r] = Sentinel]
       ELSE result' = result /\ item' = [item EXCEPT ![r] = made[r]]
    /\ producer' = [producer EXCEPT ![r] = "enqueuing"]
    /\ UNCHANGED <<cacheVars, kind, made, items, stopped, callVars>>

\* What follows an item, put or dropped: the chunk's successor, the sentinel
\* after an exception, nothing after the sentinel.
AfterItem(r) ==
    /\ producer' = [producer EXCEPT ![r] =
                       CASE item[r] = Sentinel -> "gone"
                         [] item[r] = Failure  -> "enqueuing"
                         [] OTHER              -> "synthesizing"]
    /\ item' = [item EXCEPT ![r] = Sentinel]

DeafEnqueue(r) ==   \* mutant: enqueue waits for room whether stopped or not
    /\ producer[r] = "enqueuing"
    /\ producer' = [producer EXCEPT ![r] = "putting"] /\ item' = item
    /\ UNCHANGED <<cacheVars, kind, made, result, items, stopped, callVars>>

\* The loop of enqueue: nothing is put any more once stopped.
Enqueue(r) ==
    /\ producer[r] = "enqueuing"
    /\ IF r \in stopped THEN AfterItem(r)
       ELSE producer' = [producer EXCEPT ![r] = "putting"] /\ item' = item
    /\ UNCHANGED <<cacheVars, kind, made, result, items, stopped, callVars>>

OverfullPut(r) ==   \* mutant: one item more than the queue holds
    /\ producer[r] = "putting"
    /\ IF Len(items[r]) <= QueueCap
       THEN items' = [items EXCEPT ![r] = Append(@, item[r])] /\ AfterItem(r)
       ELSE /\ producer' = [producer EXCEPT ![r] = "enqueuing"]
            /\ UNCHANGED <<items, item>>
    /\ UNCHANGED <<cacheVars, kind, made, result, stopped, callVars>>

\* items.put succeeds, or times out and the loop goes round.
Put(r) ==
    /\ producer[r] = "putting"
    /\ IF Len(items[r]) < QueueCap
       THEN items' = [items EXCEPT ![r] = Append(@, item[r])] /\ AfterItem(r)
       ELSE /\ producer' = [producer EXCEPT ![r] = "enqueuing"]
            /\ UNCHANGED <<items, item>>
    /\ UNCHANGED <<cacheVars, kind, made, result, stopped, callVars>>

-----------------------------------------------------------------------------
(* The event loop.  An empty queue is polled again, which changes nothing. *)

GetChunk(r) ==
    /\ servicer[r] = "polling" /\ items[r] # <<>> /\ Head(items[r]) \in 1..MaxChunk
    /\ items' = [items EXCEPT ![r] = Tail(@)]
    /\ sent' = [sent EXCEPT ![r] = @ + 1]
    /\ servicer' = [servicer EXCEPT ![r] = "writing"]
    /\ UNCHANGED <<cacheVars, kind, threadVars, stopped, status>>

\* The client has taken the chunk.
Written(r) ==
    /\ servicer[r] = "writing"
    /\ servicer' = [servicer EXCEPT ![r] = "polling"]
    /\ UNCHANGED <<cacheVars, kind, threadVars, items, stopped, sent, status>>

\* Sentinel or exception: iter_in_thread sets stopped, the with block ends.
GetEnd(r) ==
    /\ servicer[r] = "polling" /\ items[r] # <<>>
    /\ Head(items[r]) \in {Sentinel, Failure} /\ Release(r)
    /\ items' = [items EXCEPT ![r] = Tail(@)]
    /\ End(r, IF Head(items[r]) = Failure THEN "error" ELSE "ok")
    /\ stopped' = stopped \cup {r}
    /\ UNCHANGED <<kind, threadVars, sent>>

\* A gRPC call is cancelled while its voice is being loaded; the load goes on.
CancelLoading(r) ==
    /\ servicer[r] = "loading" /\ kind[r] = "grpc"
    /\ End(r, "cancelled")
    /\ UNCHANGED <<cacheVars, kind, threadVars, items, stopped, sent>>

\* Or in iter_in_thread's sleep: stopped is set and the with block left at once.
CancelPolling(r) ==
    /\ servicer[r] = "polling" /\ kind[r] = "grpc" /\ Release(r)
    /\ stopped' = stopped \cup {r}
    /\ End(r, "cancelled")
    /\ UNCHANGED <<kind, threadVars, items, sent>>

\* Or while a chunk is sent, where a WebSocket may fail as well.
CancelWriting(r) ==
    /\ servicer[r] = "writing"
    /\ servicer' = [servicer EXCEPT ![r] = "leaving"]
    /\ status' = [status EXCEPT ![r] = "cancelled"]
    /\ UNCHANGED <<cacheVars, kind, threadVars, items, stopped, sent>>

\* The with block is left: the voice is given back first, ...
Leave(r) ==
    /\ servicer[r] = "leaving" /\ Release(r)
    /\ servicer' = [servicer EXCEPT ![r] = "closing"]
    /\ UNCHANGED <<kind, threadVars, items, stopped, sent, status>>

\* ... and the event loop closes the abandoned iterator later.
Closed(r) ==
    /\ servicer[r] = "closing"
    /\ stopped' = stopped \cup {r}
    /\ servicer' = [servicer EXCEPT ![r] = "done"]
    /\ UNCHANGED <<cacheVars, kind, threadVars, items, sent, status>>

-----------------------------------------------------------------------------
Opening(r)  == Load(r) \/ Unwanted(r) \/ NotFound(r) \/ Start(r)
Encoding(r) == Collect(r) \/ EncodingEnds(r) \/ EncodingFails(r)
Thread(r)   == \/ Synthesize(r) \/ SynthesisEnds(r) \/ CheckStopped(r)
               \/ Enqueue(r) \/ Put(r)
Servicer(r) == GetChunk(r) \/ GetEnd(r) \/ Leave(r) \/ Closed(r)
Client(r)   == \/ Refuse(r) \/ Begin(r) \/ Written(r)
               \/ CancelLoading(r) \/ CancelPolling(r) \/ CancelWriting(r)

Over(r) == /\ servicer[r] = "done" /\ producer[r] \in {"none", "gone"}
           /\ lease[r] \in {"new", "done"}

Terminated == (\A r \in Requests : Over(r)) /\ UNCHANGED vars

Next == \/ Terminated
        \/ \E m \in Models : UnloadVoice(m)
        \/ \E r \in Requests :
              Opening(r) \/ Encoding(r) \/ Thread(r) \/ Servicer(r) \/ Client(r)

(* Threads and the event loop are scheduled, loading and synthesis go on.  *)
(* The client need neither read on nor cancel, and no one has to ask.      *)
Fairness == \A r \in Requests :
    WF_vars(Opening(r)) /\ WF_vars(Encoding(r)) /\ WF_vars(Thread(r)) /\ WF_vars(Servicer(r))

Spec == Init /\ [][Next]_vars
FairSpec == Spec /\ Fairness

-----------------------------------------------------------------------------
(* Correctness.                                                            *)

(* A request that ends well has sent every chunk of a synthesis that ran   *)
(* to its end, even when the queue is full most of the time; one that      *)
(* fails after synthesis began does so for an exception, on a stream after *)
(* every chunk before it; and no empty file is answered as a success       *)
(* (async_io.py:21-38, 43-53; output/wav_encoder.py:10-12).                *)
EndIsWhole ==
    \A r \in Requests :
        /\ status[r] = "ok" => result[r] = "whole" /\ sent[r] = made[r]
        /\ status[r] = "ok" /\ kind[r] = "http" => sent[r] > 0
        /\ status[r] = "error" /\ producer[r] # "none" =>
              result[r] = "raised" /\ (kind[r] = "http" \/ sent[r] = made[r])

(* A request that is over, cancelled at whatever point, leaves no thread   *)
(* behind, neither one that was waiting for room in the queue nor one that *)
(* was loading a voice (async_io.py:21-27, 54-55; engine_manager.py:75).   *)
ThreadEnds == \A r \in Requests : servicer[r] = "done" ~> Over(r)

\* Voices in memory: the cached ones, and those a request or thread holds.
Held(r)   == lease[r] \in {"loaded", "using"} \/ producer[r] \notin {"none", "gone"}
Resident  == {cached[m] : m \in Loaded} \cup {engine[r] : r \in {s \in Requests : Held(s)}}

(* Releasing a voice before its thread has stopped, evicting it in between *)
(* and loading it again may hold more voices than max_loaded, but not for  *)
(* good: unless a client stalls for ever, memory comes back to the limit   *)
(* (engine_manager.py:82-87, grpc_servicer.py:18-19).                      *)
MemoryRestored ==
    \/ <>[](Cardinality(Resident) <= MaxLoaded)
    \/ \E r \in Requests : <>[](servicer[r] = "writing")
=============================================================================
