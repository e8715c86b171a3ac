----------------------------- MODULE SttService -----------------------------
(***************************************************************************)
(* The STT service: requests that lease whisper engines from EngineManager *)
(* and transcribe with them.  A StreamTranscribe call                      *)
(* (stt/grpc_servicer.py) or a /transcribe-stream WebSocket                *)
(* (stt/api/routes.py) holds the default model while it lasts, buffers     *)
(* audio, and for every full window, and in a call for the end marker, has *)
(* a thread transcribe the buffer.  A POST /transcribe keeps its file on   *)
(* disk while a thread leases any model and transcribes it.  The native    *)
(* call is under the engine's lock (stt/engines/whispercpp_engine.py).     *)
(* The default model is loaded before the servers start (stt/main.py).     *)
(*                                                                         *)
(* Streams lease their engine on the event loop, which stands still until  *)
(* they have it; uploads lease theirs on their threads.  A cancelled call  *)
(* gives its engine back at once and leaves its thread running.            *)
(*                                                                         *)
(* Every audio message lasts one unit of time and is named by its number   *)
(* in the stream.  The gateway's end marker carries no audio               *)
(* (internal/ws/session.go:540).                                           *)
(*                                                                         *)
(* Bounds: MaxMsg audio messages per stream, Window units for              *)
(* WINDOW_SECONDS, and those of EngineManager.                             *)
(***************************************************************************)
EXTENDS EngineManager, SequencesExt

CONSTANTS
    Calls,    \* requests that are StreamTranscribe calls,
    Sockets,  \* that are WebSockets,
    Warmup,   \* and main's own use of the cache; the others are uploads
    Default,  \* the default model
    MaxMsg,   \* audio messages in one stream
    Window    \* WINDOW_SECONDS

ASSUME BoundsAssumption == MaxMsg \in Nat /\ Window \in Nat \ {0}
ASSUME StreamsAssumption ==
    /\ Calls \cup Sockets \subseteq Requests /\ Calls \cap Sockets = {}
    /\ Warmup \in Requests \ (Calls \cup Sockets)
    /\ Default \in Models

Streams == Calls \cup Sockets
Uploads == Requests \ (Streams \cup {Warmup})

VARIABLES
    pc,       \* the coroutine of each request
    taken,    \* audio messages a stream has received
    ended,    \* streams whose end marker has been received
    buffer,   \* a stream's buffer: numbers of the audio messages
    thread,   \* the request's asyncio.to_thread call
    job,      \* prepared: the audio of a stream that thread was given
    locked,   \* instances whose _model_lock is held
    events,   \* what a stream was sent; ERROR stands for a closed WebSocket too
    temps,    \* uploads whose temporary file exists
    status,   \* what an upload is answered
    cancelled \* auxiliary: streams whose client left

callVars == <<taken, ended, buffer, events, cancelled>>
sttVars  == <<pc, callVars, thread, job, locked, temps, status>>
vars     == <<cacheVars, sttVars>>

EventTypes == {"PARTIAL", "FINAL", "ERROR"}
Audio == Seq(1..MaxMsg)

TypeOK ==
    /\ CacheTypeOK
    /\ pc \in [Requests -> {"opening", "reading", "transcribing", "writing",
                            "receiving", "spooling", "cleaning", "done"}]
    /\ taken \in [Streams -> 0..MaxMsg]
    /\ ended \subseteq Streams
    /\ \A s \in Streams : buffer[s] \in Audio /\ Len(buffer[s]) <= Window
    /\ thread \in [Requests -> {"none", "acquiring", "converting", "locking", "native",
                                "ok", "refused", "failed", "missing"}]
    /\ \A s \in Streams : job[s] \in Audio
    /\ locked \subseteq Requests
    /\ \A s \in Streams : events[s] \in Seq([type : EventTypes, audio : Audio])
    /\ temps \subseteq Uploads
    /\ status \in [Uploads -> {"none", "ok", "bad", "unknown", "error"}]
    /\ cancelled \subseteq Streams

Init ==
    /\ CacheInit /\ \A r \in Streams \cup {Warmup} : model[r] = Default
    /\ pc = [r \in Requests |-> IF r \in Uploads THEN "receiving" ELSE "opening"]
    /\ taken = [s \in Streams |-> 0]
    /\ ended = {}
    /\ buffer = [s \in Streams |-> <<>>]
    /\ thread = [r \in Requests |-> "none"]
    /\ job = [s \in Streams |-> <<>>]
    /\ locked = {}
    /\ events = [s \in Streams |-> <<>>]
    /\ temps = {}
    /\ status = [u \in Uploads |-> "none"]
    /\ cancelled = {}

Yield(s, type, audio) ==
    events' = [events EXCEPT ![s] = Append(@, [type |-> type, audio |-> audio])]

\* A stream's coroutine is in acquire_engine, and so on the event loop.
Acquiring(s) == lease[s] \in {"loading", "loaded"}

\* The servers run, and the event loop gets to a coroutine other than these.
LoopFree(others) ==
    /\ lease[Warmup] = "done" /\ engine[Warmup] # NoEngine
    /\ \A s \in Streams \ others : ~Acquiring(s)

-----------------------------------------------------------------------------
(* Start-up: get_engine, before either server listens.                     *)

WarmUp ==
    /\ Hit(Warmup) \/ Miss(Warmup) \/ LoadFails(Warmup) \/ Insert(Warmup) \/ LeaveUnpinned(Warmup)
    /\ UNCHANGED sttVars

-----------------------------------------------------------------------------
(* A stream.                                                               *)

\* acquire_engine for the default model.
Acquire(s) ==
    /\ pc[s] = "opening" /\ LoopFree({s})
    /\ Hit(s) \/ Miss(s) \/ Insert(s)
    /\ UNCHANGED sttVars

\* The model is gone: ERROR, or close code 1008.
AcquireFails(s) ==
    /\ pc[s] = "opening" /\ LoadFails(s)
    /\ Yield(s, "ERROR", <<>>)
    /\ pc' = [pc EXCEPT ![s] = "done"]
    /\ UNCHANGED <<taken, ended, buffer, cancelled, thread, job, locked, temps, status>>

Open(s) ==
    /\ pc[s] = "opening" /\ Pin(s)
    /\ pc' = [pc EXCEPT ![s] = "reading"]
    /\ UNCHANGED <<callVars, thread, job, locked, temps, status>>

\* An exception leaves the with block, which gives the engine back, and is
\* answered.
Raise(s) ==
    /\ Release(s)
    /\ Yield(s, "ERROR", <<>>)
    /\ pc' = [pc EXCEPT ![s] = "done"]

\* The buffer is prepared (convert_chunks, which may refuse the format) and
\* handed to a thread.
Transcribe(s, chunks) ==
    \/ /\ pc' = [pc EXCEPT ![s] = "transcribing"]
       /\ thread' = [thread EXCEPT ![s] = "converting"]
       /\ job' = [job EXCEPT ![s] = chunks]
       /\ UNCHANGED <<events, cacheVars>>
    \/ Raise(s) /\ UNCHANGED <<thread, job>>

\* An audio message; a full window is transcribed at once.
ReceiveAudio(s) ==
    /\ pc[s] = "reading" /\ taken[s] < MaxMsg /\ LoopFree({})
    /\ taken' = [taken EXCEPT ![s] = @ + 1]
    /\ LET chunks == Append(buffer[s], taken'[s])
       IN  /\ buffer' = [buffer EXCEPT ![s] = chunks]
           /\ IF Len(chunks) >= Window THEN Transcribe(s, chunks)
              ELSE UNCHANGED <<cacheVars, pc, thread, job, events>>
    /\ UNCHANGED <<ended, locked, cancelled, temps, status>>

LazyReceiveEnd(s) ==   \* mutant: the marker alone does not flush the buffer
    /\ pc[s] = "reading" /\ s \in Calls /\ LoopFree({})
    /\ ended' = ended \cup {s}
    /\ IF Len(buffer[s]) >= Window THEN Transcribe(s, buffer[s])
       ELSE /\ Release(s) /\ pc' = [pc EXCEPT ![s] = "done"]
            /\ UNCHANGED <<thread, job, events>>
    /\ UNCHANGED <<taken, buffer, locked, cancelled, temps, status>>

\* The end marker flushes whatever is buffered, be it nothing but the marker.
\* A WebSocket has none.
ReceiveEnd(s) ==
    /\ pc[s] = "reading" /\ s \in Calls /\ LoopFree({})
    /\ ended' = ended \cup {s}
    /\ Transcribe(s, buffer[s])
    /\ UNCHANGED <<taken, buffer, locked, cancelled, temps, status>>

\* The client half-closes without a marker, or its WebSocket is gone: what is
\* buffered is dropped.
InputEnds(s) ==
    /\ pc[s] = "reading" /\ LoopFree({}) /\ Release(s)
    /\ pc' = [pc EXCEPT ![s] = "done"]
    /\ UNCHANGED <<callVars, thread, job, locked, temps, status>>

\* The transcript is sent.
Answer(s) ==
    /\ pc[s] = "transcribing" /\ thread[s] = "ok" /\ LoopFree({})
    /\ Yield(s, IF s \in ended THEN "FINAL" ELSE "PARTIAL", job[s])
    /\ pc' = [pc EXCEPT ![s] = "writing"]
    /\ thread' = [thread EXCEPT ![s] = "none"]
    /\ UNCHANGED <<cacheVars, taken, ended, buffer, job, locked, cancelled, temps, status>>

HoardingSent(s) ==   \* mutant: the buffer is not cleared
    /\ pc[s] = "writing" /\ LoopFree({})
    /\ IF s \in ended THEN Release(s) /\ pc' = [pc EXCEPT ![s] = "done"]
       ELSE pc' = [pc EXCEPT ![s] = "reading"] /\ UNCHANGED cacheVars
    /\ UNCHANGED <<callVars, thread, job, locked, temps, status>>

\* The client has it: the buffer is cleared; after a FINAL, return.
Sent(s) ==
    /\ pc[s] = "writing" /\ LoopFree({})
    /\ buffer' = [buffer EXCEPT ![s] = <<>>]
    /\ IF s \in ended THEN Release(s) /\ pc' = [pc EXCEPT ![s] = "done"]
       ELSE pc' = [pc EXCEPT ![s] = "reading"] /\ UNCHANGED cacheVars
    /\ UNCHANGED <<taken, ended, events, cancelled, thread, job, locked, temps, status>>

\* The thread raised.
Fail(s) ==
    /\ pc[s] = "transcribing" /\ thread[s] \in {"refused", "failed"} /\ LoopFree({})
    /\ Raise(s)
    /\ thread' = [thread EXCEPT ![s] = "none"]
    /\ UNCHANGED <<taken, ended, buffer, cancelled, job, locked, temps, status>>

\* The client cancels its call, at an await of the coroutine, or its WebSocket
\* is found gone by a send.  The coroutine is over, its thread is not.
Cancel(s) ==
    /\ pc[s] # "done" /\ (s \in Sockets => pc[s] = "writing") /\ LoopFree({})
    /\ IF lease[s] = "using" THEN Release(s) ELSE UNCHANGED cacheVars
    /\ pc' = [pc EXCEPT ![s] = "done"]
    /\ cancelled' = cancelled \cup {s}
    /\ UNCHANGED <<taken, ended, buffer, events, thread, job, locked, temps, status>>

-----------------------------------------------------------------------------
(* An upload.                                                              *)

\* Only WAV files are supported.
RefuseUpload(u) ==
    /\ pc[u] = "receiving" /\ LoopFree({})
    /\ status' = [status EXCEPT ![u] = "bad"]
    /\ pc' = [pc EXCEPT ![u] = "done"]
    /\ UNCHANGED <<cacheVars, callVars, thread, job, locked, temps>>

\* A temporary file is created and the upload copied to it, ...
Spool(u) ==
    /\ pc[u] = "receiving" /\ LoopFree({})
    /\ temps' = temps \cup {u}
    /\ pc' = [pc EXCEPT ![u] = "spooling"]
    /\ UNCHANGED <<cacheVars, callVars, thread, job, locked, status>>

\* ... which may fail; then it is handed to a thread.
Spooled(u) ==
    /\ pc[u] = "spooling" /\ LoopFree({})
    /\ \/ /\ pc' = [pc EXCEPT ![u] = "transcribing"]
          /\ thread' = [thread EXCEPT ![u] = "acquiring"]
          /\ status' = status
       \/ /\ pc' = [pc EXCEPT ![u] = "cleaning"]
          /\ status' = [status EXCEPT ![u] = "error"]
          /\ thread' = thread
    /\ UNCHANGED <<cacheVars, callVars, job, locked, temps>>

\* 200, 400, 404 or 500, by what the thread returned or raised.
Respond(u) ==
    /\ pc[u] = "transcribing" /\ lease[u] = "done" /\ LoopFree({})
    /\ status' = [status EXCEPT ![u] = [ok |-> "ok", refused |-> "bad", missing |-> "unknown",
                                        failed |-> "error"][thread[u]]]
    /\ thread' = [thread EXCEPT ![u] = "none"]
    /\ pc' = [pc EXCEPT ![u] = "cleaning"]
    /\ UNCHANGED <<cacheVars, callVars, job, locked, temps>>

LeakyClean(u) ==   \* mutant: the file is unlinked only after a success
    /\ pc[u] = "cleaning" /\ LoopFree({})
    /\ temps' = IF status[u] = "ok" THEN temps \ {u} ELSE temps
    /\ pc' = [pc EXCEPT ![u] = "done"]
    /\ UNCHANGED <<cacheVars, callVars, thread, job, locked, status>>

\* finally: the file is unlinked, and the answer goes out.
Clean(u) ==
    /\ pc[u] = "cleaning" /\ LoopFree({})
    /\ temps' = temps \ {u}
    /\ pc' = [pc EXCEPT ![u] = "done"]
    /\ UNCHANGED <<cacheVars, callVars, thread, job, locked, status>>

\* _transcribe, on the upload's thread: lease the engine, ...
ThreadAcquire(u) ==
    /\ thread[u] = "acquiring"
    /\ \/ (Hit(u) \/ Miss(u) \/ Insert(u)) /\ thread' = thread
       \/ Pin(u) /\ thread' = [thread EXCEPT ![u] = "converting"]
       \/ LoadFails(u) /\ thread' = [thread EXCEPT ![u] = "missing"]
    /\ UNCHANGED <<pc, callVars, job, locked, temps, status>>

\* ... and give it back, whatever came of it.
ThreadRelease(u) ==
    /\ thread[u] \in {"ok", "refused", "failed"} /\ Release(u)
    /\ UNCHANGED sttVars

-----------------------------------------------------------------------------
(* WhisperCppEngine.transcribe, on a thread.                               *)

\* _convert_audio refuses a source without data.  An upload is read, converted
\* and checked here; bytes that are not whole samples, or no WAV file, raise.
Convert(r) ==
    /\ thread[r] = "converting"
    /\ \E next \in IF r \in Uploads     THEN {"locking", "refused", "failed"}
                   ELSE IF job[r] = <<>> THEN {"refused"}
                   ELSE {"locking", "failed"} :
          thread' = [thread EXCEPT ![r] = next]
    /\ UNCHANGED <<cacheVars, pc, callVars, job, locked, temps, status>>

UnlockedNative(r) ==   \* mutant: the native call is not serialized
    /\ thread[r] = "locking"
    /\ locked' = locked \cup {engine[r]}
    /\ thread' = [thread EXCEPT ![r] = "native"]
    /\ UNCHANGED <<cacheVars, pc, callVars, job, temps, status>>

Lock(r) ==
    /\ thread[r] = "locking" /\ engine[r] \notin locked
    /\ locked' = locked \cup {engine[r]}
    /\ thread' = [thread EXCEPT ![r] = "native"]
    /\ UNCHANGED <<cacheVars, pc, callVars, job, temps, status>>

\* The native call returns or raises; the with block frees the lock.
Unlock(r) ==
    /\ thread[r] = "native"
    /\ locked' = locked \ {engine[r]}
    /\ \E result \in {"ok", "failed"} : thread' = [thread EXCEPT ![r] = result]
    /\ UNCHANGED <<cacheVars, pc, callVars, job, temps, status>>

-----------------------------------------------------------------------------
Stream(s) == Acquire(s) \/ AcquireFails(s) \/ Open(s) \/ Answer(s) \/ Fail(s)
Upload(u) == Spooled(u) \/ Respond(u) \/ Clean(u)
Thread(r) == Convert(r) \/ Lock(r) \/ Unlock(r)
UploadThread(u) == ThreadAcquire(u) \/ ThreadRelease(u)
Client(s) == ReceiveAudio(s) \/ ReceiveEnd(s) \/ InputEnds(s) \/ Sent(s) \/ Cancel(s)
Poster(u) == RefuseUpload(u) \/ Spool(u)

Over(r) == IF r = Warmup THEN lease[r] = "done"
           ELSE /\ pc[r] = "done" /\ thread[r] \in {"none", "ok", "refused", "failed"}

\* Nothing runs any more, or main has failed.
Terminated ==
    /\ \/ \A r \in Requests : Over(r)
       \/ lease[Warmup] = "done" /\ engine[Warmup] = NoEngine
    /\ UNCHANGED vars

Next == \/ WarmUp \/ Terminated
        \/ \E s \in Streams : Stream(s) \/ Client(s)
        \/ \E u \in Uploads : Upload(u) \/ UploadThread(u) \/ Poster(u)
        \/ \E r \in Requests : Thread(r)

(* The event loop and the threads are scheduled, engines load and native   *)
(* calls return.  No client has to say anything or to read.                *)
Fairness ==
    /\ WF_vars(WarmUp)
    /\ \A s \in Streams : WF_vars(Stream(s))
    /\ \A u \in Uploads : WF_vars(Upload(u)) /\ WF_vars(UploadThread(u))
    /\ \A r \in Requests : WF_vars(Thread(r))

Spec == Init /\ [][Next]_vars
FairSpec == Spec /\ Fairness

-----------------------------------------------------------------------------
(* Correctness.                                                            *)

Transcribed(s) == FlattenSeq([i \in DOMAIN events[s] |-> events[s][i].audio])
Failed(s) == \E i \in DOMAIN events[s] : events[s][i].type = "ERROR"

(* Until a stream fails or its client leaves, every audio message it has   *)
(* taken is transcribed exactly once, in order, or still buffered          *)
(* (grpc_servicer.py:35-51, api/routes.py:91-101).                         *)
AudioAccounted ==
    \A s \in Streams : ~Failed(s) /\ s \notin cancelled =>
        Transcribed(s) \o (IF pc[s] = "writing" THEN <<>> ELSE buffer[s])
            = [i \in 1..taken[s] |-> i]

(* The native call of an engine is never entered twice at a time, although *)
(* streams, uploads and the threads of cancelled calls share engines that  *)
(* are evicted and loaded again (whispercpp_engine.py:43-50, 59).          *)
NativeExclusive ==
    \A r, q \in Requests :
        thread[r] = "native" /\ thread[q] = "native" /\ engine[r] = engine[q] => r = q

(* Whoever was answered and did not leave has left nothing behind: no      *)
(* temporary file, lease or thread; and one who left holds no lease        *)
(* (api/routes.py:60-63, grpc_servicer.py:29, engine_manager.py:62-68).    *)
AnsweredIsClean ==
    \A r \in Streams \cup Uploads : pc[r] = "done" =>
        /\ r \notin temps /\ lease[r] \in {"new", "done"}
        /\ r \notin cancelled => thread[r] = "none"

(* An end marker is answered, by FINAL or by ERROR, and an upload by a     *)
(* response, however many other requests use the engine and even if they   *)
(* fail in it; the gateway's turn waits for nothing else                   *)
(* (grpc_servicer.py:38-54, 56-67; api/routes.py:38-69).                   *)
EndIsAnswered ==
    /\ \A s \in Streams : s \in ended ~>
          \/ s \in cancelled
          \/ events[s] # <<>> /\ Last(events[s]).type \in {"FINAL", "ERROR"}
    /\ \A u \in Uploads : u \in temps ~> pc[u] = "done"

(* Claimed by docs/frontend-integration.md:122-133: a partial transcript   *)
(* is replaced, not appended to, so the final one covers what the partial  *)
(* ones covered, the whole utterance.                                      *)
FinalIsWhole ==
    \A s \in Streams : \A i \in DOMAIN events[s] :
        events[s][i].type = "FINAL" => Len(events[s][i].audio) = taken[s]
=============================================================================
