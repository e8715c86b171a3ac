# Verification of the bibi-core voice assistant

bibi-core is a voice assistant of four processes: a Go gateway that browsers
reach over a WebSocket, and three Python services that it reaches over
streaming gRPC: speech to text (STT), the language model (LLM) and text to
speech (TTS). This directory holds TLA+ models of the parts that run
concurrently, TLC configurations that check them on small instances, and
TLAPS proofs of their most important safety properties for instances of every
size. Paths below are relative to the repository (`src/`).

```
browser --ws--> gateway session --grpc--> stt service  -> whisper engine cache
                 readPump                  llm service  -> Ollama
                 forwardTranscripts        tts service  -> piper voice cache
                 forwardLLMEvents
                 audioSendWorker
                 ttsWorker, writePump
```

To check: `tlc -config X.cfg M` for a run of section 3 (`PROJECT.json` names the
module and the configuration of each), and `tlapm M.tla` for each of the eight
modules whose name ends in `Proofs`.

## 1. Inventory

**Gateway session: turns and speech** (`internal/ws/session.go`). One per
WebSocket, made of `readPump`, one `forwardTranscripts` per STT stream, one
`forwardLLMEvents` per chat, `ttsWorker` and `writePump`. State: the atomic
`currentTurn`; the pointers `activeLLMStream` and `activeTTSStream` and the
history, under `mu`; the channels `ttsQueue` and `send` (32 each); one context.
A `start` message is a barge-in: it raises the turn, cancels the published
streams, drains the queue, says `interrupted` and opens an STT stream. Each
goroutine checks the turn of what it holds at some points and acts later, so
everything hard here is an interleaving of a check with a barge-in. Correct
means: a barge-in is short and always ends; nothing of the old answer is left
running or audible beyond a stated bound; nothing of the new turn is harmed; no
goroutine outlives the connection.

**Gateway session: microphone uplink** (same file). `readPump` puts audio and
the end marker into `audioQueue` (64); `audioSendWorker` pairs each with
whatever STT stream is current at that moment. Audio is dropped when the queue
is full, the marker never. Correct means: the marker arrives, last; the read loop
is not blocked for good by a wedged backend; one STT call at a time.

**gRPC client streams** (`internal/{stt,llm,tts}/client.go`). The same
`recvPump` three times: a goroutine per `Recv`, an idle timer, the context, a
bounded `Events` channel (16), `Close` and, for STT, `CloseSend`. Correct means:
the reader gets the service's events in order, then at most one error, then the
end, always; and both goroutines are freed.

**Engine caches** (`stt/engine_manager.py`, `tts/engine_manager.py`). An
`OrderedDict` of loaded engines with reference counts under a lock; loading
happens outside the lock. Correct means: exact counts, no eviction or
replacement of a pinned engine, memory that comes back to the limit.

**STT service** (`stt/grpc_servicer.py`, `stt/api/routes.py`,
`stt/engines/whispercpp_engine.py`). Streams (gRPC calls and WebSockets) lease
the default engine on the event loop, buffer audio and have threads transcribe
full windows and the rest; uploads go to disk, and a thread leases an engine and
transcribes the file. All share one cache, and each engine's native lock.
Correct means: audio transcribed once and in order, one native call per engine
at a time, an answer to every end marker and upload, nothing left behind.

**STT audio conversion** (`stt/utils/audio.py`). Width, channels and rate of
chunks, by a chain of pure functions. Correct means: in range, same duration,
silence stays silence, no sample changed by more than rounding explains.

**LLM service** (`llm/grpc_servicer.py`, `llm/api/routes.py`,
`llm/engines/ollama_engine.py`, `llm/utils/chunker.py`). An availability check
cached across calls, a token stream, and a chunker that cuts text into
sentences, behind three routes. Correct means: no text lost or doubled by the
cutting, exactly one final event, checks skipped only with cause.

**TTS service** (`tts/grpc_servicer.py`, `tts/api/routes.py`,
`tts/utils/async_io.py`). A thread synthesizes into a bounded queue that the
event loop drains; a POST collects a file. Correct means: the end is reported
with everything before it, no thread stays behind, no voice is held for good.

**Processes** (`stt/main.py` and its two siblings with `grpc_server.py`;
`cmd/gateway/main.go`). Two servers per service in one event loop; the gateway's
clients, listener and shutdown. Correct means: no half service, nothing left to a
finalizer, every stop comes to an end.

**Gateway health aggregation** (`internal/health/aggregator.go`). One call per
backend under one deadline. Correct means: the report always comes and is true.

**Not modelled**, with the reasons in section 9: the browser client, proxy and
configuration, generated code. `PROJECT.json` lists each component and, under
`hazards`, what is hard to test in each at its line.

### How the parts meet

A session owns one STT call at a time, one chat per FINAL transcript and one
TTS call per sentence. `TurnPipeline` and `AudioUplink` treat a call as its
observable events: opened, published, events, ended, closed. That they may do
so is what `StreamCall` is about: its abstract specification `EventStream` is
just what the loops `range stream.Events` of the session rely on. Barge-in
reaches the services as a cancelled call, which every service module has as an
action that may come at any step. `SttService` and `TtsService` extend
`EngineManager` and run on its variables: a request's step is a conjunction of
its own effect and a critical section of the cache, so an engine may be evicted
and loaded again while the thread of a cancelled request still works with it.
`Deployment` is the level above: it keeps of a request only that it is in flight,
and of a service's threads only that one is at work.

## 2. Modules

**TurnPipeline** - `session.go` without the uplink. Goroutines have program
counters: `rp` (readPump), `fwd[c]`, `gen[c]` (the two forwarders of stream
`c`), `tw` (ttsWorker with synthesizeAndSend), `wp` (writePump). A critical
section of `mu`, an atomic operation, a channel operation and a gRPC call are a
step each.

| actions | code |
| --- | --- |
| `BeginNewTurn`, `TakeActiveStreams`, `DrainOne`, `DrainDone`, `StartStream` | beginNewTurn, interruptCurrentTurn, startStream |
| `FwdBegin`, `FwdReceive`, `FwdTell`, `FwdReceiveFinal`, `FwdFinal`, `FwdEnd` | forwardTranscripts |
| `ChatStart`, `ChatPublish` | startLLMChat |
| `GenReceiveChunk`, `GenChunk`, `GenReceiveLast`, `GenDone`, `GenError`, `GenEnd` | forwardLLMEvents |
| `TtsTake`, `TtsSynth`, `TtsPublish`, `TtsReceiveAudio`, `TtsReceiveError`, `TtsText`, `TtsFormat`, `TtsAudio`, `TtsEnd`, `TtsClear`, `TtsFail`, `TtsStop` | ttsWorker, synthesizeAndSend |
| `WriteOne`, `WriteFails`, `WriteClose`, `ReadFails`, `Disconnect` | writePump, the failing read, the client |

`llmOpen` and `ttsOpen` are the calls running at the services, so "published"
and "running" can differ. `staleAudio` is auxiliary: it counts frames of an
interrupted answer that entered the send buffer. Messages are counted, not
stored.

**AudioUplink** - `handleAudioChunk`, `endUtterance`, `startStream`,
`audioSendWorker` and the sending half of an STT stream. A frame carries the
number of its utterance as an auxiliary field; the code's does not.

**StreamCall**, **EventStream** - `recvPump`, its `Recv` goroutine, `Close`,
`CloseSend`, the idle timer and the reader's loop. A `Recv` that comes to the end
of its call, by EOF or failure, cancels the stream's context before it returns
(`RecvEnds`): grpc-go finishes the call there. So `TakeEnd` and `Cancelled`, two
cases of one `select`, are ready together and either may be taken; `ender` tells
this from a context that `Close` or the session cancelled. `Promise == INSTANCE
EventStream WITH got <- got, over <- ...` is the refinement mapping: the stream
is over when the reader stops ranging or has got the error.

**EngineManager** - both caches, as a component with its own `CacheSpec`. Each
critical section of `_lock` is an action: `Hit`, `Miss`, `LoadFails`, `Insert`,
`Pin`, `LeaveUnpinned`, `Release`, `Unload`, with the sweep of
`_evict_if_over_capacity` inside `Insert` and `Release`. An instance is named by
the request that loaded it. It has no run of its own: the two services drive it.

**SttService** - extends `EngineManager`. `pc` is the coroutine of a request,
`thread` its `asyncio.to_thread` call, `locked` the engines' native locks.

| actions | code |
| --- | --- |
| `WarmUp`, `Acquire`, `AcquireFails`, `Open`, `LoopFree` | the model loaded by `main`, and the lease a stream takes on the event loop, which stands still meanwhile |
| `ReceiveAudio`, `ReceiveEnd`, `InputEnds`, `Transcribe`, `Answer`, `Sent`, `Fail`, `Cancel`, `Raise` | StreamTranscribe and `/transcribe-stream` |
| `RefuseUpload`, `Spool`, `Spooled`, `Respond`, `Clean`, `ThreadAcquire`, `ThreadRelease` | `POST /transcribe` |
| `Convert`, `Lock`, `Unlock` | the thread in `transcribe`, and `_model_lock` |

**AudioConvert**, **MCSttService** - `utils/audio.py` as operators on chunks, and
the audio they are evaluated on. `ConversionSound` compares them with what a
conversion must keep over every chunk of the instance, in the states in which a
thread has just converted. Averages are exact, as in the code: a sum of 16-bit
values is, and its quotient is rounded only when it is not whole. The interpolation
is not: `np.linspace` rounds positions, `np.interp` values, and `astype(int16)` cuts
off what is left, so a value that should fall on a sample can come out a step
short. The operators take these errors as a parameter `slip`: for every sample
-1, 0 or 1, an error of less than a step down, none, or up, and the same for a
new length that lies half-way. The true error is a rounding of the position,
relative to its size, times a difference of at most 65,535 between neighbours; it
stays below a step for every chunk of fewer than about 2^34 samples.

**LlmService** - the three routes `StreamChat`, `ChatStream` and `Chat` of a call.
`SkipCheck`, `Ask`, `CheckPasses`, `CheckFails` around the shared cache; `Token`
with `chunk_stream`; `GenerationEnds`, `Finish`, `StreamFails`, `ChatFails`,
`BlankPrompt`, `Cancel`, `Stop`. Text is a sequence over six kinds of
character, which is what the chunker distinguishes. `MCLlmService` gives the
tokens.

**TtsService** - extends `EngineManager`. `Load`, `Unwanted`, `NotFound`, `Start`
lease the voice; `Collect`, `EncodingEnds`, `EncodingFails` are `POST /tts`;
`Synthesize`, `SynthesisEnds`, `CheckStopped`, `Enqueue`, `Put` are the thread of
`iter_in_thread`, and `GetChunk`, `GetEnd`, `Written`, `Leave`, `Closed` its
consumer in a gRPC call or a WebSocket. The wait for room in the queue is a loop
with a timeout, so `Enqueue` re-reads `stopped` before every `Put`. Leaving the
consumer's loop gives the voice back first (`Leave`) and stops the thread later
(`Closed`), because nothing closes the abandoned generator at once.

**Deployment** - per service `Start`, `GrpcStarts`, `GrpcFails`, `HttpStarts`,
`HttpFails`, `Interrupt`, `CancelTasks`, `HttpStops`, `Crash`, `GrpcStops`, `Exit`,
with HTTP requests (`PostBegins`, `PostEnds`) and threads (`ThreadBegins`,
`ThreadEnds`) in flight; for the gateway `Connect`, `Listen`, `ServeFails`,
`Signal`, `Drained`, `ShutdownExpires`, `CloseClient`, `GatewayExits`; and the
health check `CheckBegins`, `Answer`, `NoAnswer`, `Report`. `seen` is auxiliary:
what each service was in the course of the check.

Definitions marked `mutant` in a module are wrong variants of the definition
that follows, each a plausible slip in the code; substituting one makes TLC find
the property it is listed with violated. They are not part of the models.

## 3. Runs

| run | states | what it shows |
| --- | --- | --- |
| `turn_safety` | 1.7 M | What a barge-in promises, over all interleavings of two turns: `ActiveTtsIsCurrent`, `NoOrphanTts`, `StaleAudioBounded` (one frame), `StaleJobsBounded` (one job), `BargeInSparesNewTurn`. |
| `turn_liveness` | 128 k | A barge-in ends (`BargeInCompletes`), speech drains even when the client stops reading (`SpeechDrains`), all goroutines return (`WindDown`). |
| `turn_orphan_chat` | violation | `NoOrphanChat`, finding 1. |
| `audio_uplink` | 31 k | The marker is last (`EndMarkerLast`) and arrives (`EndMarkerArrives`), the read loop comes back (`EndUtteranceReturns`), one call (`OneLiveCall`), all return. |
| `stream_call` | 10 k | `recvPump` implements `EventStream` (`KeepsPromise`); a stream nobody ended loses no event untold unless its reader is a full channel behind (`EndLosesNothing`); goroutines are freed (`GoroutinesEnd`). |
| `stream_failure` | violation | `FailureIsTold`, finding 2. |
| `stt_service` | 335 k | Two streams and an upload on one cache: `AudioAccounted`, `NativeExclusive`, `RefsMatchUsers`, `AnsweredIsClean`, `EndIsAnswered`; `ConversionSound`. |
| `stt_final` | violation | `FinalIsWhole`, finding 3. |
| `llm_service` | 2.96 M | Two calls by any route: `SaidIsSpoken`, `EndsOnce`, `SkipIsJustified`. |
| `chunk_numbers` | violation | `NumbersStayWhole`, finding 4. |
| `tts_service` | 253 k | A stream and a POST on one cache: `EndIsWhole`, `PinnedStaysLoaded`, `ThreadEnds`, `MemoryRestored`. |
| `deployment` | 282 k | `ExitIsClean`, `HealthIsTruthful`, `HealthReturns`, `StopsWhole`. |

### Bounds

Every bound is a constant that a guard or a set names.

- TurnPipeline: two turns are one barge-in, with everything the old turn can
  have in flight; the promises relate the current turn to one old turn. Two
  chunks and two frames distinguish "at most one" from "more than one", and
  capacity two lets queues be empty, partly full and full. The proofs remove these
  bounds for the safety properties. The liveness run takes one of each, because
  fairness makes states expensive; a blocked send needs only one slot.
- AudioUplink: two utterances, four messages, a queue of two, so the queue is full
  with both utterances in it.
- StreamCall: four events over a channel of two, so the pump blocks on a full
  channel and a reader can be EventsCap behind. `stream_failure` has no
  `CloseSend`, as for an LLM or TTS stream, so that nothing but the failure
  itself can end the call.
- SttService: a stream over gRPC, one over a WebSocket, an upload and the warm-up,
  on a capacity of one with two models: the smallest instance in which the
  engine of a running thread is evicted, and its model loaded again, by others.
  Three messages over a window of two are a full window and a rest.
  `AudioConvert` sees chunks of up to four samples of every width and channel
  count, at rates from a third to three times the engine's, multiples and others,
  with no error, or the largest down or up, in every sample: these are the ends of
  what a sample can be. The proofs have an error of its own for each.
- LlmService: no token comes once three characters are out, over a maximum chunk
  of three, which forces both kinds of cut; time up to the cache's life of two,
  so a check is valid or just expired. The calls are symmetric; the run checks
  no liveness, and `SkipIsJustified` treats all calls alike.
- TtsService: a stream (gRPC or WebSocket) and a POST, two voices of which one may
  be unloaded, a capacity of one. Three chunks over a queue of one, so the thread
  waits for room with chunks still to come.
- Deployment: two services, one with a warm-up and threads, which may fail, be
  interrupted or hang; the other's requests cannot matter then. Services
  interact only through the health check and the order of closing, for which
  two are enough; the proofs have any number.

## 4. Fairness

Goroutines, threads and coroutines are scheduled: weak fairness for each.
Beyond that:

- TurnPipeline has strong fairness for `TtsAudio`: a sender blocked on a Go
  channel waits in FIFO order, so non-blocking senders cannot overtake it for
  ever. And for `ctxDone /\ FwdEnd(c)`: once the context is cancelled a stream
  delivers at most its 16 buffered events.
- The end of streams (in `Forwarder`, `Generator`, `TtsWorker`) rests on the
  clients' idle timers: `KeepsPromise` in `stream_call` shows that every stream
  ends, whatever the service does. `WritePump` rests on `writeWait`, the write
  deadline.
- AudioUplink never forces `SendOk`; a call whose sender is stuck ends because
  the service then sends nothing and `recvPump`'s idle timer fires.
- StreamCall assumes nothing of the service or the caller, only that timers fire
  and `Recv` notices the end of its call.
- SttService: threads and the event loop are scheduled, engines load and native
  calls return (a C call with no callback into Python). No client has to
  speak, read or leave.
- TtsService: loading and synthesis go on and the event loop polls. No client
  has to read, cancel or leave; `MemoryRestored` says what it excepts, a client
  that stalls for ever.
- Deployment: timers fire, `Closing` steps and the tasks of a stopping service are
  scheduled, and the requests and threads of a service that stops come to an
  end. No service has to start, and no one has to fail or be interrupted.
- LlmService claims no liveness: the Ollama client has no read timeout
  (`llm/engines/ollama_engine.py:90`).

## 5. Proofs

`TurnPipelineProofs` proves the safety properties of `turn_safety` for every
number of turns, chunks and frames and every capacity, from
`BoundsAssumption`, `CapAssumption` and `NoJobAssumption`. The properties are
not inductive. The argument:

1. `TypeInv`: types, plus `ForwarderOK`, how far the goroutines of a stream can
   have got relative to `currentTurn` (a forwarder is spawned only after its
   turn began; a consumer runs only after its forwarder has returned).
2. `JobInv` adds `JobsTagged`: a job, in the queue or in hand, carries the turn
   its forwarder read. With it `BargeInSparesNewTurn` follows: while a turn
   begins, no forwarder can have read it.
3. `StreamInv`: `ActiveTtsIsCurrent`; `CurrentIsHeld` (the published stream is
   the worker's); `EndedIsClosed`; `OpenIsReachable` (a running synthesis is
   published or in the worker's hand). Together they give `NoOrphanTts`.
4. `AudioInv`: a stale frame in hand excludes one already counted, since the
   next receive would notice the turn. This gives `StaleAudioBounded`.
5. `StaleJobInv`: at most one stale job of a chat once the queue is drained,
   none while its consumer still holds a chunk it checked in time. This gives
   `StaleJobsBounded`.

`NoOrphanTts` and `BargeInSparesNewTurn` have the antecedent `OnTime`: no
forwarder was overtaken by a second `start` before it first ran (section 7).
`turn_safety` reaches states on both sides of it.

`EngineManagerProofs` proves `RefsMatchUsers` (by `Counted`: types and the
counts) and `PinnedStaysLoaded` (by `PinInv`: who has got past loading holds an
instance) from `CacheSpec`, for all finite sets of requests and models and every
capacity. The second needs the first: a victim has a count of zero, so no user,
so no pin. Three more theorems are about the order, which a sweep computes by
recursion (`Without`): `CacheTypeCorrect`, by `OrderedDict` (the order lists the
loaded models, each once); `OverCapacityCorrect`, that the cache is over capacity
only by engines in use and one just loaded; and the action property
`OldestGoFirstCorrect`, that what a sweep leaves unused in the cache is younger
than what it evicts. The last two rest on one lemma about `Victims`
(`SweepEvicts`): a sweep leaves nothing free, or no more than the capacity, and
what stays of the free models is younger than what goes.

`SttServiceProofs` and `TtsServiceProofs` begin with `LeasesFollowCache`, `Spec =>
CacheSpec`: every step of a service is a step of the cache or leaves it alone,
the refinement of the component by its composition. The theorems about the
cache carry over (`ServiceRefsMatchUsers`, `ServiceOverCapacity`,
`VoicesStayLoaded`, `OverCapacityInService`). Then:

- `NativeExclusiveCorrect`: `Settled` (a request whose thread works keeps the
  instance it was given, even when its lease is gone) and `NativeLocked` (who is
  in the native call has its instance locked) make `Lock` impossible for a
  second thread on the same engine.
- `AnsweredIsCleanCorrect`, by `CleanInv`: one implication per place an upload's
  or a stream's coroutine can be in, from what it has left behind there.
- `AudioAccountedCorrect`, by `AudioInv`: beyond the property, a thread
  transcribes what is in the buffer (`JobIsBuffer`), so the answer empties the
  buffer of just that. What was transcribed is the concatenation of all events,
  whose growth by one event `FlattenEquation` and the lemmas after it give.
- `ConversionSoundCorrect`, next to four theorems about `AudioConvert` that are not
  about states but hold of every audio. `StaysInRangeCorrect`: every step of a
  conversion gives samples between the bounds of those it was given (`Between`),
  an average as well (`Division`, `TruncBetween`), and an interpolation to the one
  step nearer to zero that an error and the cutting off can cost (`TruncNear`,
  `SlipNear`); so nothing wraps around or gets louder. Engines of 8 bits are
  excepted, which round to a step of their own. `KeepsSilenceCorrect`: the same,
  with equal bounds. `KeepsSamplesCorrect`: at whole positions the interpolation
  is within a step of the sample (`ValueNear`), so up and down again within two.
  `KeepsDurationCorrect`: the length of a chunk is rounded by half a sample at
  most, whichever way a tie goes (`Nearest`, `AsLong`), and sums are
  off by no more than the sum of that (`SumsNear`). They assume chunks of
  numbers in whole frames, of positive rates (`Playable`, `WholeFrames`), which
  the format of the messages and `reshape` demand, and, for the duration, what
  the property supposes of every chunk (`LongEnough`). What TLC evaluates is an
  instance of them (`MCChunk`).
- `EndIsWholeCorrect`, by `WholeInv`: as long as nobody has given the queue up, it
  holds the chunks made and not sent, in order, except one in the thread's
  hand (`Holding`, `Between`), then what tells how synthesis ended (`Ending`). So
  whoever finds the sentinel or the exception at the head has sent all the rest.
  `HeadOfQueue` says so; `GetChunkQueue` is the shift of the queue.

`DeploymentProofs` has `ExitIsCleanCorrect`, by `ExitInv` (what a process or the
gateway owns in each of its phases), and the action property
`HealthIsTruthfulCorrect`, by `Witnessed`: an answer counted as healthy saw its
service good during the check, and one counted as unhealthy saw it bad.

`AudioUplinkProofs`, after `TypeInv` and `StreamIsTurn` (a stream implies a turn),
has `OneLiveCallCorrect` by `LiveInv` (a new call is opened only when the old one
is closed) and `EndMarkerLastCorrect` by `MarkInv`: a stream that has its marker
is closed to the worker or about to be, by the worker itself, and what the worker is
sending goes to one without a marker. The second is needed because the stream can
be closed by the next `start` while the worker still holds it.

`StreamCallProofs` relates what the reader has got, what the channel holds and what
the pump has in hand. They continue each other (`Flowing`) until the error is the
last thing in the channel (`Failing`) or has been taken (`FailedForGood`).
`Explained` says two things more: while the pump waits, a context that neither
`Close` nor the session cancelled was cancelled by a `Recv` that found nothing
left, so a return by `Done()` leaves no event behind; and a pump that has returned
has handed everything over (`HandedOver`), or an error, or found the channel
full. From them follow `EndLosesNothingCorrect` and `StepsKeepPromise`, the step
simulation of
`EventStream`: initial state to initial state, each step to a step or a stutter.

`LlmServiceProofs` has `EndsOnceCorrect`, by `EndInv`: what a call has yielded and
answered, by where it is (`Yielded`). The texts of events are any values, so that
neither the tokens nor the sizes of chunks matter. `SkipIsJustifiedCorrect` is an
action property, by `CheckInv`: the cached time is never later than when Ollama was
last seen with the model. `SaidIsSpokenCorrect`, by `TextInv`: what was generated
has the ink (the text without white space) of what went to speech followed by
what the chunker still holds (`Whole`), the buffer is empty when the call ends
well, and it is shorter than a chunk once stripped, so a cut finds its place. The
lemmas show that ink is kept by what the chunker is made of: concatenation
(`InkConcat`), stripping (`StripKeepsInk`) and cutting at any place.

The theorems named `TypeCorrect` prove the `TypeOK` of every module that a run
checks. Those conjuncts that are bounds need the invariants above: a queue put
into only with room (`Room`), a window that is never overfull (`WindowKept`), a
model only once in the order of the cache (`OrderedDict`).

Several of these are about recursive functions: the order that `Without` leaves,
sums, concatenations, ink. The library's induction theorems take an operator as
a parameter, which no prover here can instantiate; instead `Induction`, `UpTo` and
`Smallest`, from `WFMin`, are induction for a set of naturals given as such, and for
each recursive function one lemma says that it satisfies its equation
(`TotalEquation`, `FlattenEquation`, `Running`).

Assumptions are those of the modules (`RequestsAssumption`,
`MaxLoadedAssumption`, `ModelsAssumption`, `StreamsAssumption`,
`BoundsAssumption`, `ServicesAssumption`): finite sets, positive capacities,
disjoint kinds of request. TLC evaluates them in every run.

Only model-checked: the liveness properties, including the end of the stream that
`KeepsPromise` promises (its specification contains `<>`), which the prover does
not reach. Every invariant of a passing run, and every action property of one, is
proved. The four runs that expect a violation show findings, of which there is
nothing to prove.

## 6. Findings

1. **A chat can be orphaned by a barge-in** (`internal/ws/session.go:397`).
   `startLLMChat` publishes the stream without a second turn check, which
   `synthesizeAndSend` has. A `start` during `StartChat` leaves the chat running
   with nobody reading, against the comment at 409-411.
2. **A failure can be silent** (`internal/stt/client.go:178`). When the service
   fails, `Recv` cancels the stream's context before it returns the error.
   `recvPump`'s `select` finds both ready, may take `Done()`, and then returns
   without `emitError` although nobody ended the call: the session's loop just ends
   and the client waits. The comments at 64-67 and 85-88 promise the error unless
   the shutdown is intentional. The LLM and TTS clients have the same `select`.
3. **FINAL covers only the last window** (`stt/grpc_servicer.py:51`). Longer
   utterances reach the LLM truncated; the documentation says partials are
   replaced, not appended to.
4. **Decimal numbers are split** (`llm/utils/chunker.py:30`). `_is_mid_number`
   can never be true where it is asked, so a token that ends at the decimal
   point is cut there, against the docstring and the README of the service.

## 7. Observations

Behaviour of the models that contradicts no statement of the repository.

- A forwarder that first runs after the next `start` reads the new turn, and
  answers its old transcript under it (`session.go:359`).
- Audio still queued when the next `start` opens a stream goes to that stream
  (`session.go:207`).
- `CloseSend` sets the flag that suppresses error events
  (`internal/stt/client.go:157`, 212-213), as its comment says. A service that
  fails between `end_utterance` and FINAL is thus never reported, even when the
  `select` takes the error.
- `sendJSON` drops a message when the buffer is full, an `audio_format` as well,
  while the frames after it wait for room (`session.go:556`).
- Between `_get_or_load` and the increment of the count another request's sweep
  can evict the engine: a second instance of the model is then loaded
  (`stt/engine_manager.py:57`). `PinnedStaysLoaded` says what holds for those
  that were cached when they were counted.
- A cancelled STT or TTS call gives its engine back while its thread still uses it
  (`stt/grpc_servicer.py:42`, `tts/grpc_servicer.py:22`). The engine can then be
  evicted and loaded again, so that more than `max_loaded` are in memory for a
  while. `NativeExclusive` and `MemoryRestored` say what still holds.
- After the STT call has failed the pointer to it stays: every further audio
  message is answered with `stt_send_failed` (`session.go:224`). Streams that end
  with an error stay published until the next barge-in (`session.go:488`).
- The comment at `cmd/gateway/main.go:102-104` speaks of letting in-flight
  requests finish; sessions are hijacked connections, which `Shutdown` ignores.

## 8. Plan

In order:

1. Proofs: a bound on the engines in memory, evicted ones that threads still use
   included, the safety part of `MemoryRestored`.
2. What is recorded against what is spoken: the history, dropped sentences and
   the prompts of later turns. Messages would be stored rather than counted.
3. Sessions in `Deployment`: what a client sees of a gateway or a service that stops
   in the middle of a turn.

## 9. Not modelled

- The browser client (`site/assistant.html`): a demonstration page, whose timing
  (DOM events, Web Audio callbacks) nothing in the repository specifies.
- The gateway's HTTP proxy and the configuration of all processes: stateless, or
  parsed once at start-up; the values are the constants of the models.
- Generated protobuf and gRPC code, and the transports: external. The models
  assume of them what the code relies on: order within a stream, an end that
  `Recv` notices.
- Listing operations (`GET /models`, `/voices`), which change no state; prompt texts,
  Markdown stripping and WAV headers, which no property depends on.
- In `Deployment`: an interrupt before uvicorn has installed its handler; a second
  interrupt, which forces the exit; a client that leaves `/health` before its
  answer; WebSocket sessions at shutdown.
- Crashes with recovery: no process persists anything, and none is restarted by
  code of the repository.
