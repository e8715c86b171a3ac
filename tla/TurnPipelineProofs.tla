------------------------- MODULE TurnPipelineProofs -------------------------
(***************************************************************************)
(* Proofs about TurnPipeline, for every value of its constants: typing,    *)
(* then the facts that relate turns, jobs and streams, then the safety     *)
(* properties.  Each section shows that one invariant holds initially and  *)
(* is preserved by every step, given the invariants of the sections before *)
(* it; an action that leaves the section's variables alone is one of the   *)
(* disjuncts of its "other steps" case.                                    *)
(***************************************************************************)
EXTENDS TurnPipeline, TLAPS

USE DEF vars, readVars, fwdVars, genVars, llmVars, workVars, ttsVars, connVars

\* readPump is inside beginNewTurn.
Beginning == {"bumped", "draining", "opening"}

(* How far the goroutines of stream c can have got.  A turn's forwarder is *)
(* spawned only when its beginNewTurn is over, reads its turn once, and    *)
(* has returned when the chat's consumer runs.                             *)
ForwarderOK ==
    \A c \in Turns :
        /\ fwdTurn[c] <= currentTurn
        /\ fwd[c] # "none" => c <= currentTurn
        /\ fwd[c] # "none" /\ rp \in Beginning => c < currentTurn
        /\ fwd[c] \in {"none", "spawned"} <=> fwdTurn[c] = 0
        /\ gen[c] # "none" => fwd[c] = "exit"
        /\ gen[c] = "chunk" => chunks[c] # 0

TypeInv ==
    /\ TypeOK
    /\ ForwarderOK
    /\ rp \in Beginning => currentTurn # 0

-----------------------------------------------------------------------------
(* Typing.                                                                 *)

\* sendJSON never overfills the send channel.
LEMMA SendBound == send \in 0..SendCap /\ SendJSON => send' \in 0..SendCap
  BY CapAssumption DEF SendJSON

\* The initial state is well typed and every forwarder unborn.
LEMMA TypeInit == Init => TypeInv
<1> SUFFICES ASSUME Init PROVE TypeInv
  OBVIOUS
<1> USE BoundsAssumption, CapAssumption, NoJobAssumption DEF Init
<1>1. SessionTypes
  BY DEF SessionTypes, ReadPc
<1>2. TurnTypes
  BY DEF TurnTypes, FwdPc, GenPc
<1>3. SpeechTypes
  BY DEF SpeechTypes, TtsPc
<1>4. ForwarderOK
  BY DEF ForwarderOK, Beginning, Turns
<1> QED
  BY <1>1, <1>2, <1>3, <1>4 DEF TypeInv, TypeOK, Beginning

\* The variables of the read and write loops stay well typed.
LEMMA SessionStep ==
    ASSUME SessionTypes, [Next]_vars
    PROVE  SessionTypes'
<1> USE BoundsAssumption, CapAssumption
<1>1. CASE BeginNewTurn
  BY <1>1 DEF BeginNewTurn, SessionTypes, ReadPc
<1>2. CASE TakeActiveStreams
  BY <1>2 DEF TakeActiveStreams, SessionTypes, ReadPc
<1>3. CASE DrainOne
  BY <1>3 DEF DrainOne, SessionTypes
<1>4. CASE DrainDone
  BY <1>4, SendBound DEF DrainDone, SessionTypes, ReadPc
<1>5. CASE StartStream
  BY <1>5, SendBound DEF StartStream, SessionTypes, ReadPc
<1>6. CASE ReadFails
  BY <1>6 DEF ReadFails, SessionTypes, ReadPc
<1>7. CASE TtsSynth
  BY <1>7, SendBound DEF TtsSynth, SessionTypes
<1>8. CASE TtsFail
  BY <1>8, SendBound DEF TtsFail, SessionTypes
<1>9. CASE TtsText
  BY <1>9, SendBound DEF TtsText, SessionTypes
<1>10. CASE TtsFormat
  BY <1>10, SendBound DEF TtsFormat, SessionTypes
<1>11. CASE TtsAudio
  BY <1>11 DEF TtsAudio, SessionTypes
<1>12. CASE WriteOne
  BY <1>12 DEF WriteOne, SessionTypes
<1>13. CASE WriteFails
  BY <1>13 DEF WriteFails, SessionTypes
<1>14. CASE WriteClose
  BY <1>14 DEF WriteClose, SessionTypes
<1>15. CASE Disconnect
  BY <1>15 DEF Disconnect, SessionTypes
<1>16. ASSUME NEW c \in Turns, FwdTell(c)
      PROVE  SessionTypes'
  BY <1>16, SendBound DEF FwdTell, SessionTypes
<1>17. ASSUME NEW c \in Turns, FwdFinal(c)
      PROVE  SessionTypes'
  BY <1>17, SendBound DEF FwdFinal, SessionTypes
<1>18. ASSUME NEW c \in Turns, ChatStart(c)
      PROVE  SessionTypes'
  BY <1>18, SendBound DEF ChatStart, SessionTypes
<1>19. ASSUME NEW c \in Turns, GenError(c)
      PROVE  SessionTypes'
  BY <1>19, SendBound DEF GenError, SessionTypes
<1>20. CASE UNCHANGED <<readVars, send, connVars, staleAudio>>   \* other steps
  BY <1>20 DEF SessionTypes
<1> QED
  BY <1>1, <1>2, <1>3, <1>4, <1>5, <1>6, <1>7, <1>8, <1>9, <1>10, <1>11,
  <1>12, <1>13, <1>14, <1>15, <1>16, <1>17, <1>18, <1>19, <1>20
     DEF Next, ReadPump, TtsWorker, WritePump, Forwarder, Generator,
     TtsTake, TtsPublish, TtsReceiveAudio, TtsReceiveError, TtsEnd,
     TtsClear, TtsStop, Terminated, FwdBegin, FwdReceive, FwdReceiveFinal,
     FwdEnd, ChatPublish, GenReceiveChunk, GenChunk, GenDone, GenEnd,
     GenReceiveLast

\* The variables of the forwarders and the chats stay well typed.
LEMMA TurnStep ==
    ASSUME SessionTypes, TurnTypes, [Next]_vars
    PROVE  TurnTypes'
<1> USE BoundsAssumption
<1>1. CASE TakeActiveStreams
  BY <1>1 DEF TakeActiveStreams, TurnTypes
<1>2. CASE StartStream
  BY <1>2 DEF StartStream, TurnTypes, FwdPc
<1>3. CASE ReadFails
  BY <1>3 DEF ReadFails, TurnTypes
<1>4. ASSUME NEW c \in Turns, FwdBegin(c)
      PROVE  TurnTypes'
  BY <1>4 DEF FwdBegin, TurnTypes, FwdPc, SessionTypes
<1>5. ASSUME NEW c \in Turns, FwdReceive(c)
      PROVE  TurnTypes'
  BY <1>5 DEF FwdReceive, TurnTypes, FwdPc
<1>6. ASSUME NEW c \in Turns, FwdTell(c)
      PROVE  TurnTypes'
  BY <1>6 DEF FwdTell, TurnTypes, FwdPc
<1>7. ASSUME NEW c \in Turns, FwdReceiveFinal(c)
      PROVE  TurnTypes'
  BY <1>7 DEF FwdReceiveFinal, TurnTypes, FwdPc
<1>8. ASSUME NEW c \in Turns, FwdFinal(c)
      PROVE  TurnTypes'
  BY <1>8 DEF FwdFinal, TurnTypes, FwdPc
<1>9. ASSUME NEW c \in Turns, FwdEnd(c)
      PROVE  TurnTypes'
  BY <1>9 DEF FwdEnd, TurnTypes, FwdPc
<1>10. ASSUME NEW c \in Turns, ChatStart(c)
      PROVE  TurnTypes'
  BY <1>10 DEF ChatStart, TurnTypes, FwdPc
<1>11. ASSUME NEW c \in Turns, ChatPublish(c)
      PROVE  TurnTypes'
  <2>1. c \in 0..MaxTurn
    BY DEF Turns
  <2> QED
    BY <1>11, <2>1 DEF ChatPublish, TurnTypes, FwdPc, GenPc
<1>12. ASSUME NEW c \in Turns, GenReceiveChunk(c)
      PROVE  TurnTypes'
  BY <1>12 DEF GenReceiveChunk, TurnTypes, GenPc
<1>13. ASSUME NEW c \in Turns, GenChunk(c)
      PROVE  TurnTypes'
  BY <1>13 DEF GenChunk, TurnTypes, GenPc
<1>14. ASSUME NEW c \in Turns, GenDone(c)
      PROVE  TurnTypes'
  BY <1>14 DEF GenDone, TurnTypes, GenPc
<1>15. ASSUME NEW c \in Turns, GenError(c)
      PROVE  TurnTypes'
  BY <1>15 DEF GenError, TurnTypes, GenPc
<1>16. ASSUME NEW c \in Turns, GenEnd(c)
      PROVE  TurnTypes'
  BY <1>16 DEF GenEnd, TurnTypes, GenPc
<1>17. ASSUME NEW c \in Turns, NEW e \in {"done", "error"}, GenReceiveLast(c, e)
      PROVE  TurnTypes'
  BY <1>17 DEF GenReceiveLast, TurnTypes, GenPc
<1>18. CASE UNCHANGED <<fwdVars, genVars, llmVars>>   \* other steps
  BY <1>18 DEF TurnTypes
<1> QED
  BY <1>1, <1>2, <1>3, <1>4, <1>5, <1>6, <1>7, <1>8, <1>9, <1>10, <1>11,
  <1>12, <1>13, <1>14, <1>15, <1>16, <1>17, <1>18
     DEF Next, ReadPump, TtsWorker, WritePump, Forwarder, Generator,
     BeginNewTurn, DrainOne, DrainDone, TtsTake, TtsSynth, TtsPublish,
     TtsReceiveAudio, TtsReceiveError, TtsFail, TtsText, TtsFormat,
     TtsAudio, TtsEnd, TtsClear, TtsStop, WriteOne, WriteFails, WriteClose,
     Disconnect, Terminated

\* The variables of the TTS worker stay well typed; in particular ttsQueue
\* never exceeds its capacity.
LEMMA SpeechStep ==
    ASSUME TypeInv, [Next]_vars
    PROVE  SpeechTypes'
<1> USE BoundsAssumption, CapAssumption, NoJobAssumption DEF TypeInv, TypeOK
<1>1. CASE TakeActiveStreams
  BY <1>1 DEF TakeActiveStreams, SpeechTypes
<1>2. CASE DrainOne
  BY <1>2 DEF DrainOne, SpeechTypes
<1>3. CASE ReadFails
  BY <1>3 DEF ReadFails, SpeechTypes
<1>4. CASE TtsTake
  BY <1>4 DEF TtsTake, SpeechTypes, JobOver, TtsPc
<1>5. CASE TtsSynth
  BY <1>5 DEF TtsSynth, SpeechTypes, JobOver, TtsPc
<1>6. CASE TtsPublish
  BY <1>6 DEF TtsPublish, SpeechTypes, JobOver, TtsPc
<1>7. CASE TtsReceiveAudio
  BY <1>7 DEF TtsReceiveAudio, SpeechTypes, JobOver, TtsPc
<1>8. CASE TtsReceiveError
  BY <1>8 DEF TtsReceiveError, SpeechTypes, JobOver, TtsPc
<1>9. CASE TtsFail
  BY <1>9 DEF TtsFail, SpeechTypes, JobOver, TtsPc
<1>10. CASE TtsText
  BY <1>10 DEF TtsText, SpeechTypes, JobOver, TtsPc
<1>11. CASE TtsFormat
  BY <1>11 DEF TtsFormat, SpeechTypes, JobOver, TtsPc
<1>12. CASE TtsAudio
  BY <1>12 DEF TtsAudio, SpeechTypes, JobOver, TtsPc
<1>13. CASE TtsEnd
  BY <1>13 DEF TtsEnd, SpeechTypes, JobOver, TtsPc
<1>14. CASE TtsClear
  BY <1>14 DEF TtsClear, SpeechTypes, JobOver, TtsPc
<1>15. CASE TtsStop
  BY <1>15 DEF TtsStop, SpeechTypes, JobOver, TtsPc
<1>16. ASSUME NEW c \in Turns, GenChunk(c)
      PROVE  SpeechTypes'
  <2>1. fwdTurn[c] \in Turns
    <3>1. fwdTurn[c] # 0
      BY <1>16 DEF ForwarderOK, GenChunk
    <3>2. fwdTurn[c] \in 0..MaxTurn
      BY DEF TurnTypes
    <3> QED
      BY <3>1, <3>2 DEF Turns
  <2>2. chunks[c] \in 1..MaxChunk
    BY <1>16 DEF TypeInv, TypeOK, TurnTypes, ForwarderOK, GenChunk
  <2>3. Job(c) \in Jobs
    BY <2>1, <2>2 DEF Job, Jobs
  <2> QED
    BY <1>16, <2>3 DEF TypeInv, TypeOK, SpeechTypes, GenChunk
<1>17. CASE UNCHANGED <<ttsQueue, workVars, ttsVars>>   \* other steps
  BY <1>17 DEF SpeechTypes
<1> QED
  BY <1>1, <1>2, <1>3, <1>4, <1>5, <1>6, <1>7, <1>8, <1>9, <1>10, <1>11,
  <1>12, <1>13, <1>14, <1>15, <1>16, <1>17
     DEF Next, ReadPump, TtsWorker, WritePump, Forwarder, Generator,
     BeginNewTurn, DrainDone, StartStream, WriteOne, WriteFails, WriteClose,
     Disconnect, Terminated, FwdBegin, FwdReceive, FwdTell, FwdReceiveFinal,
     FwdFinal, FwdEnd, ChatStart, ChatPublish, GenReceiveChunk, GenDone,
     GenError, GenEnd, GenReceiveLast

\* The order of a stream's goroutines is kept.
LEMMA ForwarderStep ==
    ASSUME TypeInv, [Next]_vars
    PROVE  ForwarderOK'
<1> USE BoundsAssumption
<1>1. CASE BeginNewTurn
  BY <1>1 DEF BeginNewTurn, ForwarderOK, TypeInv, TypeOK, SessionTypes, TurnTypes, Turns, Beginning
<1>2. CASE TakeActiveStreams
  BY <1>2 DEF TakeActiveStreams, ForwarderOK, TypeInv, TypeOK, SessionTypes, TurnTypes, Turns, Beginning
<1>3. CASE DrainDone
  BY <1>3 DEF DrainDone, ForwarderOK, TypeInv, TypeOK, SessionTypes, TurnTypes, Turns, Beginning
<1>4. CASE StartStream
  BY SMTT(30), <1>4 DEF StartStream, ForwarderOK, TypeInv, TypeOK, SessionTypes, TurnTypes, Turns, Beginning
<1>5. CASE ReadFails
  BY <1>5 DEF ReadFails, ForwarderOK, TypeInv, TypeOK, SessionTypes, TurnTypes, Turns, Beginning
<1>6. ASSUME NEW c \in Turns, FwdBegin(c)
      PROVE  ForwarderOK'
  BY <1>6 DEF FwdBegin, ForwarderOK, TypeInv, TypeOK, SessionTypes, TurnTypes, Turns
<1>7. ASSUME NEW c \in Turns, FwdReceive(c)
      PROVE  ForwarderOK'
  BY <1>7 DEF FwdReceive, ForwarderOK, TypeInv, TypeOK, SessionTypes, TurnTypes, Turns
<1>8. ASSUME NEW c \in Turns, FwdTell(c)
      PROVE  ForwarderOK'
  BY <1>8 DEF FwdTell, ForwarderOK, TypeInv, TypeOK, SessionTypes, TurnTypes, Turns
<1>9. ASSUME NEW c \in Turns, FwdReceiveFinal(c)
      PROVE  ForwarderOK'
  BY <1>9 DEF FwdReceiveFinal, ForwarderOK, TypeInv, TypeOK, SessionTypes, TurnTypes, Turns, Stale
<1>10. ASSUME NEW c \in Turns, FwdFinal(c)
      PROVE  ForwarderOK'
  BY <1>10 DEF FwdFinal, ForwarderOK, TypeInv, TypeOK, SessionTypes, TurnTypes, Turns
<1>11. ASSUME NEW c \in Turns, FwdEnd(c)
      PROVE  ForwarderOK'
  BY <1>11 DEF FwdEnd, ForwarderOK, TypeInv, TypeOK, SessionTypes, TurnTypes, Turns
<1>12. ASSUME NEW c \in Turns, ChatStart(c)
      PROVE  ForwarderOK'
  BY <1>12 DEF ChatStart, ForwarderOK, TypeInv, TypeOK, SessionTypes, TurnTypes, Turns
<1>13. ASSUME NEW c \in Turns, ChatPublish(c)
      PROVE  ForwarderOK'
  BY <1>13 DEF ChatPublish, ForwarderOK, TypeInv, TypeOK, SessionTypes, TurnTypes, Turns
<1>14. ASSUME NEW c \in Turns, GenReceiveChunk(c)
      PROVE  ForwarderOK'
  BY <1>14 DEF GenReceiveChunk, ForwarderOK, TypeInv, TypeOK, SessionTypes, TurnTypes, Turns
<1>15. ASSUME NEW c \in Turns, GenChunk(c)
      PROVE  ForwarderOK'
  BY <1>15 DEF GenChunk, ForwarderOK, TypeInv, TypeOK, SessionTypes, TurnTypes, Turns
<1>16. ASSUME NEW c \in Turns, GenDone(c)
      PROVE  ForwarderOK'
  BY <1>16 DEF GenDone, ForwarderOK, TypeInv, TypeOK, SessionTypes, TurnTypes, Turns
<1>17. ASSUME NEW c \in Turns, GenError(c)
      PROVE  ForwarderOK'
  BY <1>17 DEF GenError, ForwarderOK, TypeInv, TypeOK, SessionTypes, TurnTypes, Turns
<1>18. ASSUME NEW c \in Turns, GenEnd(c)
      PROVE  ForwarderOK'
  BY <1>18 DEF GenEnd, ForwarderOK, TypeInv, TypeOK, SessionTypes, TurnTypes, Turns
<1>19. ASSUME NEW c \in Turns, NEW e \in {"done", "error"}, GenReceiveLast(c, e)
      PROVE  ForwarderOK'
  BY <1>19 DEF GenReceiveLast, ForwarderOK, TypeInv, TypeOK, SessionTypes, TurnTypes, Turns
<1>20. CASE UNCHANGED <<currentTurn, rp, fwdVars, genVars>>   \* other steps
  BY <1>20 DEF TypeInv, ForwarderOK
<1> QED
  BY <1>1, <1>2, <1>3, <1>4, <1>5, <1>6, <1>7, <1>8, <1>9, <1>10, <1>11,
  <1>12, <1>13, <1>14, <1>15, <1>16, <1>17, <1>18, <1>19, <1>20
     DEF Next, ReadPump, TtsWorker, WritePump, Forwarder, Generator,
     DrainOne, TtsTake, TtsSynth, TtsPublish, TtsReceiveAudio,
     TtsReceiveError, TtsFail, TtsText, TtsFormat, TtsAudio, TtsEnd,
     TtsClear, TtsStop, WriteOne, WriteFails, WriteClose, Disconnect,
     Terminated

\* beginNewTurn runs only after its "start" was counted.
LEMMA BeginningStep ==
    ASSUME TypeInv, [Next]_vars
    PROVE  rp' \in Beginning => currentTurn' # 0
<1> USE DEF TypeInv, TypeOK, SessionTypes, Beginning
<1>1. CASE BeginNewTurn
  BY <1>1 DEF BeginNewTurn
<1>2. CASE rp' = rp /\ currentTurn' = currentTurn
  BY <1>2
<1>3. CASE TakeActiveStreams \/ DrainDone \/ StartStream \/ ReadFails
  BY <1>3 DEF TakeActiveStreams, DrainDone, StartStream, ReadFails
<1> QED
  BY <1>1, <1>2, <1>3
     DEF Next, ReadPump, TtsWorker, WritePump, Forwarder, Generator,
         DrainOne, TtsTake, TtsSynth, TtsPublish, TtsReceiveAudio,
         TtsReceiveError, TtsFail, TtsText, TtsFormat, TtsAudio, TtsEnd,
         TtsClear, TtsStop, WriteOne, WriteFails, WriteClose, Disconnect,
         Terminated, FwdBegin, FwdReceive, FwdTell, FwdReceiveFinal, FwdFinal,
         FwdEnd, ChatStart, ChatPublish, GenReceiveChunk, GenChunk, GenDone,
         GenError, GenEnd, GenReceiveLast

\* TypeInv is inductive.
LEMMA TypeStep == TypeInv /\ [Next]_vars => TypeInv'
  BY SessionStep, TurnStep, SpeechStep, ForwarderStep, BeginningStep
     DEF TypeInv, TypeOK

\* Every state of the session is well typed: no channel holds more than its
\* capacity, no goroutine runs before it was spawned (NewSession, session.go:114).
THEOREM TypeCorrect == Spec => []TypeOK
<1>1. TypeInv => TypeOK
  BY DEF TypeInv
<1> QED
  BY <1>1, TypeInit, TypeStep, PTL DEF Spec

-----------------------------------------------------------------------------
(* Jobs, their turns and their streams.                                    *)

\* The jobs queued, and those in hand.
QueuedJobs == {ttsQueue[i] : i \in DOMAIN ttsQueue}
LiveJobs   == QueuedJobs \cup ttsOpen \cup ({twJob, activeTTSStream} \ {NoJob})

(* A job carries the turn its forwarder read; and a chat is published only *)
(* by a forwarder that has done everything else.                           *)
JobsTagged ==
    /\ \A j \in LiveJobs : fwdTurn[j.chat] = j.turn
    /\ activeLLMStream # 0 => fwd[activeLLMStream] = "exit"

JobInv == TypeInv /\ JobsTagged

\* In a well-typed state every live job is a job.
LEMMA LiveJobsAreJobs == TypeInv => LiveJobs \subseteq Jobs
  BY DEF TypeInv, TypeOK, SpeechTypes, LiveJobs, QueuedJobs

\* No step but GenChunk makes a job; GenChunk makes one, with its own tag.
LEMMA JobsComeFromChats ==
    ASSUME TypeInv, [Next]_vars
    PROVE  \A j \in LiveJobs' :
               \/ j \in LiveJobs
               \/ \E c \in Turns : GenChunk(c) /\ j = Job(c)
<1> SUFFICES ASSUME NEW j \in LiveJobs', j \notin LiveJobs
             PROVE  \E c \in Turns : GenChunk(c) /\ j = Job(c)
  OBVIOUS
<1> USE DEF TypeInv, TypeOK, SpeechTypes, LiveJobs, QueuedJobs
<1>1. ASSUME NEW c \in Turns, GenChunk(c)
      PROVE  j = Job(c)
  BY <1>1 DEF GenChunk
<1>2. CASE DrainOne \/ TtsTake
  BY <1>2 DEF DrainOne, TtsTake
<1>3. CASE TtsSynth \/ TtsPublish \/ TtsClear
  BY <1>3 DEF TtsSynth, TtsPublish, TtsClear, JobOver
<1>4. CASE TtsReceiveAudio \/ TtsReceiveError \/ TtsFail \/ TtsAudio \/ TtsStop
  BY <1>4 DEF TtsReceiveAudio, TtsReceiveError, TtsFail, TtsAudio, TtsStop, JobOver
<1>5. CASE TakeActiveStreams \/ ReadFails \/ TtsEnd
  BY <1>5 DEF TakeActiveStreams, ReadFails, TtsEnd
<1>6. CASE UNCHANGED <<ttsQueue, twJob, ttsOpen, activeTTSStream>>
  BY <1>6
<1> HIDE DEF TypeInv, TypeOK, SpeechTypes, LiveJobs, QueuedJobs
<1> QED
  BY <1>1, <1>2, <1>3, <1>4, <1>5, <1>6
     DEF Next, ReadPump, TtsWorker, WritePump, Forwarder, Generator,
         BeginNewTurn, DrainDone, StartStream, TtsText, TtsFormat, WriteOne,
         WriteFails, WriteClose, Disconnect, Terminated, FwdBegin, FwdReceive,
         FwdTell, FwdReceiveFinal, FwdFinal, FwdEnd, ChatStart, ChatPublish,
         GenReceiveChunk, GenDone, GenError, GenEnd, GenReceiveLast

\* A forwarder reads its turn once: the turn it has read never changes.
LEMMA TurnReadOnce ==
    ASSUME TypeInv, [Next]_vars, NEW d \in Turns, fwdTurn[d] # 0
    PROVE  fwdTurn'[d] = fwdTurn[d]
<1>1. ASSUME NEW c \in Turns, FwdBegin(c)
      PROVE  fwdTurn'[d] = fwdTurn[d]
  BY <1>1 DEF FwdBegin, TypeInv, TypeOK, TurnTypes, ForwarderOK
<1>2. CASE UNCHANGED fwdTurn
  BY <1>2
<1> QED
  BY <1>1, <1>2
     DEF Next, ReadPump, TtsWorker, WritePump, Forwarder, Generator,
         BeginNewTurn, TakeActiveStreams, DrainOne, DrainDone, StartStream,
         ReadFails, TtsTake, TtsSynth, TtsPublish, TtsReceiveAudio,
         TtsReceiveError, TtsFail, TtsText, TtsFormat, TtsAudio, TtsEnd,
         TtsClear, TtsStop, WriteOne, WriteFails, WriteClose, Disconnect,
         Terminated, FwdReceive, FwdTell, FwdReceiveFinal, FwdFinal, FwdEnd,
         ChatStart, ChatPublish, GenReceiveChunk, GenChunk, GenDone,
         GenError, GenEnd, GenReceiveLast

\* Initially there is no job and no chat.
LEMMA JobInit == Init => JobInv
<1> SUFFICES ASSUME Init PROVE JobsTagged
  BY TypeInit DEF JobInv
<1> QED
  BY DEF Init, JobsTagged, LiveJobs, QueuedJobs

\* A job keeps the turn its forwarder read, and a published chat's forwarder is
\* over.
LEMMA JobStep == JobInv /\ [Next]_vars => JobInv'
<1> SUFFICES ASSUME JobInv, [Next]_vars PROVE JobsTagged'
  BY TypeStep DEF JobInv
<1>1. ASSUME NEW j \in LiveJobs'
      PROVE  fwdTurn'[j.chat] = j.turn
  <2>1. CASE j \in LiveJobs
    <3>1. j \in Jobs /\ fwdTurn[j.chat] = j.turn
      BY <2>1, LiveJobsAreJobs DEF JobInv, JobsTagged
    <3>2. j.chat \in Turns /\ j.turn # 0
      BY <3>1 DEF Jobs, Turns
    <3> QED
      BY <3>1, <3>2, TurnReadOnce DEF JobInv
  <2>2. ASSUME NEW c \in Turns, GenChunk(c), j = Job(c)
        PROVE  fwdTurn'[j.chat] = j.turn
    BY <2>2 DEF GenChunk, Job
  <2> QED
    BY <2>1, <2>2, JobsComeFromChats DEF JobInv
<1>2. activeLLMStream' # 0 => fwd'[activeLLMStream'] = "exit"
  <2> USE DEF JobInv, JobsTagged, TypeInv, TypeOK, TurnTypes
  <2>1. ASSUME NEW c \in Turns, ChatPublish(c)
        PROVE  activeLLMStream' # 0 => fwd'[activeLLMStream'] = "exit"
    BY <2>1 DEF ChatPublish
  <2>2. CASE activeLLMStream' \in {0, activeLLMStream} /\ UNCHANGED fwd
    BY <2>2
  <2>3. CASE StartStream
    <3> SUFFICES ASSUME activeLLMStream # 0
                 PROVE  fwd'[activeLLMStream] = "exit"
      BY <2>3 DEF StartStream
    <3>1. activeLLMStream \in Turns /\ fwd[activeLLMStream] = "exit"
      BY BoundsAssumption DEF Turns
    <3>2. activeLLMStream < currentTurn
      BY <2>3, <3>1 DEF StartStream, ForwarderOK, Beginning
    <3>3. activeLLMStream # currentTurn
      BY <3>1, <3>2 DEF Turns
    <3> QED
      BY <2>3, <3>1, <3>3 DEF StartStream
  <2>4. ASSUME NEW c \in Turns,
               \/ FwdBegin(c) \/ FwdReceive(c) \/ FwdTell(c) \/ FwdFinal(c)
               \/ FwdReceiveFinal(c) \/ FwdEnd(c) \/ ChatStart(c)
        PROVE  activeLLMStream' # 0 => fwd'[activeLLMStream'] = "exit"
    <3> SUFFICES ASSUME activeLLMStream # 0
                 PROVE  fwd'[activeLLMStream] = "exit"
      BY <2>4 DEF FwdBegin, FwdReceive, FwdTell, FwdFinal, FwdReceiveFinal,
                  FwdEnd, ChatStart, llmVars
    <3>1. activeLLMStream \in Turns /\ fwd[activeLLMStream] = "exit"
      BY BoundsAssumption DEF Turns
    <3>2. fwd[c] # "exit" /\ \A d \in Turns \ {c} : fwd'[d] = fwd[d]
      BY <2>4 DEF FwdBegin, FwdReceive, FwdTell, FwdFinal, FwdReceiveFinal,
                  FwdEnd, ChatStart
    <3> QED
      BY <3>1, <3>2
  <2> HIDE DEF JobInv
  <2> QED
    BY <2>1, <2>2, <2>3, <2>4
       DEF Next, ReadPump, TtsWorker, WritePump, Forwarder, Generator,
           BeginNewTurn, TakeActiveStreams, DrainOne, DrainDone, ReadFails,
           TtsTake, TtsSynth, TtsPublish, TtsReceiveAudio, TtsReceiveError,
           TtsFail, TtsText, TtsFormat, TtsAudio, TtsEnd, TtsClear, TtsStop,
           WriteOne, WriteFails, WriteClose, Disconnect, Terminated,
           GenReceiveChunk, GenChunk, GenDone, GenError, GenEnd,
           GenReceiveLast
<1> QED
  BY <1>1, <1>2 DEF JobsTagged

\* When no forwarder was late, every live job is older than the turn being begun.
LEMMA LiveJobsAreOld ==
    ASSUME JobInv, OnTime, rp \in Beginning, NEW j \in LiveJobs
    PROVE  j.turn < currentTurn
<1>1. j \in Jobs /\ fwdTurn[j.chat] = j.turn
  BY LiveJobsAreJobs DEF JobInv, JobsTagged
<1>2. j.chat \in Turns /\ j.turn \in Turns
  BY <1>1 DEF Jobs
<1>3. j.turn # 0
  BY <1>2 DEF Turns
<1>4. j.turn = j.chat
  BY <1>1, <1>2, <1>3 DEF OnTime
<1>5. fwd[j.chat] # "none"
  BY <1>1, <1>2, <1>3 DEF JobInv, TypeInv, ForwarderOK
<1> QED
  BY <1>2, <1>4, <1>5 DEF JobInv, TypeInv, ForwarderOK

\* A barge-in takes and drains nothing of the turn it begins, as long as every
\* forwarder read its own turn (interruptCurrentTurn, session.go:304-333).
THEOREM BargeInSparesNewTurnCorrect == Spec => []BargeInSparesNewTurn
<1>1. JobInv => BargeInSparesNewTurn
  <2> SUFFICES ASSUME JobInv, OnTime, rp \in Beginning
               PROVE  /\ activeLLMStream # currentTurn
                      /\ activeTTSStream # NoJob => activeTTSStream.turn # currentTurn
                      /\ \A i \in DOMAIN ttsQueue : ttsQueue[i].turn # currentTurn
    BY DEF BargeInSparesNewTurn, Beginning
  <2>0. currentTurn \in Nat
    BY DEF JobInv, TypeInv, TypeOK, SessionTypes
  <2>1. activeLLMStream # currentTurn
    <3> SUFFICES ASSUME activeLLMStream = currentTurn PROVE FALSE
      OBVIOUS
    <3>1. currentTurn # 0 /\ fwd[currentTurn] = "exit"
      BY DEF JobInv, TypeInv, JobsTagged
    <3>2. currentTurn \in Turns
      BY <3>1, BoundsAssumption DEF JobInv, TypeInv, TypeOK, SessionTypes, Turns
    <3> QED
      BY <2>0, <3>1, <3>2 DEF JobInv, TypeInv, ForwarderOK
  <2>2. \A j \in LiveJobs : j \in Jobs /\ j.turn < currentTurn
    BY LiveJobsAreOld, LiveJobsAreJobs DEF JobInv
  <2>3. \A j \in LiveJobs : j.turn # currentTurn
    BY <2>0, <2>2 DEF Jobs, Turns
  <2> QED
    BY <2>1, <2>3 DEF LiveJobs, QueuedJobs
<1> QED
  BY <1>1, JobInit, JobStep, PTL DEF Spec

-----------------------------------------------------------------------------
(* Streams of interrupted turns.                                           *)

\* Where the worker may hold a running TTS call.
Holding == {"publish", "ranging", "text", "format", "audio"}

\* A running call of the current turn is the worker's own.
CurrentIsHeld ==
    \A j \in ttsOpen : Stale(j.turn) \/ (twJob = j /\ tw \in Holding)

\* A call that has delivered its last event is not running any more, and no
\* call outlives the session.
EndedIsClosed ==
    /\ tw \in {"clear", "failed"} => twJob \notin ttsOpen
    /\ rp = "gone" => ttsOpen = {}

\* Every running call can be reached by the next barge-in, or is about to be
\* checked by the worker.
OpenIsReachable ==
    OnTime => \A j \in ttsOpen :
                  (tw = "publish" /\ twJob = j) \/ activeTTSStream = j

StreamInv ==
    /\ JobInv
    /\ ActiveTtsIsCurrent
    /\ CurrentIsHeld
    /\ EndedIsClosed
    /\ OpenIsReachable

\* Initially no stream runs and none is published.
LEMMA StreamInit == Init => StreamInv
  BY JobInit DEF Init, StreamInv, ActiveTtsIsCurrent, CurrentIsHeld,
                 EndedIsClosed, OpenIsReachable

\* The re-check under mu: what is published is of the current turn.
LEMMA ActiveTtsStep ==
    ASSUME JobInv, ActiveTtsIsCurrent, [Next]_vars
    PROVE  ActiveTtsIsCurrent'
<1> USE DEF ActiveTtsIsCurrent
<1>1. CASE BeginNewTurn
  BY <1>1 DEF BeginNewTurn
<1>2. CASE TakeActiveStreams
  BY <1>2 DEF TakeActiveStreams
<1>3. CASE DrainDone \/ StartStream \/ ReadFails
  BY <1>3 DEF DrainDone, StartStream, ReadFails
<1>4. CASE TtsPublish
  BY <1>4 DEF TtsPublish, Stale
<1>5. CASE TtsClear
  BY <1>5 DEF TtsClear
<1>6. CASE UNCHANGED <<currentTurn, rp, activeTTSStream>>
  BY <1>6
<1> HIDE DEF ActiveTtsIsCurrent
<1> QED
  BY <1>1, <1>2, <1>3, <1>4, <1>5, <1>6
     DEF Next, ReadPump, TtsWorker, WritePump, Forwarder, Generator,
         DrainOne, TtsTake, TtsSynth, TtsReceiveAudio, TtsReceiveError,
         TtsFail, TtsText, TtsFormat, TtsAudio, TtsEnd, TtsStop, WriteOne,
         WriteFails, WriteClose, Disconnect, Terminated, FwdBegin,
         FwdReceive, FwdTell, FwdReceiveFinal, FwdFinal, FwdEnd, ChatStart,
         ChatPublish, GenReceiveChunk, GenChunk, GenDone, GenError, GenEnd,
         GenReceiveLast

\* Only the worker opens calls, and it leaves one of the current turn only after
\* closing it.
LEMMA HeldStep ==
    ASSUME JobInv, CurrentIsHeld, EndedIsClosed, [Next]_vars
    PROVE  CurrentIsHeld'
<1> USE DEF CurrentIsHeld, Stale, Holding
<1>1. CASE BeginNewTurn
  <2>1. \A j \in ttsOpen : j \in Jobs /\ fwdTurn[j.chat] = j.turn
    BY LiveJobsAreJobs DEF JobInv, JobsTagged, LiveJobs
  <2>2. \A j \in ttsOpen : j.chat \in Turns /\ j.turn <= currentTurn
    BY <2>1 DEF JobInv, TypeInv, ForwarderOK, Jobs
  <2>3. \A j \in ttsOpen : currentTurn + 1 # j.turn
    BY <2>1, <2>2 DEF JobInv, TypeInv, TypeOK, SessionTypes, Jobs, Turns
  <2> QED
    BY <1>1, <2>3 DEF BeginNewTurn
<1>2. CASE TakeActiveStreams \/ ReadFails
  BY <1>2 DEF TakeActiveStreams, ReadFails
<1>3. CASE TtsTake \/ TtsStop
  BY <1>3, NoJobAssumption DEF TtsTake, TtsStop, JobOver
<1>4. CASE TtsSynth
  BY <1>4 DEF TtsSynth, JobOver
<1>5. CASE TtsPublish
  BY <1>5 DEF TtsPublish, JobOver
<1>6. CASE TtsReceiveAudio \/ TtsText \/ TtsFormat
  BY <1>6 DEF TtsReceiveAudio, TtsText, TtsFormat, JobOver
<1>7. CASE TtsReceiveError \/ TtsEnd
  BY <1>7 DEF TtsReceiveError, TtsEnd, JobOver
<1>8. CASE TtsFail \/ TtsClear
  BY <1>8 DEF TtsFail, TtsClear, JobOver
<1>9. CASE TtsAudio
  BY <1>9 DEF TtsAudio, JobOver, ctxDone, EndedIsClosed
<1>10. CASE UNCHANGED <<currentTurn, tw, twJob, ttsOpen>>
  BY <1>10
<1> HIDE DEF CurrentIsHeld
<1> QED
  BY <1>1, <1>2, <1>3, <1>4, <1>5, <1>6, <1>7, <1>8, <1>9, <1>10
     DEF Next, ReadPump, TtsWorker, WritePump, Forwarder, Generator,
         DrainOne, DrainDone, StartStream, WriteOne, WriteFails, WriteClose,
         Disconnect, Terminated, FwdBegin, FwdReceive, FwdTell,
         FwdReceiveFinal, FwdFinal, FwdEnd, ChatStart, ChatPublish,
         GenReceiveChunk, GenChunk, GenDone, GenError, GenEnd,
         GenReceiveLast

\* A call whose last event was read is closed, and so are all when the session
\* is.
LEMMA EndedStep ==
    ASSUME TypeInv, EndedIsClosed, [Next]_vars
    PROVE  EndedIsClosed'
<1> USE DEF EndedIsClosed
<1>1. CASE BeginNewTurn \/ DrainDone \/ StartStream
  BY <1>1 DEF BeginNewTurn, DrainDone, StartStream
<1>2. CASE TakeActiveStreams \/ ReadFails
  BY <1>2 DEF TakeActiveStreams, ReadFails
<1>3. CASE TtsTake \/ TtsStop
  BY <1>3 DEF TtsTake, TtsStop, JobOver
<1>4. CASE TtsSynth \/ TtsPublish
  BY <1>4 DEF TtsSynth, TtsPublish, JobOver, ctxDone
<1>5. CASE TtsReceiveAudio \/ TtsText \/ TtsFormat \/ TtsAudio
  BY <1>5 DEF TtsReceiveAudio, TtsText, TtsFormat, TtsAudio, JobOver
<1>6. CASE TtsReceiveError \/ TtsEnd
  BY <1>6 DEF TtsReceiveError, TtsEnd, JobOver
<1>7. CASE TtsFail \/ TtsClear
  BY <1>7 DEF TtsFail, TtsClear, JobOver
<1>8. CASE UNCHANGED <<rp, tw, twJob, ttsOpen>>
  BY <1>8
<1> HIDE DEF EndedIsClosed
<1> QED
  BY <1>1, <1>2, <1>3, <1>4, <1>5, <1>6, <1>7, <1>8
     DEF Next, ReadPump, TtsWorker, WritePump, Forwarder, Generator,
         DrainOne, WriteOne, WriteFails, WriteClose, Disconnect, Terminated,
         FwdBegin, FwdReceive, FwdTell, FwdReceiveFinal, FwdFinal, FwdEnd,
         ChatStart, ChatPublish, GenReceiveChunk, GenChunk, GenDone,
         GenError, GenEnd, GenReceiveLast

\* A forwarder once late stays late.
LEMMA OnTimeBefore ==
    ASSUME TypeInv, [Next]_vars, OnTime'
    PROVE  OnTime
  BY TurnReadOnce DEF OnTime

\* The stream that TtsPublish replaces is not running: it would have to be of
\* the current turn, and the running call of the current turn is the worker's;
\* while a barge-in is about to take the old one, the worker has no job of the
\* new turn to publish.
LEMMA ReachableStep ==
    ASSUME StreamInv, [Next]_vars
    PROVE  OpenIsReachable'
<1> SUFFICES ASSUME OnTime'
             PROVE  \A j \in ttsOpen' :
                        (tw' = "publish" /\ twJob' = j) \/ activeTTSStream' = j
  BY DEF OpenIsReachable
<1>0. \A j \in ttsOpen : (tw = "publish" /\ twJob = j) \/ activeTTSStream = j
  BY OnTimeBefore DEF StreamInv, JobInv, OpenIsReachable
<1>1. CASE TakeActiveStreams \/ ReadFails
  BY <1>0, <1>1 DEF TakeActiveStreams, ReadFails
<1>2. CASE TtsPublish
  <2>1. CASE Stale(twJob.turn)
    BY <1>0, <1>2, <2>1 DEF TtsPublish, JobOver
  <2>2. CASE ~Stale(twJob.turn)
    <3> SUFFICES ASSUME NEW j \in ttsOpen, j # twJob PROVE FALSE
      BY <1>2, <2>2 DEF TtsPublish
    <3>1. activeTTSStream = j /\ j \in Jobs
      BY <1>0, LiveJobsAreJobs DEF StreamInv, JobInv, LiveJobs
    <3>2. j.turn # currentTurn
      BY DEF StreamInv, CurrentIsHeld, Stale
    <3>3. rp = "bumped"
      BY <3>1, <3>2, NoJobAssumption DEF StreamInv, ActiveTtsIsCurrent
    <3>4. twJob \in LiveJobs
      BY <1>2 DEF TtsPublish, LiveJobs, StreamInv, JobInv, TypeInv, TypeOK, SpeechTypes
    <3>5. twJob.turn < currentTurn
      BY <3>3, <3>4, OnTimeBefore, LiveJobsAreOld DEF StreamInv, JobInv, Beginning
    <3>6. twJob.turn = currentTurn /\ currentTurn \in Nat
      BY <2>2 DEF Stale, StreamInv, JobInv, TypeInv, TypeOK, SessionTypes
    <3> QED
      BY <3>5, <3>6
  <2> QED
    BY <2>1, <2>2
<1>3. CASE TtsTake \/ TtsStop
  BY <1>0, <1>3 DEF TtsTake, TtsStop, JobOver
<1>4. CASE TtsSynth
  BY <1>0, <1>4 DEF TtsSynth, JobOver
<1>5. CASE TtsReceiveAudio \/ TtsText \/ TtsFormat \/ TtsAudio
  BY <1>0, <1>5 DEF TtsReceiveAudio, TtsText, TtsFormat, TtsAudio, JobOver
<1>6. CASE TtsReceiveError \/ TtsEnd
  BY <1>0, <1>6 DEF TtsReceiveError, TtsEnd, JobOver
<1>7. CASE TtsFail \/ TtsClear
  BY <1>0, <1>7 DEF TtsFail, TtsClear, JobOver, StreamInv, EndedIsClosed
<1>8. CASE UNCHANGED <<tw, twJob, ttsOpen, activeTTSStream>>
  BY <1>0, <1>8
<1> QED
  BY <1>1, <1>2, <1>3, <1>4, <1>5, <1>6, <1>7, <1>8
     DEF Next, ReadPump, TtsWorker, WritePump, Forwarder, Generator,
         BeginNewTurn, DrainOne, DrainDone, StartStream, WriteOne,
         WriteFails, WriteClose, Disconnect, Terminated, FwdBegin,
         FwdReceive, FwdTell, FwdReceiveFinal, FwdFinal, FwdEnd, ChatStart,
         ChatPublish, GenReceiveChunk, GenChunk, GenDone, GenError, GenEnd,
         GenReceiveLast

\* StreamInv is inductive.
LEMMA StreamStep == StreamInv /\ [Next]_vars => StreamInv'
  BY JobStep, ActiveTtsStep, HeldStep, EndedStep, ReachableStep
     DEF StreamInv, JobInv

\* The published TTS stream is of the current turn, or the barge-in that made
\* it stale is about to take it (synthesizeAndSend, session.go:472-478).
THEOREM ActiveTtsIsCurrentCorrect == Spec => []ActiveTtsIsCurrent
<1>1. StreamInv => ActiveTtsIsCurrent
  BY DEF StreamInv
<1> QED
  BY <1>1, StreamInit, StreamStep, PTL DEF Spec

\* After a barge-in no synthesis of an old turn keeps running, but the one the
\* worker is about to close (session.go:304-321, 472-478, 484-486).
THEOREM NoOrphanTtsCorrect == Spec => []NoOrphanTts
<1>1. StreamInv => NoOrphanTts
  <2> SUFFICES ASSUME StreamInv, OnTime, rp # "bumped", NEW j \in ttsOpen
               PROVE  j.turn = currentTurn \/ (tw = "publish" /\ twJob = j)
    BY DEF NoOrphanTts
  <2>1. j \in Jobs
    BY LiveJobsAreJobs DEF StreamInv, JobInv, LiveJobs
  <2> QED
    BY <2>1, NoJobAssumption DEF StreamInv, OpenIsReachable, ActiveTtsIsCurrent
<1> QED
  BY <1>1, StreamInit, StreamStep, PTL DEF Spec

-----------------------------------------------------------------------------
(* Audio and text of interrupted turns.                                    *)

\* One stale frame may have gone out since the last "start"; then the worker
\* holds no other.
AudioInv ==
    /\ TypeInv
    /\ staleAudio # 0 =>
           /\ staleAudio = 1
           /\ tw \in {"text", "format", "audio"} => ~Stale(twJob.turn)

\* AudioInv is inductive: after the one stale frame the worker checks the turn
\* again before it takes the next.
LEMMA AudioStep == AudioInv /\ [Next]_vars => AudioInv'
<1> SUFFICES ASSUME AudioInv, [Next]_vars
             PROVE  staleAudio' # 0 =>
                        /\ staleAudio' = 1
                        /\ tw' \in {"text", "format", "audio"} => ~Stale(twJob.turn)'
  BY TypeStep DEF AudioInv
<1> USE DEF AudioInv, Stale
<1>1. CASE BeginNewTurn
  BY <1>1 DEF BeginNewTurn
<1>2. CASE TtsAudio
  BY <1>2 DEF TtsAudio, JobOver
<1>3. CASE TtsReceiveAudio \/ TtsText \/ TtsFormat
  BY <1>3 DEF TtsReceiveAudio, TtsText, TtsFormat, JobOver
<1>4. CASE TtsTake \/ TtsSynth \/ TtsPublish \/ TtsStop
  BY <1>4 DEF TtsTake, TtsSynth, TtsPublish, TtsStop, JobOver
<1>5. CASE TtsReceiveError \/ TtsFail \/ TtsEnd \/ TtsClear
  BY <1>5 DEF TtsReceiveError, TtsFail, TtsEnd, TtsClear, JobOver
<1>6. CASE UNCHANGED <<currentTurn, tw, twJob, staleAudio>>
  BY <1>6
<1> HIDE DEF AudioInv
<1> QED
  BY <1>1, <1>2, <1>3, <1>4, <1>5, <1>6
     DEF Next, ReadPump, TtsWorker, WritePump, Forwarder, Generator,
         TakeActiveStreams, DrainOne, DrainDone, StartStream, ReadFails,
         WriteOne, WriteFails, WriteClose, Disconnect, Terminated, FwdBegin,
         FwdReceive, FwdTell, FwdReceiveFinal, FwdFinal, FwdEnd, ChatStart,
         ChatPublish, GenReceiveChunk, GenChunk, GenDone, GenError, GenEnd,
         GenReceiveLast

\* After a "start", at most one audio frame of an older turn still enters the
\* send buffer (synthesizeAndSend, session.go:484-486, 513-517).
THEOREM StaleAudioBoundedCorrect == Spec => []StaleAudioBounded
<1>1. Init => AudioInv
  BY TypeInit DEF Init, AudioInv
<1>2. AudioInv => StaleAudioBounded
  BY DEF AudioInv, StaleAudioBounded
<1> QED
  BY <1>1, <1>2, AudioStep, PTL DEF Spec

\* Between barge-ins a chat that can still queue a stale job has queued none.
StaleJobInv ==
    /\ TypeInv
    /\ rp \notin {"bumped", "draining"} =>
           \A c \in Turns :
               /\ \A i, k \in StaleJobs(c) : i = k
               /\ gen[c] = "chunk" /\ Stale(fwdTurn[c]) => StaleJobs(c) = {}

\* StaleJobInv is inductive: an interrupted chat that queues its stale job has
\* to check the turn before the next, and then stops.
LEMMA StaleJobStep == StaleJobInv /\ [Next]_vars => StaleJobInv'
<1> SUFFICES ASSUME StaleJobInv, [Next]_vars, rp' \notin {"bumped", "draining"},
                    NEW c \in Turns
             PROVE  /\ \A i, k \in StaleJobs(c)' : i = k
                    /\ gen'[c] = "chunk" /\ Stale(fwdTurn[c])' => StaleJobs(c)' = {}
  BY TypeStep DEF StaleJobInv
<1> USE DEF StaleJobInv, TypeInv, TypeOK, SessionTypes, TurnTypes, SpeechTypes,
            StaleJobs, Stale
<1>1. CASE BeginNewTurn \/ TakeActiveStreams \/ DrainOne
  BY <1>1 DEF BeginNewTurn, TakeActiveStreams, DrainOne
<1>2. CASE DrainDone
  BY <1>2 DEF DrainDone
<1>3. CASE TtsTake
  <2>1. \A i \in DOMAIN ttsQueue' : i \in Nat /\ i + 1 \in DOMAIN ttsQueue
                                   /\ ttsQueue'[i] = ttsQueue[i + 1]
    BY <1>3 DEF TtsTake
  <2>2. \A i \in StaleJobs(c)' : i \in Nat /\ i + 1 \in StaleJobs(c)
    BY <1>3, <2>1 DEF TtsTake
  <2>3. gen' = gen /\ fwdTurn' = fwdTurn /\ currentTurn' = currentTurn /\ rp' = rp
    BY <1>3 DEF TtsTake
  <2> HIDE DEF StaleJobs
  <2> QED
    BY SMTT(30), <2>2, <2>3
<1>4. ASSUME NEW d \in Turns, GenChunk(d)
      PROVE  /\ \A i, k \in StaleJobs(c)' : i = k
             /\ gen'[c] = "chunk" /\ Stale(fwdTurn[c])' => StaleJobs(c)' = {}
  <2>1. \/ ttsQueue' = ttsQueue
        \/ /\ DOMAIN ttsQueue' = DOMAIN ttsQueue \cup {Len(ttsQueue) + 1}
           /\ \A i \in DOMAIN ttsQueue : ttsQueue'[i] = ttsQueue[i]
           /\ ttsQueue'[Len(ttsQueue) + 1] = Job(d)
    BY <1>4 DEF GenChunk
  <2>2. Job(d).chat = d /\ Job(d).turn = fwdTurn[d]
    BY DEF Job
  <2>3. /\ StaleJobs(c)' \subseteq StaleJobs(c) \cup {Len(ttsQueue) + 1}
        /\ ~(d = c /\ Stale(fwdTurn[d])) => StaleJobs(c)' \subseteq StaleJobs(c)
    BY SMTT(30), <1>4, <2>1, <2>2 DEF GenChunk
  <2>4. gen[d] = "chunk" /\ gen'[d] = "ranging" /\ (c # d => gen'[c] = gen[c])
    BY <1>4 DEF GenChunk
  <2>5. fwdTurn' = fwdTurn /\ currentTurn' = currentTurn /\ rp' = rp
    BY <1>4 DEF GenChunk
  <2> HIDE DEF StaleJobs
  <2> QED
    BY <2>3, <2>4, <2>5
<1>5. ASSUME NEW d \in Turns, GenReceiveChunk(d)
      PROVE  /\ \A i, k \in StaleJobs(c)' : i = k
             /\ gen'[c] = "chunk" /\ Stale(fwdTurn[c])' => StaleJobs(c)' = {}
  BY <1>5 DEF GenReceiveChunk
<1>6. ASSUME NEW d \in Turns,
             \/ GenDone(d) \/ GenError(d) \/ GenEnd(d) \/ ChatPublish(d)
             \/ \E e \in {"done", "error"} : GenReceiveLast(d, e)
      PROVE  /\ \A i, k \in StaleJobs(c)' : i = k
             /\ gen'[c] = "chunk" /\ Stale(fwdTurn[c])' => StaleJobs(c)' = {}
  <2>1. CASE GenDone(d)
    BY SMTT(30), <2>1 DEF GenDone
  <2>2. CASE GenError(d)
    BY SMTT(30), <2>2 DEF GenError
  <2>3. CASE GenEnd(d)
    BY SMTT(30), <2>3 DEF GenEnd
  <2>4. CASE ChatPublish(d)
    BY SMTT(30), <2>4 DEF ChatPublish
  <2>5. CASE \E e \in {"done", "error"} : GenReceiveLast(d, e)
    BY SMTT(30), <2>5 DEF GenReceiveLast
  <2> QED
    BY <1>6, <2>1, <2>2, <2>3, <2>4, <2>5
<1>7. ASSUME NEW d \in Turns, FwdBegin(d)
      PROVE  /\ \A i, k \in StaleJobs(c)' : i = k
             /\ gen'[c] = "chunk" /\ Stale(fwdTurn[c])' => StaleJobs(c)' = {}
  BY <1>7 DEF FwdBegin, ForwarderOK
<1>8. CASE StartStream \/ ReadFails
  BY <1>8 DEF StartStream, ReadFails
<1>9. CASE UNCHANGED <<currentTurn, rp, gen, fwdTurn, ttsQueue>>
  BY <1>9
<1> HIDE DEF StaleJobInv, StaleJobs, Stale
<1> QED
  BY <1>1, <1>2, <1>3, <1>4, <1>5, <1>6, <1>7, <1>8, <1>9
     DEF Next, ReadPump, TtsWorker, WritePump, Forwarder, Generator,
         TtsSynth, TtsPublish, TtsReceiveAudio, TtsReceiveError, TtsFail,
         TtsText, TtsFormat, TtsAudio, TtsEnd, TtsClear, TtsStop, WriteOne,
         WriteFails, WriteClose, Disconnect, Terminated, FwdReceive,
         FwdTell, FwdReceiveFinal, FwdFinal, FwdEnd, ChatStart

\* Once the queue was drained, an interrupted chat slips in at most one job
\* (forwardLLMEvents, session.go:408-423).
THEOREM StaleJobsBoundedCorrect == Spec => []StaleJobsBounded
<1>1. Init => StaleJobInv
  BY TypeInit DEF Init, StaleJobInv, StaleJobs
<1>2. StaleJobInv => StaleJobsBounded
  BY DEF StaleJobInv, StaleJobsBounded
<1> QED
  BY <1>1, <1>2, StaleJobStep, PTL DEF Spec

=============================================================================
