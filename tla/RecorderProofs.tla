--------------------------- MODULE RecorderProofs ---------------------------
(***************************************************************************)
(* Theorems about Recorder for any number of waiting requests and any lag  *)
(* of the encoder.  The inductive invariant has one part for each of the   *)
(* things that the threads share: the audio mutex, what is created, the    *)
(* output of the save in progress, and the log silence.                    *)
(***************************************************************************)
EXTENDS Recorder, TLAPS

\* Where a thread is says whether it holds the audio mutex.
LockInv ==
    /\ mutex = "main" <=> threadRunning /\ pc["main"] \in SaveStages \ {"lock"}
    /\ mutex = "audio" <=> pc["audio"] \in {"add", "unlock"}
    /\ pc["main"] \in {"lock", "params", "start", "audio", "unlock"} => threadRunning

InLoop ==
    \/ pc["main"] \in {"while", "step", "frame", "send", "poll", "silence", "silencing"}
    \/ pc["main"] \in {"unsilence", "unsilencing"} /\ resume = "send"

\* What exists while main and the audio thread are where they are.
LifeInv ==
    /\ InLoop \/ pc["main"] \in SaveStages => AllCreated
    /\ pc["audio"] \notin {"none", "done"} =>
         created >= 6 /\ pc["main"] \notin {"free", "exited"}

\* What the save has done to its output and its file.
OutputInv ==
    /\ pc["main"] \notin SaveStages \ {"lock", "create", "unlock"} => output = "none"
    /\ CommandOnlyWhenComplete

\* The encoder takes the frame that main has begun to read for it.
LagInv ==
    \/ pc["main"] \in {"frame", "send"}
    \/ pc["main"] \in {"unsilence", "unsilencing"} /\ resume = "send"
    => lag < MaxLag

Ones(b) == IF b THEN 1 ELSE 0

\* The counter and the level change together, by one, under the silence mutex.
SilenceInv ==
    /\ \A t \in Threads :
         /\ silenceMutex = t <=> pc[t] \in {"silencing", "unsilencing"}
         /\ pc[t] \in {"silence", "silencing"} => ~ silent[t]
         /\ pc[t] \in {"unsilence", "unsilencing"} => silent[t]
         /\ pc[t] = "silencing" => seen[t] = silenceCounter + 1
         /\ pc[t] = "unsilencing" => seen[t] = silenceCounter - 1
    /\ silenceCounter = Ones(silent["main"]) + Ones(silent["audio"])
    /\ logLevel = "fatal" <=> silenceCounter > 0

\* The inductive invariant.
IInv == TypeOK /\ LagInv /\ LockInv /\ LifeInv /\ OutputInv /\ SilenceInv

-----------------------------------------------------------------------------
\* The seven resources; the audio thread is the sixth.
LEMMA ResourcesFacts ==
    /\ Len(Resources) = 7
    /\ \A i \in 1..7 : Resources[i] = "audio" <=> i = 6
  BY DEF Resources

\* The invariant holds when main is entered.
LEMMA InitInv ==
    Init => IInv
  <1> SUFFICES ASSUME Init PROVE IInv
    OBVIOUS
  <1> USE BoundsAssumption, ResourcesFacts
      DEF Init, Threads, NoThread, MainLabels, AudioLabels, SaveStages
  <1>1. TypeOK
    <2>1. pc = [t \in Threads |-> IF t = "main" THEN "init" ELSE "none"]
      OBVIOUS
    <2>2. pc \in [Threads -> MainLabels \cup AudioLabels]
      BY <2>1
    <2>3. silent \in [Threads -> BOOLEAN] /\ seen \in [Threads -> 0..2]
      OBVIOUS
    <2>4. pc["main"] = "init" /\ pc["audio"] = "none"
      BY <2>1
    <2>5. lag \in 0..MaxLag /\ pending \in 0..MaxPending /\ created \in 0..Len(Resources)
      OBVIOUS
    <2> QED
      BY <2>2, <2>3, <2>4, <2>5 DEF TypeOK
  <1>2. LagInv /\ LockInv
    BY DEF LagInv, LockInv
  <1>3. LifeInv /\ OutputInv
    BY DEF LifeInv, InLoop, OutputInv, CommandOnlyWhenComplete
  <1>4. SilenceInv
    BY DEF SilenceInv, Ones
  <1> QED
    BY <1>1, <1>2, <1>3, <1>4 DEF IInv

\* Every step keeps the types.  That the counter and the lag stay in their
\* ranges needs the parts of the invariant about them.
LEMMA TypeStep ==
    ASSUME TypeOK, SilenceInv, LagInv, [Next]_vars
    PROVE  TypeOK'
  <1> USE BoundsAssumption, ResourcesFacts DEF TypeOK, SilenceInv, LagInv, Ones, Threads, NoThread, MainLabels, AudioLabels, SaveStages, Goto
  <1>1. CASE StartUp
    <2>1. CASE Create
      <3>1. CASE Creating = "audio"
        BY <2>1, <3>1 DEF Create, Starting, Creating, saveVars, logVars
      <3>2. CASE Creating # "audio"
        BY <2>1, <3>2 DEF Create, Starting, saveVars, logVars
      <3> QED
        BY <3>1, <3>2
    <2>2. CASE CreateAudioFailed
      BY <2>2 DEF CreateAudioFailed, Starting, Creating, saveVars, logVars
    <2>3. CASE CreateFailed
      BY <2>3 DEF CreateFailed, Starting, Creating, saveVars, logVars
    <2>4. CASE Started
      BY <2>4 DEF Started, AllCreated, saveVars, logVars
    <2> QED
      BY <1>1, <2>1, <2>2, <2>3, <2>4 DEF StartUp
  <1>2. CASE Loop
    <2>1. CASE While
      BY <2>1 DEF While, unusedByLoop, saveVars, logVars
    <2>2. CASE StepNeedsFrame
      BY <2>2 DEF StepNeedsFrame, unusedByLoop, saveVars, logVars
    <2>3. CASE StepHasPacket
      BY <2>3 DEF StepHasPacket, unusedByLoop, saveVars, logVars
    <2>4. CASE FrameRead
      BY <2>4 DEF FrameRead, unusedByLoop, saveVars, logVars
    <2>5. CASE FrameFailed
      BY <2>5 DEF FrameFailed, AfterFailedFrame, unusedByLoop, saveVars, logVars
    <2>6. CASE FrameSent
      BY <2>6 DEF FrameSent, unusedByLoop, saveVars, logVars
    <2>7. CASE LoopFailed
      BY <2>7 DEF LoopFailed, unusedByLoop, saveVars, logVars
    <2>8. CASE NotWanted
      BY <2>8 DEF NotWanted, unusedByLoop, saveVars, logVars
    <2>9. CASE Wanted
      BY <2>9 DEF Wanted, unusedByLoop, saveVars, logVars
    <2> QED
      BY <1>2, <2>1, <2>2, <2>3, <2>4, <2>5, <2>6, <2>7, <2>8, <2>9 DEF Loop
  <1>3. CASE SaveLock
    BY <1>3 DEF SaveLock, unusedBySave, saveVars, logVars
  <1>4. CASE Save
    <2>1. CASE SaveCreate
      BY <2>1 DEF SaveCreate, StageAfter, unusedBySave, saveVars, logVars
    <2>2. CASE SaveWork
      BY <2>2 DEF SaveWork, StageAfter, unusedBySave, saveVars, logVars
    <2>3. CASE SaveClose
      BY <2>3 DEF SaveClose, StageAfter, unusedBySave, saveVars, logVars
    <2>4. CASE SaveCommand
      BY <2>4 DEF SaveCommand, StageAfter, unusedBySave, saveVars, logVars
    <2>5. CASE SaveFailed
      BY <2>5 DEF SaveFailed, AfterFailure, FailedTo, unusedBySave, saveVars, logVars
    <2>6. CASE SaveDestroy
      BY <2>6 DEF SaveDestroy, unusedBySave, saveVars, logVars
    <2>7. CASE SaveUnlock
      BY <2>7 DEF SaveUnlock, unusedBySave, saveVars, logVars
    <2> QED
      BY <1>4, <2>1, <2>2, <2>3, <2>4, <2>5, <2>6, <2>7 DEF Save
  <1>5. CASE Exit
    <2>1. CASE ExitUnsilence
      BY <2>1 DEF ExitUnsilence, unusedByLoop, saveVars, logVars
    <2>2. CASE ExitStop
      <3> HIDE ResourcesFacts, BoundsAssumption DEF SilenceInv, LagInv, Ones
      <3>1. /\ pc' = [pc EXCEPT !["main"] = "join"] /\ threadRunning' \in BOOLEAN
            /\ UNCHANGED <<created, running, mutex, lag, pending, output, file, resume,
                           silent, silenceMutex, silenceCounter, logLevel, seen>>
        BY <2>2 DEF ExitStop, ThreadToldToStop, saveVars, logVars
      <3>2. /\ pc' \in [Threads -> MainLabels \cup AudioLabels]
            /\ pc'["main"] \in MainLabels /\ pc'["audio"] \in AudioLabels
        BY <3>1
      <3> QED
        BY <3>1, <3>2
    <2>3. CASE ExitJoin
      BY <2>3 DEF ExitJoin, Joined, unusedByLoop, saveVars, logVars
    <2>4. CASE ExitFree
      BY <2>4 DEF ExitFree, saveVars, logVars
    <2> QED
      BY <1>5, <2>1, <2>2, <2>3, <2>4 DEF Exit
  <1>6. CASE Audio
    <2>1. CASE AudioWhile
      BY <2>1 DEF AudioWhile, unusedByAudio, saveVars, logVars
    <2>2. CASE AudioFrame
      BY <2>2 DEF AudioFrame, unusedByAudio, saveVars, logVars
    <2>3. CASE AudioFrameFailed
      BY <2>3 DEF AudioFrameFailed, unusedByAudio, saveVars, logVars
    <2>4. CASE AudioAdd
      BY <2>4 DEF AudioAdd, unusedByAudio, saveVars, logVars
    <2>5. CASE AudioUnlock
      BY <2>5 DEF AudioUnlock, unusedByAudio, saveVars, logVars
    <2> QED
      BY <1>6, <2>1, <2>2, <2>3, <2>4, <2>5 DEF Audio
  <1>7. CASE AudioLock
    BY <1>7 DEF AudioLock, MutexFree, unusedByAudio, saveVars, logVars
  <1>8. ASSUME NEW t \in Threads, Silence(t)
         PROVE  TypeOK'
    <2>1. CASE SilenceLock(t)
      BY <2>1 DEF SilenceLock, SilenceMutexFree, saveVars
    <2>2. CASE SilenceSet(t)
      BY <2>2 DEF SilenceSet, SilencedLevel, AfterSilence, saveVars
    <2> QED
      BY <1>8, <2>1, <2>2 DEF Silence
  <1>9. CASE Signal
    <2>1. UNCHANGED <<pc, created, threadRunning, mutex, lag, pending, output, file,
                      resume, silent, silenceMutex, silenceCounter, logLevel, seen>>
      BY <1>9 DEF Signal, saveVars, logVars
    <2>2. running' \in BOOLEAN
      BY <1>9 DEF Signal
    <2> QED
      BY <2>1, <2>2
  <1>10. CASE Request
    BY <1>10 DEF Request, saveVars, logVars
  <1>11. CASE Exited \/ UNCHANGED vars
    BY <1>11 DEF Exited, vars, saveVars, logVars
  <1> QED
    BY <1>1, <1>2, <1>3, <1>4, <1>5, <1>6, <1>7, <1>8, <1>9, <1>10, <1>11 DEF Next

\* Every step keeps room for the frame that is being read or sent.
LEMMA LagStep ==
    ASSUME TypeOK, LagInv, [Next]_vars
    PROVE  LagInv'
  <1> USE BoundsAssumption DEF TypeOK, LagInv, Threads, NoThread, MainLabels, AudioLabels, SaveStages, Goto
  <1>1. CASE StartUp
    <2>1. CASE Create
      <3>1. CASE Creating = "audio"
        BY <2>1, <3>1 DEF Create, Starting, Creating, saveVars, logVars
      <3>2. CASE Creating # "audio"
        BY <2>1, <3>2 DEF Create, Starting, saveVars, logVars
      <3> QED
        BY <3>1, <3>2
    <2>2. CASE CreateAudioFailed
      BY <2>2 DEF CreateAudioFailed, Starting, Creating, saveVars, logVars
    <2>3. CASE CreateFailed
      BY <2>3 DEF CreateFailed, Starting, Creating, saveVars, logVars
    <2>4. CASE Started
      BY <2>4 DEF Started, AllCreated, saveVars, logVars
    <2> QED
      BY <1>1, <2>1, <2>2, <2>3, <2>4 DEF StartUp
  <1>2. CASE Loop
    <2>1. CASE While
      BY <2>1 DEF While, unusedByLoop, saveVars, logVars
    <2>2. CASE StepNeedsFrame
      BY <2>2 DEF StepNeedsFrame, unusedByLoop, saveVars, logVars
    <2>3. CASE StepHasPacket
      BY <2>3 DEF StepHasPacket, unusedByLoop, saveVars, logVars
    <2>4. CASE FrameRead
      BY <2>4 DEF FrameRead, unusedByLoop, saveVars, logVars
    <2>5. CASE FrameFailed
      BY <2>5 DEF FrameFailed, AfterFailedFrame, unusedByLoop, saveVars, logVars
    <2>6. CASE FrameSent
      BY <2>6 DEF FrameSent, unusedByLoop, saveVars, logVars
    <2>7. CASE LoopFailed
      BY <2>7 DEF LoopFailed, unusedByLoop, saveVars, logVars
    <2>8. CASE NotWanted
      BY <2>8 DEF NotWanted, unusedByLoop, saveVars, logVars
    <2>9. CASE Wanted
      BY <2>9 DEF Wanted, unusedByLoop, saveVars, logVars
    <2> QED
      BY <1>2, <2>1, <2>2, <2>3, <2>4, <2>5, <2>6, <2>7, <2>8, <2>9 DEF Loop
  <1>3. CASE SaveLock
    BY <1>3 DEF SaveLock, unusedBySave, saveVars, logVars
  <1>4. CASE Save
    <2>1. CASE SaveCreate
      BY <2>1 DEF SaveCreate, StageAfter, unusedBySave, saveVars, logVars
    <2>2. CASE SaveWork
      BY <2>2 DEF SaveWork, StageAfter, unusedBySave, saveVars, logVars
    <2>3. CASE SaveClose
      BY <2>3 DEF SaveClose, StageAfter, unusedBySave, saveVars, logVars
    <2>4. CASE SaveCommand
      BY <2>4 DEF SaveCommand, StageAfter, unusedBySave, saveVars, logVars
    <2>5. CASE SaveFailed
      BY <2>5 DEF SaveFailed, AfterFailure, FailedTo, unusedBySave, saveVars, logVars
    <2>6. CASE SaveDestroy
      BY <2>6 DEF SaveDestroy, unusedBySave, saveVars, logVars
    <2>7. CASE SaveUnlock
      BY <2>7 DEF SaveUnlock, unusedBySave, saveVars, logVars
    <2> QED
      BY <1>4, <2>1, <2>2, <2>3, <2>4, <2>5, <2>6, <2>7 DEF Save
  <1>5. CASE Exit
    <2>1. CASE ExitUnsilence
      BY <2>1 DEF ExitUnsilence, unusedByLoop, saveVars, logVars
    <2>2. CASE ExitStop
      BY <2>2 DEF ExitStop, ThreadToldToStop, saveVars, logVars
    <2>3. CASE ExitJoin
      BY <2>3 DEF ExitJoin, Joined, unusedByLoop, saveVars, logVars
    <2>4. CASE ExitFree
      BY <2>4 DEF ExitFree, saveVars, logVars
    <2> QED
      BY <1>5, <2>1, <2>2, <2>3, <2>4 DEF Exit
  <1>6. CASE Audio
    <2>1. CASE AudioWhile
      BY <2>1 DEF AudioWhile, unusedByAudio, saveVars, logVars
    <2>2. CASE AudioFrame
      BY <2>2 DEF AudioFrame, unusedByAudio, saveVars, logVars
    <2>3. CASE AudioFrameFailed
      BY <2>3 DEF AudioFrameFailed, unusedByAudio, saveVars, logVars
    <2>4. CASE AudioAdd
      BY <2>4 DEF AudioAdd, unusedByAudio, saveVars, logVars
    <2>5. CASE AudioUnlock
      BY <2>5 DEF AudioUnlock, unusedByAudio, saveVars, logVars
    <2> QED
      BY <1>6, <2>1, <2>2, <2>3, <2>4, <2>5 DEF Audio
  <1>7. CASE AudioLock
    BY <1>7 DEF AudioLock, MutexFree, unusedByAudio, saveVars, logVars
  <1>8. ASSUME NEW t \in Threads, Silence(t)
         PROVE  LagInv'
    <2>1. CASE SilenceLock(t)
      BY <2>1 DEF SilenceLock, SilenceMutexFree, saveVars
    <2>2. CASE SilenceSet(t)
      BY <2>2 DEF SilenceSet, SilencedLevel, AfterSilence, saveVars
    <2> QED
      BY <1>8, <2>1, <2>2 DEF Silence
  <1>9. CASE Signal
    BY <1>9 DEF Signal, saveVars, logVars
  <1>10. CASE Request
    BY <1>10 DEF Request, saveVars, logVars
  <1>11. CASE Exited \/ UNCHANGED vars
    BY <1>11 DEF Exited, vars, saveVars, logVars
  <1> QED
    BY <1>1, <1>2, <1>3, <1>4, <1>5, <1>6, <1>7, <1>8, <1>9, <1>10, <1>11 DEF Next

\* Every step keeps the correspondence between the mutex and the two threads.
LEMMA LockStep ==
    ASSUME TypeOK, LifeInv, LockInv, [Next]_vars
    PROVE  LockInv'
  <1> USE ResourcesFacts DEF TypeOK, LifeInv, LockInv, Threads, NoThread, MainLabels, AudioLabels, SaveStages, Goto
  <1>1. CASE StartUp
    <2>1. CASE Create
      <3>1. CASE Creating = "audio"
        BY <2>1, <3>1 DEF Create, Starting, Creating, saveVars, logVars
      <3>2. CASE Creating # "audio"
        BY <2>1, <3>2 DEF Create, Starting, saveVars, logVars
      <3> QED
        BY <3>1, <3>2
    <2>2. CASE CreateAudioFailed
      BY <2>2 DEF CreateAudioFailed, Starting, Creating, saveVars, logVars
    <2>3. CASE CreateFailed
      BY <2>3 DEF CreateFailed, Starting, Creating, saveVars, logVars
    <2>4. CASE Started
      BY <2>4 DEF Started, AllCreated, saveVars, logVars
    <2> QED
      BY <1>1, <2>1, <2>2, <2>3, <2>4 DEF StartUp
  <1>2. CASE Loop
    <2>1. CASE While
      BY <2>1 DEF While, unusedByLoop, saveVars, logVars
    <2>2. CASE StepNeedsFrame
      BY <2>2 DEF StepNeedsFrame, unusedByLoop, saveVars, logVars
    <2>3. CASE StepHasPacket
      BY <2>3 DEF StepHasPacket, unusedByLoop, saveVars, logVars
    <2>4. CASE FrameRead
      BY <2>4 DEF FrameRead, unusedByLoop, saveVars, logVars
    <2>5. CASE FrameFailed
      BY <2>5 DEF FrameFailed, AfterFailedFrame, unusedByLoop, saveVars, logVars
    <2>6. CASE FrameSent
      BY <2>6 DEF FrameSent, unusedByLoop, saveVars, logVars
    <2>7. CASE LoopFailed
      BY <2>7 DEF LoopFailed, unusedByLoop, saveVars, logVars
    <2>8. CASE NotWanted
      BY <2>8 DEF NotWanted, unusedByLoop, saveVars, logVars
    <2>9. CASE Wanted
      BY <2>9 DEF Wanted, unusedByLoop, saveVars, logVars
    <2> QED
      BY <1>2, <2>1, <2>2, <2>3, <2>4, <2>5, <2>6, <2>7, <2>8, <2>9 DEF Loop
  <1>3. CASE SaveLock
    BY <1>3 DEF SaveLock, unusedBySave, saveVars, logVars
  <1>4. CASE Save
    <2>1. CASE SaveCreate
      BY <2>1 DEF SaveCreate, StageAfter, unusedBySave, saveVars, logVars
    <2>2. CASE SaveWork
      BY <2>2 DEF SaveWork, StageAfter, unusedBySave, saveVars, logVars
    <2>3. CASE SaveClose
      BY <2>3 DEF SaveClose, StageAfter, unusedBySave, saveVars, logVars
    <2>4. CASE SaveCommand
      BY <2>4 DEF SaveCommand, StageAfter, unusedBySave, saveVars, logVars
    <2>5. CASE SaveFailed
      BY <2>5 DEF SaveFailed, AfterFailure, FailedTo, unusedBySave, saveVars, logVars
    <2>6. CASE SaveDestroy
      BY <2>6 DEF SaveDestroy, unusedBySave, saveVars, logVars
    <2>7. CASE SaveUnlock
      BY <2>7 DEF SaveUnlock, unusedBySave, saveVars, logVars
    <2> QED
      BY <1>4, <2>1, <2>2, <2>3, <2>4, <2>5, <2>6, <2>7 DEF Save
  <1>5. CASE Exit
    <2>1. CASE ExitUnsilence
      BY <2>1 DEF ExitUnsilence, unusedByLoop, saveVars, logVars
    <2>2. CASE ExitStop
      BY <2>2 DEF ExitStop, ThreadToldToStop, saveVars, logVars
    <2>3. CASE ExitJoin
      BY <2>3 DEF ExitJoin, Joined, unusedByLoop, saveVars, logVars
    <2>4. CASE ExitFree
      BY <2>4 DEF ExitFree, saveVars, logVars
    <2> QED
      BY <1>5, <2>1, <2>2, <2>3, <2>4 DEF Exit
  <1>6. CASE Audio
    <2>1. CASE AudioWhile
      BY <2>1 DEF AudioWhile, unusedByAudio, saveVars, logVars
    <2>2. CASE AudioFrame
      BY <2>2 DEF AudioFrame, unusedByAudio, saveVars, logVars
    <2>3. CASE AudioFrameFailed
      BY <2>3 DEF AudioFrameFailed, unusedByAudio, saveVars, logVars
    <2>4. CASE AudioAdd
      BY <2>4 DEF AudioAdd, unusedByAudio, saveVars, logVars
    <2>5. CASE AudioUnlock
      BY <2>5 DEF AudioUnlock, unusedByAudio, saveVars, logVars
    <2> QED
      BY <1>6, <2>1, <2>2, <2>3, <2>4, <2>5 DEF Audio
  <1>7. CASE AudioLock
    BY <1>7 DEF AudioLock, MutexFree, unusedByAudio, saveVars, logVars
  <1>8. ASSUME NEW t \in Threads, Silence(t)
         PROVE  LockInv'
    <2>1. CASE SilenceLock(t)
      BY <2>1 DEF SilenceLock, SilenceMutexFree, saveVars
    <2>2. CASE SilenceSet(t)
      BY <2>2 DEF SilenceSet, SilencedLevel, AfterSilence, saveVars
    <2> QED
      BY <1>8, <2>1, <2>2 DEF Silence
  <1>9. CASE Signal
    BY <1>9 DEF Signal, saveVars, logVars
  <1>10. CASE Request
    BY <1>10 DEF Request, saveVars, logVars
  <1>11. CASE Exited \/ UNCHANGED vars
    BY <1>11 DEF Exited, vars, saveVars, logVars
  <1> QED
    BY <1>1, <1>2, <1>3, <1>4, <1>5, <1>6, <1>7, <1>8, <1>9, <1>10, <1>11 DEF Next

\* Every step keeps what the threads use alive: only the join lets main free it.
LEMMA LifeStep ==
    ASSUME TypeOK, LifeInv, [Next]_vars
    PROVE  LifeInv'
  <1> USE ResourcesFacts DEF TypeOK, LifeInv, InLoop, AllCreated, Threads, NoThread, MainLabels, AudioLabels, SaveStages, Goto
  <1>1. CASE StartUp
    <2>1. CASE Create
      <3>1. CASE Creating = "audio"
        BY <2>1, <3>1 DEF Create, Starting, Creating, saveVars, logVars
      <3>2. CASE Creating # "audio"
        BY <2>1, <3>2 DEF Create, Starting, saveVars, logVars
      <3> QED
        BY <3>1, <3>2
    <2>2. CASE CreateAudioFailed
      BY <2>2 DEF CreateAudioFailed, Starting, Creating, saveVars, logVars
    <2>3. CASE CreateFailed
      BY <2>3 DEF CreateFailed, Starting, Creating, saveVars, logVars
    <2>4. CASE Started
      BY <2>4 DEF Started, AllCreated, saveVars, logVars
    <2> QED
      BY <1>1, <2>1, <2>2, <2>3, <2>4 DEF StartUp
  <1>2. CASE Loop
    <2>1. CASE While
      BY <2>1 DEF While, unusedByLoop, saveVars, logVars
    <2>2. CASE StepNeedsFrame
      BY <2>2 DEF StepNeedsFrame, unusedByLoop, saveVars, logVars
    <2>3. CASE StepHasPacket
      BY <2>3 DEF StepHasPacket, unusedByLoop, saveVars, logVars
    <2>4. CASE FrameRead
      BY <2>4 DEF FrameRead, unusedByLoop, saveVars, logVars
    <2>5. CASE FrameFailed
      BY <2>5 DEF FrameFailed, AfterFailedFrame, unusedByLoop, saveVars, logVars
    <2>6. CASE FrameSent
      BY <2>6 DEF FrameSent, unusedByLoop, saveVars, logVars
    <2>7. CASE LoopFailed
      BY <2>7 DEF LoopFailed, unusedByLoop, saveVars, logVars
    <2>8. CASE NotWanted
      BY <2>8 DEF NotWanted, unusedByLoop, saveVars, logVars
    <2>9. CASE Wanted
      BY <2>9 DEF Wanted, unusedByLoop, saveVars, logVars
    <2> QED
      BY <1>2, <2>1, <2>2, <2>3, <2>4, <2>5, <2>6, <2>7, <2>8, <2>9 DEF Loop
  <1>3. CASE SaveLock
    BY <1>3 DEF SaveLock, unusedBySave, saveVars, logVars
  <1>4. CASE Save
    <2>1. CASE SaveCreate
      BY <2>1 DEF SaveCreate, StageAfter, unusedBySave, saveVars, logVars
    <2>2. CASE SaveWork
      BY <2>2 DEF SaveWork, StageAfter, unusedBySave, saveVars, logVars
    <2>3. CASE SaveClose
      BY <2>3 DEF SaveClose, StageAfter, unusedBySave, saveVars, logVars
    <2>4. CASE SaveCommand
      BY <2>4 DEF SaveCommand, StageAfter, unusedBySave, saveVars, logVars
    <2>5. CASE SaveFailed
      BY <2>5 DEF SaveFailed, AfterFailure, FailedTo, unusedBySave, saveVars, logVars
    <2>6. CASE SaveDestroy
      BY <2>6 DEF SaveDestroy, unusedBySave, saveVars, logVars
    <2>7. CASE SaveUnlock
      BY <2>7 DEF SaveUnlock, unusedBySave, saveVars, logVars
    <2> QED
      BY <1>4, <2>1, <2>2, <2>3, <2>4, <2>5, <2>6, <2>7 DEF Save
  <1>5. CASE Exit
    <2>1. CASE ExitUnsilence
      BY <2>1 DEF ExitUnsilence, unusedByLoop, saveVars, logVars
    <2>2. CASE ExitStop
      BY <2>2 DEF ExitStop, ThreadToldToStop, saveVars, logVars
    <2>3. CASE ExitJoin
      BY <2>3 DEF ExitJoin, Joined, unusedByLoop, saveVars, logVars
    <2>4. CASE ExitFree
      BY <2>4 DEF ExitFree, saveVars, logVars
    <2> QED
      BY <1>5, <2>1, <2>2, <2>3, <2>4 DEF Exit
  <1>6. CASE Audio
    <2>1. CASE AudioWhile
      BY <2>1 DEF AudioWhile, unusedByAudio, saveVars, logVars
    <2>2. CASE AudioFrame
      BY <2>2 DEF AudioFrame, unusedByAudio, saveVars, logVars
    <2>3. CASE AudioFrameFailed
      BY <2>3 DEF AudioFrameFailed, unusedByAudio, saveVars, logVars
    <2>4. CASE AudioAdd
      BY <2>4 DEF AudioAdd, unusedByAudio, saveVars, logVars
    <2>5. CASE AudioUnlock
      BY <2>5 DEF AudioUnlock, unusedByAudio, saveVars, logVars
    <2> QED
      BY <1>6, <2>1, <2>2, <2>3, <2>4, <2>5 DEF Audio
  <1>7. CASE AudioLock
    BY <1>7 DEF AudioLock, MutexFree, unusedByAudio, saveVars, logVars
  <1>8. ASSUME NEW t \in Threads, Silence(t)
         PROVE  LifeInv'
    <2>1. CASE SilenceLock(t)
      BY <2>1 DEF SilenceLock, SilenceMutexFree, saveVars
    <2>2. CASE SilenceSet(t)
      BY <2>2 DEF SilenceSet, SilencedLevel, AfterSilence, saveVars
    <2> QED
      BY <1>8, <2>1, <2>2 DEF Silence
  <1>9. CASE Signal
    BY <1>9 DEF Signal, saveVars, logVars
  <1>10. CASE Request
    BY <1>10 DEF Request, saveVars, logVars
  <1>11. CASE Exited \/ UNCHANGED vars
    BY <1>11 DEF Exited, vars, saveVars, logVars
  <1> QED
    BY <1>1, <1>2, <1>3, <1>4, <1>5, <1>6, <1>7, <1>8, <1>9, <1>10, <1>11 DEF Next

\* Every step keeps the output's state in line with the stage of the save.
LEMMA OutputStep ==
    ASSUME TypeOK, OutputInv, [Next]_vars
    PROVE  OutputInv'
  <1> USE DEF TypeOK, OutputInv, CommandOnlyWhenComplete, Threads, NoThread, MainLabels, AudioLabels, SaveStages, Goto
  <1>1. CASE StartUp
    <2>1. CASE Create
      <3>1. CASE Creating = "audio"
        BY <2>1, <3>1 DEF Create, Starting, Creating, saveVars, logVars
      <3>2. CASE Creating # "audio"
        BY <2>1, <3>2 DEF Create, Starting, saveVars, logVars
      <3> QED
        BY <3>1, <3>2
    <2>2. CASE CreateAudioFailed
      BY <2>2 DEF CreateAudioFailed, Starting, Creating, saveVars, logVars
    <2>3. CASE CreateFailed
      BY <2>3 DEF CreateFailed, Starting, Creating, saveVars, logVars
    <2>4. CASE Started
      BY <2>4 DEF Started, AllCreated, saveVars, logVars
    <2> QED
      BY <1>1, <2>1, <2>2, <2>3, <2>4 DEF StartUp
  <1>2. CASE Loop
    <2>1. CASE While
      BY <2>1 DEF While, unusedByLoop, saveVars, logVars
    <2>2. CASE StepNeedsFrame
      BY <2>2 DEF StepNeedsFrame, unusedByLoop, saveVars, logVars
    <2>3. CASE StepHasPacket
      BY <2>3 DEF StepHasPacket, unusedByLoop, saveVars, logVars
    <2>4. CASE FrameRead
      BY <2>4 DEF FrameRead, unusedByLoop, saveVars, logVars
    <2>5. CASE FrameFailed
      BY <2>5 DEF FrameFailed, AfterFailedFrame, unusedByLoop, saveVars, logVars
    <2>6. CASE FrameSent
      BY <2>6 DEF FrameSent, unusedByLoop, saveVars, logVars
    <2>7. CASE LoopFailed
      BY <2>7 DEF LoopFailed, unusedByLoop, saveVars, logVars
    <2>8. CASE NotWanted
      BY <2>8 DEF NotWanted, unusedByLoop, saveVars, logVars
    <2>9. CASE Wanted
      BY <2>9 DEF Wanted, unusedByLoop, saveVars, logVars
    <2> QED
      BY <1>2, <2>1, <2>2, <2>3, <2>4, <2>5, <2>6, <2>7, <2>8, <2>9 DEF Loop
  <1>3. CASE SaveLock
    BY <1>3 DEF SaveLock, unusedBySave, saveVars, logVars
  <1>4. CASE Save
    <2>1. CASE SaveCreate
      BY <2>1 DEF SaveCreate, StageAfter, unusedBySave, saveVars, logVars
    <2>2. CASE SaveWork
      BY <2>2 DEF SaveWork, StageAfter, unusedBySave, saveVars, logVars
    <2>3. CASE SaveClose
      BY <2>3 DEF SaveClose, StageAfter, unusedBySave, saveVars, logVars
    <2>4. CASE SaveCommand
      BY <2>4 DEF SaveCommand, StageAfter, unusedBySave, saveVars, logVars
    <2>5. CASE SaveFailed
      BY <2>5 DEF SaveFailed, AfterFailure, FailedTo, unusedBySave, saveVars, logVars
    <2>6. CASE SaveDestroy
      BY <2>6 DEF SaveDestroy, unusedBySave, saveVars, logVars
    <2>7. CASE SaveUnlock
      BY <2>7 DEF SaveUnlock, unusedBySave, saveVars, logVars
    <2> QED
      BY <1>4, <2>1, <2>2, <2>3, <2>4, <2>5, <2>6, <2>7 DEF Save
  <1>5. CASE Exit
    <2>1. CASE ExitUnsilence
      BY <2>1 DEF ExitUnsilence, unusedByLoop, saveVars, logVars
    <2>2. CASE ExitStop
      BY <2>2 DEF ExitStop, ThreadToldToStop, saveVars, logVars
    <2>3. CASE ExitJoin
      BY <2>3 DEF ExitJoin, Joined, unusedByLoop, saveVars, logVars
    <2>4. CASE ExitFree
      BY <2>4 DEF ExitFree, saveVars, logVars
    <2> QED
      BY <1>5, <2>1, <2>2, <2>3, <2>4 DEF Exit
  <1>6. CASE Audio
    <2>1. CASE AudioWhile
      BY <2>1 DEF AudioWhile, unusedByAudio, saveVars, logVars
    <2>2. CASE AudioFrame
      BY <2>2 DEF AudioFrame, unusedByAudio, saveVars, logVars
    <2>3. CASE AudioFrameFailed
      BY <2>3 DEF AudioFrameFailed, unusedByAudio, saveVars, logVars
    <2>4. CASE AudioAdd
      BY <2>4 DEF AudioAdd, unusedByAudio, saveVars, logVars
    <2>5. CASE AudioUnlock
      BY <2>5 DEF AudioUnlock, unusedByAudio, saveVars, logVars
    <2> QED
      BY <1>6, <2>1, <2>2, <2>3, <2>4, <2>5 DEF Audio
  <1>7. CASE AudioLock
    BY <1>7 DEF AudioLock, MutexFree, unusedByAudio, saveVars, logVars
  <1>8. ASSUME NEW t \in Threads, Silence(t)
         PROVE  OutputInv'
    <2>1. CASE SilenceLock(t)
      BY <2>1 DEF SilenceLock, SilenceMutexFree, saveVars
    <2>2. CASE SilenceSet(t)
      BY <2>2 DEF SilenceSet, SilencedLevel, AfterSilence, saveVars
    <2> QED
      BY <1>8, <2>1, <2>2 DEF Silence
  <1>9. CASE Signal
    BY <1>9 DEF Signal, saveVars, logVars
  <1>10. CASE Request
    BY <1>10 DEF Request, saveVars, logVars
  <1>11. CASE Exited \/ UNCHANGED vars
    BY <1>11 DEF Exited, vars, saveVars, logVars
  <1> QED
    BY <1>1, <1>2, <1>3, <1>4, <1>5, <1>6, <1>7, <1>8, <1>9, <1>10, <1>11 DEF Next

\* Every step keeps the silence counter equal to the number of silent threads.
LEMMA SilenceStep ==
    ASSUME TypeOK, LifeInv, SilenceInv, [Next]_vars
    PROVE  SilenceInv'
  <1> USE ResourcesFacts DEF TypeOK, LifeInv, SilenceInv, Ones, Threads, NoThread, MainLabels, AudioLabels, SaveStages, Goto
  <1>1. CASE StartUp
    <2>1. CASE Create
      <3>1. CASE Creating = "audio"
        BY <2>1, <3>1 DEF Create, Starting, Creating, saveVars, logVars
      <3>2. CASE Creating # "audio"
        BY <2>1, <3>2 DEF Create, Starting, saveVars, logVars
      <3> QED
        BY <3>1, <3>2
    <2>2. CASE CreateAudioFailed
      BY <2>2 DEF CreateAudioFailed, Starting, Creating, saveVars, logVars
    <2>3. CASE CreateFailed
      BY <2>3 DEF CreateFailed, Starting, Creating, saveVars, logVars
    <2>4. CASE Started
      BY <2>4 DEF Started, AllCreated, saveVars, logVars
    <2> QED
      BY <1>1, <2>1, <2>2, <2>3, <2>4 DEF StartUp
  <1>2. CASE Loop
    <2>1. CASE While
      BY <2>1 DEF While, unusedByLoop, saveVars, logVars
    <2>2. CASE StepNeedsFrame
      BY <2>2 DEF StepNeedsFrame, unusedByLoop, saveVars, logVars
    <2>3. CASE StepHasPacket
      BY <2>3 DEF StepHasPacket, unusedByLoop, saveVars, logVars
    <2>4. CASE FrameRead
      BY <2>4 DEF FrameRead, unusedByLoop, saveVars, logVars
    <2>5. CASE FrameFailed
      BY <2>5 DEF FrameFailed, AfterFailedFrame, unusedByLoop, saveVars, logVars
    <2>6. CASE FrameSent
      BY <2>6 DEF FrameSent, unusedByLoop, saveVars, logVars
    <2>7. CASE LoopFailed
      BY <2>7 DEF LoopFailed, unusedByLoop, saveVars, logVars
    <2>8. CASE NotWanted
      BY <2>8 DEF NotWanted, unusedByLoop, saveVars, logVars
    <2>9. CASE Wanted
      BY <2>9 DEF Wanted, unusedByLoop, saveVars, logVars
    <2> QED
      BY <1>2, <2>1, <2>2, <2>3, <2>4, <2>5, <2>6, <2>7, <2>8, <2>9 DEF Loop
  <1>3. CASE SaveLock
    BY <1>3 DEF SaveLock, unusedBySave, saveVars, logVars
  <1>4. CASE Save
    <2>1. CASE SaveCreate
      BY <2>1 DEF SaveCreate, StageAfter, unusedBySave, saveVars, logVars
    <2>2. CASE SaveWork
      BY <2>2 DEF SaveWork, StageAfter, unusedBySave, saveVars, logVars
    <2>3. CASE SaveClose
      BY <2>3 DEF SaveClose, StageAfter, unusedBySave, saveVars, logVars
    <2>4. CASE SaveCommand
      BY <2>4 DEF SaveCommand, StageAfter, unusedBySave, saveVars, logVars
    <2>5. CASE SaveFailed
      BY <2>5 DEF SaveFailed, AfterFailure, FailedTo, unusedBySave, saveVars, logVars
    <2>6. CASE SaveDestroy
      BY <2>6 DEF SaveDestroy, unusedBySave, saveVars, logVars
    <2>7. CASE SaveUnlock
      BY <2>7 DEF SaveUnlock, unusedBySave, saveVars, logVars
    <2> QED
      BY <1>4, <2>1, <2>2, <2>3, <2>4, <2>5, <2>6, <2>7 DEF Save
  <1>5. CASE Exit
    <2>1. CASE ExitUnsilence
      BY <2>1 DEF ExitUnsilence, unusedByLoop, saveVars, logVars
    <2>2. CASE ExitStop
      BY <2>2 DEF ExitStop, ThreadToldToStop, saveVars, logVars
    <2>3. CASE ExitJoin
      BY <2>3 DEF ExitJoin, Joined, unusedByLoop, saveVars, logVars
    <2>4. CASE ExitFree
      BY <2>4 DEF ExitFree, saveVars, logVars
    <2> QED
      BY <1>5, <2>1, <2>2, <2>3, <2>4 DEF Exit
  <1>6. CASE Audio
    <2>1. CASE AudioWhile
      BY <2>1 DEF AudioWhile, unusedByAudio, saveVars, logVars
    <2>2. CASE AudioFrame
      BY <2>2 DEF AudioFrame, unusedByAudio, saveVars, logVars
    <2>3. CASE AudioFrameFailed
      BY <2>3 DEF AudioFrameFailed, unusedByAudio, saveVars, logVars
    <2>4. CASE AudioAdd
      BY <2>4 DEF AudioAdd, unusedByAudio, saveVars, logVars
    <2>5. CASE AudioUnlock
      BY <2>5 DEF AudioUnlock, unusedByAudio, saveVars, logVars
    <2> QED
      BY <1>6, <2>1, <2>2, <2>3, <2>4, <2>5 DEF Audio
  <1>7. CASE AudioLock
    BY <1>7 DEF AudioLock, MutexFree, unusedByAudio, saveVars, logVars
  <1>8. ASSUME NEW t \in Threads, Silence(t)
         PROVE  SilenceInv'
    <2>1. CASE SilenceLock(t)
      BY <2>1 DEF SilenceLock, SilenceMutexFree, saveVars
    <2>2. CASE SilenceSet(t)
      <3>1. silenceCounter \in 0..2 /\ silent \in [Threads -> BOOLEAN]
        OBVIOUS
      <3>2. \A u \in Threads : pc'[u] = IF u = t THEN AfterSilence(t) ELSE pc[u]
        BY <2>2 DEF SilenceSet
      <3>3. CASE pc[t] = "silencing"
        <4>1. silenceCounter' = silenceCounter + 1
          BY <2>2, <3>1, <3>3 DEF SilenceSet
        <4>2. logLevel' = "fatal"
          BY <2>2, <3>1, <3>3 DEF SilenceSet, SilencedLevel
        <4>3. ~ silent[t] /\ silent'[t] /\ \A u \in Threads \ {t} : silent'[u] = silent[u]
          BY <2>2, <3>1, <3>3 DEF SilenceSet
        <4>4. pc'[t] \in {"poll", "while"} /\ silenceMutex' = NoThread /\ seen' = seen
          BY <2>2, <3>2, <3>3 DEF SilenceSet, AfterSilence
        <4> QED
          BY <3>1, <3>2, <4>1, <4>2, <4>3, <4>4, <2>2 DEF SilenceSet
      <3>4. CASE pc[t] = "unsilencing"
        <4>1. silenceCounter > 0 /\ silenceCounter' = silenceCounter - 1
          BY <2>2, <3>1, <3>4 DEF SilenceSet
        <4>2. logLevel' = IF silenceCounter = 1 THEN "config" ELSE "fatal"
          BY <2>2, <3>1, <3>4, <4>1 DEF SilenceSet, SilencedLevel
        <4>3. silent[t] /\ ~ silent'[t] /\ \A u \in Threads \ {t} : silent'[u] = silent[u]
          BY <2>2, <3>1, <3>4 DEF SilenceSet
        <4>4. pc'[t] \in {"send", "stop", "lock"} /\ silenceMutex' = NoThread /\ seen' = seen
          BY <2>2, <3>2, <3>4 DEF SilenceSet, AfterSilence
        <4> QED
          BY <3>1, <3>2, <4>1, <4>2, <4>3, <4>4, <2>2 DEF SilenceSet
      <3> QED
        BY <2>2, <3>3, <3>4 DEF SilenceSet
    <2> QED
      BY <1>8, <2>1, <2>2 DEF Silence
  <1>9. CASE Signal
    BY <1>9 DEF Signal, saveVars, logVars
  <1>10. CASE Request
    BY <1>10 DEF Request, saveVars, logVars
  <1>11. CASE Exited \/ UNCHANGED vars
    BY <1>11 DEF Exited, vars, saveVars, logVars
  <1> QED
    BY <1>1, <1>2, <1>3, <1>4, <1>5, <1>6, <1>7, <1>8, <1>9, <1>10, <1>11 DEF Next

-----------------------------------------------------------------------------
\* The invariant is inductive.
LEMMA NextInv ==
    IInv /\ [Next]_vars => IInv'
  BY TypeStep, LagStep, LockStep, LifeStep, OutputStep, SilenceStep DEF IInv

\* The invariant holds in every state of every behaviour.
THEOREM Invariance == Spec => []IInv
  BY InitInv, NextInv, PTL DEF Spec

\* Every variable keeps its type.
THEOREM TypeCorrect == Spec => []TypeOK
  BY Invariance, PTL DEF IInv

\* The audio thread never adds a frame while a save reads the audio buffer.
THEOREM MutualExclusion == Spec => []AudioBufferExclusive
  <1>1. IInv => AudioBufferExclusive
    BY DEF IInv, TypeOK, LockInv, AudioBufferExclusive, AudioReads, SaveStages, Threads
  <1> QED
    BY <1>1, Invariance, PTL

\* Nothing is freed while the audio thread, or a save, still uses it.
THEOREM ThreadOutlived == Spec => []NoUseAfterFree
  <1>1. IInv => NoUseAfterFree
    BY ResourcesFacts DEF IInv, TypeOK, LifeInv, NoUseAfterFree
  <1> QED
    BY <1>1, Invariance, PTL

\* A save leaves neither an open output nor a locked mutex behind, and runs the
\* command only for a complete file.
THEOREM SavesEndClean == Spec => []SaveCleansUp
  <1>1. IInv => SaveCleansUp
    BY DEF IInv, LockInv, OutputInv, SaveCleansUp
  <1> QED
    BY <1>1, Invariance, PTL

\* The silence counter counts the silent threads.
THEOREM SilenceCounted == Spec => []SilenceMatches
  <1>1. IInv => SilenceMatches
    BY DEF IInv, TypeOK, SilenceInv, SilenceMatches, Ones, Threads
  <1> QED
    BY <1>1, Invariance, PTL
=============================================================================
