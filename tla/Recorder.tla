------------------------------ MODULE Recorder ------------------------------
(***************************************************************************)
(* The recording process: the main thread of main.c (start-up, the loop of *)
(* mainStep, rsControlWantsSave and the two save routines, the cleanup),   *)
(* the audio thread of audio/audio.c, the audio mutex between them, and    *)
(* the log silence counter of log.c that both threads use.                 *)
(*                                                                         *)
(* The video buffer (module PacketList) and the audio ring (AudioRing) are *)
(* data the threads touch; here it matters who touches them when.          *)
(***************************************************************************)
EXTENDS Integers, Sequences

CONSTANTS
    MaxPending,  \* bound on save requests that are waiting
    MaxLag,      \* frames a video encoder may take before it returns a packet
    Coalesces    \* WantsSave takes all waiting requests (X11, debug), not one

ASSUME BoundsAssumption ==
    MaxPending \in Nat \ {0} /\ MaxLag \in Nat \ {0} /\ Coalesces \in BOOLEAN

VARIABLES
    pc,            \* where each thread is
    created,       \* how many of Resources exist
    running,       \* main's running, cleared by mainSignal
    threadRunning, \* audioThread.running
    mutex,         \* who holds audioThread.mutex
    lag,           \* frames sent to the video encoder since its last packet
    pending,       \* save requests waiting at the controller
    output,        \* RSOutput of the save in progress
    file,          \* the file of the last save
    silent,        \* the silence flag of each thread
    resume,        \* where main continues after mainUnsilence
    silenceMutex, silenceCounter, logLevel,  \* log.c
    seen           \* rsLogSilence's argument once it has added the counter

logVars == <<silent, silenceMutex, silenceCounter, logLevel, seen>>
saveVars == <<output, file>>
vars == <<pc, created, running, threadRunning, mutex, lag, pending, output,
          file, silent, resume, silenceMutex, silenceCounter, logLevel, seen>>

Threads == {"main", "audio"}
NoThread == "nobody"

\* main creates these in this order; the audio thread may be missing.
Resources == <<"log", "config", "device", "encoder", "frames", "audio", "control">>

SaveStages == {"lock", "create", "params", "open", "start", "audio", "video",
               "close", "command", "destroy", "unlock"}

Goto(t, label) == pc' = [pc EXCEPT ![t] = label]

Init ==
    /\ pc = [t \in Threads |-> IF t = "main" THEN "init" ELSE "none"]
    /\ created = 0
    /\ running = TRUE
    /\ threadRunning = FALSE
    /\ mutex = NoThread
    /\ lag = 0
    /\ pending = 0
    /\ output = "none" /\ file = "none"
    /\ silent = [t \in Threads |-> FALSE]
    /\ resume = "send"
    /\ silenceMutex = NoThread /\ silenceCounter = 0 /\ logLevel = "config"
    /\ seen = [t \in Threads |-> 0]

-----------------------------------------------------------------------------
(* Start-up.                                                               *)

Starting == pc["main"] = "init" /\ created < Len(Resources)
Creating == Resources[created + 1]

\* The next resource is created.  rsAudioThreadCreate starts the thread.
Create ==
    /\ Starting
    /\ created' = created + 1
    /\ IF Creating = "audio"
       THEN threadRunning' = TRUE /\ Goto("audio", "while")
       ELSE UNCHANGED <<threadRunning, pc>>
    /\ UNCHANGED <<running, mutex, lag, pending, saveVars, resume, logVars>>

\* Without audio the recorder goes on with video alone.
CreateAudioFailed ==
    /\ Starting
    /\ Creating = "audio"
    /\ created' = created + 1
    /\ UNCHANGED <<pc, running, threadRunning, mutex, lag, pending, saveVars,
                   resume, logVars>>

CreateFailed ==
    /\ Starting
    /\ Creating # "audio"
    /\ Goto("main", "exit")
    /\ UNCHANGED <<created, running, threadRunning, mutex, lag, pending, saveVars,
                   resume, logVars>>

Started ==
    /\ pc["main"] = "init" /\ created = Len(Resources)
    /\ Goto("main", "while")
    /\ UNCHANGED <<created, running, threadRunning, mutex, lag, pending, saveVars,
                   resume, logVars>>

AllCreated == created = Len(Resources)

\* mainSignal, installed once everything is created.
Signal ==
    /\ running
    /\ AllCreated /\ pc["main"] # "init"
    /\ running' = FALSE
    /\ UNCHANGED <<pc, created, threadRunning, mutex, lag, pending, saveVars,
                   resume, logVars>>

\* Somebody presses the key, or runs "replay-sorcery save".
Request ==
    /\ pending < MaxPending
    /\ AllCreated
    /\ pending' = pending + 1
    /\ UNCHANGED <<pc, created, running, threadRunning, mutex, lag, saveVars,
                   resume, logVars>>

-----------------------------------------------------------------------------
(* rsLogSilence, called by both threads under its own mutex.               *)

SilenceMutexIgnored == TRUE                 \* mutant: the mutex is not taken
SilenceMutexFree == silenceMutex = NoThread

SilenceLock(t) ==
    /\ pc[t] \in {"silence", "unsilence"}
    /\ SilenceMutexFree
    /\ silenceMutex' = t
    /\ seen' = [seen EXCEPT ![t] =
                   IF pc[t] = "silence" THEN silenceCounter + 1 ELSE silenceCounter - 1]
    /\ Goto(t, IF pc[t] = "silence" THEN "silencing" ELSE "unsilencing")
    /\ UNCHANGED <<created, running, threadRunning, mutex, lag, pending, saveVars,
                   resume, silent, silenceCounter, logLevel>>

\* The log level that goes with the counter.
SilencedLevel(old, new) ==
    IF new <= 0 THEN (IF old > 0 THEN "config" ELSE logLevel)
    ELSE (IF old = 0 THEN "fatal" ELSE logLevel)

\* What the thread goes on with.
AfterSilence(t) ==
    IF pc[t] = "silencing"
    THEN IF t = "main" THEN "poll" ELSE "while"
    ELSE IF t = "main" THEN resume ELSE "lock"

SilenceSet(t) ==
    /\ pc[t] \in {"silencing", "unsilencing"}
    /\ silenceCounter' = IF seen[t] <= 0 THEN 0 ELSE seen[t]
    /\ logLevel' = SilencedLevel(silenceCounter, seen[t])
    /\ silent' = [silent EXCEPT ![t] = pc[t] = "silencing"]
    /\ silenceMutex' = NoThread
    /\ Goto(t, AfterSilence(t))
    /\ UNCHANGED <<created, running, threadRunning, mutex, lag, pending, saveVars,
                   resume, seen>>

-----------------------------------------------------------------------------
(* The main loop.                                                          *)

unusedByLoop == <<created, threadRunning, mutex, saveVars, logVars>>

While ==
    /\ pc["main"] = "while"
    /\ Goto("main", IF running THEN "step" ELSE "exit")
    /\ UNCHANGED <<unusedByLoop, running, lag, pending, resume>>

\* rsEncoderNextPacket: EAGAIN, so a frame is read.
StepNeedsFrame ==
    /\ pc["main"] = "step"
    /\ lag < MaxLag
    /\ Goto("main", "frame")
    /\ UNCHANGED <<unusedByLoop, running, lag, pending, resume>>

\* A packet, or an error of the encoder: either way a packet is added.
StepHasPacket ==
    /\ pc["main"] = "step"
    /\ lag' = 0
    /\ Goto("main", "poll")
    /\ UNCHANGED <<unusedByLoop, running, pending, resume>>

FrameRead ==
    /\ pc["main"] = "frame"
    /\ Goto("main", IF silent["main"] THEN "unsilence" ELSE "send")
    /\ resume' = "send"
    /\ UNCHANGED <<unusedByLoop, running, lag, pending>>

\* The device fails: the step is over, the control is still polled.
AfterFailedFrameStep == "step"              \* mutant: the step tries again
AfterFailedFrame == "poll"

FrameFailed ==
    /\ pc["main"] = "frame"
    /\ Goto("main", IF silent["main"] THEN AfterFailedFrame ELSE "silence")
    /\ UNCHANGED <<unusedByLoop, running, lag, pending, resume>>

FrameSent ==
    /\ pc["main"] = "send"
    /\ lag' = lag + 1
    /\ Goto("main", "step")
    /\ UNCHANGED <<unusedByLoop, running, pending, resume>>

\* rsEncoderSendFrame, rsBufferAddPacket or rsControlWantsSave fails: main exits.
LoopFailed ==
    /\ pc["main"] \in {"send", "step", "poll"}
    /\ Goto("main", "exit")
    /\ UNCHANGED <<unusedByLoop, running, lag, pending, resume>>

\* rsControlWantsSave.
NotWanted ==
    /\ pc["main"] = "poll"
    /\ pending = 0
    /\ Goto("main", "while")
    /\ UNCHANGED <<unusedByLoop, running, lag, pending, resume>>

Wanted ==
    /\ pc["main"] = "poll"
    /\ pending > 0
    /\ pending' = IF Coalesces THEN 0 ELSE pending - 1
    /\ Goto("main", IF threadRunning THEN "lock" ELSE "create")
    /\ UNCHANGED <<unusedByLoop, running, lag, resume>>

-----------------------------------------------------------------------------
(***************************************************************************)
(* mainOutput, which holds the audio mutex from before rsOutputCreate to   *)
(* after rsOutputDestroy, and mainOutputVideo, which leaves out what is    *)
(* about audio.                                                            *)
(***************************************************************************)
StageAfter(stage) ==
    CASE stage = "create"  -> IF threadRunning THEN "params" ELSE "open"
      [] stage = "params"  -> "open"
      [] stage = "open"    -> IF threadRunning THEN "start" ELSE "video"
      [] stage = "start"   -> "audio"
      [] stage = "audio"   -> "video"
      [] stage = "video"   -> "close"
      [] stage = "close"   -> "command"
      [] stage = "command" -> "destroy"

unusedBySave == <<created, running, threadRunning, lag, pending, resume, logVars>>

SaveLock ==
    /\ pc["main"] = "lock"
    /\ mutex = NoThread
    /\ mutex' = "main"
    /\ Goto("main", "create")
    /\ UNCHANGED <<unusedBySave, saveVars>>

\* rsOutputCreate creates the file, or truncates one of the same name.
SaveCreate ==
    /\ pc["main"] = "create"
    /\ output' = "created" /\ file' = "partial"
    /\ Goto("main", StageAfter("create"))
    /\ UNCHANGED <<unusedBySave, mutex>>

\* The stages that only read the buffers and write packets.
SaveWork ==
    /\ pc["main"] \in {"params", "open", "start", "audio", "video"}
    /\ Goto("main", StageAfter(pc["main"]))
    /\ UNCHANGED <<unusedBySave, mutex, saveVars>>

\* rsOutputClose: the trailer is written and the file closed ...
SaveClose ==
    /\ pc["main"] = "close"
    /\ file' = "complete" /\ output' = "closed"
    /\ Goto("main", StageAfter("close"))
    /\ UNCHANGED <<unusedBySave, mutex>>

\* ... and then outputCommand runs, whose failure is only reported.
SaveCommand ==
    /\ pc["main"] = "command"
    /\ Goto("main", StageAfter("command"))
    /\ UNCHANGED <<unusedBySave, mutex, saveVars>>

\* Any stage before the command may fail.
FailedTo == "destroy"
FailedToCommand == "command"                \* mutant: the command runs regardless
FailedToLoop == "while"                     \* mutant: return instead of goto error
AfterFailure == FailedTo

SaveFailed ==
    /\ pc["main"] \in {"create", "params", "open", "start", "audio", "video", "close"}
    /\ Goto("main", AfterFailure)
    /\ UNCHANGED <<unusedBySave, mutex, saveVars>>

\* rsOutputDestroy: an incomplete file stays where it is.
SaveDestroy ==
    /\ pc["main"] = "destroy"
    /\ output' = "none"
    /\ Goto("main", IF threadRunning THEN "unlock" ELSE "while")
    /\ UNCHANGED <<unusedBySave, mutex, file>>

SaveUnlock ==
    /\ pc["main"] = "unlock"
    /\ mutex' = NoThread
    /\ Goto("main", "while")
    /\ UNCHANGED <<unusedBySave, saveVars>>

-----------------------------------------------------------------------------
(* The cleanup at the end of main.                                         *)

ExitUnsilence ==
    /\ pc["main"] = "exit"
    /\ Goto("main", IF silent["main"] THEN "unsilence" ELSE "stop")
    /\ resume' = "stop"
    /\ UNCHANGED <<unusedByLoop, running, lag, pending>>

\* rsControlDestroy, then rsAudioThreadDestroy tells the thread to stop.
ThreadToldNothing == threadRunning          \* mutant: the flag is not cleared
ThreadToldToStop == FALSE

ExitStop ==
    /\ pc["main"] = "stop"
    /\ threadRunning' = ThreadToldToStop
    /\ Goto("main", "join")
    /\ UNCHANGED <<created, running, mutex, lag, pending, saveVars, resume, logVars>>

\* It waits for the thread to return before anything the thread uses is freed.
NotJoined == TRUE                           \* mutant: the join is missing
Joined == pc["audio"] \in {"none", "done"}

ExitJoin ==
    /\ pc["main"] = "join"
    /\ Joined
    /\ Goto("main", "free")
    /\ UNCHANGED <<unusedByLoop, running, lag, pending, resume>>

ExitFree ==
    /\ pc["main"] = "free"
    /\ created' = 0
    /\ Goto("main", "exited")
    /\ UNCHANGED <<running, threadRunning, mutex, lag, pending, saveVars, resume,
                   logVars>>

-----------------------------------------------------------------------------
(* The audio thread.                                                       *)

unusedByAudio == <<created, running, threadRunning, lag, pending, saveVars, resume, logVars>>

AudioWhile ==
    /\ pc["audio"] = "while"
    /\ Goto("audio", IF threadRunning THEN "frame" ELSE "done")
    /\ UNCHANGED <<unusedByAudio, mutex>>

AudioFrame ==
    /\ pc["audio"] = "frame"
    /\ Goto("audio", IF silent["audio"] THEN "unsilence" ELSE "lock")
    /\ UNCHANGED <<unusedByAudio, mutex>>

AudioFrameFailed ==
    /\ pc["audio"] = "frame"
    /\ Goto("audio", IF silent["audio"] THEN "while" ELSE "silence")
    /\ UNCHANGED <<unusedByAudio, mutex>>

MutexIgnored == TRUE                        \* mutant: the lock is missing
MutexFree == mutex = NoThread

AudioLock ==
    /\ pc["audio"] = "lock"
    /\ MutexFree
    /\ mutex' = "audio"
    /\ Goto("audio", "add")
    /\ UNCHANGED unusedByAudio

\* rsAudioBufferAddFrame, which cannot fail.
AudioAdd ==
    /\ pc["audio"] = "add"
    /\ Goto("audio", "unlock")
    /\ UNCHANGED <<unusedByAudio, mutex>>

AudioUnlock ==
    /\ pc["audio"] = "unlock"
    /\ mutex' = NoThread
    /\ Goto("audio", "while")
    /\ UNCHANGED unusedByAudio

-----------------------------------------------------------------------------
StartUp == Create \/ CreateAudioFailed \/ CreateFailed \/ Started

Loop ==
    \/ While \/ StepNeedsFrame \/ StepHasPacket \/ FrameRead \/ FrameFailed
    \/ FrameSent \/ LoopFailed \/ NotWanted \/ Wanted

Save ==
    \/ SaveCreate \/ SaveWork \/ SaveClose \/ SaveCommand \/ SaveFailed
    \/ SaveDestroy \/ SaveUnlock

Exit == ExitUnsilence \/ ExitStop \/ ExitJoin \/ ExitFree

Audio ==
    \/ AudioWhile \/ AudioFrame \/ AudioFrameFailed \/ AudioAdd \/ AudioUnlock

Silence(t) == SilenceLock(t) \/ SilenceSet(t)

\* The process has returned from main.
Exited == pc["main"] = "exited" /\ UNCHANGED vars

Next ==
    \/ StartUp \/ Loop \/ SaveLock \/ Save \/ Exit
    \/ Audio \/ AudioLock
    \/ \E t \in Threads : Silence(t)
    \/ Signal \/ Request
    \/ Exited

(***************************************************************************)
(* Both threads are scheduled, every call of a device, of the encoder, of  *)
(* the muxer and of the command returns, and a thread that waits for a     *)
(* mutex gets it if it is free again and again.                            *)
(***************************************************************************)
Fairness ==
    /\ WF_vars(StartUp \/ Loop \/ Save \/ Exit)
    /\ WF_vars(Audio)
    /\ SF_vars(SaveLock)
    /\ SF_vars(AudioLock)
    /\ \A t \in Threads : SF_vars(SilenceLock(t)) /\ WF_vars(SilenceSet(t))

Spec == Init /\ [][Next]_vars /\ Fairness

-----------------------------------------------------------------------------
(* Properties.                                                             *)

MainLabels == {"init", "while", "step", "frame", "send", "poll", "silence",
               "silencing", "unsilence", "unsilencing", "exit", "stop", "join",
               "free", "exited"} \cup SaveStages

AudioLabels == {"none", "while", "frame", "lock", "add", "unlock", "silence",
                "silencing", "unsilence", "unsilencing", "done"}

\* Every variable has a value of its type.
TypeOK ==
    /\ pc \in [Threads -> MainLabels \cup AudioLabels]
    /\ pc["main"] \in MainLabels /\ pc["audio"] \in AudioLabels
    /\ created \in 0..Len(Resources)
    /\ running \in BOOLEAN /\ threadRunning \in BOOLEAN
    /\ mutex \in Threads \cup {NoThread} /\ silenceMutex \in Threads \cup {NoThread}
    /\ lag \in 0..MaxLag /\ pending \in 0..MaxPending
    /\ output \in {"none", "created", "closed"}
    /\ file \in {"none", "partial", "complete"}
    /\ silent \in [Threads -> BOOLEAN] /\ resume \in {"send", "stop"}
    /\ silenceCounter \in 0..2 /\ logLevel \in {"config", "fatal"}
    /\ seen \in [Threads -> 0..2]

AudioReads == {"params", "audio"}

\* While a save with audio reads the audio buffer and its encoder, from the
\* parameters to the last packet, the audio thread does not add a frame:
\* rsAudioThreadLock and rsAudioThreadUnlock enclose all of it.
AudioBufferExclusive ==
    ~ (pc["audio"] = "add" /\ pc["main"] \in AudioReads)

\* As long as the audio thread runs, its device, buffer, frame and mutex exist:
\* rsAudioThreadDestroy joins it before it destroys them, whichever error led
\* there.  The save routines too only run while everything exists.
NoUseAfterFree ==
    /\ pc["audio"] \notin {"none", "done"} =>
           \E i \in 1..created : Resources[i] = "audio"
    /\ pc["main"] \in SaveStages => AllCreated

\* outputCommand runs only for a video that is completely written: header,
\* both streams, trailer, file closed.
CommandOnlyWhenComplete ==
    pc["main"] = "command" => file = "complete" /\ output = "closed"

\* However a save ends, at whichever stage it failed, its output is destroyed
\* and main does not keep the audio mutex; and no failure leads to the command.
SaveCleansUp ==
    /\ pc["main"] \notin SaveStages => output = "none" /\ mutex # "main"
    /\ CommandOnlyWhenComplete

\* When nobody is inside rsLogSilence its counter is the number of threads whose
\* device fails, and the log is silenced exactly as long as there is one: the
\* two threads cannot lose or undo each other's change.
SilenceMatches ==
    silenceMutex = NoThread =>
        /\ silenceCounter =
             (IF silent["main"] THEN 1 ELSE 0) + (IF silent["audio"] THEN 1 ELSE 0)
        /\ (logLevel = "fatal") = (silenceCounter > 0)

Stopping == {"exit", "stop", "join", "free", "exited"}

\* A save request that waits gets a save, or the recorder stops: neither a
\* device that fails for good nor the audio thread's use of the mutex keeps the
\* key press from being served.
PressServed == pending > 0 ~> pc["main"] \in {"create"} \cup Stopping

\* The audio thread, waiting for the mutex while a save is written, always gets
\* on: every way through the save releases the mutex.
AudioResumes == pc["audio"] = "lock" ~> pc["audio"] = "add"

\* After SIGINT or SIGTERM the recorder stops its thread, frees everything and
\* returns, whatever it was doing.
StopsOnSignal == ~running ~> pc["main"] = "exited" /\ created = 0
=============================================================================
