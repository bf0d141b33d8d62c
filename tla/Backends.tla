------------------------------ MODULE Backends ------------------------------
(***************************************************************************)
(* How the recorder chooses, opens and releases its backends: the video    *)
(* device, the video encoder, the audio device, the control, and for each  *)
(* save the audio encoder.  A slot is the structure main keeps for one of  *)
(* them.  A configured backend is the only candidate of its slot, an       *)
(* automatic choice has several; each may fail at any stage of its         *)
(* creation, and its error path releases the slot.                         *)
(***************************************************************************)
EXTENDS Naturals, Sequences

VARIABLES
    config,    \* what the user asks for, per slot
    pc,        \* the slot being created, or where main is
    choice,    \* the candidate being created
    stage,     \* how far its creation has come
    slots,     \* the slots
    failed,    \* history: the candidates that failed, per slot
    mutex,     \* the mutex of the audio thread exists
    running    \* audioThread.running: saves have audio

vars == <<config, pc, choice, stage, slots, failed, mutex, running>>

Devices == {"x11", "kms", "kms_service"}
Software == {"x264", "openh264", "x265"}
Vaapi == {"vaapi_h264", "vaapi_hevc"}
Controls == {"debug", "x11", "command"}
Backends == Devices \cup Software \cup Vaapi \cup {"pulse", "aac", "fdk"} \cup Controls
Slots == {"video", "encoder", "audio", "control", "aencoder"}

\* The values config.c accepts.
Configs ==
    [video    : Devices \cup {"hwaccel", "auto"},
     encoder  : Software \cup Vaapi \cup {"hevc", "auto"},
     audio    : {"none", "pulse", "auto"},
     control  : Controls \cup {"auto"},
     aencoder : {"aac", "fdk", "auto"}]

\* backend gives the slot's functions, among them destroy; extra is its pointer
\* to the backend's own data; frames is a reference to hardware frames.
Empty == [backend |-> "none", params |-> FALSE, extra |-> "null", frames |-> FALSE, open |-> FALSE]

Init ==
    /\ config \in Configs
    /\ pc = "video" /\ choice = 1 /\ stage = "prepare"
    /\ slots = [x \in Slots |-> Empty]
    /\ failed = [x \in Slots |-> {}]
    /\ mutex = FALSE /\ running = FALSE

-----------------------------------------------------------------------------
(* Releasing a slot                                                        *)

\* Memory that is freed without its pointer being cleared.
Dangling(extra) ==
    IF extra = "live" THEN "freed" ELSE IF extra = "freed" THEN "twice" ELSE extra

\* mutant: every backend forgets to clear the slot's pointer
DestroyedLocal(s) ==
    [s EXCEPT !.params = FALSE, !.frames = FALSE, !.open = FALSE,
              !.extra = IF s.backend \in {"none", "debug"} THEN @ ELSE Dangling(@)]

\* Every destroy function clears the slot's pointer, except that of the KMS
\* service's device, which clears a copy of it: the slot's is left dangling, and
\* the next destruction frees it again.
Destroyed(s) ==
    [s EXCEPT !.params = FALSE, !.frames = FALSE, !.open = FALSE,
              !.extra = IF s.backend \in {"none", "debug"} THEN @
                        ELSE IF s.backend = "kms_service" THEN Dangling(@) ELSE "null"]

-----------------------------------------------------------------------------
(* Choosing                                                                *)

\* The encoder is chosen by the format of the device's frames.
Hardware == slots["video"].backend \in {"kms", "kms_service"}

\* mutant: the format of the frames is not looked at
EncodersSoftware ==
    IF config.encoder = "hevc" THEN <<"x265">>
    ELSE IF config.encoder = "auto" THEN <<"x264", "openh264">>
    ELSE <<config.encoder>>

Encoders ==
    IF config.encoder = "hevc" THEN IF Hardware THEN <<"vaapi_hevc">> ELSE <<"x265">>
    ELSE IF config.encoder = "auto" THEN IF Hardware THEN <<"vaapi_h264">> ELSE <<"x264", "openh264">>
    ELSE <<config.encoder>>

VideoDevices ==
    IF config.video = "hwaccel" THEN <<"kms_service", "kms">>
    ELSE IF config.video = "auto" THEN <<"x11">>
    ELSE <<config.video>>

AudioDevices == IF config.audio = "none" THEN <<>> ELSE <<"pulse">>

\* A configured fdk creates aac.
AudioEncoders == IF config.aencoder = "auto" THEN <<"fdk", "aac">> ELSE <<"aac">>

ControlKinds == IF config.control = "auto" THEN <<"x11", "command">> ELSE <<config.control>>

Candidates(x) ==
    [video |-> VideoDevices, encoder |-> Encoders, audio |-> AudioDevices,
     control |-> ControlKinds, aencoder |-> AudioEncoders][x]

-----------------------------------------------------------------------------
(* Creating a candidate                                                    *)

Trying(x, b, s) ==
    /\ pc = x /\ stage = s
    /\ choice <= Len(Candidates(x)) /\ b = Candidates(x)[choice]

Advance(x, slot, s) ==
    /\ slots' = [slots EXCEPT ![x] = slot]
    /\ stage' = s
    /\ UNCHANGED <<config, pc, choice, failed, mutex, running>>

\* The candidate's creation returns an error and leaves slot.
Fails(x, b, slot) ==
    /\ slots' = [slots EXCEPT ![x] = slot]
    /\ failed' = [failed EXCEPT ![x] = @ \cup {b}]
    /\ choice' = choice + 1 /\ stage' = "prepare"
    /\ UNCHANGED <<config, pc, mutex, running>>

\* A device or an encoder clears its slot and allocates its parameters.  A control
\* does neither, and the debug control has nothing else to create.
Prepare(x, b) ==
    /\ Trying(x, b, "prepare")
    /\ IF x = "control"
       THEN Advance(x, slots[x], "fill")
       ELSE Advance(x, [Empty EXCEPT !.params = TRUE], "fill")

\* The size of the X11 display is not known: the slot is released as it is.
NoDisplaySize(x, b) ==
    /\ Trying(x, b, "prepare") /\ x = "video" /\ b = "x11"
    /\ Fails(x, b, Destroyed(slots[x]))

\* The KMS device's frame is not allocated: the slot is not touched.
NoProbeFrame(x, b) ==
    /\ Trying(x, b, "prepare") /\ b = "kms"
    /\ Fails(x, b, slots[x])

\* The parameters are not allocated: the slot is released cleared.
NoParams(x, b) ==
    /\ Trying(x, b, "prepare") /\ x # "control"
    /\ Fails(x, b, Empty)

\* The backend's own data, and the functions.  The KMS service's device holds its
\* hardware frames from here on.
Filled(x, b, extra) ==
    [slots[x] EXCEPT !.backend = b, !.extra = extra, !.frames = b = "kms_service" /\ extra = "live"]

Fill(x, b) ==
    /\ Trying(x, b, "fill") /\ b # "debug"
    /\ Advance(x, Filled(x, b, "live"), "open")

FillDebug(x, b) ==
    /\ Trying(x, b, "fill") /\ b = "debug"
    /\ Advance(x, Filled(x, b, "null"), "open")

\* No memory: what FFmpeg's devices and encoders have is released there and again
\* by the backend built on them.
NoExtra(x, b) ==
    /\ Trying(x, b, "fill") /\ b # "debug"
    /\ ~(x = "control" /\ b = "x11")
    /\ Fails(x, b, Destroyed(Destroyed(Filled(x, b, "null"))))

\* The X11 control tests ret for the allocation and uses the null pointer, and the
\* KMS service's device uses that of its hardware device: the process is killed.
NullUsed(x, b) ==
    /\ Trying(x, b, "fill")
    /\ (x = "control" /\ b = "x11") \/ b = "kms_service"
    /\ pc' = "killed"
    /\ UNCHANGED <<config, choice, stage, slots, failed, mutex, running>>

After(x) ==
    [video |-> "encoder", encoder |-> "buffer", audio |-> "thread",
     control |-> "loop", aencoder |-> "loop"][x]

\* The KMS device takes the frames of the first frame it grabs.
Open(x, b) ==
    /\ Trying(x, b, "open")
    /\ slots' = [slots EXCEPT ![x].open = TRUE, ![x].frames = @ \/ b = "kms"]
    /\ pc' = After(x) /\ choice' = 1 /\ stage' = "prepare"
    /\ UNCHANGED <<config, failed, mutex, running>>

\* An option, the connection, the device, the codec, the filters, a key or the
\* first frame.
OpenFails(x, b) ==
    /\ Trying(x, b, "open") /\ b # "debug"
    /\ Fails(x, b, Destroyed(slots[x]))

\* No candidate is left.  Without audio main goes on, having destroyed the thread
\* it could not create; without an audio encoder a save fails.
GiveUp(x) ==
    /\ pc = x /\ choice > Len(Candidates(x))
    /\ slots' = IF x = "audio" THEN [slots EXCEPT !["audio"] = Destroyed(@)] ELSE slots
    /\ pc' = IF x = "audio" THEN "control" ELSE IF x = "aencoder" THEN "loop" ELSE "exit"
    /\ choice' = 1 /\ stage' = "prepare"
    /\ UNCHANGED <<config, failed, mutex, running>>

-----------------------------------------------------------------------------
(* main                                                                    *)

At(here, there) == pc = here /\ pc' = there /\ UNCHANGED <<config, choice, stage, failed>>

\* The replay buffer, the packet and the frame.
Buffer ==
    /\ At("buffer", "audio") \/ At("buffer", "exit")
    /\ UNCHANGED <<slots, mutex, running>>

\* The rest of rsAudioThreadCreate: buffer, frame, mutex, thread.
Thread ==
    /\ At("thread", "control")
    /\ mutex' = TRUE /\ running' = TRUE
    /\ UNCHANGED slots

\* Any of them fails, and what exists is destroyed: running was set for a thread
\* that is not created, and is cleared.
NoThread ==
    /\ At("thread", "control")
    /\ slots' = [slots EXCEPT !["audio"] = Destroyed(@)]
    /\ UNCHANGED <<mutex, running>>

\* Without the mutex it returns at once, and the audio device stays open.
NoMutex ==
    /\ At("thread", "control")
    /\ UNCHANGED <<slots, mutex, running>>

\* The first save, or one after the encoder was released, creates the audio encoder.
Save ==
    /\ pc = "loop" /\ running /\ ~slots["aencoder"].params
    /\ pc' = "aencoder"
    /\ failed' = [failed EXCEPT !["aencoder"] = {}]
    /\ UNCHANGED <<config, choice, stage, slots, mutex, running>>

\* rsAudioBufferWrite releases the encoder; a save that fails earlier keeps it.
Saved ==
    /\ At("loop", "loop") /\ slots["aencoder"].params
    /\ slots' = [slots EXCEPT !["aencoder"] = Destroyed(@)]
    /\ UNCHANGED <<mutex, running>>

\* A signal, or an error of the loop.
Leave ==
    /\ At("loop", "exit")
    /\ UNCHANGED <<slots, mutex, running>>

\* mutant: an audio device without a thread is forgotten
ExitRunning ==
    /\ At("exit", "end")
    /\ slots' = [x \in Slots |-> IF x = "audio" /\ ~running THEN slots[x] ELSE Destroyed(slots[x])]
    /\ mutex' = FALSE /\ running' = FALSE

\* main destroys every slot, those it never created too.
Exit ==
    /\ At("exit", "end")
    /\ slots' = [x \in Slots |-> Destroyed(slots[x])]
    /\ mutex' = FALSE /\ running' = FALSE

Next ==
    \/ \E x \in Slots :
        \/ \E b \in Backends :
            \/ Prepare(x, b) \/ NoDisplaySize(x, b) \/ NoProbeFrame(x, b) \/ NoParams(x, b)
            \/ Fill(x, b) \/ FillDebug(x, b) \/ NoExtra(x, b) \/ NullUsed(x, b)
            \/ Open(x, b) \/ OpenFails(x, b)
        \/ GiveUp(x)
    \/ Buffer \/ Thread \/ NoThread \/ NoMutex \/ Save \/ Saved \/ Leave \/ Exit

Spec == Init /\ [][Next]_vars

-----------------------------------------------------------------------------
(* Properties                                                              *)

Kinds(x) ==
    [video |-> Devices, encoder |-> Software \cup Vaapi, audio |-> {"pulse"},
     control |-> Controls, aencoder |-> {"aac", "fdk"}][x]

SlotType(x) ==
    [backend : Kinds(x) \cup {"none"}, params : BOOLEAN, frames : BOOLEAN, open : BOOLEAN,
     extra : {"null", "live"} \cup (IF x = "video" THEN {"freed", "twice"} ELSE {})]

\* The types of the variables: a slot holds backends of its own kind, and no slot
\* but the video device's is ever left with a pointer to freed memory.
TypeOK ==
    /\ config \in Configs
    /\ pc \in Slots \cup {"buffer", "thread", "loop", "exit", "end", "killed"}
    /\ choice \in 1..3 /\ stage \in {"prepare", "fill", "open"}
    /\ \A x \in Slots : slots[x] \in SlotType(x) /\ failed[x] \subseteq Kinds(x)
    /\ mutex \in BOOLEAN /\ running \in BOOLEAN

\* However far each creation came and whichever candidates failed, main leaves
\* nothing allocated behind, and frees nothing twice but the socket of a KMS service
\* device whose creation failed and whose slot nothing has cleared since: the
\* device was the configured one, or there was no memory to try the next.
ReleasedOnce ==
    /\ pc = "end" => ~mutex /\ \A x \in Slots :
        slots[x].extra # "live" /\ ~slots[x].params /\ ~slots[x].frames /\ ~slots[x].open
    /\ \A x \in Slots : slots[x].extra = "twice" =>
        /\ x = "video" /\ "kms_service" \in failed["video"]
        /\ config.video = "kms_service" \/ "kms" \in failed["video"]

\* The hardware encoders take the frames of the KMS devices, the software encoders
\* those of X11.
Fits(encoder) == encoder \in Vaapi <=> slots["video"].backend \in {"kms", "kms_service"}

\* What the main loop works with: a device, an encoder and a control, each the one
\* the user asked for; an automatic choice is a backend that can take the device's
\* frames, and a second choice is used only because the first failed; audio is
\* saved only if its device is open and its mutex exists.  Not said of the audio
\* encoder: that a configured fdk is used, for which aencoder.c:31 creates aac.
LoopAsConfigured ==
    pc = "loop" =>
        /\ \A x \in {"video", "encoder", "control"} :
            /\ slots[x].open
            /\ config[x] \in Backends => slots[x].backend = config[x]
        /\ config.video = "hwaccel" /\ slots["video"].backend # "kms_service" =>
            slots["video"].backend = "kms" /\ "kms_service" \in failed["video"]
        /\ config.encoder \notin Backends => Fits(slots["encoder"].backend)
        /\ config.encoder = "hevc" => slots["encoder"].backend \in {"x265", "vaapi_hevc"}
        /\ slots["encoder"].backend = "openh264" /\ config.encoder = "auto" => "x264" \in failed["encoder"]
        /\ config.control = "auto" /\ slots["control"].backend # "x11" =>
            slots["control"].backend = "command" /\ "x11" \in failed["control"]
        /\ slots["aencoder"].open /\ slots["aencoder"].backend = "aac" =>
            config.aencoder # "auto" \/ "fdk" \in failed["aencoder"]
        /\ running => slots["audio"].open /\ mutex
        /\ config.audio = "none" => ~running
=============================================================================
