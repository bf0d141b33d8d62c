# ReplaySorcery in TLA+

ReplaySorcery records the screen all the time and keeps the last `recordSeconds` in
memory; a key press, or `replay-sorcery save`, writes them to a file. This directory
holds TLA+ models of its parts, TLC configurations that check them on small instances,
and proofs that TLAPS checks for every instance. Paths below are relative to the
repository; `buffer.c:110` means line 110 of `src/buffer.c`.

    tlasany M.tla                         # parse
    tlc -workers 2 -config MCX.cfg MCX.tla  # check an instance
    tlapm XProofs.tla                     # check proofs

## The system

| part | state | operations | used by |
|---|---|---|---|
| video buffer, `buffer.c` | singly linked list `tail` .. `head`, pool of recycled nodes | add a packet (and evict), write from the oldest key-frame, destroy | main thread only |
| audio buffer, `audio/abuffer.c` | ring of samples, `index`, `size`, `endTime`, an encoder made on demand | add a frame, get the encoder's parameters, write from a time on | audio thread adds, main writes, under the audio mutex |
| recording process, `main.c` | what is created, `running`, its `silence` flag | start up, `mainStep`, poll the control, save with or without audio, clean up | |
| audio thread, `audio/audio.c`, `thread.c` | `running`, mutex, thread, its `silence` flag | create, loop (read a frame, lock, add, unlock), stop and join | main |
| log, `log.c` | silence counter and level under a mutex | `rsLogSilence` | both threads |
| output, `output.c` | format context, path, the file | create, add streams, open, write, close (trailer, command), destroy | saves |
| controls, `control/*`, `command/ctrlcmd.c` | X11 key grab, or command socket, or stdin | wants save?, destroy; the client connects | main, the `save` command |
| sockets, `socket.c` | descriptor, bound path | create, bind, connect, accept, send, receive, destroy | command control, KMS service |
| KMS service, `command/svkmscmd.c`, `device/svkmsdev.c` | connection, device, frames with descriptors | handshake, one message pair per frame | recorder of another user |
| PulseAudio device, `audio/pulsedev.c` | main loop, stream, sink name, `serverChanged`, `error` | read a frame, follow the default sink | audio thread |
| devices and encoders, `device/*`, `encoder/*`, `audio/a*enc*` | callbacks over libav contexts | create with fallbacks, next frame, send, next packet, destroy | main, audio buffer |
| configuration, `config.c`; utilities, `util.c` | option values | read two files, trim, parse; scale a size, create directories | start-up |

The calls go down from `main.c`; nothing calls back into it but the signal handler.
There are two threads, and what they share is small: the audio buffer with its encoder
and `RSAudioThread.running`, the silence counter of the log, and the resources the
cleanup frees. Beyond the process there are the sound server, the command socket's
clients and the KMS service, each of which can fail or go away on its own.

What is hard here, and what would be correct:

* the list and the pool share one `next` field per node, and `head` is never reset: no
  order of adding, evicting, failing and destroying may lose, share or leak a node;
* the window: nothing younger than `recordSeconds` may be dropped, nothing older may
  pile up, although presentation times are not monotonic (B-frames);
* a save that fails at any stage leaves the buffers, the mutex and the encoder fit for
  the next one;
* the ring is written modulo its capacity and read modulo its fill;
* the audio thread adds frames while saves read; the exit joins it before it frees;
* neither a failing device nor a long save may stop the other thread, the poll of the
  control or the exit for good;
* two instances, a crash, or the end of a connection around a bound socket;
* a change of the default sink while the stream to the old one is being replaced.

`PROJECT.json` lists each of these hazards at its line with the properties that cover it.

## Modules

| module | models | composed of |
|---|---|---|
| `PacketSeq` | a window over a sequence of packets as operators | |
| `ReplayWindow` | abstract: what the video buffer promises | `PacketSeq` |
| `PacketList` | `buffer.c`, pointer by pointer | `PacketSeq`, refines `ReplayWindow` |
| `PacketListProofs` | theorems about `PacketList` and its refinement | |
| `SampleWindow` | abstract: what the audio buffer promises | |
| `AudioRing` | `audio/abuffer.c` | refines `SampleWindow` |
| `AudioRingProofs` | theorems about `AudioRing` and its refinement | |
| `Recorder` | `main.c`, `audio/audio.c`, `rsLogSilence`, the stages of `output.c` | |
| `RecorderProofs` | theorems about `Recorder` | |
| `ControlSocket` | `control/cmdctrl.c`, `command/ctrlcmd.c`, the socket's life in `socket.c` | |
| `ControlSocketProofs` | theorems about `ControlSocket` | |
| `KmsProtocol` | `command/svkmscmd.c`, `device/svkmsdev.c`, the messages of `socket.c` | |
| `KmsProtocolProofs` | theorems about `KmsProtocol` | |
| `PulseDevice` | `audio/pulsedev.c` against a sound server | |
| `PulseDeviceProofs` | theorems about `PulseDevice` | |
| `Backends` | choice, creation and release of devices, encoders and controls, and main's part in it | |
| `ConfigFile` | the reading of the files in `config.c` | |
| `ConfigFileProofs` | theorem about `ConfigFile` | |
| `OutputFile` | name, directories and contents of a replay's file: `output.c`, `rsDirectoryCreate` of `util.c` | |
| `OutputFileProofs` | theorems about `OutputFile` | |
| `MC*` | instances for TLC | |

### PacketList

The heap is `next`, `packet` and `allocated`; `pool`, `tail` and `head` are the fields of
`RSBuffer`; `pc` says which loop runs and `plist` is its cursor. A call is its entry
action followed by one action per iteration: `AddRecycled`/`AddAllocated` then
`Evict`* `EvictDone`; `BeginWrite`, `Scan`*, `ScanFound` or `ScanFailed`, `Write`*, and
`WriteDone` or `WriteFailed`; `BeginDestroy`, `Drain`*, `Free`*, `FreeDone`. `AddNoMemory`
is the failing malloc, after which main goes to its cleanup and destroys the buffer. The
loops run in one thread; the steps are separate so that pointer properties are checked in
the middle of every loop. `rsBufferGetStartTime` is the same scan and reads nothing else.
Of an `AVPacket` only `pts` and the key flag are kept: `dts` is shifted with `pts`.

`live`, `free` and `added` are history variables. The invariants say what the pointers
stand for in terms of them, and they carry the refinement: the abstract window is the
list without the packets the eviction loop is about to remove.

`EncoderMayEmit` is the environment: a stream of closed groups that opens with a
key-frame, at most `GOP - 1` other packets after one, decode order at most `Reorder`
ahead of presentation order. It leaves out encoders with open groups and streams
whose clock goes back.

The product in `buffer.c:108` is of two ints. `Products` says what it can be: the exact
value when it fits, and otherwise (undefined in C) the exact or the wrapped value.

### AudioRing

Samples are numbered in the order of their capture and a time is a number of sample
periods, so that "the right samples, in order, once" can be said of a whole clip.
`AddFrame` is `rsAudioBufferAddFrame`; `BeginWrite`, `SendFrame`, `SendFlush`,
`WritePacket`, `WriteDone` and `WriteFailed` are `rsAudioBufferWrite` and
`audioBufferSendFrame`. The encoder is external: it may hold back `MaxDelay` frames, may
fail at any call, and ends after the flush when it has returned everything. `Capacity`
samples are at least one frame (`FramesFit`). The result of `abuffer.c:142` is cast to
int; the model keeps the exact number, and the two differ only for audio older than 2^31
sample periods. `rsAudioBufferDestroy` is not an action.

### Recorder

`pc` has the place of each thread. Main creates `Resources` in the order of `main.c`
(`Create`, `CreateFailed`; the failure to create the audio thread is tolerated), runs
`While`, the steps of `mainStep`, the poll (`Wanted`, `NotWanted`), and one action per
stage of `mainOutput`; `mainOutputVideo` is the same without the stages and the lock that
concern audio. `SaveFailed` leaves from any of them, as the `goto error`s do. The exit
unsilences, tells the thread to stop, joins it and frees. The audio thread reads a frame,
locks, adds, unlocks. `rsLogSilence` has two steps, `SilenceLock` (which reads the
counter) and `SilenceSet`, so that a missing mutex would show as a lost update.
What the threads do to the two buffers is in the other two modules; here it only counts
who touches them when.

`Signal` is the first SIGINT or SIGTERM, after the handlers are installed; an earlier or
a second one kills the process and is not modelled. `RSAudioThread.running` is a volatile
int (`audio.h:33`) that one thread writes and both read; the model reads it at the loop's test.

### ControlSocket

`path` is the entry of the file system at `RS_COMMAND_CONTROL_PATH`: absent (`Nobody`), the
socket of an instance, or one whose process has died (`Dead`). An instance goes through
`rsCommandControlCreate` (`Start`, `Bind` or `BindFailed`, `Listen` or `ListenFailed`), polls
(`Poll` accepts one connection per save), and destroys the socket in the code's order:
`Remove` then `Close`. `BindFailed` and `ListenFailed` lead to the same destroy, with the path
removed since `bindPath` is already set. `Crash` closes the socket and leaves the path. A
save command is `Press`, then `Connect` or `ConnectFailed`; it ends as soon as the kernel has
queued the connection, so that success says nothing of the save itself (`status`). Removing
a file and closing are the kernel's and cannot fail here. `Service` is the instance that is
started again after every end: `sys/replay-sorcery.service.in` says `Restart=always`; the
others are recorders started by hand.

### KmsProtocol

The service (`pc`) accepts one connection, takes the recorder's two messages, creates its device,
answers with the parameters and sends frames until a send fails or a signal has come; then the
next connection. A recorder's device (`client`) sends its two messages, waits for the
parameters and asks for frames. Every call of `rsSocketSend` and `rsSocketReceive` is an action
of its own, with the message in `toService` or `toClient` in between. A frame is the messages
`pts` and `desc`; a capture that failed is one message, `error`, with no descriptor behind it.
`Passed` is what becomes of the files of a frame: `socket.c:180` copies four bytes, the first one.
A receive from a closed connection succeeds without a message (`socket.c:222`): on the
service's side the name stays empty, which no device accepts (`MustFail`); on the recorder's side the
call returns a blank frame or one without objects (`EndInPts`, `EndInDesc`). A recorder ends where
it cannot go on (`MustLeave`), or anywhere (`Leave`, which stands for its errors, its end and its
crash). `ConnectionFailed` is every failure of the service's calls; with SIGPIPE ignored, as
the service manager has it, a send to a closed connection is one of them.

`Signal` is the first SIGINT or SIGTERM; it interrupts `poll`, and `late` remembers that it
came between the test of `running` and `poll`. `Kill` is a crash or the second signal. The service
is not restarted in the model: its path and its restart are those of `ControlSocket`, since both
use the same functions of `socket.c`. Objects are numbers; files that stay open after a failed
allocation are not counted.

### PulseDevice

The server is external: it answers what it is asked (`Answer`), something happens to it or to
another facility (`Happens`), it removes the sink of the stream (`KillStream`) and quits (`Quit`).
`pulsedev.c:360-362` passes `PA_SUBSCRIPTION_EVENT_SERVER | PA_SUBSCRIPTION_EVENT_CHANGE`, two types of
events, where `pa_context_subscribe` takes a mask. As a mask the value, 0x17 (`SubscriptionMask`), is that of sinks,
sources, sink inputs and modules (`Watched`); the bit of the server, 0x80, is not in it. So
`Happens` sends an event for those four facilities, whatever happened to them, and none for a change of
the default as such. The default may change alone, or as a sink comes or goes.
The callback takes every event for a change of the server, as in the code.
Everything it says is a message in `inbox`, which takes effect when the device's main loop
dispatches it, that is, only while the device waits: for the answer to a query, for the new
stream, for the subscription, or in `Iterate` when there is nothing to read. `Connected`,
`SameSink`, `OtherSink`, `StreamReady`, `Subscribed` are the path through
`rsPulseDeviceCreate` and `pulseDeviceStreamAuto`; `Query`, `FrameRead`, `NothingToRead`, `ReadFailed` are
`pulseDeviceNextFrame`. `QueryLost` is a query on a failed context, where the wait releases a
null operation and the library aborts the process. With a configured source (`auto` false) there is
no query. Samples, their times and the error codes are left out; `data` says that a fragment
can be read.

### Backends

A slot is the structure main keeps for the video device, the encoder, the audio device, the
control and the audio encoder: the backend whose functions it holds, its parameters, the
backend's own data (`extra`), a reference to hardware frames, and whether it is open. `Candidates` are
the choices of `device.c`, `encoder.c`, `control.c`, `adevice.c` and `aencoder.c`, as they depend on
the configuration and on the device. A candidate is created in three stages, `Prepare`, `Fill` and
`Open`, and may fail at each (`NoParams`, `NoExtra`, `OpenFails` and the stages peculiar to X11
and KMS); its error path applies `Destroyed` to the slot as it is at that point, once or, where a
backend is built on FFmpeg's device or encoder, twice. Main goes on to the next slot, to the loop, or
to its cleanup, which destroys every slot. `NullUsed` is where an allocation is used without
being tested (`x11ctrl.c:88`, `svkmsdev.c:108-112`) and the process is killed. Saves create the audio encoder
and release it (`Save`, `Saved`); what they do with it is `AudioRing`.

`extra` tells "null" from "freed", because all destroy functions are safe to call twice only as far as
they clear the slot's pointer. `rsKmsServiceDeviceDestroy` clears a copy (`svkmsdev.c:46`).

### ConfigFile

The buffer of a file is a function from its index, with index 0 for the byte before the
allocation, and every terminator the code writes is a change of it. `ReadLine` is one pass of the
loop over `strtok_r`: cut the comment, trim, split at the first equals sign, trim both sides, set the
option. `LastOf` is the backward search of `configTrim`, which nothing stops at the
string's start; so the byte before the buffer is in the model. `Meaning` is written without the
buffer, as what the code has to agree with: a line is what lies between two line ends, a statement
what is left of a line without its comment and the spaces around it, and of the statements that set
an option the last one counts, the user's file before the global one. Characters are the five the
code tells apart; options have one accepted and one refused form of value, since ranges and
conversions are a table's and the library's. HOME may be unset, an error in the code. A file that
can be opened may be unreadable, and memory may be short for its contents, for the user's path or for
a value (`Stop`): the start ends in a place of its own, `stopped`, since the files are not to blame.

### OutputFile

A path is the sequence of the names between its slashes, so that an absolute one begins with an empty
name (`NoName`). `NameOf` is the format applied to the local time (`now`, which may be set back, as
`localtime` does when summer time ends). `CallCut` is a call of `directoryCreate` that cuts the string
at its last slash; `slash` is the stack of the slashes the calls hold and `nul` the terminators in
the string, two variables because `util.c:55` has to keep them the same. `Mkdir`, `MkdirExists`,
`MkdirParents`, `MkdirMissing` and `MkdirRefused` are mkdir's answers, before and after the recursion;
`Open` empties the file; `Write`, `Close`, `Command`, `WriteFailed` and `Destroy` are the rest of
`output.c`. Others make and remove directories, or files in their place, between any two of these
steps. `content` is the saves whose data are in a file, not the data.

## Runs

| run | instance | shows |
|---|---|---|
| `packet_list` | 5 nodes, times 0..6, GOP 3, reordering 1, window 3; symmetric nodes | see below |
| `packet_list_overflow` | the same with a window of 6 that does not fit an int of -4..3 | violation of `RecentKept` |
| `packet_list_encoder_error` | `packet_list` where the encoder may fail | violation of `NewestListed` |
| `audio_ring` | ring of 4, frames of 1 and 3, gaps, encoder frames of 2, delay 1, 7 samples | see below |
| `recorder` | two waiting requests, lag of 2 | see below |
| `control_socket` | two recorders, three save commands, queue of two, two crashes | see below |
| `control_socket_two` | two recorders, two save commands | violation of `Reachable` |
| `kms_protocol` | two recorders, two messages per connection, two frames of one or two objects | see below |
| `pulse_device` | three sinks, automatic or configured, three messages ahead | see below |
| `backends` | all 1260 configurations | see below |
| `config_file` | every user's file of up to 5 characters and some longer, four global files | see below |
| `output_file` | two recorders, three saves, two seconds, three formats | see below |

`packet_list`: the pointers are sound in every intermediate state (`PointersOK`), the
destroyed buffer has freed every node (`NothingLeaked`), its content is a suffix of what
was accepted, only old packets leave and no old one leads (`WindowKept`, which is
`IsSuffix`, `RecentKept` and `OldEvicted`), a save fails for want of a key-frame only when there is none in the window
(`SaveFailsWithoutKey`), and all of it implements `ReplayWindow` (`WindowSpec`). Seven
times with a window of three let a stream be evicted from twice over and nodes be
recycled, five nodes let malloc run dry, and GOP 3 lets the key-frame leave before the
packets that need it. Deadlock is not checked: a destroyed buffer does nothing.

`audio_ring`: unfilled and filled ring hold the newest samples (`RingHoldsNewest`), no save
gets a used encoder (`EncoderFresh`), the encoder is fed full frames in order
(`FramesInOrder`), samples are placed at the time of their capture when the device
delivered without gap (`SentOnTime`), clips are those of `SampleWindow` (`WindowSpec`),
and the write loop ends (`WriteReturns`). Seven samples wrap a ring of four from every
offset; frames of 1 and 3 wrap inside a frame, and encoder frames of 2 on the reading side.

`recorder`: the audio buffer is used by one thread at a time (`AudioBufferExclusive`),
nothing is freed in use (`NoUseAfterFree`), saves clean up and the command runs for complete
files only (`SaveCleansUp`), the silence counter is right
(`SilenceMatches`), a request is served or the process stops (`PressServed`), the audio
thread gets the mutex back (`AudioResumes`), and a signal ends the process
(`StopsOnSignal`). Two requests are the first number that can pile up and two frames the
first lag that makes the inner loop of `mainStep` turn. Deadlock is checked.

`control_socket`: two instances, two crashes, the queue of two that `listen(fd, 1)` makes on
Linux and three clients, the first number that can find it full. Recorders that
have been alone since their start can be reached (`SoleReachable`), and a save command that
ended with success is served unless its recorder ends (`SaveHonoured`).
After a crash the service's first restart fails on the old path and removes it, and a later one
binds: if from some time on no other recorder runs, the service gets its path back (`Recovers`).
While another recorder runs this does not hold: each can go on removing the other's path, the
behaviour behind the finding.

`kms_protocol`: the next message a recorder gets is of the kind it expects, and a descriptor belongs to
the time before it (`InSync`); a returned frame is the one that was captured, with its first file
(`FramesTrue`); a recorder that waits for its parameters waits only for those before it, and
not for ever once they have gone (`Served`); a signal ends the service (`Stops`). Two recorders are
the first number with one that waits; two messages let a whole frame be under way when an
end comes, and block the sender behind it; two frame numbers tell a frame from the next. Frames
count in a circle, so that the run is unbounded in time. Deadlock is not checked: an ended
service, or one that waits for connections, may do nothing.

`pulse_device`: a device that has acted on every event it was sent knows the default sink
(`InStep`), and it records the default in the end (`FollowsDefault`), if there was a `clue` since the
default changed: the answer to a query, or, once it has subscribed, anything that happened to a sink, a source, a sink
input or a module. A default that changes with no such thing, or between the first answer and the subscription, is
outside of both properties, and in the code it goes unnoticed (see the observations
below). What the properties show is that nothing else is lost: no order of events, queries, answers and new streams makes
the device overlook a change it could have heard of. Both fail with the mask of `EVENT_SERVER` alone, which lacks
modules. Three sinks allow a change to a third while the
stream to the second is made; a stream is known dead or alive, so three messages ahead suffice
for an answer with an event before and behind it. `FollowsDefault` is about a server that comes to rest
and leaves out a device that has given up (`GaveUp`). Deadlock is not checked: the device may be closed.

`backends`: the loop works with what was configured and with what fits together
(`LoopAsConfigured`); when main has ended everything is released, and nothing is freed twice but in
the two cases `ReleasedOnce` names. The module has no constants; all configurations and a failure
at every stage of every candidate are enumerated. Deadlock is not checked: main ends.

`config_file`: the options are what the two files say, and a recorder that is refused was
refused for a line that says nothing good (`AsWritten`), whereas one that is stopped for want of memory or
by a file that cannot be read never starts with part of the options. Five characters make a key, an equals sign and
a value with one space, comment, newline or second sign in every place; the longer files have
several statements. Deadlock is not checked: reading ends.

`output_file`: a save has the directories it needs or fails for a cause, whatever others do at the same
time (`DirectoriesMade`); a replay the command was run for is whole
until a save of the same second (`ReplaysKept`). One format is absolute with directories that differ by
the time, four names deep, so that the recursion goes two levels down and directories are shared in
part; the others are relative, with and without a directory. Three saves are two at the same time and
one more. Deadlock is not checked: the saves are bounded.

### Fairness

`AudioRing`: the write loop runs in a thread nobody blocks (weak fairness of `Encode`);
failing is not required. `Recorder`: both threads are scheduled and every call of a
device, encoder, muxer or command returns (weak fairness of main's and the audio thread's
steps, any of which may be the failing one); the kernel's mutex is not fair, but a thread
that waits on a futex which is released again and again is taken to get it at last (strong
fairness of the four lock actions). That a device returns is an assumption:
`pulseDeviceNextFrame` waits in the sound server's loop without a look at `running`, so a
server that falls silent without an error makes the exit wait in the join. `ControlSocket`:
instances are scheduled and the service is restarted by its manager (weak fairness), a bind that is
possible again and again succeeds at last, and so does listen (strong fairness, since each may
fail for want of memory now and then); nobody has to press a key, stop, crash or start a recorder by
hand. `KmsProtocol`: the service and every recorder are scheduled (weak fairness); steps that have
to fail count as such steps, but no other failure is required, and nobody has to connect, leave,
signal or crash. A recorder asks for frames as long as it lives, which is what main's loop
does. `PulseDevice`: the server answers (strong fairness, as its answers wait for room in
`inbox`), the audio thread goes on calling, and the main loop dispatches what has come even when there
is always data as well (strong fairness of the iteration: `pa_mainloop_iterate` dispatches whatever
is ready). No property of the safety kind uses fairness.

## Findings

* `buffer.c:108`: for `recordSeconds` of 2148 or more (`config.c:67` allows every int) the
  product overflows; when it wraps, packets leave that are not old. Run
  `packet_list_overflow`.
* `main.c:72`: an encoder error other than EAGAIN is taken for a packet. The blank packet
  evicts everything, itself included; `head` dangles, later packets are linked behind it
  where `tail` never leads, and no save succeeds any more. Run `packet_list_encoder_error`.
* `socket.c:83`: `bindPath` is set before bind succeeds. A recorder started beside a running
  one fails to bind, and destroying its socket removes the path of the running one, which
  keeps recording and can no longer be told to save. Run `control_socket_two`. The same
  order of statements is what makes a restart recover from a crash (`Recovers`), so that a
  repair has to tell a dead path from a live one.

Observed while modelling. The models follow the code, and no run is about these alone:

* `audio/aencoder.c:31`: with `audioEncoder = fdk`, a value `sys/replay-sorcery.conf:89-90` offers, the
  aac encoder is created. `LoopAsConfigured` says what holds of the audio encoder.
* `util.c:40`: for a file in the root directory mkdir is given the empty string, before and after a
  recursion that has nothing to do, and the save fails although nothing was refused. `DirectoriesMade`
  is checked for the other paths.
* `svkmsdev.c:46`: a configured `kms_service` device that fails after it has allocated its socket is
  freed by its creation and again by main; so is one tried for `hwaccel` if the KMS device, next
  in line, fails for want of memory before it clears the slot. The exact condition is in `ReleasedOnce`.
* `socket.c:180`: of a frame with several objects only the first file arrives. In place of the others
  the message names descriptor 0 of the service, and the recorder gets duplicates of that.
* `svkmsdev.c:77`: without memory for a frame's references, success is returned with a blank frame.
* `svkmscmd.c:125-140`: one recorder is served at a time; a second one waits in the creation
  of its device until the first has gone.
* `svkmscmd.c:125`: a signal between the test of `running` and `poll` waits for a connection.
* `pulsedev.c:361`: the mask is made of event types and lacks `PA_SUBSCRIPTION_MASK_SERVER`. When the default sink
  changes and nothing happens to a sink, source, sink input or module afterwards, `serverChanged` is not set, and
  the old sink is recorded for as long as that lasts. `pulseDeviceServerChange` and the name of its flag
  say what was meant; no document of the repository promises it, so that no run is about it. Without `clue`
  as a condition TLC refutes `InStep`.
* `pulsedev.c:359`: a change between the first answer and the subscription is noticed only with the next event.
* `pulsedev.c`: the main loop is not run when a read fails, so that a dead stream is noticed and
  replaced only if an event was already seen. When the default returns to the sink of the dead stream,
  `pulseDeviceServerInfo` says EAGAIN and the call blocks in the main loop, where the exit's join
  (`audio.c:96`) waits for it. A query on a failed context aborts the process (`pulsedev.c:116`).
* `config.c:150`: for a file whose first line is blank or a comment, as that of the shipped
  `sys/replay-sorcery.conf`, the byte before the buffer is read; the outcome is not affected.
* `output.c:46-66`: a second save within a second, or in the hour that summer time repeats, empties
  the file of the first. `ReplaysKept` says that nothing else does.
* `audio.c`: if the mutex cannot be created the audio device stays open until the exit.

## Proofs

Every safety property the passing runs check is a theorem, for every value of the constants,
except those of `Backends`; so are the two refinements. Each proof module has
one inductive invariant (`ControlSocketProofs` has two that do not need each other), a lemma per
action or group of actions that keeps it, and theorems that read a property off it. The only
assumptions are the named ones on the constants in the modules themselves, which TLC evaluates
in the runs, and where a theorem needs more it says so as a hypothesis: `Fits`, `BelowRoot` and
`TellsSeconds` below.

**`PacketListProofs`**: for every heap, stream of packets and duration with
`Fits` (the duration in microseconds is an int, up to 2147 s), `Spec` implies
`TypeOK`, `PointersOK`, `NothingLeaked`, `WindowKept`, `SaveFailsWithoutKey` and `WindowSpec`. The
invariant `IInv` adds to the first four that the history holds packets of the encoder and that,
while evicting, the limit is the time of the newest packet less the window (`LimitOK`):
without it the loop's comparison says nothing about `RecentKept`. The list surgery of `Link` and
`Recycle` is done once, in lemmas shared by the actions that use them. `SaveInv` follows a save:
the scan has passed no key-frame, and the file has what lies between the oldest key-frame and
the cursor. With it a failing save has looked at every packet, and a complete one has cut
the window at its oldest key-frame. For the refinement of `ReplayWindow`, `TrimTail` says that the
packet an iteration evicts had left the abstract window before, so that the iteration is
a stutter, and `TrimFresh` that a list whose first packet is recent is the window.
`Fits` is a hypothesis because the code needs it: the overflow run refutes `RecentKept`
without it. The encoder's contract is not used.

**`AudioRingProofs`**: for any capacity, frames and times, `TypeOK`, `RingHoldsNewest`,
`EncoderFresh`, `FramesInOrder`, `SentOnTime` and the refinement of `SampleWindow`. `RingInv` says
without a modulo what is in each slot, before and behind `index`; `ReadFacts` then shows that the reader,
which counts modulo the fill, finds what the writer left, which counts modulo the capacity.
`TimeInv` is the meaning of `endTime`, which a gap breaks; `SentInv` and `FramesInv` say what the
encoder has been given by the place of `wIndex`.

**`RecorderProofs`**: for any bounds, type correctness, mutual exclusion, that the
thread is outlived, that saves end clean, and the silence count. Its invariant has a
part per shared thing: `LockInv` ties the mutex's holder to the threads' places, `LifeInv`
says what exists at each place, `OutputInv` follows the save, `SilenceInv` ties counter,
flags, level and the value read under the silence mutex, and `LagInv` keeps the lag in
its range.

**`ControlSocketProofs`**: for any instances, clients and crashes, `SoleReachable` and `TypeOK`. For
the first, `SoleInv` adds that an instance marked alone has no other that is up (`AloneIsAlone`, so
nobody can bind or remove the path) and that it holds the path from its bind on. For the
second, `QueueInv` adds that a command is in one place of one queue (`Once`): without it, accepting the
first of a queue might leave a second copy of an answered command in another one.

**`KmsProtocolProofs`**: for any recorders, capacity and number of frames, `TypeOK`, `InSync` and `FramesTrue`.
What a recorder gets next is decided in three places, and the invariant ties them together:
`StreamInv` orders the messages under way behind the place of the recorder, `PlaceInv` says by the place of
the service what may be sent behind the last of them, and `BacklogInv` that
nothing has come over a connection that still waits.

**`PulseDeviceProofs`**: for any sinks and number of messages ahead, `TypeOK` (of which the waiting for
an answer is the hard part) and `InStep`. `AskInv` and `AnswerInv` say that there is one question or one answer at a
time and that the device waits where it asked; `InfoInv` that, with a clue, the name in an answer is the default's or
an event comes behind it; `KnowInv` that, with a clue, the device knows the default, is asking, or will hear of an
event. `InStep` is `KnowInv` where nothing is on its way. That the server reports what the clue counts,
the four facilities, is `MaskFacts`, from the bits of the mask the code passes; of a change of the default without
any of these the theorem says nothing, as the code does nothing.

**`OutputFileProofs`**: for any recorders, saves and paths of any depth, `TypeOK`, `DirectoriesMade` and
`ReplaysKept`. `Holds` says which slashes the calls of `rsDirectoryCreate` hold, and that the
string has its terminators at the same places; `Tree` that what exists is in a directory; `Made` that on the
way down the parent is there unless something was removed or refused. `DirectoriesMade` needs `BelowRoot`, that no
file lies in the root directory itself (`util.c:40`, see the observations), and `ReplaysKept` needs
`TellsSeconds`, that a format gives different seconds different names, as the default of
`config.c:133` does (but for an hour that is repeated, which to the format is the same seconds).
The formats of the run satisfy both.

**`ConfigFileProofs`**: for files of any length and any options, `AsWritten`. The assumptions are that
a file has no terminator in it (`FilesAssumption`: what the C library takes for the contents ends
there) and that there is an option (`KeysAssumption`). The code searches a buffer and writes into it,
the meaning takes parts of a file; two lemmas carry one over to the other for a string of any
length: `CutIs` (to end a string at the first `#` or `=` is to take the part up to it) and `TrimIs`
(`configTrim` strips that part, although its backward search is not stopped by the string's start, and
it reads the byte before the buffer only for an empty string with nothing but spaces before it).
`ReadFacts` applies them to one pass of the loop. The invariant says how far the file was read:
behind `next` the buffer is the file still, before it is the terminator of the last line (`Rest`), which
is what stops the backward search in every line but the first; the lines that were read are good,
and the options are those they set (`SetInv`). `DoneLine` and `DoneAll` show that `strtok_r`, which skips
empty lines, passes over no statement.

Only model-checked:

* liveness (`PressServed`, `AudioResumes`, `StopsOnSignal`, `WriteReturns`, `SaveHonoured`,
  `Recovers`, `Served`, `Stops`, `FollowsDefault`), which with ENABLED is beyond the prover;
* `Backends`: it has no constants, and the run enumerates every configuration and failure, so
  that a proof would add nothing to it.

## Plan

What is left to prove, in this order:

1. Steps of the safety kind behind the liveness properties: that a queued command of `ControlSocket` is
   accepted in the order of the queue, and that a recorder's place in the backlog of `KmsProtocol` only moves
   forward.
2. The recorder as a client of the buffers: that the calls `Recorder` makes come in an order that
   `AudioRing` and `PacketList` allow.

## Not modelled

* `util.c` except for `rsDirectoryCreate`: formatting, copies and sizes. Each is a pure function, whose
  success or failure the modules that call it take as a choice.
* The events of the X11 control and the stdin of the debugging control: what they come to, a
  request to save, is `Wanted` and `Press`.
* `kmscmd.c` and `mainCommand`: output and the choice of a command, without state.
* The expansion of `~` and of a format: what `OutputFile` knows is the path that comes of it.
* The option tables of `config.c`, and the options and filters of devices and encoders: data
  that is handed to a library.
* What libav, X11, DRM and PulseAudio do inside; logging and backtraces; build files and
  service units, except for the restart they ask for.
