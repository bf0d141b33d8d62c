----------------------------- MODULE PulseDevice -----------------------------
(***************************************************************************)
(* The PulseAudio device (audio/pulsedev.c) and the sound server, which is *)
(* external.  With audioDevice = auto the device records the monitor of    *)
(* the default sink, subscribes to events and asks for the default again   *)
(* after any of them.  The mask it subscribes with is made of event types: *)
(* it admits the events of sinks, sources, sink inputs and modules, but    *)
(* not those of the server, of which a change of the default is one.       *)
(* Every answer and event is one message on the context's connection and   *)
(* takes effect when the main loop dispatches it; the device runs the loop *)
(* only while it waits.                                                    *)
(***************************************************************************)
EXTENDS Naturals, SequencesExt

CONSTANTS
    Sinks,     \* sinks of the sound server
    NoSink,    \* pulse->sink is NULL; and the target of a configured source
    Automatic, \* the settings of audioDevice: subset of {TRUE, FALSE}, TRUE for auto
    MaxInbox   \* bound on the messages the server sends ahead

ASSUME SinkAssumption == NoSink \notin Sinks
ASSUME BoundAssumption == Automatic \subseteq BOOLEAN /\ MaxInbox \in Nat \ {0}

VARIABLES
    \* the sound server
    default,       \* its default sink
    mask,          \* the bits of the facilities whose events it reports to the device
    request,       \* what the device has asked for
    gone,          \* it has closed the connection
    inbox,         \* messages the device has not dispatched
    clue,          \* history: since the default changed, it was the answer to a query, or
                   \* something happened of which the device is meant to hear
    \* the device
    auto,          \* audioDevice is auto
    pc,            \* where it is
    created,       \* rsPulseDeviceCreate has returned success
    lost,          \* its context has failed
    stream,        \* its stream: what it records, and its state
    sink,          \* pulse->sink
    serverChanged, \* pulse->serverChanged
    data           \* its stream has a fragment to read

server == <<default, mask, request, gone, clue>>
state == <<auto, pc, created, lost, stream, sink, serverChanged, data>>
vars == <<server, inbox, state>>

NoStream == [target |-> NoSink, state |-> "none"]

Init ==
    /\ default \in Sinks /\ mask = 0 /\ request = "none" /\ gone = FALSE
    /\ inbox = <<>> /\ clue = TRUE
    /\ auto \in Automatic /\ pc = "connect" /\ created = FALSE /\ lost = FALSE
    /\ stream = NoStream /\ sink = NoSink /\ serverChanged = FALSE /\ data = FALSE

-----------------------------------------------------------------------------
(* The sound server.                                                       *)

Message(kind) == [kind |-> kind, sink |-> NoSink]
Sent(message) == inbox' = Append(inbox, message)

\* The facilities an event may be of, by their bits in a mask of libpulse, and the
\* events the device names.
MASK_SINK == 1
MASK_SOURCE == 2
MASK_SINK_INPUT == 4
MASK_MODULE == 16
MASK_SERVER == 128
Facility ==  \* with source outputs, clients, samples and cards
    {MASK_SINK, MASK_SOURCE, MASK_SINK_INPUT, MASK_MODULE, MASK_SERVER} \cup {8, 32, 64, 512}
EVENT_SERVER == 7
EVENT_CHANGE == 16

Admits(bits, facility) == (bits \div facility) % 2 = 1

ChangeForgotten == EVENT_SERVER     \* mutant: of the two events only the first

\* The mask is EVENT_SERVER | EVENT_CHANGE, two types of events with no common bit: as
\* a mask, sinks, sources, sink inputs and modules.
SubscriptionMask == EVENT_SERVER + EVENT_CHANGE
Watched == {MASK_SINK, MASK_SOURCE, MASK_SINK_INPUT, MASK_MODULE}

\* An answer is as old as its message: the default may change behind it.
Answer ==
    /\ ~ gone
    /\ request # "none"
    /\ Len(inbox) < MaxInbox
    /\ request' = "none"
    /\ mask' = (IF request = "subscribe" THEN SubscriptionMask ELSE mask)
    /\ clue' = (clue \/ request = "info")
    /\ \/ request = "info" /\ Sent([kind |-> "info", sink |-> default])
       \/ request = "stream" /\ (Sent(Message("ready")) \/ Sent(Message("failed")))
       \/ request = "subscribe" /\ Sent(Message("subscribed"))
    /\ UNCHANGED <<default, gone, state>>

\* Something happens to a facility, such as a module that is loaded.  Another sink
\* becomes the default of the server on demand, or because a sink came or went.
Happens(facility) ==
    /\ ~ gone
    /\ Len(inbox) < MaxInbox
    /\ default' \in (IF facility \in {MASK_SERVER, MASK_SINK} THEN Sinks ELSE {default})
    /\ IF Admits(mask, facility) THEN Sent(Message("event")) ELSE UNCHANGED inbox
    /\ clue' = (IF mask # 0 /\ facility \in Watched THEN TRUE ELSE clue /\ default' = default)
    /\ UNCHANGED <<mask, request, gone, state>>

\* The sink of the stream is removed.
KillStream ==
    /\ ~ gone
    /\ Len(inbox) < MaxInbox
    /\ stream.state = "ready" /\ request # "stream"
    /\ \A k \in DOMAIN inbox : inbox[k].kind # "killed"
    /\ Sent(Message("killed"))
    /\ UNCHANGED <<server, state>>

Quit ==
    /\ ~ gone
    /\ Len(inbox) < MaxInbox
    /\ gone' = TRUE
    /\ Sent(Message("lost"))
    /\ UNCHANGED <<default, mask, request, clue, state>>

-----------------------------------------------------------------------------
\* Steps of the device that only go on.
Step(from, to) ==
    /\ pc = from
    /\ pc' = to
    /\ UNCHANGED <<server, inbox, auto, created, lost, stream, sink, serverChanged, data>>

(* Waiting for the server: pulseDeviceIterate dispatches a message.        *)

NextIs(kind) == inbox # <<>> /\ Head(inbox).kind = kind
Dispatched == inbox' = Tail(inbox)

\* A failed step ends rsPulseDeviceCreate, with the device destroyed, or the call
\* of pulseDeviceNextFrame.
AfterFailureIdle == "idle"          \* mutant: rsPulseDeviceCreate ignores the failure
AfterFailure == IF created THEN "idle" ELSE "closed"

SeenBetween == pc \notin {"info", "stream"} \* mutant: the flag is cleared after the query
Seen == TRUE

\* pulseDeviceServerChange, in whichever loop it is dispatched, and whatever the event.
ServerChange ==
    /\ NextIs("event")
    /\ Dispatched
    /\ serverChanged' = (serverChanged \/ Seen)
    /\ UNCHANGED <<lost, stream>>

StreamKilled ==
    /\ NextIs("killed")
    /\ Dispatched
    /\ stream' = [stream EXCEPT !.state = "failed"]
    /\ UNCHANGED <<lost, serverChanged>>

\* The context fails, with its streams and operations.
ContextLost ==
    /\ NextIs("lost")
    /\ Dispatched
    /\ lost' = TRUE
    /\ stream' = [stream EXCEPT !.state = IF @ = "none" THEN @ ELSE "failed"]
    /\ UNCHANGED serverChanged

\* An event while the device waits for an answer.
Event ==
    /\ pc \in {"info", "stream", "subscribe"}
    /\ ServerChange \/ StreamKilled
    /\ UNCHANGED <<server, auto, pc, created, lost, sink, data>>

WaitLost ==
    /\ pc \in {"info", "stream", "subscribe"}
    /\ ContextLost
    /\ pc' = AfterFailure
    /\ UNCHANGED <<server, auto, created, sink, data>>

-----------------------------------------------------------------------------
(* Creating the stream.                                                    *)

\* The messages of a connection but the one about the end of the stream, if any.
Deaf(queue) ==
    LET killed == {k \in DOMAIN queue : queue[k].kind = "killed"}
    IN  IF killed = {} THEN queue ELSE RemoveAt(queue, CHOOSE k \in killed : TRUE)

\* pulseDeviceStreamCreate destroys the old stream, deaf to messages about it.
StreamCreate(target) ==
    /\ stream' = [target |-> target, state |-> "creating"]
    /\ inbox' = Deaf(Tail(inbox))
    /\ request' = "stream"
    /\ data' = FALSE
    /\ pc' = "stream"

\* pulseDeviceServerInfo: the default is the one it was.
SameSink ==
    /\ pc = "info"
    /\ NextIs("info") /\ Head(inbox).sink = sink
    /\ Dispatched
    /\ pc' = "iterate"
    /\ UNCHANGED <<server, auto, created, lost, stream, sink, serverChanged, data>>

\* pulseDeviceServerInfo, and pulseDeviceStreamAuto goes on with the new stream.
OtherSink ==
    /\ pc = "info"
    /\ NextIs("info") /\ Head(inbox).sink # sink
    /\ sink' = Head(inbox).sink
    /\ StreamCreate(sink')
    /\ UNCHANGED <<default, mask, gone, clue, auto, created, lost, serverChanged>>

\* The name cannot be copied, or the source's cannot be formatted.
OtherSinkNoMemory ==
    /\ pc = "info"
    /\ NextIs("info") /\ Head(inbox).sink # sink
    /\ sink' \in {NoSink, Head(inbox).sink}
    /\ Dispatched
    /\ pc' = AfterFailure
    /\ UNCHANGED <<server, auto, created, lost, stream, serverChanged, data>>

StreamReady ==
    /\ pc = "stream"
    /\ NextIs("ready")
    /\ Dispatched
    /\ stream' = [stream EXCEPT !.state = "ready"]
    /\ IF created \/ ~ auto
       THEN pc' = (IF created THEN "read" ELSE "idle") /\ UNCHANGED request
       ELSE pc' = "subscribe" /\ request' = "subscribe"
    /\ created' = (created \/ ~ auto)
    /\ UNCHANGED <<default, mask, gone, clue, auto, lost, sink, serverChanged, data>>

StreamFailed ==
    /\ pc = "stream"
    /\ NextIs("failed")
    /\ Dispatched
    /\ stream' = [stream EXCEPT !.state = "failed"]
    /\ pc' = AfterFailure
    /\ UNCHANGED <<server, auto, created, lost, sink, serverChanged, data>>

-----------------------------------------------------------------------------
(* rsPulseDeviceCreate and pulseDeviceDestroy.                             *)

\* The context is ready: the default is asked for, or the stream is made.
Connected ==
    /\ pc = "connect"
    /\ ~ gone
    /\ IF auto
       THEN pc' = "info" /\ request' = "info" /\ UNCHANGED stream
       ELSE pc' = "stream" /\ request' = "stream"
            /\ stream' = [target |-> NoSink, state |-> "creating"]
    /\ UNCHANGED <<default, mask, gone, clue, inbox, auto, created, lost, sink, serverChanged, data>>

ConnectFailed == Step("connect", "closed")

Subscribed ==
    /\ pc = "subscribe"
    /\ NextIs("subscribed")
    /\ Dispatched
    /\ pc' = "idle"
    /\ created' = TRUE
    /\ UNCHANGED <<server, auto, lost, stream, sink, serverChanged, data>>

Destroy == Step("idle", "closed")

-----------------------------------------------------------------------------
(* pulseDeviceNextFrame and pulseDeviceRead.                               *)

Call == Step("idle", "read")

\* The server has changed: pulseDeviceStreamAuto.  The flag is cleared first.
Query ==
    /\ pc = "read"
    /\ serverChanged /\ ~ lost
    /\ serverChanged' = FALSE
    /\ pc' = "info"
    /\ request' = "info"
    /\ UNCHANGED <<default, mask, gone, clue, inbox, auto, created, lost, stream, sink, data>>

\* On a failed context there is no operation, and pulseDeviceWait releases NULL,
\* for which the library aborts the process.
QueryLost ==
    /\ pc = "read"
    /\ serverChanged /\ lost
    /\ serverChanged' = FALSE
    /\ pc' = "aborted"
    /\ UNCHANGED <<server, inbox, auto, created, lost, stream, sink, data>>

FrameRead ==
    /\ pc = "read"
    /\ ~ serverChanged
    /\ stream.state = "ready" /\ data
    /\ data' = FALSE
    /\ pc' = "idle"
    /\ UNCHANGED <<server, inbox, auto, created, lost, stream, sink, serverChanged>>

NothingToRead == ~ serverChanged /\ stream.state = "ready" /\ ~ data /\ Step("read", "iterate")

\* pa_stream_peek fails: the call ends, and the main loop is not run.
ReadFailed == ~ serverChanged /\ stream.state # "ready" /\ Step("read", "idle")

DataArrives ==
    /\ pc = "iterate"
    /\ stream.state = "ready"
    /\ data' = TRUE
    /\ pc' = "read"
    /\ UNCHANGED <<server, inbox, auto, created, lost, stream, sink, serverChanged>>

\* One iteration may dispatch several messages.
Iterate ==
    /\ pc = "iterate"
    /\ ServerChange \/ StreamKilled \/ ContextLost
    /\ pc' = "read" \/ (pc' = "iterate" /\ inbox' # <<>>)
    /\ UNCHANGED <<server, auto, created, sink, data>>

-----------------------------------------------------------------------------
Server == Answer \/ (\E facility \in Facility : Happens(facility)) \/ KillStream \/ Quit

Wait ==
    \/ Event \/ WaitLost \/ SameSink \/ OtherSink \/ OtherSinkNoMemory
    \/ StreamReady \/ StreamFailed \/ Subscribed

Device ==
    \/ Connected \/ ConnectFailed \/ Wait
    \/ Call \/ Query \/ QueryLost \/ FrameRead \/ NothingToRead \/ ReadFailed
    \/ DataArrives \/ Iterate

Next == Server \/ Device \/ Destroy

(***************************************************************************)
(* The server answers; the audio thread goes on calling, and the main loop *)
(* dispatches what has come, whether or not there is data as well.  Nobody *)
(* has to change, remove or quit anything.                                 *)
(***************************************************************************)
Fairness ==
    /\ SF_vars(Answer)
    /\ WF_vars(Device)
    /\ SF_vars(Iterate /\ pc' = "read")

Spec == Init /\ [][Next]_vars /\ Fairness

-----------------------------------------------------------------------------
MessageKind == {"info", "ready", "failed", "subscribed", "event", "killed", "lost"}

\* Every variable has a value of its type, and the device waits for an answer
\* exactly while one is asked for or under way, or the server has gone.
TypeOK ==
    /\ default \in Sinks /\ sink \in Sinks \cup {NoSink}
    /\ request \in {"none", "info", "stream", "subscribe"}
    /\ mask \in {0, SubscriptionMask} /\ gone \in BOOLEAN /\ clue \in BOOLEAN
    /\ inbox \in Seq([kind : MessageKind, sink : Sinks \cup {NoSink}]) /\ Len(inbox) <= MaxInbox
    /\ auto \in Automatic /\ created \in BOOLEAN /\ lost \in BOOLEAN
    /\ serverChanged \in BOOLEAN /\ data \in BOOLEAN
    /\ stream \in [target : Sinks \cup {NoSink}, state : {"none", "creating", "ready", "failed"}]
    /\ pc \in {"connect", "info", "stream", "subscribe", "idle", "read", "iterate", "closed", "aborted"}
    /\ ~ gone /\ request # "none" => pc = request
    /\ pc \in {"idle", "read", "iterate"} => created
    /\ pc \in {"info", "stream", "subscribe"} =>
          \/ request = pc
          \/ \E k \in DOMAIN inbox : inbox[k].kind \in {"info", "ready", "failed", "subscribed", "lost"}

EventSent == \E k \in DOMAIN inbox : inbox[k].kind = "event"
EventComes == serverChanged \/ EventSent

\* A connected device knows the default sink, or no sink for want of memory, if since
\* the default changed it was the answer to a query or, with the device subscribed,
\* anything happened to a sink, a source, a sink input or a module, at whatever moment
\* between a query, its answer and the new stream, and no event is left to act on
\* (pulsedev.c:246-251, 175-181, 214-222, 359-365).  Of a change of the default with
\* which nothing else happens it says nothing: the mask lacks the server's bit.
InStep ==
    auto /\ pc \in {"idle", "read", "iterate"} /\ clue /\ ~ lost /\ ~ EventComes =>
        sink \in {default, NoSink}

\* The device has given up.  No stream is ready for the sink it knows, and nothing
\* makes it look for one: a read that fails does not run the main loop, and in the
\* main loop, where EAGAIN for the same sink leads with a dead stream, it blocks.
GaveUp ==
    /\ auto
    /\ stream # [target |-> sink, state |-> "ready"]
    /\ (pc = "idle" /\ ~ serverChanged) \/ (pc = "iterate" /\ inbox = <<>>)

\* When the server comes to rest, its default sink is recorded in the end, whatever
\* the changes before, if with or after the last one a query is answered or something
\* happens to a sink, a source, a sink input or a module, and the device did not give
\* up (pulsedev.c:194-222, 244-299, 359-365).  A change alone need not be followed.
FollowsDefault ==
    \A s \in Sinks :
        /\ <>[](default = s /\ clue /\ ~ EventSent)
        /\ [](auto /\ pc # "closed" /\ ~ gone /\ ~ GaveUp)
        => <>[](stream = [target |-> s, state |-> "ready"])
=============================================================================
