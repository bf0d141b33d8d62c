----------------------------- MODULE KmsProtocol -----------------------------
(***************************************************************************)
(* The KMS service (command/svkmscmd.c), which captures frames with the    *)
(* rights it needs, and the devices of the recorders that connect to it    *)
(* (device/svkmsdev.c), over the messages of socket.c.  The service serves *)
(* one connection at a time.  A frame is two messages: its time, and its   *)
(* descriptor with the files of its objects.                               *)
(***************************************************************************)
EXTENDS Naturals, Sequences

CONSTANTS
    Clients,   \* connections recorders may make, each of them once
    Nobody,    \* no connection is being served
    Capacity,  \* messages a connection holds before a send blocks
    Backlog,   \* connections the kernel queues for accept
    Frames,    \* frames are numbered from 1 and, after Frames, from 1 again
    Objects    \* numbers of objects a frame may have

ASSUME NobodyAssumption == Nobody \notin Clients
ASSUME BoundAssumption ==
    Capacity \in Nat \ {0} /\ Backlog \in Nat \ {0} /\ Frames \in Nat \ {0} /\ Objects \subseteq Nat \ {0}

VARIABLES
    pc,        \* where the service is
    running,   \* the service's flag, cleared by the signal handler
    late,      \* history: the signal came between the test of running and poll
    conn,      \* the connection it serves
    named,     \* deviceName has been received
    frame,     \* number of the frame its device returned last
    backlog,   \* connections it has not accepted
    client,    \* where each recorder is in the life of its device
    toService, toClient, \* messages under way on each connection
    hungUp,    \* the service's end of the connection is closed
    pts,       \* the time each recorder has received the descriptor for
    shown      \* what each recorder's nextFrame returned last

service == <<pc, running, late, conn, named, frame, backlog>>
peers == <<client, toService, pts, shown>>
vars == <<service, peers, toClient, hungUp>>

NoFrame == [result |-> "none", pts |-> 0, frame |-> 0, files |-> <<>>]
Result(r) == [NoFrame EXCEPT !.result = r]

Init ==
    /\ pc = "test" /\ running = TRUE /\ late = FALSE
    /\ conn = Nobody /\ named = FALSE /\ frame = 1
    /\ backlog = <<>>
    /\ client = [c \in Clients |-> "idle"]
    /\ toService = [c \in Clients |-> <<>>]
    /\ toClient = [c \in Clients |-> <<>>]
    /\ hungUp = [c \in Clients |-> FALSE]
    /\ pts = [c \in Clients |-> 0]
    /\ shown = [c \in Clients |-> NoFrame]

-----------------------------------------------------------------------------
(* socket.c                                                                *)

Message(kind, n, files) == [kind |-> kind, frame |-> n, files |-> files]

PassedNone(n, objects) == [k \in 1..objects |-> 0]  \* mutant: no descriptor is copied

\* rsSocketSend copies the first of the descriptors.  The others are what is in
\* the connection's buffer, zeros: duplicates of the service's standard input.
Passed(n, objects) == [k \in 1..objects |-> IF k = 1 THEN n ELSE 0]

SendUnbounded(c, message) ==        \* mutant: messages are queued without limit
    /\ client[c] # "gone"
    /\ toClient' = [toClient EXCEPT ![c] = Append(@, message)]

\* A send blocks while the connection is full ...
SendTo(c, message) ==
    /\ client[c] # "gone"
    /\ Len(toClient[c]) < Capacity
    /\ toClient' = [toClient EXCEPT ![c] = Append(@, message)]

\* ... and a receive while it is empty and the other end is open.  The end of the
\* connection is no error, and leaves the receiver's buffer as it is.
AtEnd(c) ==
    /\ hungUp[c] /\ toClient[c] = <<>>
    /\ UNCHANGED <<service, toService, toClient, hungUp>>

-----------------------------------------------------------------------------
(* The service.                                                            *)

\* The process ends, and with it its connections, accepted or not.
Exit ==
    /\ pc' = "exited"
    /\ conn' = Nobody
    /\ named' = FALSE
    /\ frame' = 1
    /\ backlog' = <<>>
    /\ hungUp' = [c \in Clients |-> TRUE]
    /\ toService' = [c \in Clients |-> <<>>]
    /\ UNCHANGED <<late, client, pts, shown, toClient>>

Step(from, to) ==
    /\ pc = from
    /\ pc' = to
    /\ UNCHANGED <<running, late, conn, named, frame, backlog, peers, toClient, hungUp>>

\* while (running)
Test == running /\ Step("test", "calling")

TestFailed == pc = "test" /\ ~ running /\ Exit /\ UNCHANGED running

Call == Step("calling", "poll")

Accept ==
    /\ pc = "poll"
    /\ backlog # <<>>
    /\ pc' = "info"
    /\ conn' = Head(backlog)
    /\ backlog' = Tail(backlog)
    /\ UNCHANGED <<running, late, named, frame, peers, toClient, hungUp>>

\* poll or accept fails: the service ends.
AcceptFailed == pc = "poll" /\ Exit /\ UNCHANGED running

ArrivedMessage == toService[conn] # <<>>   \* mutant: an empty receive is repeated

\* A message of the client's, or the end of the connection, which passes for one.
Arrived == toService[conn] # <<>> \/ client[conn] = "gone"
Taken == toService' = [toService EXCEPT ![conn] = IF @ = <<>> THEN @ ELSE Tail(@)]

ReceiveInfo ==
    /\ pc = "info"
    /\ Arrived /\ Taken
    /\ pc' = "name"
    /\ UNCHANGED <<running, late, conn, named, frame, backlog, client, pts, shown, toClient, hungUp>>

\* Without a message the name stays empty.
ReceiveName ==
    /\ pc = "name"
    /\ Arrived /\ Taken
    /\ named' = (toService[conn] # <<>>)
    /\ pc' = "device"
    /\ UNCHANGED <<running, late, conn, frame, backlog, client, pts, shown, toClient, hungUp>>

\* rsKmsDeviceCreate: an empty name is neither "auto" nor a card and a plane.
CreateDevice == named /\ Step("device", "params")

SendStep(from, to, message) ==
    /\ pc = from
    /\ SendTo(conn, message)
    /\ pc' = to
    /\ UNCHANGED <<running, late, conn, named, frame, backlog, peers, hungUp>>

SendParams == SendStep("params", "while", Message("params", 0, <<0>>))

LoopEnd == ~ running /\ Step("while", "end")

Grab ==
    /\ pc = "while"
    /\ running
    /\ pc' = "pts"
    /\ frame' = (frame % Frames) + 1
    /\ UNCHANGED <<running, late, conn, named, backlog, peers, toClient, hungUp>>

GrabFailed == running /\ Step("while", "error")

SendPts == SendStep("pts", "desc", Message("pts", frame, <<>>))

ErrorThenDesc == "desc"             \* mutant: the continue is missing
AfterError == "while"

\* The time of a failed frame is the error, and no descriptor follows.
SendError == SendStep("error", AfterError, Message("error", 0, <<>>))

SendDesc == \E n \in Objects : SendStep("desc", "while", Message("desc", frame, Passed(frame, n)))

\* Memory, a receive, the device or a send fails; a send to a closed connection
\* has to, and the device without a name.  (The service manager has SIGPIPE ignored.)
ConnectionFailed ==
    /\ pc \in {"info", "name", "device", "params", "pts", "error", "desc"}
    /\ Step(pc, "end")

MustFail ==
    \/ pc = "device" /\ ~ named
    \/ pc \in {"params", "pts", "error", "desc"} /\ client[conn] = "gone"

\* The end of kmsConnection, and rsSocketDestroy(&conn).
EndConnection ==
    /\ pc = "end"
    /\ pc' = "test"
    /\ conn' = Nobody
    /\ named' = FALSE
    /\ frame' = 1
    /\ hungUp' = [hungUp EXCEPT ![conn] = TRUE]
    /\ toService' = [toService EXCEPT ![conn] = <<>>]
    /\ UNCHANGED <<running, late, backlog, client, pts, shown, toClient>>

PollAgain == "poll"                 \* mutant: rsSocketAccept retries after EINTR
AfterInterrupt == "test"

\* The first signal.  It interrupts poll; a blocked send or receive goes on.
Signal ==
    /\ running
    /\ pc # "exited"
    /\ running' = FALSE
    /\ late' = (pc = "calling")
    /\ pc' = IF pc = "poll" THEN AfterInterrupt ELSE pc
    /\ UNCHANGED <<conn, named, frame, backlog, peers, toClient, hungUp>>

\* A crash, or the second signal, for which the handler restored the default.
Kill == pc # "exited" /\ Exit /\ UNCHANGED running

-----------------------------------------------------------------------------
(* A recorder's device.                                                    *)

Connect(c) ==
    /\ client[c] = "idle"
    /\ pc # "exited"
    /\ Len(backlog) < Backlog
    /\ backlog' = Append(backlog, c)
    /\ client' = [client EXCEPT ![c] = "info"]
    /\ UNCHANGED <<pc, running, late, conn, named, frame, toService, pts, shown, toClient, hungUp>>

Send(c, from, to) ==
    /\ client[c] = from
    /\ ~ hungUp[c]
    /\ client' = [client EXCEPT ![c] = to]
    /\ toService' = [toService EXCEPT ![c] = Append(@, from)]
    /\ UNCHANGED <<service, pts, shown, toClient, hungUp>>

SendInfo(c) == Send(c, "info", "name")
SendName(c) == Send(c, "name", "params")

Receive(c) ==
    /\ toClient[c] # <<>>
    /\ toClient' = [toClient EXCEPT ![c] = Tail(@)]
    /\ UNCHANGED <<service, toService, hungUp>>

ReceiveParams(c) ==
    /\ client[c] = "params"
    /\ Receive(c)
    /\ client' = [client EXCEPT ![c] = "ready"]
    /\ UNCHANGED <<pts, shown>>

\* kmsServiceDeviceNextFrame.
NextFrame(c) ==
    /\ client[c] = "ready"
    /\ client' = [client EXCEPT ![c] = "pts"]
    /\ shown' = [shown EXCEPT ![c] = NoFrame]
    /\ UNCHANGED <<service, toService, pts, toClient, hungUp>>

Returned(c, result) ==
    /\ client' = [client EXCEPT ![c] = "ready"]
    /\ shown' = [shown EXCEPT ![c] = result]
    /\ pts' = [pts EXCEPT ![c] = 0]

\* The descriptor cannot be allocated: nothing is received.
NoMemory(c) ==
    /\ client[c] = "ready"
    /\ Returned(c, Result("error"))
    /\ UNCHANGED <<service, toService, toClient, hungUp>>

ReceivePts(c) ==
    /\ client[c] = "pts"
    /\ Receive(c)
    /\ Head(toClient[c]).kind # "error"
    /\ client' = [client EXCEPT ![c] = "desc"]
    /\ pts' = [pts EXCEPT ![c] = Head(toClient[c]).frame]
    /\ UNCHANGED shown

ReceiveError(c) ==
    /\ client[c] = "pts"
    /\ Receive(c)
    /\ Head(toClient[c]).kind = "error"
    /\ Returned(c, Result("error"))

ReceiveDesc(c) ==
    /\ client[c] = "desc"
    /\ Receive(c)
    /\ Returned(c, [result |-> "frame", pts |-> pts[c],
                    frame |-> Head(toClient[c]).frame, files |-> Head(toClient[c]).files])

\* Nor can the references of the frame: both messages are gone, the files stay
\* open, and the blank frame is returned as success.
ReceiveNoMemory(c) == client[c] = "desc" /\ Receive(c) /\ Returned(c, Result("blank"))

\* At the end of the connection there is still AV_NOPTS_VALUE in pts, negative
\* and 0 as an int: the blank frame is returned as success ...
EndInPts(c) == client[c] = "pts" /\ AtEnd(c) /\ Returned(c, Result("blank"))

\* ... and the zeroed descriptor, one of no objects, is returned with the time.
EndInDesc(c) ==
    client[c] = "desc" /\ AtEnd(c) /\ Returned(c, [Result("empty") EXCEPT !.pts = pts[c]])

\* A call fails, the recorder ends or it crashes; it has to leave when it cannot
\* send, or when zeroed parameters, of no width, have come.
Leave(c) ==
    /\ client[c] \notin {"idle", "gone"}
    /\ client' = [client EXCEPT ![c] = "gone"]
    /\ toClient' = [toClient EXCEPT ![c] = <<>>]
    /\ pts' = [pts EXCEPT ![c] = 0]
    /\ shown' = [shown EXCEPT ![c] = NoFrame]
    /\ UNCHANGED <<service, toService, hungUp>>

MustLeave(c) ==
    \/ client[c] \in {"info", "name"} /\ hungUp[c]
    \/ client[c] = "params" /\ hungUp[c] /\ toClient[c] = <<>>

-----------------------------------------------------------------------------
Service ==
    \/ Test \/ TestFailed \/ Call \/ Accept
    \/ ReceiveInfo \/ ReceiveName \/ CreateDevice \/ SendParams
    \/ LoopEnd \/ Grab \/ GrabFailed \/ SendPts \/ SendError \/ SendDesc
    \/ (MustFail /\ ConnectionFailed) \/ EndConnection

Device(c) ==
    \/ SendInfo(c) \/ SendName(c) \/ ReceiveParams(c)
    \/ NextFrame(c) \/ NoMemory(c) \/ ReceivePts(c) \/ ReceiveError(c)
    \/ ReceiveDesc(c) \/ ReceiveNoMemory(c) \/ EndInPts(c) \/ EndInDesc(c)

Next ==
    \/ Service \/ ConnectionFailed \/ AcceptFailed \/ Signal \/ Kill
    \/ \E c \in Clients : Connect(c) \/ Device(c) \/ Leave(c)

(***************************************************************************)
(* The service and the recorders are scheduled, and a recorder's main loop *)
(* goes on asking for frames.  No call has to fail that can succeed, and   *)
(* nobody has to connect, leave, signal or crash.                          *)
(***************************************************************************)
Fairness ==
    /\ WF_vars(Service)
    /\ \A c \in Clients : WF_vars(Device(c) \/ (MustLeave(c) /\ Leave(c)))

Spec == Init /\ [][Next]_vars /\ Fairness

-----------------------------------------------------------------------------
Number == 0..Frames
MessageKind == {"params", "pts", "error", "desc"}

\* Every variable has a value of its type, no connection holds more than it can,
\* and the service serves a connection exactly between accept and its end.
TypeOK ==
    /\ pc \in {"test", "calling", "poll", "info", "name", "device", "params", "while",
               "pts", "error", "desc", "end", "exited"}
    /\ running \in BOOLEAN /\ late \in BOOLEAN /\ named \in BOOLEAN
    /\ frame \in 1..Frames
    /\ conn \in Clients \cup {Nobody}
    /\ pc \in {"test", "calling", "poll", "exited"} => conn = Nobody
    /\ pc \notin {"test", "calling", "poll", "exited"} => conn \in Clients
    /\ backlog \in Seq(Clients) /\ Len(backlog) <= Backlog
    /\ client \in [Clients -> {"idle", "info", "name", "params", "ready", "pts", "desc", "gone"}]
    /\ toService \in [Clients -> Seq({"info", "name"})]
    /\ toClient \in [Clients -> Seq([kind : MessageKind, frame : Number, files : Seq(Number)])]
    /\ \A c \in Clients : Len(toClient[c]) <= Capacity
    /\ hungUp \in [Clients -> BOOLEAN]
    /\ pts \in [Clients -> Number]
    /\ shown \in [Clients -> [result : {"none", "error", "blank", "empty", "frame"},
                              pts : Number, frame : Number, files : Seq(Number)]]

\* The messages a client in place p may get next, and those that follow a message.
Awaited(p) ==
    IF p \in {"ready", "pts"} THEN {"pts", "error"}
    ELSE IF p = "desc" THEN {"desc"} ELSE {"params"}
Following(m) == IF m.kind = "pts" THEN {"desc"} ELSE {"pts", "error"}

\* Through failed captures, failed allocations and ends of either side, a recorder
\* never takes a descriptor for a time or for another frame's descriptor
\* (svkmscmd.c:74-98 against svkmsdev.c:54-70).
InSync ==
    \A c \in Clients : LET q == toClient[c] IN
        /\ q # <<>> => q[1].kind \in Awaited(client[c])
        /\ \A k \in 2..Len(q) : /\ q[k].kind \in Following(q[k - 1])
                                /\ q[k].kind = "desc" => q[k].frame = q[k - 1].frame

\* A frame the device returns has the time and the first file of one and the same
\* captured frame (svkmsdev.c:72-91).
FramesTrue ==
    \A c \in Clients : shown[c].result = "frame" =>
        /\ shown[c].frame = shown[c].pts
        /\ shown[c].files # <<>> /\ shown[c].files[1] = shown[c].pts

\* A recorder that waits in rsKmsServiceDeviceCreate waits only for those that are
\* served before it: once the others have gone, however and whenever they went, the
\* service comes to it or its connection ends (svkmscmd.c:125-140).
Served ==
    \A c \in Clients :
        [](client[c] = "params" /\ <>[](\A d \in Clients \ {c} : client[d] \in {"idle", "gone"})
              => <>(client[c] # "params"))

\* A signal ends the service, unless it comes between the test of running and poll:
\* then the next connection does (svkmscmd.c:125-134).
Stops == ~ running /\ (~ late \/ conn # Nobody) ~> pc = "exited"
=============================================================================
