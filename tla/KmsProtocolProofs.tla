-------------------------- MODULE KmsProtocolProofs --------------------------
(***************************************************************************)
(* Theorems about KmsProtocol for any recorders, any capacity of their     *)
(* connections and any number of frames.  What a recorder gets next is not *)
(* decided in one place: it follows from where the recorder is, from what  *)
(* is under way to it, and from where the service is.  The invariant ties  *)
(* the three together.                                                     *)
(***************************************************************************)
EXTENDS KmsProtocol, Integers, SequenceTheorems, TLAPS

-----------------------------------------------------------------------------
(* Sequences                                                               *)

\* A message appended: the old ones keep their places.
LEMMA AppendFacts ==
    ASSUME NEW S, NEW s \in Seq(S), NEW e \in S
    PROVE  /\ Append(s, e) \in Seq(S)
           /\ Append(s, e) # <<>>
           /\ Len(s) \in Nat
           /\ Len(Append(s, e)) = Len(s) + 1
           /\ Append(s, e)[Len(s) + 1] = e
           /\ \A i \in 1..Len(s) : Append(s, e)[i] = s[i]
  OBVIOUS

\* The first element removed: the others move up by one place.
LEMMA TailFacts ==
    ASSUME NEW S, NEW s \in Seq(S), s # <<>>
    PROVE  /\ Tail(s) \in Seq(S)
           /\ Len(s) \in Nat \ {0}
           /\ s[1] \in S
           /\ Len(Tail(s)) = Len(s) - 1
           /\ \A i \in 1..(Len(s) - 1) : Tail(s)[i] = s[i + 1]
           /\ Tail(s) = <<>> <=> Len(s) = 1
  <1>1. Len(s) \in Nat \ {0}
    BY EmptySeq
  <1>2. s[1] \in S
    BY <1>1, ElementOfSeq
  <1>3. /\ Tail(s) \in Seq(S)
        /\ Len(Tail(s)) = Len(s) - 1
        /\ \A i \in 1..Len(Tail(s)) : Tail(s)[i] = s[i + 1]
    BY HeadTailProperties
  <1>4. Tail(s) = <<>> <=> Len(Tail(s)) = 0
    BY <1>3, EmptySeq, LenProperties
  <1> QED
    BY <1>1, <1>2, <1>3, <1>4

-----------------------------------------------------------------------------

Msg == [kind : MessageKind, frame : Number, files : Seq(Number)]
Shown == [result : {"none", "error", "blank", "empty", "frame"},
          pts : Number, frame : Number, files : Seq(Number)]

\* A descriptor under way carries the first file of its frame.
OwnFile(m) == m.kind = "desc" => m.files # <<>> /\ m.files[1] = m.frame

\* What is under way, q, fits a recorder in place p that was told the time t: each
\* message may follow the one before it, and the first one is awaited.
InOrder(q, p, t) ==
    /\ \A k \in 2..Len(q) : /\ q[k].kind \in Following(q[k - 1])
                            /\ q[k].kind = "desc" => q[k].frame = q[k - 1].frame
    /\ \A k \in 1..Len(q) : OwnFile(q[k])
    /\ q # <<>> => /\ q[1].kind \in Awaited(p)
                   /\ p = "desc" => q[1].frame = t

\* The messages that may be sent behind q, and the frame that was announced last.
NextAfter(q, p) == IF q = <<>> THEN Awaited(p) ELSE Following(q[Len(q)])
Announced(q, t) == IF q = <<>> THEN t ELSE q[Len(q)].frame

StreamInv == \A c \in Clients : InOrder(toClient[c], client[c], pts[c])

\* A recorder that nothing has been sent to, and whose connection is open.
Fresh(c) ==
    /\ toClient[c] = <<>> /\ ~ hungUp[c]
    /\ client[c] \in {"info", "name", "params", "gone"}

\* A connection waits once, nothing has come over it, and it is not the one served;
\* a connection nobody has made is neither.
BacklogInv ==
    /\ \A i, j \in 1..Len(backlog) : backlog[i] = backlog[j] => i = j
    /\ \A i \in 1..Len(backlog) : Fresh(backlog[i]) /\ backlog[i] # conn
    /\ \A c \in Clients : client[c] = "idle" =>
         /\ toClient[c] = <<>> /\ c # conn
         /\ pc # "exited" => ~ hungUp[c]

\* Where the service is says what may be sent to the recorder it serves.
PlaceInv ==
    /\ conn \in Clients => ~ hungUp[conn]
    /\ pc \in {"info", "name", "device", "params"} => Fresh(conn)
    /\ pc \in {"while", "pts", "error"} /\ client[conn] # "gone" =>
         NextAfter(toClient[conn], client[conn]) = {"pts", "error"}
    /\ pc = "desc" /\ client[conn] # "gone" =>
         /\ NextAfter(toClient[conn], client[conn]) = {"desc"}
         /\ Announced(toClient[conn], pts[conn]) = frame

\* The inductive invariant.
IInv == TypeOK /\ FramesTrue /\ StreamInv /\ BacklogInv /\ PlaceInv

-----------------------------------------------------------------------------
\* Only one place awaits a descriptor, and only a time is followed by one.
LEMMA DescFacts ==
    /\ \A p : Awaited(p) = {"desc"} <=> p = "desc"
    /\ \A p : "desc" \in Awaited(p) <=> p = "desc"
    /\ \A m : Following(m) = {"desc"} <=> m.kind = "pts"
    /\ \A m : "desc" \in Following(m) <=> m.kind = "pts"
  BY DEF Awaited, Following

\* A message that may be sent keeps the order, whatever has been received meanwhile.
LEMMA SendKeepsOrder ==
    ASSUME NEW q \in Seq(Msg), NEW p, NEW t, NEW m \in Msg,
           InOrder(q, p, t), OwnFile(m), m.kind \in NextAfter(q, p),
           m.kind = "desc" => m.frame = Announced(q, t)
    PROVE  /\ InOrder(Append(q, m), p, t)
           /\ NextAfter(Append(q, m), p) = Following(m)
           /\ Announced(Append(q, m), t) = m.frame
  <1> DEFINE r == Append(q, m)
  <1>1. /\ r \in Seq(Msg) /\ r # <<>> /\ Len(q) \in Nat
        /\ Len(r) = Len(q) + 1 /\ r[Len(q) + 1] = m
        /\ \A i \in 1..Len(q) : r[i] = q[i]
    BY AppendFacts
  <1>2. q = <<>> <=> Len(q) = 0
    BY EmptySeq
  <1> HIDE DEF r
  <1>3. NextAfter(r, p) = Following(m) /\ Announced(r, t) = m.frame
    BY <1>1 DEF NextAfter, Announced
  <1>4. \A k \in 1..Len(r) : OwnFile(r[k])
    BY <1>1 DEF InOrder
  <1>5. r[1].kind \in Awaited(p) /\ (p = "desc" => r[1].frame = t)
    <2>1. CASE q = <<>>
      BY <1>1, <1>2, <2>1, DescFacts DEF NextAfter, Announced, Awaited
    <2>2. CASE q # <<>>
      BY <1>1, <1>2, <2>2 DEF InOrder
    <2> QED
      BY <2>1, <2>2
  <1>6. ASSUME NEW k \in 2..Len(r)
        PROVE  /\ r[k].kind \in Following(r[k - 1])
               /\ r[k].kind = "desc" => r[k].frame = r[k - 1].frame
    <2>1. CASE k = Len(r)
      BY <1>1, <1>2, <2>1 DEF NextAfter, Announced
    <2>2. CASE k # Len(r)
      <3>1. k \in 2..Len(q) /\ r[k] = q[k] /\ r[k - 1] = q[k - 1]
        BY <1>1, <2>2
      <3> QED
        BY <3>1 DEF InOrder
    <2> QED
      BY <2>1, <2>2
  <1>7. InOrder(r, p, t)
    BY <1>4, <1>5, <1>6 DEF InOrder
  <1> QED
    BY <1>3, <1>7 DEF r

\* The first message of q is received in place p, and the recorder goes to place r,
\* where what follows that message is awaited, with the time u.
Receives(q, p, t, r, u) ==
    /\ q # <<>> /\ InOrder(q, p, t)
    /\ Awaited(r) = Following(q[1])
    /\ r = "desc" => u = q[1].frame

\* The order is kept, and what may be sent stays the same.
LEMMA ReceiveKeepsOrder ==
    ASSUME NEW q \in Seq(Msg), NEW p, NEW t, NEW r, NEW u, Receives(q, p, t, r, u)
    PROVE  /\ InOrder(Tail(q), r, u)
           /\ NextAfter(Tail(q), r) = NextAfter(q, p)
           /\ NextAfter(q, p) = {"desc"} => Announced(Tail(q), u) = Announced(q, t)
  <1> DEFINE s == Tail(q)
  <1>1. /\ s \in Seq(Msg) /\ Len(q) \in Nat \ {0} /\ Len(s) = Len(q) - 1
        /\ \A i \in 1..(Len(q) - 1) : s[i] = q[i + 1]
        /\ s = <<>> <=> Len(q) = 1
    BY TailFacts DEF Receives
  <1> HIDE DEF s
  <1> USE DEF Receives
  <1>2. CASE Len(q) = 1
    <2>1. s = <<>> /\ Len(s) = 0
      BY <1>1, <1>2
    <2>2. NextAfter(s, r) = NextAfter(q, p)
      BY <1>2, <2>1 DEF NextAfter
    <2>3. NextAfter(q, p) = {"desc"} => Announced(s, u) = Announced(q, t)
      BY <1>2, <2>1, DescFacts DEF NextAfter, Announced
    <2>4. InOrder(s, r, u)
      BY <2>1 DEF InOrder
    <2> QED
      BY <2>2, <2>3, <2>4 DEF s
  <1>3. CASE Len(q) > 1
    <2>1. /\ s # <<>> /\ Len(s) \in 1..(Len(q) - 1) /\ s[Len(s)] = q[Len(q)]
          /\ s[1] = q[2] /\ 2 \in 2..Len(q) /\ 2 - 1 = 1
      BY <1>1, <1>3
    <2>2. NextAfter(s, r) = NextAfter(q, p) /\ Announced(s, u) = Announced(q, t)
      BY <2>1 DEF NextAfter, Announced
    <2>3. \A k \in 1..Len(s) : OwnFile(s[k])
      <3> TAKE k \in 1..Len(s)
      <3>1. k + 1 \in 1..Len(q) /\ s[k] = q[k + 1]
        BY <1>1
      <3> QED
        BY <3>1 DEF InOrder
    <2>4. /\ s[1].kind \in Following(q[1])
          /\ s[1].kind = "desc" => s[1].frame = q[1].frame
      BY <2>1 DEF InOrder
    <2>5. s[1].kind \in Awaited(r) /\ (r = "desc" => s[1].frame = u)
      BY <2>4, DescFacts DEF Awaited
    <2>6. ASSUME NEW k \in 2..Len(s)
          PROVE  /\ s[k].kind \in Following(s[k - 1])
                 /\ s[k].kind = "desc" => s[k].frame = s[k - 1].frame
      <3>1. k + 1 \in 2..Len(q) /\ (k + 1) - 1 = k /\ s[k] = q[k + 1] /\ s[k - 1] = q[k]
        BY <1>1
      <3> QED
        BY <3>1 DEF InOrder
    <2>7. InOrder(s, r, u)
      BY <2>3, <2>5, <2>6 DEF InOrder
    <2> QED
      BY <2>2, <2>7 DEF s
  <1> QED
    BY <1>1, <1>2, <1>3

-----------------------------------------------------------------------------
\* The messages and results are of their types.
LEMMA MessageFacts ==
    /\ \A k \in MessageKind, n \in Number, files \in Seq(Number) : Message(k, n, files) \in Msg
    /\ \A m \in Msg : m.kind \in MessageKind /\ m.frame \in Number /\ m.files \in Seq(Number)
    /\ <<>> \in Seq(Number) /\ <<0>> \in Seq(Number)
    /\ 1..Frames \subseteq Number /\ 0 \in Number
    /\ \A n \in 1..Frames : (n % Frames) + 1 \in 1..Frames
  BY BoundAssumption DEF Message, Msg, MessageKind, Number

\* What a descriptor is sent with: its first file is that of its frame.
LEMMA PassedFacts ==
    ASSUME NEW n \in 1..Frames, NEW objects \in Objects
    PROVE  /\ Passed(n, objects) \in Seq(Number)
           /\ Passed(n, objects) # <<>>
           /\ Passed(n, objects)[1] = n
  <1> DEFINE q == Passed(n, objects)
  <1>1. objects \in Nat \ {0}
    BY BoundAssumption
  <1>2. q \in [1..objects -> Number] /\ q[1] = n
    BY <1>1, BoundAssumption DEF Passed, Number
  <1>3. q \in Seq(Number) /\ Len(q) = objects
    BY <1>1, <1>2
  <1> QED
    BY <1>1, <1>2, <1>3, EmptySeq

\* The empty queue, and the first frame.
LEMMA EmptyFacts ==
    /\ \A S : <<>> \in Seq(S)
    /\ Len(<<>>) = 0 /\ 0 <= Backlog /\ 0 <= Capacity
    /\ 1 \in 1..Frames /\ 0 \in Number
  BY BoundAssumption DEF Number

LEMMA InitTypes == Init => TypeOK
  <1> SUFFICES ASSUME Init PROVE TypeOK
    OBVIOUS
  <1>1. NoFrame \in [result : {"none", "error", "blank", "empty", "frame"},
                     pts : Number, frame : Number, files : Seq(Number)]
    BY MessageFacts DEF NoFrame
  <1>2. \A c \in Clients : Len(toClient[c]) <= Capacity
    BY EmptyFacts DEF Init
  <1>3. toClient \in [Clients -> Seq([kind : MessageKind, frame : Number, files : Seq(Number)])]
    BY EmptyFacts DEF Init
  <1>4. /\ toService \in [Clients -> Seq({"info", "name"})]
        /\ backlog \in Seq(Clients) /\ Len(backlog) <= Backlog
    BY EmptyFacts DEF Init
  <1> QED
    BY <1>1, <1>2, <1>3, <1>4, EmptyFacts DEF Init, TypeOK

\* TypeOK in three parts: the service and the ends of the connections, the
\* recorders, and what is under way between them.
ServiceTypes ==
    /\ pc \in {"test", "calling", "poll", "info", "name", "device", "params", "while",
               "pts", "error", "desc", "end", "exited"}
    /\ running \in BOOLEAN /\ late \in BOOLEAN /\ named \in BOOLEAN
    /\ frame \in 1..Frames
    /\ conn \in Clients \cup {Nobody}
    /\ pc \in {"test", "calling", "poll", "exited"} => conn = Nobody
    /\ pc \notin {"test", "calling", "poll", "exited"} => conn \in Clients
    /\ backlog \in Seq(Clients) /\ Len(backlog) <= Backlog
    /\ hungUp \in [Clients -> BOOLEAN]
ClientTypes ==
    /\ client \in [Clients -> {"idle", "info", "name", "params", "ready", "pts", "desc", "gone"}]
    /\ pts \in [Clients -> Number]
    /\ shown \in [Clients -> Shown]
QueueTypes ==
    /\ toService \in [Clients -> Seq({"info", "name"})]
    /\ toClient \in [Clients -> Seq(Msg)]
    /\ \A c \in Clients : Len(toClient[c]) <= Capacity

LEMMA TypeParts == TypeOK <=> ServiceTypes /\ ClientTypes /\ QueueTypes
  BY DEF TypeOK, ServiceTypes, ClientTypes, QueueTypes, Msg, Shown

\* The service keeps its own types.
LEMMA ServiceTypeStep ==
    ASSUME ServiceTypes, [Next]_vars
    PROVE  ServiceTypes'
  <1> USE DEF ServiceTypes
  <1> DEFINE Same == UNCHANGED <<pc, running, late, conn, named, frame, backlog, hungUp>>
  <1>1. CASE Service
    <2>1. CASE Test \/ Call \/ CreateDevice
      BY <2>1 DEF Test, Call, CreateDevice, Step
    <2>2. CASE LoopEnd \/ GrabFailed
      BY <2>2 DEF LoopEnd, GrabFailed, Step
    <2>3. CASE TestFailed
      BY <2>3, EmptyFacts DEF TestFailed, Exit
    <2>4. CASE Accept
      <3>1. backlog # <<>> /\ backlog' = Tail(backlog) /\ conn' = backlog[1]
        BY <2>4 DEF Accept
      <3>2. Tail(backlog) \in Seq(Clients) /\ backlog[1] \in Clients /\ Len(Tail(backlog)) <= Backlog
        BY <3>1, TailFacts, BoundAssumption
      <3> QED
        BY <2>4, <3>1, <3>2 DEF Accept
    <2>5. CASE ReceiveInfo \/ ReceiveName
      BY <2>5 DEF ReceiveInfo, ReceiveName
    <2>6. CASE SendParams \/ SendPts \/ SendError \/ SendDesc
      BY <2>6 DEF SendParams, SendPts, SendError, SendDesc, SendStep, AfterError
    <2>7. CASE Grab
      BY <2>7, MessageFacts DEF Grab
    <2>8. CASE ConnectionFailed
      BY <2>8 DEF ConnectionFailed, Step
    <2>9. CASE EndConnection
      BY <2>9, EmptyFacts DEF EndConnection
    <2> QED
      BY <1>1, <2>1, <2>2, <2>3, <2>4, <2>5, <2>6, <2>7, <2>8, <2>9 DEF Service
  <1>2. CASE ConnectionFailed
    BY <1>2 DEF ConnectionFailed, Step
  <1>3. CASE AcceptFailed \/ Kill
    BY <1>3, EmptyFacts DEF AcceptFailed, Kill, Exit
  <1>4. CASE Signal
    BY <1>4 DEF Signal, AfterInterrupt
  <1>5. ASSUME NEW c \in Clients, Connect(c)
        PROVE  ServiceTypes'
    <2>1. Append(backlog, c) \in Seq(Clients) /\ Len(Append(backlog, c)) <= Backlog
      BY <1>5, AppendFacts, BoundAssumption DEF Connect
    <2> QED
      BY <1>5, <2>1 DEF Connect
  <1>6. ASSUME NEW c \in Clients, Device(c) \/ Leave(c)
        PROVE  Same
    BY <1>6 DEF Device, SendInfo, SendName, Send, ReceiveParams, NextFrame, NoMemory, ReceivePts,
                ReceiveError, ReceiveDesc, ReceiveNoMemory, Receive, EndInPts, EndInDesc, AtEnd, Leave, service
  <1>7. CASE UNCHANGED vars
    BY <1>7 DEF vars, service
  <1> QED
    BY <1>1, <1>2, <1>3, <1>4, <1>5, <1>6, <1>7 DEF Next

\* Of the service's steps only the four sends touch what a recorder sees.
Sends == SendParams \/ SendPts \/ SendError \/ SendDesc
ServiceStep == Service \/ ConnectionFailed \/ AcceptFailed \/ Signal \/ Kill
Seen == <<client, pts, shown, toClient>>

LEMMA QuietSteps ==
    ASSUME ServiceStep
    PROVE  Sends \/ UNCHANGED Seen
  <1> USE DEF Seen, peers
  <1>1. CASE Test \/ Call \/ CreateDevice \/ LoopEnd \/ GrabFailed \/ ConnectionFailed
    BY <1>1 DEF Test, Call, CreateDevice, LoopEnd, GrabFailed, ConnectionFailed, Step
  <1>2. CASE TestFailed \/ AcceptFailed \/ Kill
    BY <1>2 DEF TestFailed, AcceptFailed, Kill, Exit
  <1>3. CASE Accept \/ ReceiveInfo \/ ReceiveName \/ Grab \/ EndConnection \/ Signal
    BY <1>3 DEF Accept, ReceiveInfo, ReceiveName, Grab, EndConnection, Signal
  <1> QED
    BY <1>1, <1>2, <1>3 DEF ServiceStep, Service, Sends

\* What a send does.
LEMMA SendSteps ==
    ASSUME ServiceTypes, Sends
    PROVE  /\ conn \in Clients
           /\ \E m \in Msg : SendTo(conn, m)
           /\ UNCHANGED <<running, late, conn, named, frame, backlog, peers, hungUp>>
  <1>1. conn \in Clients
    BY DEF Sends, ServiceTypes, SendParams, SendPts, SendError, SendDesc, SendStep
  <1>2. UNCHANGED <<running, late, conn, named, frame, backlog, peers, hungUp>>
    BY DEF Sends, SendParams, SendPts, SendError, SendDesc, SendStep
  <1>3. frame \in 1..Frames /\ frame \in Number
    BY MessageFacts DEF ServiceTypes
  <1>4. CASE SendParams \/ SendPts \/ SendError
    <2>1. /\ Message("params", 0, <<0>>) \in Msg
          /\ Message("pts", frame, <<>>) \in Msg
          /\ Message("error", 0, <<>>) \in Msg
      BY <1>3, MessageFacts DEF MessageKind
    <2> QED
      BY <1>1, <1>2, <1>4, <2>1 DEF SendParams, SendPts, SendError, SendStep
  <1>5. CASE SendDesc
    <2>1. PICK n \in Objects : SendTo(conn, Message("desc", frame, Passed(frame, n)))
      BY <1>5 DEF SendDesc, SendStep
    <2>2. Passed(frame, n) \in Seq(Number)
      BY <1>3, PassedFacts
    <2>3. Message("desc", frame, Passed(frame, n)) \in Msg
      BY <1>3, <2>2, MessageFacts DEF MessageKind
    <2> QED
      BY <1>1, <1>2, <2>1, <2>3
  <1> QED
    BY <1>1, <1>2, <1>4, <1>5 DEF Sends

\* What a recorder's steps do to what is under way to it.
LEMMA ReceiveSteps ==
    ASSUME QueueTypes, NEW c \in Clients, Receive(c)
    PROVE  /\ toClient[c] \in Seq(Msg) /\ toClient[c] # <<>>
           /\ toClient[c][1] \in Msg /\ Head(toClient[c]) = toClient[c][1]
           /\ toClient' = [toClient EXCEPT ![c] = Tail(toClient[c])]
           /\ Tail(toClient[c]) \in Seq(Msg) /\ Len(Tail(toClient[c])) <= Capacity
           /\ UNCHANGED <<service, toService, hungUp>>
  <1>1. toClient[c] \in Seq(Msg) /\ toClient[c] # <<>> /\ Len(toClient[c]) <= Capacity
    BY DEF Receive, QueueTypes
  <1>2. Head(toClient[c]) = toClient[c][1]
    BY <1>1
  <1> QED
    BY <1>1, <1>2, TailFacts, BoundAssumption DEF Receive

\* What nextFrame may return.
LEMMA ResultFacts ==
    /\ NoFrame \in Shown
    /\ Result("error") \in Shown /\ Result("blank") \in Shown
    /\ \A n \in Number : [Result("empty") EXCEPT !.pts = n] \in Shown
    /\ \A n \in Number, m \in Msg :
         [result |-> "frame", pts |-> n, frame |-> m.frame, files |-> m.files] \in Shown
  BY MessageFacts DEF NoFrame, Result, Shown

\* The recorders' steps keep their types.
LEMMA ClientTypeStep ==
    ASSUME TypeOK, [Next]_vars
    PROVE  ClientTypes'
  <1> USE TypeParts DEF ClientTypes
  <1>1. CASE ServiceStep
    <2>1. UNCHANGED <<client, pts, shown>>
      BY <1>1, QuietSteps, SendSteps DEF Seen, peers
    <2> QED
      BY <2>1
  <1>2. ASSUME NEW c \in Clients, Connect(c) \/ SendInfo(c) \/ SendName(c) \/ ReceiveParams(c)
        PROVE  ClientTypes'
    BY <1>2 DEF Connect, SendInfo, SendName, Send, ReceiveParams
  <1>3. ASSUME NEW c \in Clients, NextFrame(c) \/ Leave(c)
        PROVE  ClientTypes'
    BY <1>3, ResultFacts, EmptyFacts DEF NextFrame, Leave
  <1>4. ASSUME NEW c \in Clients, ReceivePts(c)
        PROVE  ClientTypes'
    BY <1>4, ReceiveSteps, MessageFacts DEF ReceivePts
  <1>5. ASSUME NEW c \in Clients,
               NoMemory(c) \/ ReceiveError(c) \/ ReceiveNoMemory(c) \/ EndInPts(c)
        PROVE  ClientTypes'
    BY <1>5, ResultFacts, EmptyFacts DEF NoMemory, ReceiveError, ReceiveNoMemory, EndInPts, Returned
  <1>6. ASSUME NEW c \in Clients, ReceiveDesc(c)
        PROVE  ClientTypes'
    BY <1>6, ReceiveSteps, ResultFacts, EmptyFacts DEF ReceiveDesc, Returned
  <1>7. ASSUME NEW c \in Clients, EndInDesc(c)
        PROVE  ClientTypes'
    BY <1>7, ResultFacts, EmptyFacts DEF EndInDesc, Returned
  <1>8. CASE UNCHANGED vars
    BY <1>8 DEF vars, peers
  <1> QED
    BY <1>1, <1>2, <1>3, <1>4, <1>5, <1>6, <1>7, <1>8 DEF Next, Device, ServiceStep

\* Every step keeps the types of what is under way.
LEMMA QueueTypeStep ==
    ASSUME TypeOK, [Next]_vars
    PROVE  QueueTypes'
  <1> USE TypeParts DEF QueueTypes, vars, service, peers
  <1>1. CASE Sends
    <2>1. PICK m \in Msg : SendTo(conn, m)
      BY <1>1, SendSteps
    <2>2. conn \in Clients /\ UNCHANGED toService
      BY <1>1, SendSteps
    <2>3. /\ toClient' = [toClient EXCEPT ![conn] = Append(toClient[conn], m)]
          /\ Append(toClient[conn], m) \in Seq(Msg)
          /\ Len(Append(toClient[conn], m)) <= Capacity
      BY <2>1, <2>2, AppendFacts, BoundAssumption DEF SendTo
    <2> QED
      BY <2>2, <2>3
  <1>2. CASE ServiceStep /\ UNCHANGED Seen
    <2>1. UNCHANGED toClient
      BY <1>2 DEF Seen
    <2>2. /\ \A q \in Seq({"info", "name"}) : q # <<>> => Tail(q) \in Seq({"info", "name"})
          /\ <<>> \in Seq({"info", "name"})
      OBVIOUS
    <2>3. \/ UNCHANGED toService
          \/ toService' = [c \in Clients |-> <<>>]
          \/ toService' = [toService EXCEPT ![conn] = <<>>]
          \/ Taken
          \/ Sends
      BY <1>2 DEF ServiceStep, Service, Test, Call, CreateDevice, LoopEnd, GrabFailed, ConnectionFailed,
           Step, TestFailed, AcceptFailed, Kill, Exit, Accept, ReceiveInfo, ReceiveName, Grab,
           EndConnection, Signal, Sends
    <2>4. CASE ~ Sends
      <3>1. toService' \in [Clients -> Seq({"info", "name"})]
        BY <2>2, <2>3, <2>4 DEF Taken
      <3> QED
        BY <2>1, <3>1
    <2> QED
      BY <1>1, <2>4
  <1>3. ASSUME NEW c \in Clients, SendInfo(c) \/ SendName(c)
        PROVE  QueueTypes'
    <2>1. UNCHANGED toClient /\ \E m \in {"info", "name"} : toService' = [toService EXCEPT ![c] = Append(@, m)]
      BY <1>3 DEF SendInfo, SendName, Send
    <2> QED
      BY <2>1, AppendFacts
  <1>4. ASSUME NEW c \in Clients, Receive(c)
        PROVE  QueueTypes'
    BY <1>4, ReceiveSteps
  <1>5. ASSUME NEW c \in Clients, Leave(c)
        PROVE  QueueTypes'
    BY <1>5, EmptyFacts DEF Leave
  <1>6. ASSUME NEW c \in Clients, Connect(c) \/ NextFrame(c) \/ NoMemory(c) \/ EndInPts(c) \/ EndInDesc(c)
        PROVE  QueueTypes'
    BY <1>6 DEF Connect, NextFrame, NoMemory, EndInPts, EndInDesc, AtEnd
  <1>7. CASE UNCHANGED vars
    BY <1>7
  <1> QED
    BY <1>1, <1>2, <1>3, <1>4, <1>5, <1>6, <1>7, QuietSteps
       DEF Next, ServiceStep, Device, ReceiveParams, ReceivePts, ReceiveError, ReceiveDesc, ReceiveNoMemory

LEMMA TypeStep == TypeOK /\ [Next]_vars => TypeOK'
  <1> SUFFICES ASSUME TypeOK, [Next]_vars PROVE TypeOK'
    OBVIOUS
  <1>1. ServiceTypes' /\ ClientTypes' /\ QueueTypes'
    BY TypeParts, ServiceTypeStep, ClientTypeStep, QueueTypeStep
  <1> QED
    BY <1>1 DEF TypeOK, ServiceTypes, ClientTypes, QueueTypes, Msg, Shown

-----------------------------------------------------------------------------
\* The service sends what may be sent, and its next place says what follows that.
LEMMA SendFits ==
    ASSUME TypeOK, PlaceInv, Sends
    PROVE  \E m \in Msg :
             /\ SendTo(conn, m)
             /\ OwnFile(m)
             /\ m.kind \in NextAfter(toClient[conn], client[conn])
             /\ m.kind = "desc" => m.frame = Announced(toClient[conn], pts[conn])
             /\ pc' \in {"while", "desc"}
             /\ pc' = "while" => Following(m) = {"pts", "error"}
             /\ pc' = "desc" => Following(m) = {"desc"} /\ m.frame = frame
  <1> DEFINE Fits(m) ==
        /\ SendTo(conn, m)
        /\ OwnFile(m)
        /\ m.kind \in NextAfter(toClient[conn], client[conn])
        /\ m.kind = "desc" => m.frame = Announced(toClient[conn], pts[conn])
        /\ pc' \in {"while", "desc"}
        /\ pc' = "while" => Following(m) = {"pts", "error"}
        /\ pc' = "desc" => Following(m) = {"desc"} /\ m.frame = frame
  <1>1. frame \in 1..Frames /\ frame \in Number
    BY MessageFacts DEF TypeOK
  <1>2. CASE SendParams
    <2> DEFINE m == Message("params", 0, <<0>>)
    <2>1. m \in Msg /\ m.kind = "params"
      BY MessageFacts DEF MessageKind, Message
    <2>2. pc = "params" /\ SendTo(conn, m) /\ pc' = "while"
      BY <1>2 DEF SendParams, SendStep
    <2>3. NextAfter(toClient[conn], client[conn]) = {"params"}
      BY <2>2 DEF PlaceInv, Fresh, NextAfter, Awaited, SendTo
    <2> HIDE DEF m
    <2>4. Fits(m)
      BY <2>1, <2>2, <2>3 DEF OwnFile, Following
    <2> QED
      BY <2>1, <2>4
  <1>3. CASE SendPts
    <2> DEFINE m == Message("pts", frame, <<>>)
    <2>1. m \in Msg /\ m.kind = "pts" /\ m.frame = frame
      BY <1>1, MessageFacts DEF MessageKind, Message
    <2>2. pc = "pts" /\ SendTo(conn, m) /\ pc' = "desc"
      BY <1>3 DEF SendPts, SendStep
    <2>3. NextAfter(toClient[conn], client[conn]) = {"pts", "error"}
      BY <2>2 DEF PlaceInv, SendTo
    <2> HIDE DEF m
    <2>4. Fits(m)
      BY <2>1, <2>2, <2>3 DEF OwnFile, Following
    <2> QED
      BY <2>1, <2>4
  <1>4. CASE SendError
    <2> DEFINE m == Message("error", 0, <<>>)
    <2>1. m \in Msg /\ m.kind = "error"
      BY MessageFacts DEF MessageKind, Message
    <2>2. pc = "error" /\ SendTo(conn, m) /\ pc' = "while"
      BY <1>4 DEF SendError, SendStep, AfterError
    <2>3. NextAfter(toClient[conn], client[conn]) = {"pts", "error"}
      BY <2>2 DEF PlaceInv, SendTo
    <2> HIDE DEF m
    <2>4. Fits(m)
      BY <2>1, <2>2, <2>3 DEF OwnFile, Following
    <2> QED
      BY <2>1, <2>4
  <1>5. CASE SendDesc
    <2>1. PICK n \in Objects : SendTo(conn, Message("desc", frame, Passed(frame, n)))
      BY <1>5 DEF SendDesc, SendStep
    <2> DEFINE m == Message("desc", frame, Passed(frame, n))
    <2>2. m \in Msg /\ m.kind = "desc" /\ m.frame = frame /\ OwnFile(m)
      BY <1>1, PassedFacts, MessageFacts DEF MessageKind, Message, OwnFile
    <2>3. pc = "desc" /\ pc' = "while"
      BY <1>5 DEF SendDesc, SendStep
    <2>4. /\ NextAfter(toClient[conn], client[conn]) = {"desc"}
          /\ Announced(toClient[conn], pts[conn]) = frame
      BY <2>1, <2>3 DEF PlaceInv, SendTo
    <2> HIDE DEF m
    <2>5. Fits(m)
      BY <2>1, <2>2, <2>3, <2>4 DEF Following, m
    <2> QED
      BY <2>2, <2>5
  <1> QED
    BY <1>2, <1>3, <1>4, <1>5 DEF Sends

\* A send keeps the order of every connection and leaves the service where what
\* follows may be sent.
LEMMA SendKeeps ==
    ASSUME IInv, Sends
    PROVE  StreamInv' /\ BacklogInv' /\ PlaceInv' /\ FramesTrue'
  <1>1. PICK m \in Msg :
             /\ SendTo(conn, m)
             /\ OwnFile(m)
             /\ m.kind \in NextAfter(toClient[conn], client[conn])
             /\ m.kind = "desc" => m.frame = Announced(toClient[conn], pts[conn])
             /\ pc' \in {"while", "desc"}
             /\ pc' = "while" => Following(m) = {"pts", "error"}
             /\ pc' = "desc" => Following(m) = {"desc"} /\ m.frame = frame
    BY SendFits DEF IInv
  <1>2. conn \in Clients /\ UNCHANGED <<conn, frame, backlog, client, pts, shown, hungUp>>
    BY SendSteps, TypeParts DEF IInv, peers
  <1>3. /\ toClient \in [Clients -> Seq(Msg)]
        /\ toClient' = [toClient EXCEPT ![conn] = Append(toClient[conn], m)]
    BY <1>1, TypeParts DEF SendTo, QueueTypes, IInv
  <1>4. /\ toClient'[conn] = Append(toClient[conn], m)
        /\ \A c \in Clients \ {conn} : toClient'[c] = toClient[c]
    BY <1>2, <1>3
  <1>5. /\ InOrder(Append(toClient[conn], m), client[conn], pts[conn])
        /\ NextAfter(Append(toClient[conn], m), client[conn]) = Following(m)
        /\ Announced(Append(toClient[conn], m), pts[conn]) = m.frame
    <2>1. toClient[conn] \in Seq(Msg) /\ InOrder(toClient[conn], client[conn], pts[conn])
      BY <1>2, <1>3 DEF IInv, StreamInv
    <2> QED
      BY <1>1, <2>1, SendKeepsOrder
  <1>6. StreamInv'
    BY <1>2, <1>4, <1>5 DEF IInv, StreamInv
  <1>7. BacklogInv'
    <2>1. pc # "exited" /\ backlog \in Seq(Clients)
      BY <1>2, NobodyAssumption DEF IInv, TypeOK
    <2>2. \A i \in 1..Len(backlog) : backlog[i] \in Clients \ {conn}
      BY <2>1 DEF IInv, BacklogInv
    <2> QED
      BY <1>2, <1>4, <2>1, <2>2 DEF IInv, BacklogInv, Fresh
  <1>8. PlaceInv'
    BY <1>1, <1>2, <1>4, <1>5 DEF IInv, PlaceInv
  <1>9. FramesTrue'
    BY <1>2 DEF IInv, FramesTrue
  <1> QED
    BY <1>6, <1>7, <1>8, <1>9

\* The other steps of the service send nothing.  What they leave it to send fits.
LEMMA QuietKeeps ==
    ASSUME IInv, ServiceStep, UNCHANGED Seen
    PROVE  StreamInv' /\ BacklogInv' /\ PlaceInv' /\ FramesTrue'
  <1>1. UNCHANGED <<client, pts, shown, toClient>>
    BY DEF Seen
  <1>2. StreamInv' /\ FramesTrue'
    BY <1>1 DEF IInv, StreamInv, FramesTrue
  <1>3. ServiceTypes
    BY TypeParts DEF IInv
  <1> USE DEF IInv, BacklogInv, PlaceInv, Fresh
  <1>4. CASE Test \/ Call \/ CreateDevice \/ LoopEnd \/ GrabFailed \/ ConnectionFailed
    <2>1. UNCHANGED <<conn, frame, backlog, hungUp>> /\ pc # "exited"
      BY <1>4 DEF Test, Call, CreateDevice, LoopEnd, GrabFailed, ConnectionFailed, Step
    <2>2. BacklogInv'
      BY <1>1, <2>1
    <2>3. \/ pc' \in {"calling", "poll", "end"}
          \/ pc = "device" /\ pc' = "params"
          \/ pc = "while" /\ pc' = "error"
      BY <1>4 DEF Test, Call, CreateDevice, LoopEnd, GrabFailed, ConnectionFailed, Step
    <2>4. PlaceInv'
      BY <1>1, <2>1, <2>3
    <2> QED
      BY <1>2, <2>2, <2>4
  <1>5. CASE TestFailed \/ AcceptFailed \/ Kill
    <2>1. pc' = "exited" /\ conn' = Nobody /\ backlog' = <<>>
      BY <1>5 DEF TestFailed, AcceptFailed, Kill, Exit
    <2>2. BacklogInv'
      BY <1>1, <2>1, EmptyFacts, NobodyAssumption
    <2>3. PlaceInv'
      BY <2>1, NobodyAssumption
    <2> QED
      BY <1>2, <2>2, <2>3
  <1>6. CASE Accept
    <2>1. /\ pc = "poll" /\ pc' = "info" /\ backlog # <<>> /\ backlog \in Seq(Clients)
          /\ conn' = backlog[1] /\ backlog' = Tail(backlog) /\ UNCHANGED hungUp
      BY <1>3, <1>6 DEF Accept, ServiceTypes
    <2>2. /\ Len(backlog) \in Nat \ {0} /\ Len(Tail(backlog)) = Len(backlog) - 1
          /\ \A i \in 1..(Len(backlog) - 1) : Tail(backlog)[i] = backlog[i + 1]
          /\ backlog[1] \in Clients
      BY <2>1, TailFacts
    <2>3. 1 \in 1..Len(backlog) /\ Fresh(backlog[1])
      BY <2>2
    <2>4. /\ \A i \in 1..Len(backlog') : /\ i + 1 \in 1..Len(backlog) /\ i + 1 # 1
                                         /\ backlog'[i] = backlog[i + 1]
          /\ \A i, j \in 1..Len(backlog') : i + 1 = j + 1 => i = j
      BY <2>1, <2>2
    <2>5. \A i \in 1..Len(backlog') : Fresh(backlog[i])' /\ backlog'[i] # conn'
      BY <1>1, <2>1, <2>3, <2>4
    <2>6. \A i, j \in 1..Len(backlog') : backlog'[i] = backlog'[j] => i = j
      BY <2>4
    <2>7. \A c \in Clients : client[c] = "idle" => c # conn' /\ toClient[c] = <<>> /\ ~ hungUp[c]
      BY <2>1, <2>3
    <2>8. BacklogInv'
      BY <1>1, <2>1, <2>5, <2>6, <2>7
    <2>9. PlaceInv'
      BY <1>1, <2>1, <2>3
    <2> QED
      BY <1>2, <2>8, <2>9
  <1>7. CASE ReceiveInfo \/ ReceiveName \/ Grab
    <2>1. UNCHANGED <<conn, backlog, hungUp>> /\ pc # "exited"
      BY <1>7 DEF ReceiveInfo, ReceiveName, Grab
    <2>2. BacklogInv'
      BY <1>1, <2>1
    <2>3. \/ pc = "info" /\ pc' = "name"
          \/ pc = "name" /\ pc' = "device"
          \/ pc = "while" /\ pc' = "pts"
      BY <1>7 DEF ReceiveInfo, ReceiveName, Grab
    <2>4. PlaceInv'
      BY <1>1, <2>1, <2>3
    <2> QED
      BY <1>2, <2>2, <2>4
  <1>8. CASE EndConnection
    <2>1. /\ pc = "end" /\ pc' = "test" /\ conn' = Nobody /\ UNCHANGED backlog
          /\ hungUp' = [hungUp EXCEPT ![conn] = TRUE]
          /\ conn \in Clients /\ backlog \in Seq(Clients) /\ hungUp \in [Clients -> BOOLEAN]
      BY <1>3, <1>8 DEF EndConnection, ServiceTypes
    <2>2. \A i \in 1..Len(backlog) : backlog[i] \in Clients /\ backlog[i] # Nobody
      BY <2>1, NobodyAssumption
    <2>3. \A c \in Clients : c # conn => hungUp'[c] = hungUp[c]
      BY <2>1
    <2>4. BacklogInv'
      BY <1>1, <2>1, <2>2, <2>3, NobodyAssumption
    <2>5. PlaceInv'
      BY <2>1, NobodyAssumption
    <2> QED
      BY <1>2, <2>4, <2>5
  <1>9. CASE Signal
    <2>1. UNCHANGED <<conn, frame, backlog, hungUp>> /\ pc # "exited" /\ pc' # "exited"
      BY <1>9 DEF Signal, AfterInterrupt
    <2>2. pc' = pc \/ pc' = "test"
      BY <1>9 DEF Signal, AfterInterrupt
    <2>3. BacklogInv' /\ PlaceInv'
      BY <1>1, <2>1, <2>2
    <2> QED
      BY <1>2, <2>3
  <1>10. CASE Sends
    BY SendKeeps, <1>10
  <1> QED
    BY <1>4, <1>5, <1>6, <1>7, <1>8, <1>9, <1>10 DEF ServiceStep, Service, Sends

\* What the steps of recorder c leave of what the service may send it next.
Kept(c) ==
    /\ Fresh(c) => Fresh(c)'
    /\ client[c] # "gone" /\ client'[c] # "idle"
    /\ ~ hungUp[c] /\ client'[c] # "gone" =>
         /\ NextAfter(toClient'[c], client'[c]) = NextAfter(toClient[c], client[c])
         /\ NextAfter(toClient[c], client[c]) = {"desc"} =>
              Announced(toClient'[c], pts'[c]) = Announced(toClient[c], pts[c])

\* What it shows is a whole frame.
ShownTrue(c) ==
    shown[c].result = "frame" =>
        /\ shown[c].frame = shown[c].pts
        /\ shown[c].files # <<>> /\ shown[c].files[1] = shown[c].pts

\* A step of a recorder keeps the order of its own connection.
LEMMA OwnStep ==
    ASSUME IInv, NEW c \in Clients, Connect(c) \/ Device(c) \/ Leave(c)
    PROVE  /\ InOrder(toClient'[c], client'[c], pts'[c])
           /\ Kept(c)
           /\ ShownTrue(c)'
  <1> DEFINE Goal == InOrder(toClient'[c], client'[c], pts'[c]) /\ Kept(c) /\ ShownTrue(c)'
  <1>1. /\ client \in [Clients -> {"idle", "info", "name", "params", "ready", "pts", "desc", "gone"}]
        /\ pts \in [Clients -> Number] /\ shown \in [Clients -> Shown]
        /\ toClient \in [Clients -> Seq(Msg)] /\ hungUp \in [Clients -> BOOLEAN]
    BY TypeParts DEF IInv, ServiceTypes, ClientTypes, QueueTypes
  <1>2. InOrder(toClient[c], client[c], pts[c]) /\ ShownTrue(c)
    BY DEF IInv, StreamInv, FramesTrue, ShownTrue
  <1>3. /\ NoFrame.result # "frame" /\ Result("error").result # "frame" /\ Result("blank").result # "frame"
        /\ \A n : [Result("empty") EXCEPT !.pts = n].result # "frame"
    BY DEF NoFrame, Result
  <1>4. CASE Connect(c) \/ SendInfo(c) \/ SendName(c)
    <2>1. /\ UNCHANGED <<pts, shown, toClient, hungUp>>
          /\ client' = [client EXCEPT ![c] = client'[c]] /\ client'[c] \in {"info", "name", "params"}
          /\ client[c] \in {"idle", "info", "name"}
      BY <1>1, <1>4 DEF Connect, SendInfo, SendName, Send, service
    <2> QED
      BY <1>2, <2>1 DEF InOrder, Awaited, Kept, Fresh, NextAfter, ShownTrue
  <1>5. CASE \/ ReceiveParams(c) \/ ReceivePts(c) \/ ReceiveError(c)
            \/ ReceiveDesc(c) \/ ReceiveNoMemory(c)
    <2>0. Receive(c)
      BY <1>5 DEF ReceiveParams, ReceivePts, ReceiveError, ReceiveDesc, ReceiveNoMemory
    <2>1. /\ toClient[c] \in Seq(Msg) /\ toClient[c] # <<>>
          /\ Head(toClient[c]) = toClient[c][1]
          /\ toClient'[c] = Tail(toClient[c])
      BY <1>1, <2>0, ReceiveSteps, TypeParts DEF IInv
    <2>2. 1 \in 1..Len(toClient[c]) /\ OwnFile(toClient[c][1]) /\ toClient[c][1].kind \in Awaited(client[c])
      BY <1>2, <2>1, TailFacts DEF InOrder
    <2>3. ~ Fresh(c)
      BY <2>1 DEF Fresh
    <2>4. ASSUME client[c] # "gone", client'[c] # "idle", Awaited(client'[c]) = Following(toClient[c][1]),
                 client'[c] = "desc" => pts'[c] = toClient[c][1].frame, ShownTrue(c)'
          PROVE  Goal
      <3>1. /\ InOrder(Tail(toClient[c]), client'[c], pts'[c])
            /\ NextAfter(Tail(toClient[c]), client'[c]) = NextAfter(toClient[c], client[c])
            /\ NextAfter(toClient[c], client[c]) = {"desc"} =>
                 Announced(Tail(toClient[c]), pts'[c]) = Announced(toClient[c], pts[c])
        <4>1. Receives(toClient[c], client[c], pts[c], client'[c], pts'[c])
          BY <1>2, <2>1, <2>4 DEF Receives
        <4> QED
          BY <2>1, <4>1, ReceiveKeepsOrder
      <3> QED
        BY <2>1, <2>3, <2>4, <3>1 DEF Kept
    <2>5. CASE ReceiveParams(c)
      <3>1. client[c] = "params" /\ client'[c] = "ready" /\ UNCHANGED shown
        BY <1>1, <2>5 DEF ReceiveParams
      <3>2. Awaited("ready") = Following(toClient[c][1])
        BY <2>2, <3>1 DEF Awaited, Following
      <3> QED
        BY <1>2, <2>4, <3>1, <3>2 DEF ShownTrue
    <2>6. CASE ReceivePts(c)
      <3>1. /\ client[c] = "pts" /\ client'[c] = "desc" /\ UNCHANGED shown
            /\ pts'[c] = toClient[c][1].frame /\ toClient[c][1].kind # "error"
        BY <1>1, <2>1, <2>6 DEF ReceivePts
      <3>2. Awaited("desc") = Following(toClient[c][1])
        BY <2>2, <3>1 DEF Awaited, Following
      <3> QED
        BY <1>2, <2>4, <3>1, <3>2 DEF ShownTrue
    <2>7. CASE ReceiveError(c)
      <3>1. /\ client[c] = "pts" /\ client'[c] = "ready" /\ shown'[c] = Result("error")
            /\ toClient[c][1].kind = "error"
        BY <1>1, <2>1, <2>7 DEF ReceiveError, Returned
      <3>2. Awaited("ready") = Following(toClient[c][1])
        BY <3>1 DEF Awaited, Following
      <3> QED
        BY <1>3, <2>4, <3>1, <3>2 DEF ShownTrue
    <2>8. CASE ReceiveDesc(c)
      <3>1. /\ client[c] = "desc" /\ client'[c] = "ready"
            /\ shown'[c] = [result |-> "frame", pts |-> pts[c],
                            frame |-> toClient[c][1].frame, files |-> toClient[c][1].files]
        BY <1>1, <2>1, <2>8 DEF ReceiveDesc, Returned
      <3>2. toClient[c][1].kind = "desc" /\ toClient[c][1].frame = pts[c]
        BY <1>2, <2>1, <2>2, <3>1 DEF InOrder, Awaited
      <3>3. Awaited("ready") = Following(toClient[c][1]) /\ ShownTrue(c)'
        BY <2>2, <3>1, <3>2 DEF Awaited, Following, ShownTrue, OwnFile
      <3> QED
        BY <2>4, <3>1, <3>3
    <2>9. CASE ReceiveNoMemory(c)
      <3>1. client[c] = "desc" /\ client'[c] = "ready" /\ shown'[c] = Result("blank")
        BY <1>1, <2>9 DEF ReceiveNoMemory, Returned
      <3>2. Awaited("ready") = Following(toClient[c][1])
        BY <2>2, <3>1 DEF Awaited, Following
      <3> QED
        BY <1>3, <2>4, <3>1, <3>2 DEF ShownTrue
    <2> QED
      BY <1>5, <2>5, <2>6, <2>7, <2>8, <2>9
  <1>6. CASE NextFrame(c) \/ NoMemory(c)
    <2>1. /\ UNCHANGED <<toClient, hungUp>> /\ client[c] = "ready" /\ client'[c] \in {"ready", "pts"}
          /\ shown'[c] \in {NoFrame, Result("error")}
      BY <1>1, <1>6 DEF NextFrame, NoMemory, Returned, service
    <2>2. NextAfter(toClient[c], client[c]) = {"desc"} => toClient[c] # <<>>
      BY <2>1, DescFacts DEF NextAfter
    <2>3. ~ Fresh(c)
      BY <2>1 DEF Fresh
    <2> QED
      BY <1>2, <1>3, <2>1, <2>2, <2>3 DEF InOrder, Awaited, Kept, NextAfter, Announced, ShownTrue
  <1>7. CASE EndInPts(c) \/ EndInDesc(c)
    <2>1. /\ UNCHANGED <<toClient, hungUp>> /\ hungUp[c] /\ toClient[c] = <<>>
          /\ client[c] # "gone" /\ client'[c] = "ready"
          /\ \/ shown'[c] = Result("blank")
             \/ shown'[c] = [Result("empty") EXCEPT !.pts = pts[c]]
      BY <1>1, <1>7 DEF EndInPts, EndInDesc, AtEnd, Returned
    <2>2. shown'[c].result # "frame"
      BY <1>3, <2>1
    <2>3. InOrder(toClient'[c], client'[c], pts'[c])
      BY <1>2, <2>1 DEF InOrder
    <2> QED
      BY <2>1, <2>2, <2>3 DEF Kept, Fresh, ShownTrue
  <1>8. CASE Leave(c)
    <2>1. UNCHANGED hungUp /\ client[c] # "gone" /\ client'[c] = "gone" /\ toClient'[c] = <<>> /\ shown'[c] = NoFrame
      BY <1>1, <1>8 DEF Leave
    <2>2. Len(toClient'[c]) = 0
      BY <2>1, EmptyFacts
    <2> QED
      BY <1>3, <2>1, <2>2 DEF InOrder, Kept, Fresh, ShownTrue
  <1> QED
    BY <1>4, <1>5, <1>6, <1>7, <1>8 DEF Device

\* It leaves the other recorders alone, and of the service's state it changes only
\* the connections that wait.
LEMMA OthersStep ==
    ASSUME TypeOK, NEW c \in Clients, Connect(c) \/ Device(c) \/ Leave(c)
    PROVE  /\ \A d \in Clients \ {c} :
                /\ toClient'[d] = toClient[d] /\ client'[d] = client[d]
                /\ pts'[d] = pts[d] /\ shown'[d] = shown[d]
           /\ UNCHANGED <<pc, conn, frame, hungUp>>
           /\ \/ UNCHANGED backlog
              \/ /\ client[c] = "idle" /\ pc # "exited" /\ backlog' = Append(backlog, c)
                 /\ client'[c] = "info" /\ UNCHANGED toClient
  <1>1. /\ client \in [Clients -> {"idle", "info", "name", "params", "ready", "pts", "desc", "gone"}]
        /\ pts \in [Clients -> Number] /\ shown \in [Clients -> Shown]
        /\ toClient \in [Clients -> Seq(Msg)]
    BY TypeParts DEF ClientTypes, QueueTypes
  <1> USE <1>1 DEF service
  <1>2. CASE Connect(c) \/ SendInfo(c) \/ SendName(c) \/ NextFrame(c) \/ Leave(c)
    BY <1>2 DEF Connect, SendInfo, SendName, Send, NextFrame, Leave
  <1>3. CASE ReceiveParams(c) \/ ReceivePts(c)
    BY <1>3 DEF ReceiveParams, ReceivePts, Receive
  <1>4. CASE ReceiveError(c) \/ ReceiveDesc(c) \/ ReceiveNoMemory(c)
    BY <1>4 DEF ReceiveError, ReceiveDesc, ReceiveNoMemory, Receive, Returned
  <1>5. CASE NoMemory(c) \/ EndInPts(c) \/ EndInDesc(c)
    BY <1>5 DEF NoMemory, EndInPts, EndInDesc, AtEnd, Returned
  <1> QED
    BY <1>2, <1>3, <1>4, <1>5 DEF Device

\* A recorder's step keeps the invariant.
LEMMA DeviceKeeps ==
    ASSUME IInv, NEW c \in Clients, Connect(c) \/ Device(c) \/ Leave(c)
    PROVE  StreamInv' /\ BacklogInv' /\ PlaceInv' /\ FramesTrue'
  <1>1. /\ \A d \in Clients \ {c} :
             /\ toClient'[d] = toClient[d] /\ client'[d] = client[d]
             /\ pts'[d] = pts[d] /\ shown'[d] = shown[d]
        /\ UNCHANGED <<pc, conn, frame, hungUp>>
        /\ \/ UNCHANGED backlog
           \/ /\ client[c] = "idle" /\ pc # "exited" /\ backlog' = Append(backlog, c)
              /\ client'[c] = "info" /\ UNCHANGED toClient
    BY OthersStep DEF IInv
  <1>2. InOrder(toClient'[c], client'[c], pts'[c]) /\ Kept(c) /\ ShownTrue(c)'
    BY OwnStep
  <1>3. StreamInv'
    BY <1>1, <1>2 DEF IInv, StreamInv
  <1>4. FramesTrue'
    BY <1>1, <1>2 DEF IInv, FramesTrue, ShownTrue
  <1>5. \A d \in Clients : Fresh(d) => Fresh(d)'
    BY <1>1, <1>2 DEF Kept, Fresh
  <1>6. backlog \in Seq(Clients)
    BY TypeParts DEF IInv, ServiceTypes
  <1>7. BacklogInv'
    <2>1. \A d \in Clients : client'[d] = "idle" => d # c /\ client[d] = "idle"
      BY <1>1, <1>2 DEF Kept
    <2>2. \A d \in Clients : client'[d] = "idle" =>
            toClient'[d] = <<>> /\ d # conn' /\ (pc' # "exited" => ~ hungUp'[d])
      BY <1>1, <2>1 DEF IInv, BacklogInv
    <2>3. CASE UNCHANGED backlog
      BY <1>1, <1>5, <1>6, <2>2, <2>3 DEF IInv, BacklogInv
    <2>4. CASE backlog' = Append(backlog, c) /\ client[c] = "idle"
      <3>1. /\ Len(backlog) \in Nat /\ Len(backlog') = Len(backlog) + 1
            /\ backlog'[Len(backlog) + 1] = c
            /\ \A i \in 1..Len(backlog) : backlog'[i] = backlog[i] /\ backlog[i] \in Clients
        BY <1>6, <2>4, AppendFacts
      <3>2. \A i \in 1..Len(backlog) : backlog[i] # c /\ Fresh(backlog[i]) /\ backlog[i] # conn
        BY <2>4, <3>1 DEF IInv, BacklogInv, Fresh
      <3>3. Fresh(c)' /\ c # conn
        BY <1>1, <2>4, <2>2 DEF IInv, BacklogInv, Fresh
      <3>4. \A i \in 1..Len(backlog') : Fresh(backlog[i])' /\ backlog'[i] # conn'
        BY <1>1, <1>5, <3>1, <3>2, <3>3
      <3>5. \A i, j \in 1..Len(backlog') : backlog'[i] = backlog'[j] => i = j
        BY <3>1, <3>2 DEF IInv, BacklogInv
      <3> QED
        BY <2>2, <3>4, <3>5 DEF BacklogInv
    <2> QED
      BY <1>1, <2>3, <2>4
  <1>8. PlaceInv'
    <2>1. conn \in Clients \/ conn = Nobody
      BY TypeParts DEF IInv, ServiceTypes
    <2>2. CASE conn \in Clients
      <3>1. CASE conn = c
        BY <1>1, <1>2, <3>1, <2>2 DEF IInv, PlaceInv, Kept
      <3>2. CASE conn # c
        BY <1>1, <3>2, <2>2 DEF IInv, PlaceInv, Fresh
      <3> QED
        BY <3>1, <3>2
    <2>3. CASE conn = Nobody
      <3>1. pc \in {"test", "calling", "poll", "exited"}
        BY <2>3, NobodyAssumption, TypeParts DEF IInv, ServiceTypes
      <3> QED
        BY <1>1, <2>3, <3>1, NobodyAssumption DEF PlaceInv
    <2> QED
      BY <2>1, <2>2, <2>3
  <1> QED
    BY <1>3, <1>4, <1>7, <1>8

-----------------------------------------------------------------------------
LEMMA InitInv == Init => IInv
  <1> SUFFICES ASSUME Init PROVE IInv
    OBVIOUS
  <1>1. \A c \in Clients : /\ toClient[c] = <<>> /\ client[c] = "idle" /\ ~ hungUp[c]
                           /\ shown[c].result = "none"
    BY DEF Init, NoFrame
  <1>2. pc = "test" /\ conn = Nobody /\ backlog = <<>>
    BY DEF Init
  <1>3. StreamInv
    <2>1. \A p, t : InOrder(<<>>, p, t)
      BY EmptyFacts DEF InOrder
    <2> QED
      BY <1>1, <2>1 DEF StreamInv
  <1>4. BacklogInv
    BY <1>1, <1>2, EmptyFacts, NobodyAssumption DEF BacklogInv
  <1>5. PlaceInv
    BY <1>2, NobodyAssumption DEF PlaceInv
  <1>6. FramesTrue
    BY <1>1 DEF FramesTrue
  <1> QED
    BY <1>3, <1>4, <1>5, <1>6, InitTypes DEF IInv

LEMMA InvStep == IInv /\ [Next]_vars => IInv'
  <1> SUFFICES ASSUME IInv, [Next]_vars PROVE IInv'
    OBVIOUS
  <1>1. TypeOK'
    BY TypeStep DEF IInv
  <1>2. CASE ServiceStep
    BY <1>1, <1>2, QuietSteps, QuietKeeps, SendKeeps DEF IInv
  <1>3. ASSUME NEW c \in Clients, Connect(c) \/ Device(c) \/ Leave(c)
        PROVE  IInv'
    BY <1>1, <1>3, DeviceKeeps DEF IInv
  <1>4. CASE UNCHANGED vars
    <2>1. UNCHANGED <<pc, running, late, conn, named, frame, backlog, client, toService, pts, shown,
                      toClient, hungUp>>
      BY <1>4 DEF vars, service, peers
    <2> QED
      BY <1>1, <2>1 DEF IInv, FramesTrue, StreamInv, BacklogInv, Fresh, PlaceInv
  <1> QED
    BY <1>2, <1>3, <1>4 DEF Next, ServiceStep

\* Of svkmscmd.c and svkmsdev.c: every variable has a value of its type, no
\* connection holds more than it can, and the service serves a connection exactly
\* between accept and its end.
THEOREM TypeCorrect == Spec => []TypeOK
  <1>1. IInv => TypeOK
    BY DEF IInv
  <1> QED
    BY <1>1, InitInv, InvStep, PTL DEF Spec

\* However captures, allocations and either side fail, a recorder never takes a
\* descriptor for a time or for that of another frame (svkmscmd.c:74-98 against
\* svkmsdev.c:54-70).
THEOREM StaysInSync == Spec => []InSync
  <1>1. IInv => InSync
    BY DEF IInv, StreamInv, InOrder, InSync
  <1> QED
    BY <1>1, InitInv, InvStep, PTL DEF Spec

\* A frame that the device returns has the time and the first file of one and the
\* same captured frame (svkmsdev.c:72-91).
THEOREM FramesAreTrue == Spec => []FramesTrue
  <1>1. IInv => FramesTrue
    BY DEF IInv
  <1> QED
    BY <1>1, InitInv, InvStep, PTL DEF Spec
=============================================================================
