------------------------- MODULE ControlSocketProofs -------------------------
(***************************************************************************)
(* Theorems about ControlSocket for any recorders, any clients and however *)
(* many crashes: a recorder which has been alone since it was started can  *)
(* be reached once it runs, and every command that has connected waits in  *)
(* the queue of one recorder.                                              *)
(***************************************************************************)
EXTENDS ControlSocket, Integers, SequenceTheorems, TLAPS

\* The functions that the steps change have the instances as their domain.
Domains == DOMAIN pc = Instances /\ DOMAIN alone = Instances

\* An instance that is alone is the only one that is up.
AloneIsAlone == \A i \in Instances : alone[i] => \A j \in Instances \ {i} : pc[j] = "down"

\* From its bind until it gives the socket up, it holds the path.
AloneHasPath == \A i \in Instances : pc[i] \in {"listen", "running"} /\ alone[i] => path = i

\* The inductive invariant: SoleReachable says nothing of an instance that has
\* bound and does not yet listen, nor of the others that could take the path.
SoleInv == Domains /\ AloneIsAlone /\ AloneHasPath

LEMMA SoleInit == Init => SoleInv
  BY DEF Init, SoleInv, Domains, AloneIsAlone, AloneHasPath

\* No step of a recorder, failed, ordered or a crash, takes the path from another
\* one that is alone.
LEMMA InstanceKeepsSole ==
  ASSUME NEW i \in Instances, SoleInv, Instance(i)
  PROVE  SoleInv'
<1> USE DEF SoleInv, Domains, AloneIsAlone, AloneHasPath, Goto
<1>1. CASE Start(i)
  BY <1>1 DEF Start
<1>2. CASE Bind(i)
  BY <1>2 DEF Bind
<1>3. CASE BindFailed(i)
  BY <1>3 DEF BindFailed, AfterFailedBind
<1>4. CASE Listen(i)
  BY <1>4 DEF Listen
<1>5. CASE ListenFailed(i)
  BY <1>5 DEF ListenFailed
<1>6. CASE Poll(i)
  BY <1>6 DEF Poll
<1>7. CASE Stop(i)
  BY <1>7 DEF Stop
<1>8. CASE Remove(i)
  BY <1>8 DEF Remove
<1>9. CASE Close(i)
  BY <1>9 DEF Close, Closed
<1>10. CASE Crash(i)
  BY <1>10 DEF Crash, Closed
<1> QED
  BY <1>1, <1>2, <1>3, <1>4, <1>5, <1>6, <1>7, <1>8, <1>9, <1>10 DEF Instance

\* The save commands change nothing that SoleInv speaks of.
LEMMA ClientKeepsSole ==
  ASSUME NEW c \in Clients, SoleInv, Client(c)
  PROVE  SoleInv'
BY DEF SoleInv, Domains, AloneIsAlone, AloneHasPath,
       Client, Press, Connect, ConnectFailed, Forget

LEMMA SoleStep == SoleInv /\ [Next]_vars => SoleInv'
<1> SUFFICES ASSUME SoleInv, [Next]_vars
             PROVE  SoleInv'
  OBVIOUS
<1>1. CASE \E i \in Instances : Instance(i)
  BY <1>1, InstanceKeepsSole
<1>2. CASE \E c \in Clients : Client(c)
  BY <1>2, ClientKeepsSole
<1>3. CASE UNCHANGED vars
  BY <1>3 DEF vars, SoleInv, Domains, AloneIsAlone, AloneHasPath
<1> QED
  BY <1>1, <1>2, <1>3 DEF Next

\* A recorder that has been alone since it was started is reached by every save
\* command while it runs: rsSocketBind does not report success over a path that
\* it has not bound, and only another recorder could remove it.
THEOREM SoleReachableAlways == Spec => []SoleReachable
<1>1. SoleInv => SoleReachable
  BY DEF SoleInv, AloneHasPath, SoleReachable
<1> QED
  BY <1>1, SoleInit, SoleStep, PTL DEF Spec

-----------------------------------------------------------------------------
(* The queues.                                                             *)

Labels == {"down", "bind", "listen", "running", "destroy", "abandon", "close"}
Outcomes == {"idle", "connecting", "queued", "saved", "lost", "failed"}

\* Everything but the queues.
PlainTypes ==
    /\ path \in Instances \cup {Nobody, Dead}
    /\ pc \in [Instances -> Labels]
    /\ bindPath \in [Instances -> BOOLEAN]
    /\ alone \in [Instances -> BOOLEAN]
    /\ crashes \in 0..MaxCrashes

QueueTypes ==
    /\ queue \in [Instances -> Seq(Clients)]
    /\ status \in [Clients -> Outcomes]

In(c, i) == \E k \in 1..Len(queue[i]) : queue[i][k] = c

\* A command waits exactly when it is in a queue, and it is in one place of one.
Waits == \A c \in Clients : status[c] = "queued" <=> \E i \in Instances : In(c, i)
Once ==
    /\ \A c \in Clients : \A i, j \in Instances : In(c, i) /\ In(c, j) => i = j
    /\ \A i \in Instances : \A k, l \in 1..Len(queue[i]) : queue[i][k] = queue[i][l] => k = l

\* The inductive invariant of the queues: that a command waits when it is in a queue
\* survives its acceptance because it is in no other place.
QueueInv == QueueTypes /\ Waits /\ Once

LEMMA QueueFacts ==
    ASSUME QueueTypes, NEW i \in Instances
    PROVE  /\ queue[i] \in Seq(Clients) /\ Len(queue[i]) \in Nat
           /\ DOMAIN queue[i] = 1..Len(queue[i])
           /\ \A k \in 1..Len(queue[i]) : queue[i][k] \in Clients
           /\ queue[i] = <<>> <=> Len(queue[i]) = 0
  <1>1. queue[i] \in Seq(Clients)
    BY DEF QueueTypes
  <1> QED
    BY <1>1, LenProperties, ElementOfSeq, EmptySeq

LEMMA QueuesSame ==
    ASSUME QueueInv, UNCHANGED queue, status' \in [Clients -> Outcomes]
    PROVE  QueueTypes' /\ Once' /\ \A c \in Clients, i \in Instances : In(c, i)' <=> In(c, i)
  <1>1. QueueTypes'
    BY DEF QueueInv, QueueTypes
  <1>2. \A c \in Clients : \A i \in Instances : In(c, i)' <=> In(c, i)
    BY DEF In
  <1>3. \A i \in Instances : \A k, l \in 1..Len(queue'[i]) : queue'[i][k] = queue'[i][l] => k = l
    BY DEF QueueInv, Once
  <1>4. \A c \in Clients : \A i, j \in Instances : In(c, i)' /\ In(c, j)' => i = j
    BY <1>2 DEF QueueInv, Once
  <1> QED
    BY <1>1, <1>2, <1>3, <1>4 DEF Once

\* A connection is accepted: the first of the queue.
LEMMA PollKeepsQueues ==
    ASSUME QueueInv, NEW i \in Instances, Poll(i)
    PROVE  QueueInv'
  <1> USE DEF QueueInv
  <1> DEFINE q == queue[i]
             c == Head(queue[i])
             n == Len(queue[i])
  <1>1. q # <<>> /\ status' = [status EXCEPT ![c] = "saved"] /\ queue' = [queue EXCEPT ![i] = Tail(q)]
    BY DEF Poll, RestOf
  <1>2. /\ Tail(q) \in Seq(Clients) /\ n \in Nat \ {0} /\ c = q[1] /\ c \in Clients
        /\ Len(Tail(q)) = n - 1 /\ \A k \in 1..(n - 1) : Tail(q)[k] = q[k + 1]
    <2>1. q \in Seq(Clients)
      BY QueueFacts
    <2>2. c = q[1] /\ c \in Clients
      BY <1>1, <2>1, HeadTailProperties
    <2>3. n \in Nat \ {0}
      BY <1>1, <2>1, EmptySeq
    <2>4. /\ Tail(q) \in Seq(Clients) /\ Len(Tail(q)) = n - 1
          /\ \A k \in 1..Len(Tail(q)) : Tail(q)[k] = q[k + 1]
      BY <1>1, <2>1, HeadTailProperties
    <2> QED
      BY <2>2, <2>3, <2>4
  <1>3. queue'[i] = Tail(q) /\ \A j \in Instances \ {i} : queue'[j] = queue[j]
    BY <1>1 DEF QueueTypes
  <1>4. \A d \in Clients : status'[d] = IF d = c THEN "saved" ELSE status[d]
    BY <1>1, <1>2 DEF QueueTypes
  <1>5. QueueTypes'
    BY <1>1, <1>2 DEF QueueTypes, Outcomes
  <1> HIDE DEF q, c, n
  <1>6. \A k \in 1..(n - 1) : k + 1 \in 1..n /\ k + 1 # 1
    BY <1>2
  <1>7. /\ n = Len(queue[i]) /\ q = queue[i] /\ 1 \in 1..n
        /\ \A k, l \in 1..n : q[k] = q[l] => k = l
    <2>1. n = Len(queue[i]) /\ q = queue[i]
      BY DEF n, q
    <2> QED
      BY <1>2, <2>1 DEF Once
  <1>8. \A d \in Clients : In(d, i)' => d # c /\ In(d, i)
    <2> SUFFICES ASSUME NEW d \in Clients, NEW k \in 1..(n - 1), Tail(q)[k] = d
                 PROVE  d # c /\ In(d, i)
      BY <1>2, <1>3 DEF In
    <2>1. k + 1 \in 1..n /\ k + 1 # 1 /\ q[k + 1] = d
      BY <1>2, <1>6
    <2> QED
      BY <1>2, <1>7, <2>1 DEF In
  <1>9. \A d \in Clients : In(d, i) /\ d # c => In(d, i)'
    <2> SUFFICES ASSUME NEW d \in Clients, NEW k \in 1..n, q[k] = d, d # c
                 PROVE  In(d, i)'
      BY <1>7 DEF In
    <2>1. k - 1 \in 1..(n - 1) /\ (k - 1) + 1 = k
      BY <1>2
    <2>2. Tail(q)[k - 1] = d
      BY <1>2, <2>1
    <2> QED
      BY <1>2, <1>3, <2>1, <2>2 DEF In
  <1>10. \A d \in Clients : \A j \in Instances \ {i} : In(d, j)' <=> In(d, j)
    BY <1>3 DEF In
  <1>11. In(c, i)
    BY <1>2, <1>7 DEF In
  <1>12. Waits'
    <2> SUFFICES ASSUME NEW d \in Clients
                 PROVE  status'[d] = "queued" <=> \E j \in Instances : In(d, j)'
      BY DEF Waits
    <2>1. CASE d = c
      <3>1. \A j \in Instances : ~ In(d, j)'
        BY <1>8, <1>10, <1>11, <2>1 DEF Once
      <3> QED
        BY <1>4, <2>1, <3>1
    <2>2. CASE d # c
      BY <1>4, <1>8, <1>9, <1>10, <2>2 DEF Waits
    <2> QED
      BY <2>1, <2>2
  <1>13. Once'
    <2>1. \A d \in Clients : \A j \in Instances : In(d, j)' => In(d, j)
      BY <1>8, <1>10
    <2>2. \A k, l \in 1..(n - 1) : Tail(q)[k] = Tail(q)[l] => k = l
      <3> TAKE k, l \in 1..(n - 1)
      <3>1. Tail(q)[k] = q[k + 1] /\ Tail(q)[l] = q[l + 1] /\ k + 1 \in 1..n /\ l + 1 \in 1..n
        BY <1>2, <1>6
      <3>2. Tail(q)[k] = Tail(q)[l] => k + 1 = l + 1
        BY <1>7, <3>1
      <3> QED
        BY <1>2, <3>2
    <2>3. \A j \in Instances : \A k, l \in 1..Len(queue'[j]) : queue'[j][k] = queue'[j][l] => k = l
      <3> TAKE j \in Instances
      <3>1. CASE j = i
        <4>1. queue'[j] = Tail(q) /\ Len(queue'[j]) = n - 1
          BY <1>2, <1>3, <3>1
        <4> QED
          BY <2>2, <4>1
      <3>2. CASE j # i
        BY <1>3, <3>2 DEF Once
      <3> QED
        BY <3>1, <3>2
    <2>4. \A d \in Clients : \A j, k \in Instances : In(d, j)' /\ In(d, k)' => j = k
      BY <2>1 DEF Once
    <2> QED
      BY <2>3, <2>4 DEF Once
  <1> QED
    BY <1>5, <1>12, <1>13

\* The queue of a socket that is closed is lost.
LEMMA ClosedKeepsQueues ==
    ASSUME QueueInv, NEW i \in Instances, Closed(i)
    PROVE  QueueInv'
  <1> USE DEF QueueInv
  <1>1. <<>> \in Seq(Clients) /\ Len(<<>>) = 0 /\ 1..0 = {}
    BY EmptySeq
  <1>2. queue' = [queue EXCEPT ![i] = <<>>]
    BY DEF Closed
  <1>3. queue'[i] = <<>> /\ \A j \in Instances \ {i} : queue'[j] = queue[j]
    BY <1>2 DEF QueueTypes
  <1>4. \A c \in Clients : status'[c] = IF In(c, i) THEN "lost" ELSE status[c]
    BY QueueFacts DEF Closed, In
  <1>5. status' \in [Clients -> Outcomes]
    BY DEF Closed, QueueTypes, Outcomes
  <1>6. \A c \in Clients : ~ In(c, i)' /\ \A j \in Instances \ {i} : In(c, j)' <=> In(c, j)
    BY <1>1, <1>3 DEF In
  <1>7. QueueTypes'
    BY <1>1, <1>2, <1>5 DEF QueueTypes
  <1>8. Waits'
    <2> SUFFICES ASSUME NEW c \in Clients
                 PROVE  status'[c] = "queued" <=> \E j \in Instances : In(c, j)'
      BY DEF Waits
    <2>1. CASE In(c, i)
      <3>1. \A j \in Instances : ~ In(c, j)'
        BY <1>6, <2>1 DEF Once
      <3> QED
        BY <1>4, <2>1, <3>1
    <2>2. CASE ~ In(c, i)
      BY <1>4, <1>6, <2>2 DEF Waits
    <2> QED
      BY <2>1, <2>2
  <1>9. Once'
    <2>1. \A j \in Instances : \A k, l \in 1..Len(queue'[j]) : queue'[j][k] = queue'[j][l] => k = l
      <3> TAKE j \in Instances
      <3>1. CASE j = i
        BY <1>1, <1>3, <3>1
      <3>2. CASE j # i
        BY <1>3, <3>2 DEF Once
      <3> QED
        BY <3>1, <3>2
    <2>2. \A c \in Clients : \A j, k \in Instances : In(c, j)' /\ In(c, k)' => j = k
      BY <1>6 DEF Once
    <2> QED
      BY <2>1, <2>2 DEF Once
  <1> QED
    BY <1>7, <1>8, <1>9

\* A connection is queued: the command was in no queue.
LEMMA ConnectKeepsQueues ==
    ASSUME QueueInv, NEW c \in Clients, Connect(c)
    PROVE  QueueInv'
  <1> USE DEF QueueInv
  <1>0. PICK i \in Instances : i = path
    BY DEF Connect, Listening
  <1> DEFINE q == queue[i]
             n == Len(queue[i])
  <1>1. /\ status[c] = "connecting" /\ queue' = [queue EXCEPT ![i] = Append(q, c)]
        /\ status' = [status EXCEPT ![c] = "queued"]
    BY <1>0 DEF Connect
  <1>2. /\ Append(q, c) \in Seq(Clients) /\ n \in Nat /\ Len(Append(q, c)) = n + 1
        /\ Append(q, c)[n + 1] = c /\ \A k \in 1..n : Append(q, c)[k] = q[k]
    BY QueueFacts, AppendProperties, LenProperties
  <1>3. queue'[i] = Append(q, c) /\ \A j \in Instances \ {i} : queue'[j] = queue[j]
    BY <1>1 DEF QueueTypes
  <1>4. \A d \in Clients : status'[d] = IF d = c THEN "queued" ELSE status[d]
    BY <1>1 DEF QueueTypes
  <1>5. QueueTypes'
    BY <1>1, <1>2 DEF QueueTypes, Outcomes
  <1>6. n = Len(queue[i]) /\ q = queue[i]
    OBVIOUS
  <1> HIDE DEF q, n
  <1>7. n + 1 \in 1..(n + 1) /\ \A k \in 1..(n + 1) : k = n + 1 \/ k \in 1..n
    BY <1>2
  <1>8. \A k \in 1..n : k \in 1..(n + 1)
    BY <1>2
  <1>9. \A d \in Clients : In(d, i)' <=> In(d, i) \/ d = c
    <2> TAKE d \in Clients
    <2>1. In(d, i)' <=> \E k \in 1..(n + 1) : Append(q, c)[k] = d
      BY <1>2, <1>3 DEF In
    <2>2. In(d, i) <=> \E k \in 1..n : q[k] = d
      BY <1>6 DEF In
    <2> QED
      BY <1>2, <1>7, <1>8, <2>1, <2>2
  <1>10. \A d \in Clients : \A j \in Instances \ {i} : In(d, j)' <=> In(d, j)
    BY <1>3 DEF In
  <1>11. \A j \in Instances : ~ In(c, j)
    BY <1>1 DEF Waits
  <1>12. Waits'
    BY <1>4, <1>9, <1>10 DEF Waits
  <1>13. Once'
    <2>1. \A k, l \in 1..(n + 1) : Append(q, c)[k] = Append(q, c)[l] => k = l
      <3>1. \A k \in 1..n : q[k] # c
        BY <1>6, <1>11 DEF In
      <3>2. \A k, l \in 1..n : q[k] = q[l] => k = l
        BY <1>6 DEF Once
      <3> QED
        BY <1>2, <1>7, <3>1, <3>2
    <2>2. \A j \in Instances : \A k, l \in 1..Len(queue'[j]) : queue'[j][k] = queue'[j][l] => k = l
      <3> TAKE j \in Instances
      <3>1. CASE j = i
        BY <1>2, <1>3, <2>1, <3>1
      <3>2. CASE j # i
        BY <1>3, <3>2 DEF Once
      <3> QED
        BY <3>1, <3>2
    <2>3. \A d \in Clients : \A j, k \in Instances : In(d, j)' /\ In(d, k)' => j = k
      BY <1>9, <1>10, <1>11 DEF Once
    <2> QED
      BY <2>2, <2>3 DEF Once
  <1> QED
    BY <1>5, <1>12, <1>13

\* A command that is in no queue goes on to another stage outside of them.
LEMMA OthersKeepQueues ==
    ASSUME QueueInv, NEW c \in Clients, Press(c) \/ ConnectFailed(c) \/ Forget(c)
    PROVE  QueueInv'
  <1> USE DEF QueueInv
  <1>1. /\ UNCHANGED queue /\ status' \in [Clients -> Outcomes]
        /\ status[c] # "queued" /\ status'[c] # "queued"
        /\ \A d \in Clients \ {c} : status'[d] = status[d]
    BY DEF Press, ConnectFailed, Forget, QueueTypes, Outcomes
  <1>2. QueueTypes' /\ Once'
    BY <1>1, QueuesSame
  <1>3. Waits'
    BY <1>1 DEF Waits, In
  <1> QED
    BY <1>2, <1>3

LEMMA SameKeepsQueues ==
    ASSUME QueueInv, UNCHANGED <<queue, status>>
    PROVE  QueueInv'
  <1>1. status' \in [Clients -> Outcomes]
    BY DEF QueueInv, QueueTypes
  <1>2. QueueTypes' /\ Once' /\ \A c \in Clients, i \in Instances : In(c, i)' <=> In(c, i)
    BY <1>1, QueuesSame
  <1>3. Waits'
    BY <1>2 DEF QueueInv, Waits
  <1> QED
    BY <1>2, <1>3 DEF QueueInv

LEMMA QueueStep == PlainTypes /\ QueueInv /\ [Next]_vars => PlainTypes' /\ QueueInv'
  <1> SUFFICES ASSUME PlainTypes, QueueInv, [Next]_vars
               PROVE  PlainTypes' /\ QueueInv'
    OBVIOUS
  <1>1. ASSUME NEW i \in Instances, Instance(i) PROVE PlainTypes' /\ QueueInv'
    <2>1. CASE Poll(i)
      BY <2>1, PollKeepsQueues DEF Poll, PlainTypes
    <2>2. CASE Close(i)
      BY <2>2, ClosedKeepsQueues DEF Close, Closed, Goto, PlainTypes, Labels
    <2>3. CASE Crash(i)
      <3>1. crashes' \in 0..MaxCrashes
        BY <2>3, BoundAssumption DEF Crash, PlainTypes
      <3>2. path' \in Instances \cup {Nobody, Dead}
        BY <2>3 DEF Crash, PlainTypes
      <3> QED
        BY <2>3, <3>1, <3>2, ClosedKeepsQueues DEF Crash, Closed, Goto, PlainTypes, Labels
    <2>4. ASSUME UNCHANGED <<queue, status>> PROVE QueueInv'
      BY <2>4, SameKeepsQueues
    <2>5. CASE Start(i)
      BY <2>4, <2>5 DEF Start, Goto, PlainTypes, Labels
    <2>6. CASE Bind(i)
      BY <2>4, <2>6 DEF Bind, Goto, PlainTypes, Labels
    <2>7. CASE BindFailed(i)
      BY <2>4, <2>7 DEF BindFailed, AfterFailedBind, Goto, PlainTypes, Labels
    <2>8. CASE Listen(i) \/ ListenFailed(i)
      BY <2>4, <2>8 DEF Listen, ListenFailed, Goto, PlainTypes, Labels
    <2>9. CASE Stop(i)
      BY <2>4, <2>9 DEF Stop, Goto, PlainTypes, Labels
    <2>10. CASE Remove(i)
      BY <2>4, <2>10 DEF Remove, Goto, PlainTypes, Labels
    <2> QED
      BY <1>1, <2>1, <2>2, <2>3, <2>5, <2>6, <2>7, <2>8, <2>9, <2>10 DEF Instance
  <1>2. ASSUME NEW c \in Clients, Client(c) PROVE PlainTypes' /\ QueueInv'
    <2>1. PlainTypes'
      BY <1>2 DEF Client, Press, Connect, ConnectFailed, Forget, PlainTypes
    <2> QED
      BY <1>2, <2>1, ConnectKeepsQueues, OthersKeepQueues DEF Client
  <1>3. CASE UNCHANGED vars
    BY <1>3, SameKeepsQueues DEF vars, PlainTypes
  <1> QED
    BY <1>1, <1>2, <1>3 DEF Next

\* Every variable keeps its type, and a save command that has connected is in the
\* queue of a socket until the recorder accepts it or closes the socket, whichever
\* recorders stop or crash: none is dropped, none is answered and still in a queue
\* (cmdctrl.c:31-44, socket.c:64-78).
THEOREM TypeCorrect == Spec => []TypeOK
  <1>1. Init => PlainTypes /\ QueueInv
    <2> SUFFICES ASSUME Init PROVE PlainTypes /\ QueueInv
      OBVIOUS
    <2>1. <<>> \in Seq(Clients) /\ Len(<<>>) = 0 /\ 1..0 = {}
      BY EmptySeq
    <2>2. PlainTypes
      BY BoundAssumption DEF Init, PlainTypes, Labels
    <2>3. \A c \in Clients : \A i \in Instances : ~ In(c, i)
      BY <2>1 DEF Init, In
    <2>4. QueueTypes /\ Waits /\ Once
      BY <2>1, <2>3 DEF Init, QueueTypes, Outcomes, Waits, Once
    <2> QED
      BY <2>2, <2>4 DEF QueueInv
  <1>2. PlainTypes /\ QueueInv => TypeOK
    <2> SUFFICES ASSUME PlainTypes, QueueInv PROVE TypeOK
      OBVIOUS
    <2>1. \A c \in Clients :
            status[c] = "queued" <=> \E i \in Instances : \E k \in DOMAIN queue[i] : queue[i][k] = c
      BY QueueFacts DEF QueueInv, Waits, In
    <2> QED
      BY <2>1 DEF TypeOK, PlainTypes, Labels, QueueInv, QueueTypes, Outcomes
  <1> QED
    BY <1>1, <1>2, QueueStep, PTL DEF Spec
=============================================================================
