-------------------------- MODULE PulseDeviceProofs --------------------------
(***************************************************************************)
(* Theorems about PulseDevice for any sinks and any number of messages the *)
(* server sends ahead.  What the device waits for and what it knows of the *)
(* default sink is settled by the messages it has not dispatched: the      *)
(* invariant says what they hold, and what comes behind what.              *)
(***************************************************************************)
EXTENDS PulseDevice, Integers, SequenceTheorems, TLAPS

Msg == [kind : MessageKind, sink : Sinks \cup {NoSink}]
Waiting == {"info", "stream", "subscribe"}
Places == {"connect", "info", "stream", "subscribe", "idle", "read", "iterate", "closed", "aborted"}

\* What a message answers; an event answers nothing.
AnswerTo(kind) ==
    IF kind = "info" THEN "info"
    ELSE IF kind \in {"ready", "failed"} THEN "stream"
    ELSE IF kind = "subscribed" THEN "subscribe"
    ELSE "none"

ServerTypes ==
    /\ default \in Sinks
    /\ request \in {"none"} \cup Waiting
    /\ mask \in {0, SubscriptionMask} /\ gone \in BOOLEAN /\ clue \in BOOLEAN

InboxTypes == inbox \in Seq(Msg) /\ Len(inbox) <= MaxInbox

DeviceTypes ==
    /\ auto \in Automatic /\ created \in BOOLEAN /\ lost \in BOOLEAN
    /\ serverChanged \in BOOLEAN /\ data \in BOOLEAN
    /\ stream \in [target : Sinks \cup {NoSink}, state : {"none", "creating", "ready", "failed"}]
    /\ pc \in Places
    /\ sink \in Sinks \cup {NoSink}

\* The device asks for one thing at a time and waits for it where it asked; it
\* knows no sink before the first answer.
AskInv ==
    /\ ~ gone /\ request # "none" => pc = request
    /\ pc \in {"idle", "read", "iterate"} => created
    /\ pc \in {"connect", "info"} /\ ~ created => sink = NoSink
    /\ pc \in Waiting => request = pc \/ \E k \in 1..Len(inbox) :
          inbox[k].kind \in {"info", "ready", "failed", "subscribed", "lost"}

\* An answer under way is the only one, and the device waits for it; a stream's end
\* is announced once; only a server that has gone fails the context, with its last
\* message.
AnswerInv ==
    /\ \A k \in 1..Len(inbox) : AnswerTo(inbox[k].kind) # "none" =>
          request = "none" /\ pc = AnswerTo(inbox[k].kind)
    /\ \A j, k \in 1..Len(inbox) : j < k /\ AnswerTo(inbox[j].kind) # "none" =>
          AnswerTo(inbox[k].kind) = "none"
    /\ \A j, k \in 1..Len(inbox) : inbox[j].kind = "killed" /\ inbox[k].kind = "killed" => j = k
    /\ \A k \in 1..Len(inbox) : inbox[k].kind = "lost" => gone /\ k = Len(inbox)
    /\ \A k \in 1..Len(inbox) : inbox[k].kind = "info" => inbox[k].sink \in Sinks
    /\ lost => gone

\* With a clue, the name in an answer is that of the default sink, or an event comes
\* behind it.
InfoInv ==
    clue => \A k \in 1..Len(inbox) : inbox[k].kind = "info" =>
        \/ inbox[k].sink = default
        \/ \E j \in 1..Len(inbox) : j > k /\ inbox[j].kind = "event"

\* With a clue, the device knows the default sink, is asking for it, or will hear of an
\* event.
KnowInv ==
    clue /\ ~ lost =>
        \/ sink \in {default, NoSink} \/ serverChanged \/ pc = "info"
        \/ \E k \in 1..Len(inbox) : inbox[k].kind = "event"

\* The inductive invariant.
IInv == ServerTypes /\ InboxTypes /\ DeviceTypes /\ AskInv /\ AnswerInv /\ InfoInv /\ KnowInv

-----------------------------------------------------------------------------
(* Lemmas about the connection.                                            *)

Rest == /\ inbox # <<>> /\ inbox[1] \in Msg
        /\ Tail(inbox) \in Seq(Msg)
        /\ Len(inbox) \in Nat \ {0} /\ Len(Tail(inbox)) = Len(inbox) - 1
        /\ \A k \in 1..(Len(inbox) - 1) : Tail(inbox)[k] = inbox[k + 1]

\* What dispatching a message leaves.
LEMMA NextFacts ==
    ASSUME InboxTypes, NEW kind, NextIs(kind)
    PROVE  Rest /\ inbox[1].kind = kind /\ Head(inbox) = inbox[1]
  <1>1. inbox \in Seq(Msg) /\ inbox # <<>> /\ Head(inbox).kind = kind
    BY DEF InboxTypes, NextIs
  <1>2. Head(inbox) = inbox[1] /\ Head(inbox) \in Msg
    BY <1>1, HeadTailProperties
  <1>3. Len(inbox) \in Nat \ {0}
    BY <1>1, EmptySeq
  <1>4. /\ Tail(inbox) \in Seq(Msg) /\ Len(Tail(inbox)) = Len(inbox) - 1
        /\ \A k \in 1..Len(Tail(inbox)) : Tail(inbox)[k] = inbox[k + 1]
    BY <1>1, HeadTailProperties
  <1> QED
    BY <1>1, <1>2, <1>3, <1>4 DEF Rest

\* What sending a message adds.
Added(m) == /\ inbox' \in Seq(Msg) /\ inbox' # <<>>
            /\ Len(inbox) \in Nat /\ Len(inbox') = Len(inbox) + 1
            /\ inbox'[Len(inbox) + 1] = m
            /\ \A k \in 1..Len(inbox) : inbox'[k] = inbox[k]

LEMMA SentFacts ==
    ASSUME InboxTypes, NEW m \in Msg, Sent(m)
    PROVE  Added(m)
  BY AppendProperties, LenProperties DEF InboxTypes, Sent, Added

\* Messages without a name.
LEMMA MessageFacts ==
    \A kind \in MessageKind : /\ Message(kind) \in Msg
                              /\ Message(kind).kind = kind
  BY DEF Message, Msg

\* One element removed: those behind it move up by one place.
LEMMA RemoveFacts ==
    ASSUME NEW S, NEW q \in Seq(S), NEW i \in 1..Len(q)
    PROVE  /\ RemoveAt(q, i) \in Seq(S)
           /\ Len(q) \in Nat
           /\ Len(RemoveAt(q, i)) = Len(q) - 1
           /\ \A k \in 1..(i - 1) : RemoveAt(q, i)[k] = q[k]
           /\ \A k \in i..(Len(q) - 1) : RemoveAt(q, i)[k] = q[k + 1]
  <1> DEFINE n == Len(q)
             front == SubSeq(q, 1, i - 1)
             back == SubSeq(q, i + 1, n)
  <1>1. n \in Nat /\ i \in 1..n /\ q \in Seq(S)
    BY LenProperties
  <1>2. front \in Seq(S) /\ Len(front) = i - 1 /\ \A k \in 1..(i - 1) : front[k] = q[k]
    BY <1>1, SubSeqProperties
  <1>3. back \in Seq(S) /\ Len(back) = n - i /\ \A k \in 1..(n - i) : back[k] = q[k + i]
    BY <1>1, SubSeqProperties
  <1> HIDE DEF n, front, back
  <1>4. /\ front \o back \in Seq(S)
        /\ Len(front \o back) = n - 1
        /\ \A k \in 1..(n - 1) : (front \o back)[k] = IF k <= i - 1 THEN front[k] ELSE back[k - (i - 1)]
    <2>1. /\ front \o back \in Seq(S)
          /\ Len(front \o back) = Len(front) + Len(back)
          /\ \A k \in 1..(Len(front) + Len(back)) :
               (front \o back)[k] = IF k <= Len(front) THEN front[k] ELSE back[k - Len(front)]
      BY <1>2, <1>3, ConcatProperties
    <2>2. Len(front) = i - 1 /\ Len(front) + Len(back) = n - 1
      BY <1>1, <1>2, <1>3
    <2> QED
      BY <2>1, <2>2
  <1>5. \A k \in 1..(i - 1) : (front \o back)[k] = q[k]
    <2> TAKE k \in 1..(i - 1)
    <2>1. k \in 1..(n - 1) /\ k <= i - 1
      BY <1>1
    <2> QED
      BY <1>2, <1>4, <2>1
  <1>6. \A k \in i..(n - 1) : (front \o back)[k] = q[k + 1]
    <2> TAKE k \in i..(n - 1)
    <2>1. k \in 1..(n - 1) /\ ~ (k <= i - 1) /\ k - (i - 1) \in 1..(n - i) /\ (k - (i - 1)) + i = k + 1
      BY <1>1
    <2> QED
      BY <1>3, <1>4, <2>1
  <1> QED
    BY <1>1, <1>4, <1>5, <1>6 DEF RemoveAt, n, front, back

\* What is left, t, of the messages q when that about the end of the stream is removed.
Left(q, t) ==
    /\ t \in Seq(Msg) /\ Len(t) \in Nat /\ Len(t) <= Len(q)
    /\ \A k \in 1..Len(t) :
         /\ t[k].kind # "killed"
         /\ \E j \in 1..Len(q) : t[k] = q[j] /\ (j = Len(q) => k = Len(t))
    /\ \A j \in 1..Len(q) : q[j].kind # "killed" => \E k \in 1..Len(t) : t[k] = q[j]

\* Deafness keeps every other message, and the order of the last.
LEMMA DeafFacts ==
    ASSUME NEW q \in Seq(Msg),
           \A j, k \in 1..Len(q) : q[j].kind = "killed" /\ q[k].kind = "killed" => j = k
    PROVE  Left(q, Deaf(q))
  <1> DEFINE killed == {k \in DOMAIN q : q[k].kind = "killed"}
  <1>1. Len(q) \in Nat /\ DOMAIN q = 1..Len(q)
    BY LenProperties
  <1>2. CASE killed = {}
    <2>1. Deaf(q) = q
      BY <1>2 DEF Deaf
    <2>2. \A k \in 1..Len(q) : q[k].kind # "killed"
      BY <1>1, <1>2
    <2>3. ASSUME NEW k \in 1..Len(q)
          PROVE  \E j \in 1..Len(q) : q[k] = q[j] /\ (j = Len(q) => k = Len(q))
      OBVIOUS
    <2>4. q \in Seq(Msg) /\ Len(q) \in Nat /\ Len(q) <= Len(q)
      BY <1>1
    <2>5. \A j \in 1..Len(q) : q[j].kind # "killed" => \E k \in 1..Len(q) : q[k] = q[j]
      OBVIOUS
    <2>6. Left(q, q)
      BY <2>2, <2>3, <2>4, <2>5, Zenon DEF Left
    <2> QED
      BY <2>1, <2>6
  <1>3. CASE killed # {}
    <2> DEFINE i == CHOOSE k \in killed : TRUE
               t == RemoveAt(q, i)
    <2>1. i \in 1..Len(q) /\ q[i].kind = "killed"
      BY <1>1, <1>3
    <2>2. Deaf(q) = t
      BY <1>3 DEF Deaf
    <2> HIDE DEF i
    <2>3. /\ t \in Seq(Msg) /\ Len(t) = Len(q) - 1
          /\ \A k \in 1..(i - 1) : t[k] = q[k]
          /\ \A k \in i..(Len(q) - 1) : t[k] = q[k + 1]
      BY <2>1, RemoveFacts
    <2> HIDE DEF t
    <2>4. ASSUME NEW k \in 1..Len(t)
          PROVE  /\ t[k].kind # "killed"
                 /\ \E j \in 1..Len(q) : t[k] = q[j] /\ (j = Len(q) => k = Len(t))
      <3>1. CASE k < i
        <4>1. k \in 1..(i - 1) /\ k \in 1..Len(q) /\ k # i /\ k # Len(q)
          BY <1>1, <2>1, <2>3, <3>1
        <4> QED
          BY <2>1, <2>3, <4>1
      <3>2. CASE ~ (k < i)
        <4>0. k \in 1..(Len(q) - 1) /\ Len(q) \in Nat /\ i \in 1..Len(q) /\ Len(t) = Len(q) - 1
          BY <1>1, <2>1, <2>3
        <4>1. k \in i..(Len(q) - 1) /\ k + 1 \in 1..Len(q) /\ k + 1 # i /\ (k + 1 = Len(q) => k = Len(t))
          BY <3>2, <4>0
        <4>2. t[k] = q[k + 1]
          BY <2>3, <4>1
        <4>3. q[k + 1].kind # "killed"
          BY <2>1, <4>1
        <4> QED
          BY <4>1, <4>2, <4>3
      <3> QED
        BY <3>1, <3>2
    <2>5. ASSUME NEW j \in 1..Len(q), q[j].kind # "killed"
          PROVE  \E k \in 1..Len(t) : t[k] = q[j]
      <3>1. CASE j < i
        <4>1. j \in 1..(i - 1) /\ j \in 1..Len(t)
          BY <1>1, <2>1, <2>3, <3>1
        <4> QED
          BY <2>3, <4>1
      <3>2. CASE ~ (j < i)
        <4>1. j # i
          BY <2>1, <2>5
        <4>2. j - 1 \in i..(Len(q) - 1) /\ j - 1 \in 1..Len(t) /\ (j - 1) + 1 = j
          BY <1>1, <2>1, <2>3, <3>2, <4>1
        <4> QED
          BY <2>3, <4>2
      <3> QED
        BY <3>1, <3>2
    <2> QED
      <3>1. Len(t) \in Nat /\ Len(t) <= Len(q)
        BY <1>1, <2>1, <2>3
      <3> QED
        BY <2>2, <2>3, <2>4, <2>5, <3>1 DEF Left
  <1> QED
    BY <1>2, <1>3

-----------------------------------------------------------------------------
(* Steps of the device that dispatch nothing, and steps of the server.     *)

LEMMA InitialInv == Init => IInv
  <1> SUFFICES ASSUME Init PROVE IInv
    OBVIOUS
  <1> USE DEF Init
  <1>1. inbox \in Seq(Msg) /\ Len(inbox) = 0
    OBVIOUS
  <1>2. ServerTypes
    BY DEF ServerTypes
  <1>5. InboxTypes
    BY <1>1, BoundAssumption DEF InboxTypes
  <1>4. DeviceTypes
    BY BoundAssumption DEF DeviceTypes, NoStream, Places
  <1>3. AskInv /\ AnswerInv /\ InfoInv /\ KnowInv
    BY <1>1 DEF AskInv, AnswerInv, InfoInv, KnowInv, Waiting
  <1> QED
    BY <1>2, <1>3, <1>4, <1>5 DEF IInv

\* Steps of the device that leave its messages alone.
Alone ==
    \/ Connected \/ ConnectFailed \/ Destroy \/ Call \/ Query \/ QueryLost
    \/ FrameRead \/ NothingToRead \/ ReadFailed \/ DataArrives

LEMMA AloneKeeps == IInv /\ Alone => IInv'
  <1> SUFFICES ASSUME IInv, Alone PROVE IInv'
    OBVIOUS
  <1> USE DEF IInv
  <1>1. ServerTypes' /\ InboxTypes'
    BY DEF Alone, Connected, ConnectFailed, Destroy, Call, Query, QueryLost, FrameRead,
           NothingToRead, ReadFailed, DataArrives, Step, server, ServerTypes, InboxTypes, Waiting
  <1>2. /\ inbox' = inbox /\ pc \notin Waiting
        /\ UNCHANGED <<default, clue, auto, created, lost, sink, gone>>
        /\ request' # request => pc' = request'
        /\ pc' \in {"idle", "read", "iterate"} => pc \in {"idle", "read", "iterate"}
        /\ pc' \in Waiting => request' = pc'
        /\ pc' = "info" => pc \in {"connect", "read"}
        /\ pc' # "connect"
    BY DEF Alone, Connected, ConnectFailed, Destroy, Call, Query, QueryLost, FrameRead,
           NothingToRead, ReadFailed, DataArrives, Step, server, Waiting
  <1>3. /\ pc' \in Places /\ stream' \in {stream, [target |-> NoSink, state |-> "creating"]}
        /\ serverChanged' \in BOOLEAN /\ data' \in BOOLEAN
        /\ serverChanged' # serverChanged => pc' = "info" \/ lost
    BY DEF Alone, Connected, ConnectFailed, Destroy, Call, Query, QueryLost, FrameRead,
           NothingToRead, ReadFailed, DataArrives, Step, server, Places, DeviceTypes
  <1>4. DeviceTypes'
    <2>1. stream' \in [target : Sinks \cup {NoSink}, state : {"none", "creating", "ready", "failed"}]
      BY <1>3 DEF DeviceTypes
    <2> QED
      BY <1>2, <1>3, <2>1 DEF DeviceTypes
  <1>5. AskInv'
    BY <1>2 DEF AskInv, Waiting, ServerTypes
  <1>6. AnswerInv'
    <2>1. \A k \in 1..Len(inbox) : AnswerTo(inbox[k].kind) = "none"
      BY <1>2 DEF AnswerInv, AnswerTo, Waiting
    <2> QED
      BY <1>2, <2>1 DEF AnswerInv
  <1>7. InfoInv' /\ KnowInv'
    BY <1>2, <1>3 DEF InfoInv, KnowInv, Waiting
  <1> QED
    BY <1>1, <1>4, <1>5, <1>6, <1>7

\* The mask that is passed has the bits of what is watched.
LEMMA MaskFacts == \A facility \in Watched : Admits(SubscriptionMask, facility)
  BY DEF Watched, Admits, SubscriptionMask, EVENT_SERVER, EVENT_CHANGE,
         MASK_SINK, MASK_SOURCE, MASK_SINK_INPUT, MASK_MODULE

\* What holds of the messages with one more.
LEMMA ServerKeeps == IInv /\ Server => IInv'
  <1> SUFFICES ASSUME IInv, Server PROVE IInv'
    OBVIOUS
  <1> USE DEF IInv
  <1>1. \A k \in 1..Len(inbox) : inbox[k].kind # "lost"
    BY DEF AnswerInv, Server, Answer, Happens, KillStream, Quit
  <1>2. ASSUME Answer PROVE IInv'
    <2>1. PICK m \in Msg : /\ Sent(m)
                           /\ AnswerTo(m.kind) = request
                           /\ m.kind \in {"info", "ready", "failed", "subscribed"}
                           /\ m.kind = "info" => m.sink = default /\ default \in Sinks
      BY <1>2, MessageFacts DEF Answer, AnswerTo, Msg, MessageKind, ServerTypes
    <2>2. Added(m)
      BY <2>1, SentFacts
    <2>3. pc = request /\ request # "none"
      BY <1>2 DEF Answer, AskInv
    <2>4. \A k \in 1..Len(inbox) : AnswerTo(inbox[k].kind) = "none"
      BY <2>3 DEF AnswerInv
    <2>5. ServerTypes' /\ InboxTypes' /\ DeviceTypes'
      BY <1>2, <2>2, BoundAssumption
         DEF Answer, ServerTypes, InboxTypes, DeviceTypes, state, Waiting, Added
    <2>6. AskInv'
      BY <1>2, <2>1, <2>2, <2>3 DEF Answer, AskInv, Added, Waiting, state
    <2>7. AnswerInv'
      <3>1. /\ request' = "none" /\ pc' = pc /\ lost' = lost /\ gone' = gone
            /\ ~ gone /\ AnswerTo(m.kind) = pc /\ m.kind \notin {"killed", "lost"}
        BY <1>2, <2>1, <2>3 DEF Answer, state
      <3> QED
        BY <1>1, <2>1, <2>2, <2>4, <3>1 DEF AnswerInv, Added
    <2>8. /\ UNCHANGED <<default, lost, sink, serverChanged, pc>>
          /\ request # "info" => (clue' => clue) /\ m.kind # "info"
          /\ request = "info" => pc = "info"
      BY <1>2, <2>1, <2>3 DEF Answer, state, AnswerTo
    <2>9. \A k \in 1..Len(inbox) : inbox[k].kind # "info"
      BY <2>4 DEF AnswerTo
    <2>10. InfoInv'
      BY <2>1, <2>2, <2>8, <2>9 DEF InfoInv, Added
    <2>11. KnowInv'
      BY <2>2, <2>8 DEF KnowInv, Added
    <2> QED
      BY <2>5, <2>6, <2>7, <2>10, <2>11
  <1>3. ASSUME NEW facility \in Facility, Happens(facility), Admits(mask, facility) PROVE IInv'
    <2>1. Added(Message("event"))
      BY <1>3, SentFacts, MessageFacts DEF Happens, MessageKind
    <2>2. Message("event").kind = "event" /\ AnswerTo("event") = "none"
      BY MessageFacts DEF MessageKind, AnswerTo
    <2>3. /\ UNCHANGED <<mask, request, gone, auto, pc, created, lost, stream, sink>>
          /\ UNCHANGED <<serverChanged, data>>
          /\ default' \in Sinks /\ clue' \in BOOLEAN
          /\ Len(inbox) < MaxInbox
      BY <1>3 DEF Happens, state, ServerTypes
    <2>4. ServerTypes' /\ InboxTypes' /\ DeviceTypes'
      BY <2>1, <2>3, BoundAssumption DEF ServerTypes, InboxTypes, DeviceTypes, Added
    <2>5. AskInv'
      BY <2>1, <2>3 DEF AskInv, Added, Waiting
    <2>6. AnswerInv'
      BY <1>1, <2>1, <2>2, <2>3 DEF AnswerInv, Added
    <2>7. InfoInv' /\ KnowInv'
      BY <2>1, <2>2, <2>3 DEF InfoInv, KnowInv, Added
    <2> QED
      BY <2>4, <2>5, <2>6, <2>7
  <1>4. ASSUME NEW facility \in Facility, Happens(facility), ~ Admits(mask, facility) PROVE IInv'
    <2>1. mask = 0 \/ facility \notin Watched
      BY <1>4, MaskFacts DEF ServerTypes
    <2>2. /\ UNCHANGED <<inbox, mask, request, gone, auto, pc, created, lost, stream, sink>>
          /\ UNCHANGED <<serverChanged, data>>
          /\ default' \in Sinks /\ clue' = (clue /\ default' = default)
      BY <1>4, <2>1 DEF Happens, state, ServerTypes
    <2>3. ServerTypes' /\ InboxTypes' /\ DeviceTypes'
      BY <2>2 DEF ServerTypes, InboxTypes, DeviceTypes
    <2>4. AskInv' /\ AnswerInv'
      BY <2>2 DEF AskInv, AnswerInv
    <2>5. InfoInv' /\ KnowInv'
      BY <2>2 DEF InfoInv, KnowInv
    <2> QED
      BY <2>3, <2>4, <2>5
  <1>5. ASSUME KillStream PROVE IInv'
    <2>1. Added(Message("killed"))
      BY <1>5, SentFacts, MessageFacts DEF KillStream, MessageKind
    <2>2. Message("killed").kind = "killed" /\ AnswerTo("killed") = "none"
      BY MessageFacts DEF MessageKind, AnswerTo
    <2>3. ServerTypes' /\ InboxTypes' /\ DeviceTypes'
      BY <1>5, <2>1, BoundAssumption
         DEF KillStream, ServerTypes, InboxTypes, DeviceTypes, server, state, Waiting, Added
    <2>4. AskInv'
      BY <1>5, <2>1 DEF KillStream, AskInv, Added, Waiting, server, state
    <2>5. \A k \in 1..Len(inbox) : inbox[k].kind # "killed"
      BY <1>5, LenProperties DEF KillStream, InboxTypes
    <2>6. AnswerInv'
      BY <1>1, <1>5, <2>1, <2>2, <2>5 DEF KillStream, AnswerInv, Added, server, state
    <2>7. InfoInv'
      BY <1>5, <2>1, <2>2 DEF KillStream, InfoInv, Added, server, state
    <2>8. KnowInv'
      BY <1>5, <2>1, <2>2 DEF KillStream, KnowInv, Added, server, state
    <2> QED
      BY <2>3, <2>4, <2>6, <2>7, <2>8
  <1>6. ASSUME Quit PROVE IInv'
    <2>1. Added(Message("lost"))
      BY <1>6, SentFacts, MessageFacts DEF Quit, MessageKind
    <2>2. Message("lost").kind = "lost" /\ AnswerTo("lost") = "none"
      BY MessageFacts DEF MessageKind, AnswerTo
    <2>3. ServerTypes' /\ InboxTypes' /\ DeviceTypes'
      BY <1>6, <2>1, BoundAssumption
         DEF Quit, ServerTypes, InboxTypes, DeviceTypes, state, Waiting, Added
    <2>4. AskInv'
      BY <1>6, <2>1 DEF Quit, AskInv, Added, Waiting, state
    <2>5. AnswerInv'
      BY <1>1, <1>6, <2>1, <2>2 DEF Quit, AnswerInv, Added, state
    <2>6. InfoInv' /\ KnowInv'
      BY <1>6, <2>1, <2>2 DEF Quit, InfoInv, KnowInv, Added, state
    <2> QED
      BY <2>3, <2>4, <2>5, <2>6
  <1> QED
    BY <1>2, <1>3, <1>4, <1>5, <1>6 DEF Server

-----------------------------------------------------------------------------
(* Steps of the device that dispatch an answer.                            *)

\* After the answer that was awaited nothing under way is an answer, and what is
\* known of its name is told by what is left.
Taken ==
    /\ InboxTypes' /\ AnswerInv' /\ InfoInv'
    /\ inbox[1].kind = "info" => inbox[1].sink \in Sinks
    /\ clue /\ inbox[1].kind = "info" =>
         inbox[1].sink = default \/ \E k \in 1..Len(inbox') : inbox'[k].kind = "event"
    /\ \A k \in 1..Len(inbox) : inbox[k].kind = "event" =>
         \E j \in 1..Len(inbox') : inbox'[j].kind = "event"

LEMMA AnswerTaken ==
    ASSUME IInv, Rest, AnswerTo(inbox[1].kind) # "none",
           \/ inbox' = Tail(inbox)
           \/ inbox' = Deaf(Tail(inbox)),
           gone' = gone, lost' = lost
    PROVE  Taken
  <1> DEFINE t == Tail(inbox)
  <1> USE DEF IInv
  <1>1. /\ t \in Seq(Msg) /\ Len(inbox) \in Nat \ {0} /\ Len(t) = Len(inbox) - 1
        /\ \A k \in 1..Len(t) : k + 1 \in 1..Len(inbox) /\ t[k] = inbox[k + 1]
        /\ 1 \in 1..Len(inbox) /\ Len(t) \in Nat
    BY DEF Rest
  <1>2. ASSUME NEW k \in 1..Len(t)
        PROVE  /\ AnswerTo(t[k].kind) = "none"
               /\ t[k].kind = "lost" => gone /\ k = Len(t)
    <2> HIDE DEF t
    <2>1. k + 1 \in 1..Len(inbox) /\ 1 < k + 1 /\ t[k] = inbox[k + 1]
      BY <1>1
    <2>2. AnswerTo(inbox[k + 1].kind) = "none"
      BY <1>1, <2>1 DEF AnswerInv
    <2>3. inbox[k + 1].kind = "lost" => gone /\ k + 1 = Len(inbox)
      BY <2>1 DEF AnswerInv
    <2> QED
      BY <1>1, <2>1, <2>2, <2>3
  <1>3. \A j, k \in 1..Len(t) : t[j].kind = "killed" /\ t[k].kind = "killed" => j = k
    <2> TAKE j, k \in 1..Len(t)
    <2>1. /\ j + 1 \in 1..Len(inbox) /\ t[j] = inbox[j + 1]
          /\ k + 1 \in 1..Len(inbox) /\ t[k] = inbox[k + 1]
      BY <1>1
    <2>2. inbox[j + 1].kind = "killed" /\ inbox[k + 1].kind = "killed" => j + 1 = k + 1
      BY <2>1 DEF AnswerInv
    <2> QED
      BY <1>1, <2>1, <2>2
  <1>4. ASSUME NEW j \in 1..Len(inbox), inbox[j].kind = "event"
        PROVE  \E k \in 1..Len(t) : t[k].kind = "event"
    <2>1. j # 1
      BY <1>4 DEF AnswerTo
    <2>2. j - 1 \in 1..Len(t) /\ (j - 1) + 1 = j
      BY <1>1, <2>1
    <2> QED
      BY <1>1, <1>4, <2>2
  <1>5. Len(t) <= MaxInbox
    BY <1>1, BoundAssumption DEF InboxTypes
  <1>6. /\ InboxTypes'
        /\ \A k \in 1..Len(inbox') : /\ AnswerTo(inbox'[k].kind) = "none"
                                     /\ inbox'[k].kind = "lost" => gone /\ k = Len(inbox')
        /\ \A j, k \in 1..Len(inbox') : inbox'[j].kind = "killed" /\ inbox'[k].kind = "killed" => j = k
        /\ \A j \in 1..Len(t) : t[j].kind = "event" =>
             \E k \in 1..Len(inbox') : inbox'[k].kind = "event"
    <2> HIDE DEF t
    <2>1. CASE inbox' = t
      BY <1>1, <1>2, <1>3, <1>5, <2>1 DEF InboxTypes
    <2>2. CASE inbox' = Deaf(t)
      <3>1. Left(t, inbox')
        BY <1>1, <1>3, <2>2, DeafFacts
      <3>2. InboxTypes'
        BY <1>1, <1>5, <3>1, BoundAssumption DEF Left, InboxTypes
      <3>3. ASSUME NEW k \in 1..Len(inbox')
            PROVE  /\ AnswerTo(inbox'[k].kind) = "none"
                   /\ inbox'[k].kind = "lost" => gone /\ k = Len(inbox')
                   /\ inbox'[k].kind # "killed"
        <4>1. PICK j \in 1..Len(t) : inbox'[k] = t[j] /\ (j = Len(t) => k = Len(inbox'))
          BY <3>1 DEF Left
        <4>2. inbox'[k].kind # "killed"
          BY <3>1 DEF Left
        <4> QED
          BY <1>2, <4>1, <4>2
      <3>4. ASSUME NEW j \in 1..Len(t), t[j].kind = "event"
            PROVE  \E k \in 1..Len(inbox') : inbox'[k].kind = "event"
        <4>1. PICK k \in 1..Len(inbox') : inbox'[k] = t[j]
          BY <3>1, <3>4 DEF Left
        <4> QED
          BY <3>4, <4>1
      <3> QED
        BY <3>2, <3>3, <3>4
    <2> QED
      BY <2>1, <2>2 DEF t
  <1>7. AnswerInv'
    <2>1. (lost => gone)'
      BY DEF AnswerInv
    <2>2. \A k \in 1..Len(inbox') : inbox'[k].kind # "info"
      BY <1>6 DEF AnswerTo
    <2> QED
      BY <1>6, <2>1, <2>2 DEF AnswerInv
  <1>8. InfoInv'
    BY <1>6 DEF InfoInv, AnswerTo
  <1>9. inbox[1].kind = "info" => inbox[1].sink \in Sinks
    BY <1>1 DEF AnswerInv
  <1>10. \A j \in 1..Len(inbox) : inbox[j].kind = "event" =>
           \E k \in 1..Len(inbox') : inbox'[k].kind = "event"
    BY <1>4, <1>6
  <1>11. clue /\ inbox[1].kind = "info" =>
           inbox[1].sink = default \/ \E k \in 1..Len(inbox') : inbox'[k].kind = "event"
    BY <1>1, <1>10 DEF InfoInv
  <1> QED
    BY <1>6, <1>7, <1>8, <1>9, <1>10, <1>11 DEF Taken

LEMMA AnswerKeeps ==
    IInv /\ (SameSink \/ OtherSink \/ OtherSinkNoMemory \/ StreamReady \/ StreamFailed \/ Subscribed)
        => IInv'
  <1> SUFFICES ASSUME IInv,
                      SameSink \/ OtherSink \/ OtherSinkNoMemory \/ StreamReady \/ StreamFailed \/ Subscribed
               PROVE  IInv'
    OBVIOUS
  <1> USE DEF IInv
  <1>1. PICK kind \in {"info", "ready", "failed", "subscribed"} : NextIs(kind)
    BY DEF SameSink, OtherSink, OtherSinkNoMemory, StreamReady, StreamFailed, Subscribed
  <1>2. Rest /\ inbox[1].kind = kind /\ Head(inbox) = inbox[1]
    BY <1>1, NextFacts
  <1>3. 1 \in 1..Len(inbox) /\ AnswerTo(inbox[1].kind) # "none"
    BY <1>1, <1>2 DEF Rest, AnswerTo
  <1>4. /\ inbox' \in {Tail(inbox), Deaf(Tail(inbox))}
        /\ UNCHANGED <<default, mask, gone, clue, auto, lost, serverChanged>>
    BY DEF SameSink, OtherSink, OtherSinkNoMemory, StreamReady, StreamFailed, Subscribed, Dispatched,
           StreamCreate, server
  <1>5. Taken
    BY <1>2, <1>3, <1>4, AnswerTaken
  <1>6. request = "none"
    BY <1>3 DEF AnswerInv
  <1>7. InboxTypes' /\ AnswerInv' /\ InfoInv'
    BY <1>5 DEF Taken
  <1>8. serverChanged \in BOOLEAN /\ auto \in Automatic /\ lost \in BOOLEAN /\ created \in BOOLEAN
    BY DEF DeviceTypes
  <1>9. CASE SameSink
    <2>1. /\ pc = "info" /\ kind = "info" /\ inbox[1].sink = sink /\ pc' = "iterate"
          /\ UNCHANGED <<request, created, stream, sink, data>>
      BY <1>1, <1>2, <1>9 DEF SameSink, server, NextIs
    <2>2. ServerTypes' /\ DeviceTypes'
      BY <1>4, <2>1 DEF ServerTypes, DeviceTypes, Places
    <2>3. AskInv'
      BY <1>2, <1>5, <1>6, <2>1, SinkAssumption DEF AskInv, Taken, Waiting
    <2>4. KnowInv'
      BY <1>2, <1>4, <1>5, <2>1 DEF KnowInv, Taken
    <2> QED
      BY <1>7, <2>2, <2>3, <2>4
  <1>10. CASE OtherSink
    <2>1. /\ pc = "info" /\ kind = "info" /\ sink' = inbox[1].sink
          /\ stream' = [target |-> sink', state |-> "creating"]
          /\ request' = "stream" /\ data' = FALSE /\ pc' = "stream" /\ created' = created
      BY <1>1, <1>2, <1>10 DEF OtherSink, NextIs, StreamCreate
    <2>2. sink' \in Sinks
      BY <1>2, <1>5, <2>1 DEF Taken
    <2>3. ServerTypes' /\ DeviceTypes'
      BY <1>4, <2>1, <2>2 DEF ServerTypes, DeviceTypes, Places, Waiting
    <2>4. AskInv'
      BY <2>1 DEF AskInv, Waiting
    <2>5. KnowInv'
      BY <1>2, <1>4, <1>5, <2>1 DEF KnowInv, Taken
    <2> QED
      BY <1>7, <2>3, <2>4, <2>5
  <1>11. CASE OtherSinkNoMemory
    <2>1. /\ pc = "info" /\ kind = "info" /\ sink' \in {NoSink, inbox[1].sink}
          /\ pc' = AfterFailure
          /\ UNCHANGED <<request, created, stream, data>>
      BY <1>1, <1>2, <1>11 DEF OtherSinkNoMemory, server, NextIs
    <2>2. ServerTypes' /\ DeviceTypes'
      BY <1>2, <1>4, <1>5, <2>1 DEF ServerTypes, DeviceTypes, Places, Taken, AfterFailure
    <2>3. AskInv'
      BY <1>6, <2>1 DEF AskInv, Waiting, AfterFailure
    <2>4. KnowInv'
      BY <1>2, <1>4, <1>5, <2>1 DEF KnowInv, Taken
    <2> QED
      BY <1>7, <2>2, <2>3, <2>4
  <1>12. CASE StreamReady
    <2>1. /\ pc = "stream" /\ kind = "ready"
          /\ stream' = [stream EXCEPT !.state = "ready"]
          /\ created' = (created \/ ~ auto)
          /\ UNCHANGED <<sink, data>>
          /\ \/ pc' = "read" /\ created /\ request' = request
             \/ pc' = "idle" /\ ~ created /\ ~ auto /\ request' = request
             \/ pc' = "subscribe" /\ ~ created /\ request' = "subscribe"
      BY <1>1, <1>2, <1>12 DEF StreamReady, NextIs
    <2>2. ServerTypes'
      BY <1>4, <2>1 DEF ServerTypes, Waiting
    <2>3. stream' \in [target : Sinks \cup {NoSink}, state : {"none", "creating", "ready", "failed"}]
      BY <2>1 DEF DeviceTypes
    <2>4. DeviceTypes'
      BY <1>4, <1>8, <2>1, <2>3, BoundAssumption DEF DeviceTypes, Places
    <2>5. AskInv'
      BY <1>6, <2>1 DEF AskInv, Waiting
    <2>6. KnowInv'
      BY <1>2, <1>4, <1>5, <2>1 DEF KnowInv, Taken
    <2> QED
      BY <1>7, <2>2, <2>4, <2>5, <2>6
  <1>13. CASE StreamFailed
    <2>1. /\ pc = "stream" /\ pc' = AfterFailure
          /\ stream' = [stream EXCEPT !.state = "failed"]
          /\ UNCHANGED <<request, created, sink, data>>
      BY <1>13 DEF StreamFailed, server
    <2>2. stream' \in [target : Sinks \cup {NoSink}, state : {"none", "creating", "ready", "failed"}]
      BY <2>1 DEF DeviceTypes
    <2>3. ServerTypes' /\ DeviceTypes'
      BY <1>4, <2>1, <2>2 DEF ServerTypes, DeviceTypes, Places, AfterFailure
    <2>4. AskInv'
      BY <1>6, <2>1 DEF AskInv, Waiting, AfterFailure
    <2>5. KnowInv'
      BY <1>4, <1>5, <2>1 DEF KnowInv, Taken
    <2> QED
      BY <1>7, <2>3, <2>4, <2>5
  <1>14. CASE Subscribed
    <2>1. /\ pc = "subscribe" /\ pc' = "idle" /\ created' = TRUE
          /\ UNCHANGED <<request, stream, sink, data>>
      BY <1>14 DEF Subscribed, server
    <2>2. ServerTypes' /\ DeviceTypes'
      BY <1>4, <2>1 DEF ServerTypes, DeviceTypes, Places
    <2>3. AskInv'
      BY <1>6, <2>1 DEF AskInv, Waiting
    <2>4. KnowInv'
      BY <1>4, <1>5, <2>1 DEF KnowInv, Taken
    <2> QED
      BY <1>7, <2>2, <2>3, <2>4
  <1> QED
    BY <1>9, <1>10, <1>11, <1>12, <1>13, <1>14

-----------------------------------------------------------------------------
(* Steps of the device that dispatch an event.                             *)

\* An event, of whatever kind: what comes behind it keeps its order.
LEMMA EventKeeps ==
    IInv /\ (Event \/ WaitLost \/ Iterate) => IInv'
  <1> SUFFICES ASSUME IInv, Event \/ WaitLost \/ Iterate
               PROVE  IInv'
    OBVIOUS
  <1> USE DEF IInv
  <1>1. PICK kind \in {"event", "killed", "lost"} : NextIs(kind)
    BY DEF Event, WaitLost, Iterate, ServerChange, StreamKilled, ContextLost
  <1>2. Rest /\ inbox[1].kind = kind /\ Head(inbox) = inbox[1]
    BY <1>1, NextFacts
  <1>3. /\ inbox' = Tail(inbox)
        /\ UNCHANGED <<default, mask, request, gone, clue, auto, created, sink, data>>
        /\ kind = "event" => serverChanged' = TRUE
        /\ kind # "event" => serverChanged' = serverChanged
        /\ kind = "lost" => lost' = TRUE
        /\ kind # "lost" => lost' = lost
    BY <1>1 DEF Event, WaitLost, Iterate, ServerChange, StreamKilled, ContextLost, Dispatched, NextIs, server, Seen
  <1>4. /\ \/ pc' = pc /\ pc \in Waiting /\ kind # "lost"
           \/ pc' = AfterFailure /\ pc \in Waiting /\ kind = "lost"
           \/ pc' \in {"read", "iterate"} /\ pc = "iterate"
    BY <1>1 DEF Event, WaitLost, Iterate, ServerChange, StreamKilled, ContextLost, NextIs, Waiting
  <1>5. /\ inbox' \in Seq(Msg) /\ Len(inbox) \in Nat \ {0} /\ Len(inbox') = Len(inbox) - 1
        /\ \A k \in 1..Len(inbox') : k + 1 \in 1..Len(inbox) /\ inbox'[k] = inbox[k + 1]
        /\ \A k \in 1..Len(inbox) : k # 1 => k - 1 \in 1..Len(inbox') /\ inbox'[k - 1] = inbox[k]
        /\ 1 \in 1..Len(inbox)
    BY <1>2, <1>3 DEF Rest
  <1>6. kind = "lost" => gone /\ inbox' = <<>> /\ Len(inbox') = 0
    <2> SUFFICES ASSUME kind = "lost" PROVE gone /\ inbox' = <<>> /\ Len(inbox') = 0
      OBVIOUS
    <2>1. gone /\ 1 = Len(inbox)
      BY <1>2, <1>5 DEF AnswerInv
    <2>2. inbox' \in Seq(Msg) /\ Len(inbox') = Len(inbox) - 1
      BY <1>5
    <2>3. Len(inbox') = 0
      BY <2>1, <2>2
    <2> QED
      BY <2>1, <2>2, <2>3, EmptySeq
  <1>7. ServerTypes' /\ InboxTypes'
    BY <1>3, <1>5, BoundAssumption DEF ServerTypes, InboxTypes
  <1>8. DeviceTypes'
    <2>1. stream' \in [target : Sinks \cup {NoSink}, state : {"none", "creating", "ready", "failed"}]
      BY DEF Event, WaitLost, Iterate, ServerChange, StreamKilled, ContextLost, DeviceTypes
    <2>2. serverChanged' \in BOOLEAN /\ lost' \in BOOLEAN
      BY <1>3 DEF DeviceTypes
    <2>3. pc' \in Places
      BY <1>4 DEF DeviceTypes, Places, AfterFailure
    <2> QED
      BY <1>3, <2>1, <2>2, <2>3 DEF DeviceTypes
  <1>9. AskInv'
    <2>1. CASE pc' = pc /\ pc \in Waiting /\ kind # "lost"
      <3>1. ASSUME NEW k \in 1..Len(inbox),
                   inbox[k].kind \in {"info", "ready", "failed", "subscribed", "lost"}
            PROVE  \E j \in 1..Len(inbox') :
                     inbox'[j].kind \in {"info", "ready", "failed", "subscribed", "lost"}
        <4>1. k # 1
          BY <1>2, <2>1, <3>1
        <4> QED
          BY <1>5, <3>1, <4>1
      <3> QED
        BY <1>3, <2>1, <3>1 DEF AskInv
    <2>2. CASE pc' = AfterFailure /\ pc \in Waiting /\ kind = "lost"
      BY <1>3, <1>6, <2>2 DEF AskInv, AfterFailure, Waiting
    <2>3. CASE pc' \in {"read", "iterate"} /\ pc = "iterate"
      BY <1>3, <2>3 DEF AskInv, Waiting, ServerTypes
    <2> QED
      BY <1>4, <2>1, <2>2, <2>3
  <1>10. AnswerInv'
    <2>1. CASE kind = "lost"
      BY <1>3, <1>6, <2>1 DEF AnswerInv
    <2>2. CASE kind # "lost"
      <3>1. ASSUME NEW k \in 1..Len(inbox')
            PROVE  /\ AnswerTo(inbox'[k].kind) # "none" =>
                        request' = "none" /\ pc' = AnswerTo(inbox'[k].kind)
                   /\ inbox'[k].kind = "lost" => gone' /\ k = Len(inbox')
                   /\ inbox'[k].kind = "info" => inbox'[k].sink \in Sinks
        <4>1. k + 1 \in 1..Len(inbox) /\ inbox'[k] = inbox[k + 1]
          BY <1>5
        <4>2. AnswerTo(inbox[k + 1].kind) # "none" => request = "none" /\ pc = AnswerTo(inbox[k + 1].kind)
          BY <4>1 DEF AnswerInv
        <4>3. inbox[k + 1].kind = "lost" => gone /\ k + 1 = Len(inbox)
          BY <4>1 DEF AnswerInv
        <4>4. inbox[k + 1].kind = "info" => inbox[k + 1].sink \in Sinks
          BY <4>1 DEF AnswerInv
        <4>5. AnswerTo(inbox[k + 1].kind) # "none" => pc' = pc
          BY <1>4, <2>2, <4>2 DEF AnswerTo
        <4> QED
          BY <1>3, <1>5, <4>1, <4>2, <4>3, <4>4, <4>5
      <3>2. \A j, k \in 1..Len(inbox') : j < k /\ AnswerTo(inbox'[j].kind) # "none" =>
              AnswerTo(inbox'[k].kind) = "none"
        <4> TAKE j, k \in 1..Len(inbox')
        <4>1. /\ j + 1 \in 1..Len(inbox) /\ inbox'[j] = inbox[j + 1]
              /\ k + 1 \in 1..Len(inbox) /\ inbox'[k] = inbox[k + 1]
              /\ j < k <=> j + 1 < k + 1
          BY <1>5
        <4>2. j + 1 < k + 1 /\ AnswerTo(inbox[j + 1].kind) # "none" => AnswerTo(inbox[k + 1].kind) = "none"
          BY <4>1 DEF AnswerInv
        <4> QED
          BY <4>1, <4>2
      <3>3. \A j, k \in 1..Len(inbox') : inbox'[j].kind = "killed" /\ inbox'[k].kind = "killed" => j = k
        <4> TAKE j, k \in 1..Len(inbox')
        <4>1. /\ j + 1 \in 1..Len(inbox) /\ inbox'[j] = inbox[j + 1]
              /\ k + 1 \in 1..Len(inbox) /\ inbox'[k] = inbox[k + 1]
              /\ j + 1 = k + 1 => j = k
          BY <1>5
        <4>2. inbox[j + 1].kind = "killed" /\ inbox[k + 1].kind = "killed" => j + 1 = k + 1
          BY <4>1 DEF AnswerInv
        <4> QED
          BY <4>1, <4>2
      <3>4. (lost => gone)'
        BY <1>3, <2>2 DEF AnswerInv
      <3> QED
        BY <3>1, <3>2, <3>3, <3>4 DEF AnswerInv
    <2> QED
      BY <2>1, <2>2
  <1>11. InfoInv'
    <2> SUFFICES ASSUME clue, NEW k \in 1..Len(inbox'), inbox'[k].kind = "info"
                 PROVE  \/ inbox'[k].sink = default
                        \/ \E j \in 1..Len(inbox') : j > k /\ inbox'[j].kind = "event"
      BY <1>3 DEF InfoInv
    <2>1. k + 1 \in 1..Len(inbox) /\ inbox'[k] = inbox[k + 1] /\ k \in Nat
      BY <1>5
    <2>2. \/ inbox[k + 1].sink = default
          \/ \E j \in 1..Len(inbox) : j > k + 1 /\ inbox[j].kind = "event"
      BY <2>1 DEF InfoInv
    <2>3. ASSUME NEW j \in 1..Len(inbox), j > k + 1, inbox[j].kind = "event"
          PROVE  \E i \in 1..Len(inbox') : i > k /\ inbox'[i].kind = "event"
      <3>1. j # 1 /\ j - 1 > k
        BY <2>1, <2>3
      <3> QED
        BY <1>5, <2>3, <3>1
    <2> QED
      BY <2>1, <2>2, <2>3
  <1>12. KnowInv'
    <2>1. CASE kind = "event"
      BY <1>3, <2>1 DEF KnowInv
    <2>2. CASE kind = "lost"
      BY <1>3, <2>2 DEF KnowInv
    <2>3. CASE kind = "killed"
      <3>1. ASSUME NEW k \in 1..Len(inbox), inbox[k].kind = "event"
            PROVE  \E j \in 1..Len(inbox') : inbox'[j].kind = "event"
        <4>1. k # 1
          BY <1>2, <2>3, <3>1
        <4> QED
          BY <1>5, <3>1, <4>1
      <3>2. pc = "info" => pc' = "info"
        BY <1>4, <2>3 DEF Waiting
      <3> QED
        BY <1>3, <2>3, <3>1, <3>2 DEF KnowInv
    <2> QED
      BY <2>1, <2>2, <2>3
  <1> QED
    BY <1>7, <1>8, <1>9, <1>10, <1>11, <1>12

-----------------------------------------------------------------------------
(* The theorems.                                                           *)

LEMMA InvAlways == Spec => []IInv
  <1>1. IInv /\ [Next]_vars => IInv'
    <2> SUFFICES ASSUME IInv, [Next]_vars PROVE IInv'
      OBVIOUS
    <2>1. CASE Next
      <3>1. Alone \/ Server
            \/ SameSink \/ OtherSink \/ OtherSinkNoMemory \/ StreamReady \/ StreamFailed \/ Subscribed
            \/ Event \/ WaitLost \/ Iterate
        BY <2>1 DEF Next, Device, Wait, Alone
      <3> QED
        BY <3>1, AloneKeeps, ServerKeeps, AnswerKeeps, EventKeeps
    <2>2. CASE UNCHANGED vars
      <3> USE <2>2 DEF vars, server, state, IInv
      <3>1. ServerTypes' /\ InboxTypes' /\ DeviceTypes'
        BY DEF ServerTypes, InboxTypes, DeviceTypes
      <3>2. AskInv' /\ AnswerInv'
        BY DEF AskInv, AnswerInv
      <3>3. InfoInv' /\ KnowInv'
        BY DEF InfoInv, KnowInv
      <3> QED
        BY <3>1, <3>2, <3>3
    <2> QED
      BY <2>1, <2>2
  <1> QED
    BY <1>1, InitialInv, PTL DEF Spec

\* Every variable keeps its type, and the device waits for an answer exactly while
\* one is asked for or under way, or the server has gone: no order of the server's
\* events leaves it in pulseDeviceWait for nothing (pulsedev.c:84-118).
THEOREM TypeCorrect == Spec => []TypeOK
  <1>1. IInv => TypeOK
    <2> SUFFICES ASSUME IInv PROVE TypeOK
      OBVIOUS
    <2> USE DEF IInv
    <2>1. DOMAIN inbox = 1..Len(inbox)
      BY LenProperties DEF InboxTypes
    <2>2. inbox \in Seq([kind : MessageKind, sink : Sinks \cup {NoSink}]) /\ Len(inbox) <= MaxInbox
      BY DEF InboxTypes, Msg
    <2>3. /\ ~ gone /\ request # "none" => pc = request
          /\ pc \in {"idle", "read", "iterate"} => created
          /\ pc \in {"info", "stream", "subscribe"} =>
               \/ request = pc
               \/ \E k \in DOMAIN inbox : inbox[k].kind \in {"info", "ready", "failed", "subscribed", "lost"}
      BY <2>1 DEF AskInv, Waiting
    <2>4. request \in {"none", "info", "stream", "subscribe"}
      BY DEF ServerTypes, Waiting
    <2> QED
      BY <2>2, <2>3, <2>4 DEF TypeOK, ServerTypes, DeviceTypes, Places
  <1> QED
    BY <1>1, InvAlways, PTL

\* A connected device that has acted on every event knows the default sink, for any
\* sinks and however many changes overtake a query, if since the default changed it was
\* the answer to a query or something happened of which the mask lets it hear: to a
\* sink, a source, a sink input or a module (pulsedev.c:246-251, 175-181, 214-222,
\* 359-365).  A change with which nothing else happens is none of these.
THEOREM StaysInStep == Spec => []InStep
  <1>1. IInv => InStep
    <2> SUFFICES ASSUME IInv PROVE InStep
      OBVIOUS
    <2>1. DOMAIN inbox = 1..Len(inbox)
      BY LenProperties DEF IInv, InboxTypes
    <2> QED
      BY <2>1 DEF IInv, KnowInv, InStep, EventComes, EventSent
  <1> QED
    BY <1>1, InvAlways, PTL

=============================================================================
