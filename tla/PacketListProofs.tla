-------------------------- MODULE PacketListProofs --------------------------
(***************************************************************************)
(* Theorems about PacketList for any heap, any stream of packets and any   *)
(* configured duration that fits an int of microseconds (Fits).            *)
(***************************************************************************)
EXTENDS PacketList, Integers, Sequences, SequenceTheorems, WellFoundedInduction, TLAPS

-----------------------------------------------------------------------------
(* Sequences                                                               *)

LessOnNat == {ss \in Nat \X Nat : ss[1] < ss[2]}

\* Every set of natural numbers that is not empty has a least element.
LEMMA LeastElement ==
    ASSUME NEW S \in SUBSET Nat, S # {}
    PROVE  \E x \in S : \A y \in S : x <= y
  <1>1. IsWellFoundedOn(LessOnNat, Nat)
    BY NatLessThanWellFounded DEF OpToRel, LessOnNat
  <1>2. PICK x \in S : \A y \in S : ~ (<<y, x>> \in LessOnNat)
    BY <1>1, WFMin
  <1>3. \A y \in S : ~ (y < x)
    BY <1>2 DEF LessOnNat
  <1> QED
    BY <1>3

\* The first place of a sequence that is not empty, and of what follows it.
LEMMA FirstPlace ==
    \A len \in Nat \ {0} : 1 \in 1..len /\ (len # 1 => len > 1 /\ 1 \in 1..(len - 1))
  OBVIOUS

\* A packet or node appended: the old ones keep their places.
LEMMA AppendFacts ==
    ASSUME NEW S, NEW s \in Seq(S), NEW e \in S
    PROVE  /\ Append(s, e) \in Seq(S)
           /\ Append(s, e) # <<>>
           /\ Len(s) \in Nat
           /\ Len(Append(s, e)) = Len(s) + 1
           /\ Append(s, e)[Len(s) + 1] = e
           /\ \A i \in 1..Len(s) : Append(s, e)[i] = s[i]
  OBVIOUS

\* The first element removed: the others move up by one place.
LEMMA TailFacts ==
    ASSUME NEW S, NEW s \in Seq(S), s # <<>>
    PROVE  /\ Tail(s) \in Seq(S)
           /\ Len(s) \in Nat \ {0}
           /\ s[1] \in S
           /\ Len(Tail(s)) = Len(s) - 1
           /\ \A i \in 1..(Len(s) - 1) : Tail(s)[i] = s[i + 1]
           /\ Tail(s) = <<>> <=> Len(s) = 1
  <1>1. Len(s) \in Nat \ {0}
    BY EmptySeq
  <1>2. s[1] \in S
    BY <1>1, ElementOfSeq
  <1>3. /\ Tail(s) \in Seq(S)
        /\ Len(Tail(s)) = Len(s) - 1
        /\ \A i \in 1..Len(Tail(s)) : Tail(s)[i] = s[i + 1]
    BY HeadTailProperties
  <1>4. Tail(s) = <<>> <=> Len(Tail(s)) = 0
    BY <1>3, EmptySeq, LenProperties
  <1> QED
    BY <1>1, <1>2, <1>3, <1>4

\* An element put in front: the others move down by one place.
LEMMA ConsFacts ==
    ASSUME NEW S, NEW s \in Seq(S), NEW e \in S
    PROVE  /\ <<e>> \o s \in Seq(S)
           /\ <<e>> \o s # <<>>
           /\ Len(s) \in Nat
           /\ Len(<<e>> \o s) = Len(s) + 1
           /\ (<<e>> \o s)[1] = e
           /\ \A i \in 1..Len(s) : (<<e>> \o s)[i + 1] = s[i]
  <1> DEFINE t == <<e>> \o s
  <1>1. <<e>> \in Seq(S) /\ Len(<<e>>) = 1 /\ <<e>>[1] = e
    OBVIOUS
  <1>2. Len(s) \in Nat
    BY LenProperties
  <1>3. \A i \in 1..(1 + Len(s)) : t[i] = IF i <= 1 THEN <<e>>[i] ELSE s[i - 1]
    BY <1>1, ConcatProperties
  <1>4. t \in Seq(S) /\ Len(t) = 1 + Len(s)
    BY <1>1, ConcatProperties
  <1>5. t[1] = e
    BY <1>1, <1>2, <1>3
  <1>6. \A i \in 1..Len(s) : t[i + 1] = s[i]
    <2> TAKE i \in 1..Len(s)
    <2>1. i + 1 \in 1..(1 + Len(s)) /\ ~(i + 1 <= 1) /\ (i + 1) - 1 = i
      BY <1>2
    <2> QED
      BY <1>3, <2>1
  <1>7. t # <<>>
    BY <1>2, <1>4, EmptySeq
  <1> QED
    BY <1>2, <1>4, <1>5, <1>6, <1>7

-----------------------------------------------------------------------------

\* The eviction loop compares with the time recordSeconds before the packet
\* that was just added.
LimitOK ==
    pc = "evict" => added # <<>> /\ startTime = added[Len(added)].pts - Span

\* The inductive invariant.
IInv ==
    /\ TypeOK
    /\ added \in Seq(Packet)
    /\ PointersOK
    /\ IsSuffix
    /\ LimitOK
    /\ RecentKept
    /\ OldEvicted

-----------------------------------------------------------------------------
\* The first node of a list is its first element, NULL exactly when it is empty.
LEMMA FirstFacts ==
    ASSUME NEW s \in Seq(Nodes)
    PROVE  /\ FirstOf(s) = NULL <=> s = <<>>
           /\ s # <<>> => FirstOf(s) = s[1] /\ Len(s) \in Nat \ {0} /\ s[1] \in Nodes
           /\ s = <<>> <=> Len(s) = 0
           /\ Len(s) \in Nat
           /\ FirstOf(s) \in Node
           /\ \A i \in 1..Len(s) : s[i] \in Nodes
  <1>1. Len(s) \in Nat /\ (s = <<>> <=> Len(s) = 0)
    BY LenProperties, EmptySeq
  <1>2. \A i \in 1..Len(s) : s[i] \in Nodes
    BY ElementOfSeq
  <1> QED
    BY <1>1, <1>2, NullAssumption DEF FirstOf, Node

\* When the duration fits, the limit is the exact difference.
LEMMA LimitFacts ==
    ASSUME Fits, NEW p \in Packet
    PROVE  /\ Span \in Nat
           /\ p.pts \in Nat
           /\ Products = {Span}
           /\ Minus64(p.pts, Span) = p.pts - Span
  <1>1. Span \in Nat
    BY RecordAssumption DEF Span
  <1>2. p.pts \in Nat
    BY PtsAssumption DEF Packet
  <1>3. p.pts - Span >= -Int64Half
    BY <1>1, <1>2, WidthAssumption DEF Fits
  <1> QED
    BY <1>1, <1>2, <1>3, WidthAssumption DEF Products, Minus64, Fits

\* Every pts of the buffer is an integer.
LEMMA PtsFacts ==
    /\ \A p \in Packet : p.pts \in Nat /\ p.key \in BOOLEAN
    /\ \A p \in Packet \cup {Blank} : p.pts \in Int /\ p.key \in BOOLEAN
    /\ Span \in Nat
  <1>1. \A p \in Packet : p.pts \in Nat /\ p.key \in BOOLEAN
    BY PtsAssumption DEF Packet
  <1>2. Blank.pts \in Int /\ Blank.key \in BOOLEAN
    BY WidthAssumption DEF Blank, NoPts
  <1>3. Span \in Nat
    BY RecordAssumption DEF Span
  <1> QED
    BY <1>1, <1>2, <1>3

\* The invariant holds of the zeroed buffer main starts with.
LEMMA InitInv == Init => IInv
  <1> SUFFICES ASSUME Init PROVE IInv
    OBVIOUS
  <1> USE DEF Init
  <1>1. TypeOK
    BY DEF TypeOK, Node, Rebased
  <1>2. added \in Seq(Packet)
    OBVIOUS
  <1>3. PointersOK
    BY DEF PointersOK, ListOK, PoolOK, HeapOK, HeadOK, CursorOK, Chained, FirstOf
  <1>4. IsSuffix /\ LimitOK /\ RecentKept /\ OldEvicted
    BY DEF IsSuffix, LimitOK, RecentKept, OldEvicted
  <1> QED
    BY <1>1, <1>2, <1>3, <1>4 DEF IInv

-----------------------------------------------------------------------------
(***************************************************************************)
(* Link, for a node n that is in neither list once it has been taken from  *)
(* where bufferPacketCreate found it: what is left of the pool is fr.      *)
(***************************************************************************)
LEMMA LinkStep ==
    ASSUME IInv, Fits, pc = "idle",
           NEW n \in Nodes, NEW p \in Packet,
           Link(n, [next EXCEPT ![n] = NULL], p),
           \A i \in 1..Len(live) : live[i] # n,
           free' \in Seq(Nodes),
           pool' = FirstOf(free'),
           \A i \in 1..Len(free') :
               /\ free'[i] # n
               /\ free'[i] \in allocated'
               /\ packet[free'[i]] = Blank
               /\ next[free'[i]] = IF i = Len(free') THEN NULL ELSE free'[i + 1]
               /\ \A j \in 1..Len(live) : live[j] # free'[i]
               /\ \A j \in 1..Len(free') : free'[i] = free'[j] => i = j,
           allocated' \subseteq Nodes,
           \A m \in allocated' :
               \/ m = n
               \/ \E i \in 1..Len(live) : live[i] = m
               \/ \E i \in 1..Len(free') : free'[i] = m,
           n \in allocated',
           \A i \in 1..Len(live) : live[i] \in allocated'
    PROVE  IInv'
  <1> DEFINE L == Len(live)
             A == Len(added)
  <1> USE DEF IInv
  <1>1. /\ live \in Seq(Nodes) /\ added \in Seq(Packet)
        /\ L \in Nat /\ A \in Nat
        /\ \A i \in 1..L : live[i] \in Nodes
        /\ \A i \in 1..A : added[i] \in Packet
    <2>1. live \in Seq(Nodes) /\ added \in Seq(Packet)
      BY DEF TypeOK
    <2> QED
      BY <2>1, LenProperties, ElementOfSeq
  <1>2. /\ live' \in Seq(Nodes) /\ live' # <<>>
        /\ Len(live') = L + 1
        /\ live'[L + 1] = n
        /\ \A i \in 1..L : live'[i] = live[i]
    BY <1>1, AppendFacts DEF Link
  <1>3. /\ added' \in Seq(Packet) /\ added' # <<>>
        /\ Len(added') = A + 1
        /\ added'[A + 1] = p
        /\ \A i \in 1..A : added'[i] = added[i]
    <2>1. added \in Seq(Packet) /\ added' = Append(added, p)
      BY <1>1 DEF Link
    <2> HIDE DEF IInv
    <2> QED
      BY <2>1, AppendFacts
  <1>4. /\ head = NULL <=> added = <<>>
        /\ head # NULL => L \in Nat \ {0} /\ live[L] = head
        /\ head = NULL => L = 0
    <2>1. added = <<>> => A = 0
      BY <1>1, EmptySeq
    <2>2. live # <<>> => L # 0
      BY <1>1, FirstFacts
    <2>3. head = NULL => L = 0
      BY <1>1, <2>1 DEF PointersOK, HeadOK, IsSuffix
    <2> QED
      BY <1>1, <2>1, <2>2, <2>3 DEF PointersOK, HeadOK
  <1>5. head' = n /\ plist' = tail' /\ pc' = "evict"
    BY DEF Link
  <1>6. tail' = live'[1] /\ FirstOf(live') = tail'
    <2>1. CASE head = NULL
      BY <2>1, <1>1, <1>2, <1>4 DEF Link, FirstOf
    <2>2. CASE head # NULL
      <3>1. tail' = tail /\ tail = live[1]
        BY <2>2, <1>1, <1>4, FirstFacts DEF Link, PointersOK, ListOK
      <3> QED
        BY <3>1, <2>2, <1>1, <1>2, <1>4 DEF FirstOf
    <2> QED
      BY <2>1, <2>2
  <1>7. /\ next' \in [Nodes -> Node]
        /\ next'[n] = NULL
        /\ \A m \in Nodes : m # n /\ m # head => next'[m] = next[m]
        /\ head # NULL => head # n /\ head \in Nodes /\ next'[head] = n
    <2>1. head # NULL => head # n /\ head \in Nodes
      BY <1>1, <1>4
    <2>2. next \in [Nodes -> Node] /\ n \in Node /\ NULL \in Node
      BY DEF TypeOK, Node
    <2>3. next' = IF head = NULL THEN [next EXCEPT ![n] = NULL]
                  ELSE [[next EXCEPT ![n] = NULL] EXCEPT ![head] = n]
      BY DEF Link
    <2> QED
      BY <2>1, <2>2, <2>3
  <1>8. /\ packet' \in [Nodes -> Packet \cup {Blank}]
        /\ packet'[n] = p
        /\ \A m \in Nodes : m # n => packet'[m] = packet[m]
    BY DEF Link, TypeOK
  <1>9. startTime' = p.pts - Span /\ startTime' \in Int
    BY LimitFacts DEF Link
  <1>10. TypeOK'
    <2>1. /\ start' = start /\ file' = file /\ replay' = replay
          /\ start \in Node /\ file \in Seq(Rebased) /\ replay \in Seq(Rebased)
      BY DEF Link, TypeOK
    <2>2. pool' \in Node /\ tail' \in Node /\ n \in Node
      BY <1>2, <1>6, FirstFacts DEF Node
    <2>3. added' \in Seq(Packet \cup {Blank})
      BY <1>3, SeqMonotonic, Packet \subseteq Packet \cup {Blank}
    <2> QED
      BY <1>2, <1>5, <1>7, <1>8, <1>9, <2>1, <2>2, <2>3 DEF TypeOK
  <1>11. ListOK'
    <2>1. Chained(live)'
      <3> SUFFICES ASSUME NEW i \in 1..Len(live')
                   PROVE  next'[live'[i]] =
                              IF i = Len(live') THEN NULL ELSE live'[i + 1]
        BY DEF Chained
      <3>1. CASE i = L + 1
        BY <3>1, <1>1, <1>2, <1>7
      <3>2. CASE i = L /\ L # 0
        BY <3>2, <1>1, <1>2, <1>4, <1>7
      <3>3. CASE i \in 1..(L - 1)
        <4>1. live[i] # head /\ live[i] # n /\ live[i] \in Nodes /\ i \in 1..L
          <5>1. i \in 1..L /\ L \in 1..L /\ i # L
            BY <3>3, <1>1
          <5>2. head # NULL /\ live[L] = head
            BY <5>1, <1>4
          <5> QED
            BY <5>1, <5>2, <1>1 DEF PointersOK, ListOK
        <4>2. next[live[i]] = live[i + 1]
          BY <3>3, <4>1, <1>1 DEF PointersOK, ListOK, Chained
        <4> QED
          BY <3>3, <4>1, <4>2, <1>1, <1>2, <1>7
      <3> QED
        BY <3>1, <3>2, <3>3, <1>1, <1>2
    <2>2. \A i, j \in 1..Len(live') : live'[i] = live'[j] => i = j
      <3> SUFFICES ASSUME NEW i \in 1..(L + 1), NEW j \in 1..(L + 1),
                          live'[i] = live'[j]
                   PROVE  i = j
        BY <1>2
      <3>1. CASE i = L + 1 /\ j \in 1..L
        BY <3>1, <1>2
      <3>2. CASE j = L + 1 /\ i \in 1..L
        BY <3>2, <1>2
      <3>3. CASE i \in 1..L /\ j \in 1..L
        BY <3>3, <1>2 DEF PointersOK, ListOK
      <3> QED
        BY <3>1, <3>2, <3>3, <1>1
    <2> QED
      BY <2>1, <2>2, <1>5, <1>6 DEF ListOK
  <1>12. PoolOK'
    <2>1. \A i \in 1..Len(free') :
             next'[free'[i]] = IF i = Len(free') THEN NULL ELSE free'[i + 1]
      <3> TAKE i \in 1..Len(free')
      <3>1. free'[i] \in Nodes /\ free'[i] # n
        BY ElementOfSeq
      <3>2. free'[i] # head
        BY <3>1, <1>4, NullAssumption
      <3> QED
        BY <3>1, <3>2, <1>7
    <2>2. \A i \in 1..Len(free') : packet'[free'[i]] = Blank
      BY <1>8, ElementOfSeq
    <2> QED
      BY <2>1, <2>2, <1>5 DEF PoolOK, Chained
  <1>13. HeapOK'
    <2>1. \A m \in allocated' :
             \/ \E i \in 1..Len(live') : live'[i] = m
             \/ \E i \in 1..Len(free') : free'[i] = m
      <3> TAKE m \in allocated'
      <3>1. CASE m = n
        <4>1. L + 1 \in 1..Len(live') /\ live'[L + 1] = m
          BY <3>1, <1>1, <1>2
        <4> QED
          BY <4>1
      <3>2. CASE \E i \in 1..L : live[i] = m
        BY <3>2, <1>1, <1>2
      <3> QED
        BY <3>1, <3>2
    <2>2. \A i \in 1..Len(live') : i \in 1..L \/ i = L + 1
      BY <1>1, <1>2
    <2>3. \A i \in 1..Len(live') : live'[i] \in allocated'
      BY <2>2, <1>2
    <2>4. \A i \in 1..Len(live'), j \in 1..Len(free') : live'[i] # free'[j]
      BY <2>2, <1>2
    <2> QED
      BY <2>1, <2>3, <2>4 DEF HeapOK
  <1>14. HeadOK' /\ CursorOK'
    BY <1>1, <1>2, <1>3, <1>5, NullAssumption DEF HeadOK, CursorOK
  <1>15. IsSuffix'
    <2>1. L <= A
      BY DEF IsSuffix
    <2>2. \A i \in 1..Len(live') :
             packet'[live'[i]] = added'[Len(added') - Len(live') + i]
      <3> TAKE i \in 1..Len(live')
      <3>1. CASE i = L + 1
        BY <3>1, <1>1, <1>2, <1>3, <1>8
      <3>2. CASE i \in 1..L
        <4>1. live[i] # n /\ live[i] \in Nodes /\ packet[live[i]] = added[A - L + i]
          BY <3>2, <1>1 DEF IsSuffix
        <4>2. A - L + i \in 1..A /\ Len(added') - Len(live') + i = A - L + i
          BY <3>2, <2>1, <1>1, <1>2, <1>3
        <4> QED
          BY <4>1, <4>2, <3>2, <1>2, <1>3, <1>8
      <3> QED
        BY <3>1, <3>2, <1>1, <1>2
    <2> QED
      BY <2>1, <2>2, <1>1, <1>2, <1>3 DEF IsSuffix
  <1>16. LimitOK'
    BY <1>3, <1>9 DEF LimitOK
  <1>17. RecentKept'
    <2> SUFFICES ASSUME NEW i \in 1..(Len(added') - Len(live'))
                 PROVE  \E j \in 1..Len(added') : added'[i].pts < added'[j].pts - Span
      BY DEF RecentKept
    <2>1. i \in 1..(A - L) /\ i \in 1..A
      BY <1>1, <1>2, <1>3
    <2>2. PICK j \in 1..A : added[i].pts < added[j].pts - Span
      BY <2>1 DEF RecentKept
    <2>3. j \in 1..Len(added')
      BY <2>2, <1>1, <1>3
    <2> QED
      BY <2>1, <2>2, <2>3, <1>3
  <1>18. OldEvicted'
    BY <1>5 DEF OldEvicted
  <1> QED
    BY <1>3, <1>10, <1>11, <1>12, <1>13, <1>14, <1>15, <1>16, <1>17, <1>18
       DEF PointersOK

-----------------------------------------------------------------------------
(***************************************************************************)
(* One turn of the eviction loop, or of the first loop of rsBufferDestroy: *)
(* the oldest node moves to the pool.  In the eviction loop it is never    *)
(* the packet just added, because a packet is not older than itself.       *)
(***************************************************************************)
LEMMA RecycleStep ==
    ASSUME IInv, pc \in {"evict", "drain"}, plist # NULL,
           pc = "evict" => Stale(plist),
           Recycle,
           UNCHANGED <<allocated, tail, head, pc, startTime, start, file, replay, added>>
    PROVE  IInv'
  <1> DEFINE L == Len(live)
             A == Len(added)
             F == Len(free)
  <1> USE DEF IInv
  <1>1. /\ live \in Seq(Nodes) /\ free \in Seq(Nodes) /\ added \in Seq(Packet)
        /\ A \in Nat
        /\ \A i \in 1..L : live[i] \in Nodes
        /\ \A i \in 1..F : free[i] \in Nodes
        /\ \A i \in 1..A : added[i] \in Packet
    <2>1. live \in Seq(Nodes) /\ free \in Seq(Nodes) /\ added \in Seq(Packet)
      BY DEF TypeOK
    <2> QED
      BY <2>1, LenProperties, ElementOfSeq
  <1>2. live # <<>> /\ plist = live[1] /\ plist \in Nodes /\ L \in Nat \ {0}
    BY <1>1, FirstFacts DEF PointersOK, ListOK
  <1>3. /\ live' \in Seq(Nodes)
        /\ Len(live') = L - 1
        /\ \A i \in 1..(L - 1) : live'[i] = live[i + 1]
        /\ live' = <<>> <=> L = 1
    BY <1>1, <1>2, TailFacts DEF Recycle
  <1>4. /\ free' \in Seq(Nodes) /\ free' # <<>>
        /\ F \in Nat
        /\ Len(free') = F + 1
        /\ free'[1] = plist
        /\ \A i \in 1..F : free'[i + 1] = free[i]
    BY <1>1, <1>2, ConsFacts DEF Recycle
  <1>5. /\ pc' = pc /\ head' = head /\ tail' = tail /\ added' = added
        /\ allocated' = allocated /\ startTime' = startTime
        /\ pool' = plist /\ plist' = next[plist]
    BY DEF Recycle, Following
  <1>6. /\ next' \in [Nodes -> Node]
        /\ next'[plist] = pool
        /\ \A m \in Nodes : m # plist => next'[m] = next[m]
    BY <1>2 DEF Recycle, TypeOK
  <1>7. /\ packet' \in [Nodes -> Packet \cup {Blank}]
        /\ packet'[plist] = Blank
        /\ \A m \in Nodes : m # plist => packet'[m] = packet[m]
    BY <1>2 DEF Recycle, Unreferenced, TypeOK
  <1>8. \A i \in 1..(L - 1) : live[i + 1] # plist /\ live[i + 1] \in Nodes
    <2> TAKE i \in 1..(L - 1)
    <2>1. i + 1 \in 1..L /\ 1 \in 1..L /\ i + 1 # 1
      BY <1>2
    <2> QED
      BY <2>1, <1>1, <1>2 DEF PointersOK, ListOK
  <1>9. \A i \in 1..F : free[i] # plist
    BY <1>2 DEF PointersOK, HeapOK
  <1>10. pc = "evict" =>
            /\ A \in Nat \ {0} /\ A >= L
            /\ added[A - L + 1] = packet[live[1]]
            /\ packet[live[1]].pts < added[A].pts - Span
            /\ L > 1
    <2> SUFFICES ASSUME pc = "evict" PROVE
            /\ A \in Nat \ {0} /\ A >= L
            /\ added[A - L + 1] = packet[live[1]]
            /\ packet[live[1]].pts < added[A].pts - Span
            /\ L > 1
      OBVIOUS
    <2>1. A \in Nat \ {0} /\ A >= L
      BY <1>1, <1>2 DEF IsSuffix
    <2>2. added[A - L + 1] = packet[live[1]]
      BY <1>2 DEF IsSuffix
    <2>3. packet[live[1]].pts < added[A].pts - Span
      BY <1>2 DEF Stale, LimitOK
    <2>4. L # 1
      <3> SUFFICES ASSUME L = 1 PROVE FALSE
        OBVIOUS
      <3>1. added[A].pts < added[A].pts - Span
        BY <2>1, <2>2, <2>3
      <3>2. added[A].pts \in Nat /\ Span \in Nat
        BY <2>1, <1>1, PtsFacts
      <3> QED
        BY <3>1, <3>2
    <2>5. L > 1
      BY <2>4, <1>2, FirstPlace
    <2> QED
      BY <2>1, <2>2, <2>3, <2>5
  <1>11. TypeOK'
    <2>1. pool' \in Node /\ plist' \in Node
      BY <1>2, <1>5 DEF TypeOK, Node
    <2> QED
      BY <2>1, <1>3, <1>4, <1>5, <1>6, <1>7 DEF TypeOK
  <1>12. ListOK'
    <2>1. Chained(live)'
      <3> SUFFICES ASSUME NEW i \in 1..(L - 1)
                   PROVE  next'[live'[i]] = IF i = L - 1 THEN NULL ELSE live'[i + 1]
        BY <1>3 DEF Chained
      <3>1. i + 1 \in 1..L /\ next[live[i + 1]] = IF i + 1 = L THEN NULL ELSE live[i + 2]
        BY <1>2 DEF PointersOK, ListOK, Chained
      <3>2. next'[live'[i]] = next[live[i + 1]]
        BY <1>3, <1>6, <1>8
      <3>3. i # L - 1 => live'[i + 1] = live[i + 2]
        BY <1>2, <1>3
      <3> QED
        BY <3>1, <3>2, <3>3, <1>2
    <2>2. plist' = FirstOf(live')
      <3>1. plist' = IF 1 = L THEN NULL ELSE live[2]
        <4>1. Chained(live) /\ 1 \in 1..L
          BY <1>2 DEF PointersOK, ListOK
        <4>2. next[live[1]] = IF 1 = L THEN NULL ELSE live[1 + 1]
          BY <4>1 DEF Chained
        <4> QED
          BY <4>2, <1>2, <1>5
      <3>2. L # 1 => live'[1] = live[2]
        BY <1>2, <1>3
      <3> QED
        BY <3>1, <3>2, <1>3 DEF FirstOf
    <2>3. \A i, j \in 1..Len(live') : live'[i] = live'[j] => i = j
      <3> SUFFICES ASSUME NEW i \in 1..(L - 1), NEW j \in 1..(L - 1),
                          live'[i] = live'[j]
                   PROVE  i = j
        BY <1>3
      <3>1. i + 1 \in 1..L /\ j + 1 \in 1..L /\ live[i + 1] = live[j + 1]
        BY <1>2, <1>3
      <3>2. i + 1 = j + 1
        BY <3>1 DEF PointersOK, ListOK
      <3> QED
        BY <3>2
    <2> QED
      BY <2>1, <2>2, <2>3, <1>5 DEF ListOK
  <1>13. \A i \in 1..(F + 1) : i = 1 \/ (i - 1 \in 1..F /\ free'[i] = free[i - 1])
    BY <1>4
  <1>14. PoolOK'
    <2>1. Chained(free)'
      <3> SUFFICES ASSUME NEW i \in 1..(F + 1)
                   PROVE  next'[free'[i]] = IF i = F + 1 THEN NULL ELSE free'[i + 1]
        BY <1>4 DEF Chained
      <3>1. CASE i = 1
        <4>1. pool = FirstOf(free)
          BY DEF PointersOK, PoolOK
        <4>2. F = 0 <=> free = <<>>
          BY <1>1, FirstFacts
        <4> QED
          BY <3>1, <4>1, <4>2, <1>4, <1>6 DEF FirstOf
      <3>2. CASE i # 1
        <4>1. i - 1 \in 1..F /\ free'[i] = free[i - 1]
          BY <3>2, <1>13
        <4>2. next[free[i - 1]] = IF i - 1 = F THEN NULL ELSE free[i]
          BY <4>1, <1>4 DEF PointersOK, PoolOK, Chained
        <4>3. next'[free[i - 1]] = next[free[i - 1]]
          BY <4>1, <1>1, <1>6, <1>9
        <4>4. i # F + 1 => free'[i + 1] = free[i]
          BY <3>2, <1>4
        <4> QED
          BY <4>1, <4>2, <4>3, <4>4, <1>4
      <3> QED
        BY <3>1, <3>2
    <2>2. pool' = FirstOf(free')
      BY <1>4, <1>5 DEF FirstOf
    <2>3. \A i, j \in 1..Len(free') : free'[i] = free'[j] => i = j
      <3> SUFFICES ASSUME NEW i \in 1..(F + 1), NEW j \in 1..(F + 1),
                          free'[i] = free'[j]
                   PROVE  i = j
        BY <1>4
      <3>1. CASE i = 1 \/ j = 1
        BY <3>1, <1>4, <1>9, <1>13
      <3>2. CASE i # 1 /\ j # 1
        <4>1. i - 1 \in 1..F /\ j - 1 \in 1..F /\ free[i - 1] = free[j - 1]
          BY <3>2, <1>13
        <4>2. i - 1 = j - 1
          BY <4>1 DEF PointersOK, PoolOK
        <4> QED
          BY <4>2
      <3> QED
        BY <3>1, <3>2
    <2>4. \A i \in 1..Len(free') : packet'[free'[i]] = Blank
      <3> SUFFICES ASSUME NEW i \in 1..(F + 1) PROVE packet'[free'[i]] = Blank
        BY <1>4
      <3>1. CASE i = 1
        BY <3>1, <1>4, <1>7
      <3>2. CASE i # 1
        BY <3>2, <1>1, <1>7, <1>9, <1>13 DEF PointersOK, PoolOK
      <3> QED
        BY <3>1, <3>2
    <2> QED
      BY <2>1, <2>2, <2>3, <2>4, <1>5 DEF PoolOK
  <1>15. HeapOK'
    <2>1. ASSUME NEW m \in allocated
          PROVE  \/ \E i \in 1..Len(live') : live'[i] = m
                 \/ \E i \in 1..Len(free') : free'[i] = m
      <3>1. CASE \E i \in 1..L : live[i] = m
        <4>1. PICK i \in 1..L : live[i] = m
          BY <3>1
        <4>2. CASE i = 1
          <5>1. 1 \in 1..Len(free') /\ free'[1] = m
            BY <4>1, <4>2, <1>2, <1>4
          <5> QED
            BY <5>1
        <4>3. CASE i # 1
          <5>1. i - 1 \in 1..(L - 1) /\ (i - 1) + 1 = i
            BY <4>3, <1>2
          <5>2. i - 1 \in 1..Len(live') /\ live'[i - 1] = m
            BY <4>1, <5>1, <1>3
          <5> QED
            BY <5>2
        <4> QED
          BY <4>2, <4>3
      <3>2. CASE \E i \in 1..F : free[i] = m
        <4>1. PICK i \in 1..F : free[i] = m
          BY <3>2
        <4>2. i + 1 \in 1..Len(free') /\ free'[i + 1] = m
          BY <4>1, <1>4
        <4> QED
          BY <4>2
      <3> QED
        BY <3>1, <3>2 DEF PointersOK, HeapOK
    <2>2. \A i \in 1..Len(live') : i + 1 \in 1..L /\ live'[i] = live[i + 1]
      BY <1>2, <1>3
    <2>3. \A i \in 1..Len(live') : live'[i] \in allocated
      BY <2>2 DEF PointersOK, HeapOK
    <2>4. \A i \in 1..Len(free') : free'[i] \in allocated
      BY <1>2, <1>4, <1>13 DEF PointersOK, HeapOK
    <2>5. \A i \in 1..Len(live'), j \in 1..Len(free') : live'[i] # free'[j]
      <3> TAKE i \in 1..Len(live'), j \in 1..Len(free')
      <3>1. i + 1 \in 1..L /\ live'[i] = live[i + 1] /\ live[i + 1] # plist
        BY <2>2, <1>3, <1>8
      <3>2. CASE j = 1
        BY <3>1, <3>2, <1>4
      <3>3. CASE j # 1
        <4>1. j - 1 \in 1..F /\ free'[j] = free[j - 1]
          BY <3>3, <1>4, <1>13
        <4>2. live[i + 1] # free[j - 1]
          BY <3>1, <4>1 DEF PointersOK, HeapOK
        <4> QED
          BY <3>1, <4>1, <4>2
      <3> QED
        BY <3>2, <3>3
    <2> QED
      BY <2>1, <2>3, <2>4, <2>5, <1>5 DEF HeapOK
  <1>16. HeadOK'
    <2> SUFFICES ASSUME pc = "evict"
                 PROVE  /\ head = NULL <=> added = <<>>
                        /\ head # NULL => live' # <<>> /\ live'[Len(live')] = head
      BY <1>5 DEF HeadOK
    <2>1. head = NULL <=> added = <<>>
      BY DEF PointersOK, HeadOK
    <2>2. live' # <<>> /\ live'[L - 1] = live[L]
      BY <1>2, <1>3, <1>10
    <2> QED
      BY <2>1, <2>2, <1>3 DEF PointersOK, HeadOK
  <1>17. CursorOK'
    BY <1>5 DEF CursorOK
  <1>18. IsSuffix'
    <2>1. L - 1 <= A
      BY <1>1, <1>2 DEF IsSuffix
    <2>2. \A i \in 1..(L - 1) : packet'[live'[i]] = added[A - (L - 1) + i]
      <3> TAKE i \in 1..(L - 1)
      <3>1. packet'[live'[i]] = packet[live[i + 1]]
        BY <1>3, <1>7, <1>8
      <3>2. i + 1 \in 1..L /\ A - L + (i + 1) = A - (L - 1) + i
        BY <1>1, <1>2
      <3>3. packet[live[i + 1]] = added[A - L + (i + 1)]
        BY <3>2 DEF IsSuffix
      <3> QED
        BY <3>1, <3>2, <3>3
    <2> QED
      BY <2>1, <2>2, <1>3, <1>5 DEF IsSuffix
  <1>19. LimitOK'
    BY <1>5 DEF LimitOK
  <1>20. RecentKept'
    <2> SUFFICES ASSUME pc = "evict", NEW i \in 1..(A - Len(live'))
                 PROVE  \E j \in 1..A : added[i].pts < added[j].pts - Span
      BY <1>5 DEF RecentKept
    <2>1. CASE i = A - L + 1
      <3>1. A \in 1..A /\ added[i].pts < added[A].pts - Span
        BY <2>1, <1>10
      <3> QED
        BY <3>1
    <2>2. CASE i # A - L + 1
      <3>1. A \in Nat /\ L \in Nat /\ A >= L /\ Len(live') = L - 1
        BY <1>1, <1>2, <1>3, <1>10
      <3>2. i \in 1..(A - L)
        BY <2>2, <3>1
      <3> QED
        BY <3>2 DEF RecentKept
    <2> QED
      BY <2>1, <2>2
  <1>21. OldEvicted'
    BY <1>5 DEF OldEvicted
  <1>22. added' \in Seq(Packet)
    BY <1>1, <1>5
  <1> QED
    BY <1>11, <1>12, <1>14, <1>15, <1>16, <1>17, <1>18, <1>19, <1>20, <1>21, <1>22
       DEF PointersOK

-----------------------------------------------------------------------------
\* rsBufferAddPacket takes its node from the pool, or from malloc.
LEMMA AddRecycledStep ==
    ASSUME IInv, Fits, NEW p \in Packet, AddRecycled(p)
    PROVE  IInv'
  <1> DEFINE F == Len(free)
  <1>1. pc = "idle" /\ pool # NULL /\ free \in Seq(Nodes)
    BY DEF AddRecycled, IInv, TypeOK
  <1>2. pool = FirstOf(free)
    BY <1>1 DEF IInv, PointersOK, PoolOK
  <1>3. free # <<>> /\ pool = free[1] /\ pool \in Nodes /\ F \in Nat \ {0}
    BY <1>1, <1>2, FirstFacts
  <1>4. /\ free' \in Seq(Nodes)
        /\ Len(free') = F - 1
        /\ \A i \in 1..(F - 1) : free'[i] = free[i + 1]
        /\ free' = <<>> <=> F = 1
    BY <1>1, <1>3, TailFacts DEF AddRecycled
  <1>5. pool' = next[pool] /\ allocated' = allocated
    BY DEF AddRecycled
  <1>6. \A i \in 1..F : next[free[i]] = IF i = F THEN NULL ELSE free[i + 1]
    BY DEF IInv, PointersOK, PoolOK, Chained
  <1>7. pool' = FirstOf(free')
    <2>1. next[free[1]] = IF 1 = F THEN NULL ELSE free[1 + 1]
      <3>1. 1 \in 1..F
        BY <1>3, FirstPlace
      <3> HIDE DEF F
      <3> QED
        BY <3>1, <1>6
    <2>2. F # 1 => free'[1] = free[1 + 1]
      <3> SUFFICES ASSUME F # 1 PROVE free'[1] = free[1 + 1]
        OBVIOUS
      <3>1. 1 \in 1..(F - 1)
        BY <1>3
      <3> QED
        BY <3>1, <1>4
    <2> QED
      BY <2>1, <2>2, <1>3, <1>4, <1>5 DEF FirstOf
  <1>8. HeapOK /\ PoolOK /\ live \in Seq(Nodes) /\ allocated \subseteq Nodes
    BY DEF IInv, PointersOK, TypeOK
  <1>9. ASSUME NEW i \in 1..Len(free')
        PROVE  /\ free'[i] # pool
               /\ free'[i] \in allocated'
               /\ packet[free'[i]] = Blank
               /\ next[free'[i]] = IF i = Len(free') THEN NULL ELSE free'[i + 1]
               /\ \A j \in 1..Len(live) : live[j] # free'[i]
               /\ \A j \in 1..Len(free') : free'[i] = free'[j] => i = j
    <2>1. i + 1 \in 1..F /\ i \in 1..(F - 1) /\ 1 \in 1..F /\ i + 1 # 1
      BY <1>3, <1>4
    <2>2. free'[i] = free[i + 1]
      BY <2>1, <1>4
    <2>3. free[i + 1] # free[1]
      BY <2>1, <1>8 DEF PoolOK
    <2>4. free[i + 1] \in allocated /\ packet[free[i + 1]] = Blank
      BY <2>1, <1>8 DEF PoolOK, HeapOK
    <2>5. \A j \in 1..Len(live) : live[j] # free[i + 1]
      BY <2>1, <1>8 DEF HeapOK
    <2>6. \A j \in 1..Len(free') : free'[i] = free'[j] => i = j
      <3> TAKE j \in 1..Len(free')
      <3>1. j + 1 \in 1..F /\ free'[j] = free[j + 1]
        BY <1>3, <1>4
      <3>2. free[i + 1] = free[j + 1] => i + 1 = j + 1
        BY <2>1, <3>1, <1>8 DEF PoolOK
      <3> QED
        BY <2>2, <3>1, <3>2
    <2>7. next[free[i + 1]] = IF i + 1 = F THEN NULL ELSE free[(i + 1) + 1]
      BY <2>1, <1>6
    <2>8. i # Len(free') => free'[i + 1] = free[(i + 1) + 1]
      <3> SUFFICES ASSUME i # Len(free') PROVE free'[i + 1] = free[(i + 1) + 1]
        OBVIOUS
      <3>1. i + 1 \in 1..(F - 1)
        BY <2>1, <1>3, <1>4
      <3> QED
        BY <3>1, <1>4
    <2>9. i = Len(free') <=> i + 1 = F
      BY <2>1, <1>3, <1>4
    <2>10. next[free'[i]] = IF i = Len(free') THEN NULL ELSE free'[i + 1]
      BY <2>2, <2>7, <2>8, <2>9
    <2> QED
      BY <2>2, <2>3, <2>4, <2>5, <2>6, <2>10, <1>3, <1>5
  <1>10. \A i \in 1..Len(live) : live[i] # pool
    BY <1>3, <1>8 DEF HeapOK
  <1>11. ASSUME NEW m \in allocated'
         PROVE  \/ m = pool
                \/ \E i \in 1..Len(live) : live[i] = m
                \/ \E i \in 1..Len(free') : free'[i] = m
    <2>1. CASE \E i \in 1..Len(live) : live[i] = m
      BY <2>1
    <2>2. CASE \E i \in 1..F : free[i] = m
      <3>1. PICK i \in 1..F : free[i] = m
        BY <2>2
      <3>2. CASE i = 1
        BY <3>1, <3>2, <1>3
      <3>3. CASE i # 1
        <4>1. i - 1 \in 1..Len(free') /\ (i - 1) + 1 = i
          BY <3>3, <1>3, <1>4
        <4>2. free'[i - 1] = m
          BY <3>1, <4>1, <1>4
        <4> QED
          BY <4>1, <4>2
      <3> QED
        BY <3>2, <3>3
    <2> QED
      BY <2>1, <2>2, <1>5, <1>8 DEF HeapOK
  <1>12. /\ pool \in allocated'
         /\ allocated' \subseteq Nodes
         /\ \A i \in 1..Len(live) : live[i] \in allocated'
    BY <1>3, <1>5, <1>8 DEF HeapOK
  <1>13. Link(pool, [next EXCEPT ![pool] = NULL], p)
    BY DEF AddRecycled
  <1> QED
    BY <1>1, <1>3, <1>4, <1>7, <1>9, <1>10, <1>11, <1>12, <1>13, LinkStep

\* A packet that takes a newly allocated node keeps the invariant.
LEMMA AddAllocatedStep ==
    ASSUME IInv, Fits, NEW p \in Packet, AddAllocated(p)
    PROVE  IInv'
  <1>1. PICK n \in Nodes \ allocated :
           /\ Link(n, [next EXCEPT ![n] = NULL], p)
           /\ allocated' = allocated \cup {n}
    BY DEF AddAllocated, Malloced
  <1>2. pc = "idle" /\ pool = NULL /\ free \in Seq(Nodes) /\ free' = free /\ pool' = pool
    BY DEF AddAllocated, IInv, TypeOK
  <1>3. pool = FirstOf(free)
    BY <1>2 DEF IInv, PointersOK, PoolOK
  <1>4. free = <<>> /\ Len(free) = 0 /\ FirstOf(free') = pool'
    BY <1>2, <1>3, FirstFacts
  <1>5. HeapOK /\ allocated \subseteq Nodes
    BY DEF IInv, PointersOK, TypeOK
  <1>6. \A i \in 1..Len(live) : live[i] # n /\ live[i] \in allocated'
    BY <1>1, <1>5 DEF HeapOK
  <1>7. \A m \in allocated' : m = n \/ \E i \in 1..Len(live) : live[i] = m
    BY <1>1, <1>4, <1>5 DEF HeapOK
  <1>8. n \in allocated' /\ allocated' \subseteq Nodes
    BY <1>1, <1>5
  <1>9. \A i \in 1..Len(free') : FALSE
    BY <1>2, <1>4
  <1> QED
    BY <1>1, <1>2, <1>4, <1>6, <1>7, <1>8, <1>9, LinkStep

\* The eviction loop ends at the first packet that is recent enough.
LEMMA EvictDoneStep ==
    ASSUME IInv, EvictDone
    PROVE  IInv'
  <1> USE DEF IInv, EvictDone, heap, locals, history
  <1>1. TypeOK' /\ added' \in Seq(Packet)
    BY DEF TypeOK
  <1>2. ListOK' /\ PoolOK' /\ HeapOK'
    BY DEF PointersOK, ListOK, PoolOK, HeapOK, Chained, FirstOf
  <1>3. HeadOK' /\ CursorOK'
    BY DEF PointersOK, HeadOK, CursorOK
  <1>4. IsSuffix' /\ LimitOK' /\ RecentKept'
    BY DEF IsSuffix, LimitOK, RecentKept
  <1>5. OldEvicted'
    <2> SUFFICES ASSUME live # <<>>
                 PROVE  packet[live[1]].pts >= packet[live[Len(live)]].pts - Span
      BY DEF OldEvicted
    <2>1. live \in Seq(Nodes) /\ added \in Seq(Packet)
      BY DEF TypeOK
    <2>2. plist = live[1] /\ plist # NULL /\ Len(live) \in Nat \ {0}
      BY <2>1, FirstFacts DEF PointersOK, ListOK
    <2>3. packet[live[Len(live)]] = added[Len(added)]
      <3>1. Len(live) \in 1..Len(live) /\ Len(added) - Len(live) + Len(live) = Len(added)
        BY <2>1, <2>2, LenProperties
      <3> QED
        BY <3>1 DEF IsSuffix
    <2>4. ~(packet[live[1]].pts < added[Len(added)].pts - Span)
      BY <2>2 DEF Stale, LimitOK
    <2>5. packet[live[1]].pts \in Int /\ added[Len(added)].pts \in Int /\ Span \in Int
      <3>1. packet[live[1]] \in Packet \cup {Blank}
        BY <2>1, <2>2, FirstFacts DEF TypeOK
      <3>2. added[Len(added)] \in Packet
        <4>1. Len(added) \in Nat /\ Len(added) >= Len(live)
          BY <2>1, LenProperties DEF IsSuffix
        <4>2. Len(added) \in 1..Len(added)
          BY <4>1, <2>2
        <4> QED
          BY <4>2, <2>1, ElementOfSeq
      <3> QED
        BY <3>1, <3>2, PtsFacts
    <2> QED
      BY <2>3, <2>4, <2>5
  <1> QED
    BY <1>1, <1>2, <1>3, <1>4, <1>5 DEF PointersOK

-----------------------------------------------------------------------------
\* A save only reads: the list, the pool and the heap are as they were.
LEMMA SaveStep ==
    ASSUME IInv, SaveLoop
    PROVE  IInv'
  <1>1. /\ UNCHANGED <<next, packet, allocated, pool, tail, head, startTime,
                       live, free, added>>
        /\ pc \in {"idle", "scan", "write"}
        /\ pc' \in {"idle", "scan", "write"}
    BY DEF SaveLoop, BeginWrite, Scan, ScanFailed, ScanFound, Write, WriteFailed,
           WriteDone, heap, rsBuffer, locals, history
  <1>2. ListOK' /\ PoolOK' /\ HeapOK' /\ HeadOK'
    BY <1>1 DEF IInv, PointersOK, ListOK, PoolOK, HeapOK, HeadOK, Chained, FirstOf
  <1>3. IsSuffix' /\ LimitOK' /\ RecentKept' /\ OldEvicted'
    BY <1>1 DEF IInv, IsSuffix, LimitOK, RecentKept, OldEvicted
  <1>4. added' \in Seq(Packet)
    BY <1>1 DEF IInv
  <1>5. live \in Seq(Nodes) /\ Len(live) \in Nat /\ \A i \in 1..Len(live) : live[i] \in Nodes
    <2>1. live \in Seq(Nodes)
      BY DEF IInv, TypeOK
    <2> QED
      BY <2>1, FirstFacts
  \* The cursor moves from one live node to the next one, or off the end.
  <1>6. ASSUME pc \in {"scan", "write"}, plist # NULL
        PROVE  \/ next[plist] = NULL
               \/ \E i \in 1..Len(live) : live[i] = next[plist]
    <2>1. PICK i \in 1..Len(live) : live[i] = plist
      BY <1>6 DEF IInv, PointersOK, CursorOK
    <2>2. next[live[i]] = IF i = Len(live) THEN NULL ELSE live[i + 1]
      BY <2>1 DEF IInv, PointersOK, ListOK, Chained
    <2>3. i # Len(live) => i + 1 \in 1..Len(live)
      BY <2>1, <1>5
    <2> QED
      BY <2>1, <2>2, <2>3
  <1>7. CursorOK'
    <2>1. CASE BeginWrite
      <3>1. tail = FirstOf(live)
        BY <2>1 DEF BeginWrite, IInv, PointersOK, ListOK
      <3>2. live # <<>> => 1 \in 1..Len(live) /\ live[1] = tail
        BY <3>1, <1>5, FirstFacts
      <3>3. live = <<>> => tail = NULL
        BY <3>1, <1>5, FirstFacts
      <3> QED
        BY <2>1, <3>2, <3>3, <1>1 DEF BeginWrite, ScanFrom, CursorOK
    <2>2. CASE Scan
      BY <2>2, <1>1, <1>6 DEF Scan, CursorOK
    <2>3. CASE ScanFailed \/ WriteFailed \/ WriteDone
      BY <2>3 DEF ScanFailed, WriteFailed, WriteDone, CursorOK
    <2>4. CASE ScanFound
      BY <2>4, <1>1 DEF ScanFound, StartAt, CursorOK, IInv, PointersOK
    <2>5. CASE Write
      <3>1. \E i \in 1..Len(live) : live[i] = start
        BY <2>5 DEF Write, CursorOK, IInv, PointersOK
      <3> QED
        BY <2>5, <3>1, <1>1, <1>6 DEF Write, CursorOK
    <2> QED
      BY <2>1, <2>2, <2>3, <2>4, <2>5 DEF SaveLoop
  <1>8. plist' \in Node /\ start' \in Node
    BY DEF IInv, TypeOK, SaveLoop, BeginWrite, Scan, ScanFailed, ScanFound, Write,
           WriteFailed, WriteDone, heap, rsBuffer, locals, history, Node, ScanFrom, StartAt
  <1>9. file' \in Seq(Rebased) /\ replay' \in Seq(Rebased)
    <2>1. file \in Seq(Rebased) /\ replay \in Seq(Rebased)
      BY DEF IInv, TypeOK
    <2>2. CASE Write
      <3>1. plist \in Nodes /\ start \in Nodes
        BY <2>2, <1>5 DEF Write, CursorOK, IInv, PointersOK
      <3>2. packet[plist] \in Packet \cup {Blank} /\ packet[start] \in Packet \cup {Blank}
        BY <3>1 DEF IInv, TypeOK
      <3>3. Rebase(packet[plist], packet[start]) \in Rebased
        <4>1. /\ packet[plist].pts \in Int /\ packet[start].pts \in Int
              /\ packet[plist].key \in BOOLEAN
          BY <3>2, PtsFacts
        <4>2. packet[plist].pts - packet[start].pts \in Int
          BY <4>1
        <4> QED
          BY <4>1, <4>2 DEF Rebase, Rebased
      <3>4. Append(file, Rebase(packet[plist], packet[start])) \in Seq(Rebased)
        BY <2>1, <3>3, AppendFacts
      <3> QED
        BY <2>1, <2>2, <3>4 DEF Write
    <2>3. CASE BeginWrite \/ Scan \/ ScanFailed \/ WriteFailed \/ WriteDone
      BY <2>1, <2>3 DEF BeginWrite, Scan, ScanFailed, WriteFailed, WriteDone, locals
    <2>4. CASE ScanFound
      <3>1. <<>> \in Seq(Rebased)
        OBVIOUS
      <3> QED
        BY <2>1, <2>4, <3>1 DEF ScanFound
    <2> QED
      BY <2>2, <2>3, <2>4 DEF SaveLoop
  <1>10. TypeOK'
    BY <1>1, <1>8, <1>9 DEF IInv, TypeOK
  <1> QED
    BY <1>2, <1>3, <1>4, <1>7, <1>10 DEF IInv, PointersOK

\* rsBufferDestroy, also when malloc fails and main gives up.
LEMMA DestroyStep ==
    ASSUME IInv, AddNoMemory \/ DestroyLoop
    PROVE  IInv'
  <1>1. CASE AddNoMemory \/ BeginDestroy
    <2> USE <1>1 DEF IInv, AddNoMemory, BeginDestroy, heap, rsBuffer, history
    <2>1. TypeOK' /\ added' \in Seq(Packet)
      BY DEF TypeOK
    <2>2. ListOK' /\ PoolOK'
      BY DEF PointersOK, ListOK, PoolOK, Chained, FirstOf
    <2>3. HeapOK' /\ HeadOK' /\ CursorOK'
      BY DEF PointersOK, HeapOK, HeadOK, CursorOK
    <2>4. IsSuffix' /\ LimitOK' /\ RecentKept' /\ OldEvicted'
      BY DEF IsSuffix, LimitOK, RecentKept, OldEvicted
    <2> QED
      BY <2>1, <2>2, <2>3, <2>4 DEF PointersOK
  <1>2. CASE Drain
    BY <1>2, RecycleStep DEF Drain
  <1>3. CASE DrainDone
    <2> USE <1>3 DEF IInv, DrainDone, heap, history
    <2>1. TypeOK' /\ added' \in Seq(Packet)
      BY DEF TypeOK, Node
    <2>2. live \in Seq(Nodes) /\ live = <<>>
      BY FirstFacts DEF PointersOK, ListOK, TypeOK
    <2>3. ListOK' /\ PoolOK' /\ HeapOK' /\ HeadOK' /\ CursorOK'
      BY <2>2 DEF PointersOK, ListOK, PoolOK, HeapOK, HeadOK, CursorOK, Chained, FirstOf
    <2>4. IsSuffix' /\ LimitOK' /\ RecentKept' /\ OldEvicted'
      BY DEF IsSuffix, LimitOK, RecentKept, OldEvicted
    <2> QED
      BY <2>1, <2>3, <2>4 DEF PointersOK
  <1>4. CASE Free
    <2> DEFINE F == Len(free)
    <2>1. /\ free \in Seq(Nodes) /\ live = <<>> /\ plist = FirstOf(free)
          /\ pc = "free" /\ plist # NULL
      BY <1>4 DEF Free, IInv, TypeOK, PointersOK, ListOK, PoolOK
    <2>2. free # <<>> /\ plist = free[1] /\ plist \in Nodes /\ F \in Nat \ {0}
      BY <2>1, FirstFacts
    <2>3. /\ free' \in Seq(Nodes)
          /\ Len(free') = F - 1
          /\ \A i \in 1..(F - 1) : free'[i] = free[i + 1]
          /\ free' = <<>> <=> F = 1
      BY <2>1, <2>2, TailFacts, <1>4 DEF Free
    <2>4. /\ UNCHANGED <<next, packet, pool, tail, head, pc, startTime, start, file,
                         replay, live, added>>
          /\ allocated' = allocated \ {plist}
          /\ plist' = next[plist]
      BY <1>4 DEF Free, rsBuffer
    <2>5. next[plist] = IF 1 = F THEN NULL ELSE free[1 + 1]
      <3>1. 1 \in 1..F
        BY <2>2
      <3> QED
        BY <2>2, <3>1 DEF IInv, PointersOK, PoolOK, Chained
    <2>6. \A i \in 1..(F - 1) :
             /\ i + 1 \in 1..F
             /\ free'[i] = free[i + 1]
             /\ free[i + 1] # plist
      <3> TAKE i \in 1..(F - 1)
      <3>1. i + 1 \in 1..F /\ 1 \in 1..F /\ i + 1 # 1
        BY <2>2
      <3>2. free[i + 1] # free[1]
        BY <3>1 DEF IInv, PointersOK, PoolOK
      <3> QED
        BY <3>1, <3>2, <2>2, <2>3
    <2>7. TypeOK'
      BY <2>2, <2>3, <2>4 DEF IInv, TypeOK
    <2>8. ListOK' /\ HeadOK' /\ CursorOK'
      BY <2>1, <2>4 DEF IInv, PointersOK, ListOK, HeadOK, CursorOK, Chained
    <2>9. PoolOK'
      <3>1. Chained(free)'
        <4> SUFFICES ASSUME NEW i \in 1..(F - 1)
                     PROVE  next[free'[i]] = IF i = F - 1 THEN NULL ELSE free'[i + 1]
          BY <2>3, <2>4 DEF Chained
        <4>1. next[free[i + 1]] = IF i + 1 = F THEN NULL ELSE free[(i + 1) + 1]
          BY <2>6 DEF IInv, PointersOK, PoolOK, Chained
        <4>2. i # F - 1 => i + 1 \in 1..(F - 1)
          BY <2>2
        <4>3. i # F - 1 => free'[i + 1] = free[(i + 1) + 1]
          BY <4>2, <2>3
        <4>4. i = F - 1 <=> i + 1 = F
          BY <2>2
        <4> QED
          BY <4>1, <4>3, <4>4, <2>3
      <3>2. plist' = FirstOf(free')
        <4>1. F # 1 => 1 \in 1..(F - 1)
          BY <2>2, FirstPlace
        <4>2. F # 1 => free'[1] = free[1 + 1]
          BY <4>1, <2>3
        <4> QED
          BY <4>2, <2>3, <2>4, <2>5 DEF FirstOf
      <3>3. \A i, j \in 1..Len(free') : free'[i] = free'[j] => i = j
        <4> SUFFICES ASSUME NEW i \in 1..(F - 1), NEW j \in 1..(F - 1),
                            free'[i] = free'[j]
                     PROVE  i = j
          BY <2>3
        <4>1. i + 1 \in 1..F /\ j + 1 \in 1..F /\ free[i + 1] = free[j + 1]
          BY <2>6
        <4>2. i + 1 = j + 1
          BY <4>1 DEF IInv, PointersOK, PoolOK
        <4> QED
          BY <4>2
      <3>4. \A i \in 1..Len(free') : packet'[free'[i]] = Blank
        BY <2>3, <2>4, <2>6 DEF IInv, PointersOK, PoolOK
      <3> QED
        BY <3>1, <3>2, <3>3, <3>4, <2>1, <2>4 DEF PoolOK
    <2>10. HeapOK'
      <3>1. \A i \in 1..Len(free') : free'[i] \in allocated'
        BY <2>3, <2>4, <2>6 DEF IInv, PointersOK, HeapOK
      <3>2. Len(live) = 0
        BY <2>1
      <3>3. ASSUME NEW m \in allocated'
            PROVE  \E i \in 1..Len(free') : free'[i] = m
        <4>1. PICK i \in 1..F : free[i] = m
          BY <3>2, <2>4 DEF IInv, PointersOK, HeapOK
        <4>2. i # 1
          BY <4>1, <2>2, <2>4
        <4>3. i - 1 \in 1..Len(free') /\ (i - 1) + 1 = i
          BY <4>2, <2>2, <2>3
        <4>4. free'[i - 1] = m
          BY <4>1, <4>3, <2>3
        <4> QED
          BY <4>3, <4>4
      <3> QED
        BY <3>1, <3>2, <3>3, <2>4 DEF HeapOK
    <2>11. IsSuffix' /\ LimitOK' /\ RecentKept' /\ OldEvicted' /\ added' \in Seq(Packet)
      BY <2>1, <2>4 DEF IInv, IsSuffix, LimitOK, RecentKept, OldEvicted
    <2> QED
      BY <2>7, <2>8, <2>9, <2>10, <2>11 DEF IInv, PointersOK
  <1>5. CASE FreeDone
    <2> USE <1>5 DEF IInv, FreeDone, heap, locals, history
    <2>1. TypeOK' /\ added' \in Seq(Packet)
      BY DEF TypeOK, Node
    <2>2. free \in Seq(Nodes) /\ free = <<>>
      BY FirstFacts DEF PointersOK, PoolOK, TypeOK
    <2>3. ListOK' /\ PoolOK' /\ HeapOK' /\ HeadOK' /\ CursorOK'
      BY <2>2 DEF PointersOK, ListOK, PoolOK, HeapOK, HeadOK, CursorOK, Chained, FirstOf
    <2>4. IsSuffix' /\ LimitOK' /\ RecentKept' /\ OldEvicted'
      BY DEF IsSuffix, LimitOK, RecentKept, OldEvicted
    <2> QED
      BY <2>1, <2>3, <2>4 DEF PointersOK
  <1> QED
    BY <1>1, <1>2, <1>3, <1>4, <1>5 DEF DestroyLoop

-----------------------------------------------------------------------------
\* The invariant is inductive.
LEMMA NextInv ==
    ASSUME IInv, Fits, [Next]_vars
    PROVE  IInv'
  <1>1. ASSUME NEW p \in Packet, AddPacket(p) PROVE IInv'
    BY <1>1, AddRecycledStep, AddAllocatedStep DEF AddPacket
  <1>2. CASE AddNoMemory \/ DestroyLoop
    BY <1>2, DestroyStep
  <1>3. CASE Evict
    BY <1>3, RecycleStep DEF Evict
  <1>4. CASE EvictDone
    BY <1>4, EvictDoneStep
  <1>5. CASE SaveLoop
    BY <1>5, SaveStep
  <1>6. CASE UNCHANGED vars
    <2> USE <1>6 DEF IInv, vars
    <2>1. TypeOK' /\ added' \in Seq(Packet)
      BY DEF TypeOK
    <2>2. ListOK' /\ PoolOK' /\ HeapOK' /\ HeadOK' /\ CursorOK'
      BY DEF PointersOK, ListOK, PoolOK, HeapOK, HeadOK, CursorOK, Chained, FirstOf
    <2>3. IsSuffix' /\ LimitOK' /\ RecentKept' /\ OldEvicted'
      BY DEF IsSuffix, LimitOK, RecentKept, OldEvicted
    <2> QED
      BY <2>1, <2>2, <2>3 DEF PointersOK
  <1> QED
    BY <1>1, <1>2, <1>3, <1>4, <1>5, <1>6 DEF Next, AddLoop

\* As long as the configured duration fits an int of microseconds, the
\* inductive invariant holds in every state.
THEOREM Invariance == Fits => (Spec => []IInv)
  <1> SUFFICES ASSUME Fits PROVE Spec => []IInv
    OBVIOUS
  <1>1. IInv /\ [Next]_vars => IInv'
    BY NextInv
  <1> QED
    BY InitInv, <1>1, PTL DEF Spec

\* Every variable of buffer.c keeps a value of its type.
THEOREM TypeCorrect == Fits => (Spec => []TypeOK)
  <1>1. IInv => TypeOK
    BY DEF IInv
  <1> QED
    BY Invariance, <1>1, PTL

(***************************************************************************)
(* The list and the pool of buffer.c are well formed in every intermediate *)
(* state of its loops: no cycle, no shared node, no lost node, no dangling *)
(* head.                                                                   *)
(***************************************************************************)
THEOREM PointersCorrect == Fits => (Spec => []PointersOK)
  <1>1. IInv => PointersOK
    BY DEF IInv
  <1> QED
    BY Invariance, <1>1, PTL

\* rsBufferDestroy frees every node that malloc ever returned.
THEOREM DestroyFreesAll == Fits => (Spec => []NothingLeaked)
  <1>1. IInv => NothingLeaked
    <2> SUFFICES ASSUME IInv, pc = "gone" PROVE allocated = {}
      BY DEF NothingLeaked
    <2>1. Len(live) = 0 /\ Len(free) = 0
      BY DEF IInv, PointersOK, ListOK, PoolOK
    <2> QED
      BY <2>1 DEF IInv, PointersOK, HeapOK
  <1> QED
    BY Invariance, <1>1, PTL

(***************************************************************************)
(* rsBufferAddPacket never drops a packet of the last recordSeconds, drops *)
(* what is older, and keeps the rest in the order of arrival.              *)
(***************************************************************************)
THEOREM KeepsTheWindow == Fits => (Spec => []WindowKept)
  <1>1. IInv => WindowKept
    BY DEF IInv, WindowKept
  <1> QED
    BY Invariance, <1>1, PTL

-----------------------------------------------------------------------------
(* The window: what Trim does to a sequence of packets.                    *)

LEMMA FirstSinceIs ==
    ASSUME NEW P, \A p \in P : p.pts \in Int, NEW s \in Seq(P), NEW limit \in Int,
           NEW i \in 1..(Len(s) + 1),
           \A j \in 1..(i - 1) : s[j].pts < limit,
           i <= Len(s) => s[i].pts >= limit
    PROVE  FirstSince(s, limit) = i
  <1> DEFINE z == FirstSince(s, limit)
  <1>1. Len(s) \in Nat /\ \A j \in 1..Len(s) : s[j].pts \in Int
    BY LenProperties, ElementOfSeq
  <1>2. /\ z \in 1..(Len(s) + 1)
        /\ \A j \in 1..(z - 1) : s[j].pts < limit
        /\ z <= Len(s) => s[z].pts >= limit
    BY DEF FirstSince
  <1> HIDE DEF z
  <1>3. ASSUME z < i PROVE FALSE
    <2>1. z \in 1..(i - 1) /\ z \in 1..Len(s)
      BY <1>1, <1>2, <1>3
    <2> QED
      BY <1>1, <1>2, <2>1
  <1>4. ASSUME i < z PROVE FALSE
    <2>1. i \in 1..(z - 1) /\ i \in 1..Len(s)
      BY <1>1, <1>2, <1>4
    <2> QED
      BY <1>1, <1>2, <2>1
  <1>5. z = i
    BY <1>1, <1>2, <1>3, <1>4
  <1> QED
    BY <1>5 DEF z

\* When the first packet is recent enough, nothing is trimmed.
LEMMA TrimFresh ==
    ASSUME NEW P, \A p \in P : p.pts \in Int, NEW s \in Seq(P), NEW span \in Nat,
           s # <<>> => s[1].pts >= s[Len(s)].pts - span
    PROVE  Trim(s, span) = s
  <1>1. CASE s = <<>>
    BY <1>1 DEF Trim
  <1>2. CASE s # <<>>
    <2> DEFINE limit == s[Len(s)].pts - span
    <2>1. Len(s) \in Nat \ {0} /\ \A j \in 1..Len(s) : s[j].pts \in Int
      BY <1>2, EmptySeq, ElementOfSeq
    <2>2. limit \in Int /\ 1 \in 1..(Len(s) + 1) /\ 1 - 1 = 0
      BY <2>1
    <2>3. s[1].pts >= limit
      BY <1>2
    <2> HIDE DEF limit
    <2>4. FirstSince(s, limit) = 1
      BY <2>1, <2>2, <2>3, FirstSinceIs
    <2>5. SubSeq(s, 1, Len(s)) = s
      BY SubSeqFull
    <2> QED
      BY <1>2, <2>4, <2>5 DEF Trim, Since, limit
  <1> QED
    BY <1>1, <1>2

\* A first packet that is too old may be taken off before the rest is trimmed.
LEMMA TrimTail ==
    ASSUME NEW P, \A p \in P : p.pts \in Int, NEW s \in Seq(P), NEW span \in Nat,
           s # <<>>, s[1].pts < s[Len(s)].pts - span
    PROVE  Trim(Tail(s), span) = Trim(s, span)
  <1> DEFINE t == Tail(s)
             n == Len(s)
             limit == s[Len(s)].pts - span
  <1>1. /\ t \in Seq(P) /\ n \in Nat \ {0} /\ Len(t) = n - 1
        /\ \A k \in 1..(n - 1) : t[k] = s[k + 1]
        /\ t = <<>> <=> n = 1
    BY TailFacts
  <1>2. \A k \in 1..n : s[k] \in P /\ s[k].pts \in Int
    BY ElementOfSeq
  <1>3. limit \in Int /\ s[1].pts < limit /\ s[n].pts >= limit /\ n \in 1..n
    BY <1>1, <1>2
  <1>4. n # 1 /\ n - 1 \in 1..(n - 1) /\ (n - 1) + 1 = n
    BY <1>1, <1>2, <1>3
  <1>5. t[Len(t)] = s[n] /\ t # <<>>
    BY <1>1, <1>4
  <1>6. Trim(t, span) = SubSeq(t, FirstSince(t, limit), n - 1)
        /\ Trim(s, span) = SubSeq(s, FirstSince(s, limit), n)
    BY <1>1, <1>5 DEF Trim, Since
  <1> HIDE DEF t, n, limit
  <1>7. PICK k \in 1..(n - 1) : t[k].pts >= limit /\ \A j \in 1..(k - 1) : t[j].pts < limit
    <2> DEFINE S == {k \in 1..(n - 1) : t[k].pts >= limit}
    <2>1. n - 1 \in S
      BY <1>1, <1>3, <1>4
    <2>2. S \in SUBSET Nat
      BY <1>1
    <2>3. PICK k \in S : \A j \in S : k <= j
      BY <2>1, <2>2, LeastElement
    <2>4. \A j \in 1..(k - 1) : j \in 1..(n - 1) /\ ~ (k <= j) /\ j + 1 \in 1..n
      BY <1>1, <2>3
    <2>5. \A j \in 1..(k - 1) : t[j].pts < limit
      <3> TAKE j \in 1..(k - 1)
      <3>1. ~ (t[j].pts >= limit)
        BY <2>3, <2>4
      <3>2. t[j].pts \in Int
        BY <1>1, <1>2, <2>4
      <3> QED
        BY <1>3, <3>1, <3>2
    <2> QED
      BY <2>3, <2>5
  <1>8. FirstSince(t, limit) = k
    <2>1. k \in 1..(Len(t) + 1)
      BY <1>1, <1>7
    <2> QED
      BY <1>1, <1>3, <1>7, <2>1, FirstSinceIs
  <1>9. FirstSince(s, limit) = k + 1
    <2>1. k + 1 \in 1..(n + 1) /\ n = Len(s)
      BY <1>1, <1>7 DEF n
    <2>2. s[k + 1].pts >= limit
      BY <1>1, <1>7
    <2>3. \A j \in 1..((k + 1) - 1) : s[j].pts < limit
      <3> TAKE j \in 1..((k + 1) - 1)
      <3>1. j = 1 \/ (j - 1 \in 1..(k - 1) /\ j - 1 \in 1..(n - 1) /\ (j - 1) + 1 = j)
        BY <1>1, <1>7
      <3> QED
        BY <1>1, <1>3, <1>7, <3>1
    <2> QED
      BY <1>3, <2>1, <2>2, <2>3, FirstSinceIs
  <1>10. SubSeq(t, k, n - 1) = SubSeq(s, k + 1, n)
    <2>1. /\ k \in Int /\ n - 1 \in Int /\ k + 1 \in Int /\ n \in Int
          /\ \A j \in k..(n - 1) : j \in 1..(n - 1) /\ j + 1 \in 1..n
          /\ \A j \in (k + 1)..n : j \in 1..n
          /\ (n - 1) - k + 1 = n - (k + 1) + 1 /\ (n - 1) - k + 1 \in Nat
          /\ k <= n - 1 /\ k + 1 <= n
      BY <1>1, <1>7
    <2>2. (\A j \in k..(n - 1) : t[j] \in P) /\ \A j \in (k + 1)..n : s[j] \in P
      BY <1>1, <1>2, <2>1
    <2> DEFINE m == (n - 1) - k + 1
    <2>3. /\ SubSeq(t, k, n - 1) \in Seq(P) /\ Len(SubSeq(t, k, n - 1)) = m
          /\ \A j \in 1..m : SubSeq(t, k, n - 1)[j] = t[k + j - 1]
      BY <2>1, <2>2, SubSeqProperties
    <2>4. /\ SubSeq(s, k + 1, n) \in Seq(P) /\ Len(SubSeq(s, k + 1, n)) = m
          /\ \A j \in 1..m : SubSeq(s, k + 1, n)[j] = s[(k + 1) + j - 1]
      BY <2>1, <2>2, SubSeqProperties
    <2>5. \A j \in 1..m : k + j - 1 \in 1..(n - 1) /\ (k + j - 1) + 1 = (k + 1) + j - 1
      BY <1>1, <1>7
    <2>6. \A j \in 1..m : SubSeq(t, k, n - 1)[j] = SubSeq(s, k + 1, n)[j]
      BY <1>1, <2>3, <2>4, <2>5
    <2> QED
      BY <2>3, <2>4, <2>6, SeqEqual
  <1> QED
    BY <1>6, <1>8, <1>9, <1>10 DEF t

-----------------------------------------------------------------------------
(* The packets of the list, as the window has them.                        *)

LEMMA ContentsFacts ==
    ASSUME IInv
    PROVE  /\ Contents \in Seq(Packet) /\ Len(Contents) = Len(live) /\ Len(live) \in Nat
           /\ \A i \in 1..Len(live) : Contents[i] = packet[live[i]]
           /\ Contents = <<>> <=> live = <<>>
  <1> DEFINE L == Len(live)
  <1>1. live \in Seq(Nodes) /\ added \in Seq(Packet) /\ L \in Nat /\ Len(added) \in Nat
        /\ (live = <<>> <=> L = 0)
    BY LenProperties, EmptySeq DEF IInv, TypeOK
  <1>2. \A i \in 1..L : packet[live[i]] \in Packet
    <2> TAKE i \in 1..L
    <2>1. Len(added) - L + i \in 1..Len(added)
      BY <1>1 DEF IInv, IsSuffix
    <2>2. packet[live[i]] = added[Len(added) - L + i]
      BY DEF IInv, IsSuffix
    <2> QED
      BY <1>1, <2>1, <2>2, ElementOfSeq
  <1>3. Contents = [i \in 1..L |-> packet[live[i]]]
    BY DEF Contents
  <1> HIDE DEF L
  <1>4. Contents \in [1..L -> Packet]
    BY <1>2, <1>3
  <1>5. Contents \in Seq(Packet) /\ Len(Contents) = L
    BY <1>1, <1>4
  <1>6. Contents = <<>> <=> L = 0
    BY <1>5, EmptySeq
  <1> QED
    BY <1>1, <1>3, <1>5, <1>6 DEF L

\* While nothing is being evicted the list is the window.
LEMMA WindowWhole ==
    ASSUME IInv, pc \in {"idle", "scan", "write"}
    PROVE  Trim(Contents, Span) = Contents
  <1>1. /\ Contents \in Seq(Packet) /\ Len(Contents) = Len(live) /\ Len(live) \in Nat
        /\ \A i \in 1..Len(live) : Contents[i] = packet[live[i]]
        /\ (Contents = <<>> <=> live = <<>>)
    BY ContentsFacts
  <1>2. Span \in Nat /\ \A p \in Packet : p.pts \in Int
    BY PtsFacts
  <1>3. ASSUME Contents # <<>> PROVE Contents[1].pts >= Contents[Len(Contents)].pts - Span
    <2>1. Len(live) # 0
      BY <1>1, <1>3, EmptySeq
    <2>2. 1 \in 1..Len(live) /\ Len(live) \in 1..Len(live)
      BY <1>1, <2>1
    <2>3. packet[live[1]].pts >= packet[live[Len(live)]].pts - Span
      BY <1>1, <1>3 DEF IInv, OldEvicted
    <2> QED
      BY <1>1, <2>2, <2>3
  <1> QED
    BY <1>1, <1>2, <1>3, TrimFresh

LEMMA ContentsNext == (IInv => Contents \in Seq(Packet) /\ Len(Contents) = Len(live)
                           /\ \A i \in 1..Len(live) : Contents[i] = packet[live[i]])'
  <1>1. IInv => Contents \in Seq(Packet) /\ Len(Contents) = Len(live)
                /\ \A i \in 1..Len(live) : Contents[i] = packet[live[i]]
    BY ContentsFacts
  <1> QED
    BY <1>1, PTL

\* A packet that is linked comes last.
LEMMA LinkContents ==
    ASSUME IInv, IInv', NEW n \in Nodes, NEW nx, NEW p \in Packet, Link(n, nx, p),
           \A i \in 1..Len(live) : live[i] # n
    PROVE  Contents' = Append(Contents, p)
  <1> DEFINE L == Len(live)
  <1>1. Contents \in Seq(Packet) /\ Len(Contents) = L /\ L \in Nat
        /\ \A i \in 1..L : Contents[i] = packet[live[i]]
    BY ContentsFacts
  <1>2. Contents' \in Seq(Packet) /\ Len(Contents') = Len(live')
        /\ \A i \in 1..Len(live') : Contents'[i] = packet'[live'[i]]
    BY ContentsNext
  <1>3. live \in Seq(Nodes) /\ packet \in [Nodes -> Packet \cup {Blank}]
        /\ \A i \in 1..L : live[i] \in Nodes
    BY ElementOfSeq DEF IInv, TypeOK
  <1>4. Len(live') = L + 1 /\ live'[L + 1] = n /\ \A i \in 1..L : live'[i] = live[i]
    BY <1>3, AppendFacts DEF Link
  <1>5. packet' = [packet EXCEPT ![n] = p]
    BY DEF Link
  <1>6. packet'[n] = p /\ \A i \in 1..L : packet'[live[i]] = packet[live[i]]
    BY <1>3, <1>5
  <1> DEFINE A == Append(Contents, p)
  <1>7. A \in Seq(Packet) /\ Len(A) = L + 1 /\ A[L + 1] = p /\ \A i \in 1..L : A[i] = Contents[i]
    BY <1>1, AppendFacts
  <1> HIDE DEF L, A
  <1>8. \A i \in 1..(L + 1) : i = L + 1 \/ i \in 1..L
    BY <1>1
  <1>9. \A i \in 1..(L + 1) : Contents'[i] = A[i]
    BY <1>1, <1>2, <1>4, <1>6, <1>7, <1>8
  <1>10. Contents' = A
    BY <1>2, <1>4, <1>7, <1>9, SeqEqual
  <1> QED
    BY <1>10 DEF A

\* A packet that is recycled was the first.
LEMMA RecycleContents ==
    ASSUME IInv, IInv', pc = "evict", plist # NULL, Recycle
    PROVE  Contents # <<>> /\ Contents[1] = packet[plist] /\ Contents' = Tail(Contents)
  <1> DEFINE L == Len(live)
  <1>1. Contents \in Seq(Packet) /\ Len(Contents) = L /\ L \in Nat
        /\ (\A i \in 1..L : Contents[i] = packet[live[i]]) /\ (Contents = <<>> <=> live = <<>>)
    BY ContentsFacts
  <1>2. Contents' \in Seq(Packet) /\ Len(Contents') = Len(live')
        /\ \A i \in 1..Len(live') : Contents'[i] = packet'[live'[i]]
    BY ContentsNext
  <1>3. live \in Seq(Nodes) /\ packet \in [Nodes -> Packet \cup {Blank}]
        /\ \A i \in 1..L : live[i] \in Nodes
    BY ElementOfSeq DEF IInv, TypeOK
  <1>4. live # <<>> /\ plist = live[1] /\ \A i, j \in 1..L : live[i] = live[j] => i = j
    BY <1>3, FirstFacts DEF IInv, PointersOK, ListOK
  <1>5. Len(live') = L - 1 /\ L \in Nat \ {0} /\ \A i \in 1..(L - 1) : live'[i] = live[i + 1]
    BY <1>3, <1>4, TailFacts DEF Recycle
  <1>6. packet' = [packet EXCEPT ![plist] = Blank]
    BY DEF Recycle, Unreferenced
  <1> DEFINE T == Tail(Contents)
  <1>7. T \in Seq(Packet) /\ Len(T) = L - 1 /\ \A i \in 1..(L - 1) : T[i] = Contents[i + 1]
    BY <1>1, <1>4, TailFacts
  <1> HIDE DEF L, T
  <1>8. \A i \in 1..(L - 1) : i + 1 \in 1..L /\ i + 1 # 1
    BY <1>5
  <1>9. 1 \in 1..L
    BY <1>5
  <1>10. \A i \in 1..(L - 1) : packet'[live[i + 1]] = packet[live[i + 1]]
    BY <1>3, <1>4, <1>6, <1>8, <1>9
  <1>11. \A i \in 1..(L - 1) : Contents'[i] = T[i]
    <2> TAKE i \in 1..(L - 1)
    <2>1. Contents'[i] = packet'[live'[i]] /\ live'[i] = live[i + 1]
      BY <1>2, <1>5
    <2>2. T[i] = Contents[i + 1] /\ Contents[i + 1] = packet[live[i + 1]]
      BY <1>1, <1>7, <1>8
    <2> QED
      BY <1>10, <2>1, <2>2
  <1>12. Contents' = T
    BY <1>2, <1>5, <1>7, <1>11, SeqEqual
  <1> QED
    BY <1>1, <1>4, <1>9, <1>12 DEF T

-----------------------------------------------------------------------------
(* What a save has read.                                                   *)

\* The cursor at the k-th packet of the list, or past the last one.
At(k) == IF k = Len(live) + 1 THEN NULL ELSE live[k]

\* The scan has passed no key-frame; the file has what lies between the oldest
\* key-frame and the cursor, with times that count from there.
Scanned ==
    \E k \in 1..(Len(live) + 1) :
        plist = At(k) /\ \A j \in 1..(k - 1) : ~ packet[live[j]].key

Written(i, k) ==
    /\ start = live[i] /\ packet[live[i]].key
    /\ \A j \in 1..(i - 1) : ~ packet[live[j]].key
    /\ plist = At(k)
    /\ Len(file) = k - i
    /\ \A m \in 1..(k - i) : file[m] = Rebase(packet[live[i + m - 1]], packet[live[i]])

SaveInv ==
    /\ pc = "scan" => Scanned
    /\ pc = "write" => \E i \in 1..Len(live) : \E k \in i..(Len(live) + 1) : Written(i, k)

\* Where the cursor stands, and where it goes.
LEMMA CursorFacts ==
    ASSUME IInv, pc \in {"scan", "write"}, NEW k \in 1..(Len(live) + 1), plist = At(k)
    PROVE  /\ Len(live) \in Nat
           /\ plist = NULL => k = Len(live) + 1
           /\ plist # NULL => /\ k \in 1..Len(live) /\ plist = live[k]
                              /\ k + 1 \in 1..(Len(live) + 1) /\ next[plist] = At(k + 1)
  <1>1. live \in Seq(Nodes) /\ Len(live) \in Nat /\ \A i \in 1..Len(live) : live[i] \in Nodes
    BY LenProperties, ElementOfSeq DEF IInv, TypeOK
  <1>2. k # Len(live) + 1 => k \in 1..Len(live) /\ plist = live[k] /\ plist # NULL
    BY <1>1, NullAssumption DEF At
  <1>3. k = Len(live) + 1 => plist = NULL
    BY DEF At
  <1>4. ASSUME k \in 1..Len(live), plist = live[k] PROVE next[plist] = At(k + 1)
    <2>1. next[live[k]] = IF k = Len(live) THEN NULL ELSE live[k + 1]
      BY <1>4 DEF IInv, PointersOK, ListOK, Chained
    <2>2. k = Len(live) <=> k + 1 = Len(live) + 1
      BY <1>1
    <2> QED
      BY <1>4, <2>1, <2>2 DEF At
  <1>5. k \in 1..Len(live) => k + 1 \in 1..(Len(live) + 1)
    BY <1>1
  <1> QED
    BY <1>1, <1>2, <1>3, <1>4, <1>5

LEMMA SaveInvStep ==
    ASSUME IInv, SaveInv, SaveLoop
    PROVE  SaveInv'
  <1> DEFINE L == Len(live)
  <1>1. UNCHANGED <<next, packet, allocated, pool, tail, head, startTime, live, free, added>>
    BY DEF SaveLoop, BeginWrite, Scan, ScanFailed, ScanFound, Write, WriteFailed,
           WriteDone, heap, rsBuffer, locals, history
  <1>2. live \in Seq(Nodes) /\ L \in Nat
    BY LenProperties DEF IInv, TypeOK
  <1>3. CASE BeginWrite
    <2>1. plist' = tail /\ tail = FirstOf(live) /\ pc' = "scan"
      BY <1>3 DEF BeginWrite, ScanFrom, IInv, PointersOK, ListOK
    <2>2. FirstOf(live) = At(1)
      BY <1>2, FirstFacts DEF At
    <2>3. 1 \in 1..(L + 1) /\ 1..(1 - 1) = {}
      BY <1>2
    <2>4. Scanned'
      BY <1>1, <2>1, <2>2, <2>3 DEF Scanned, At
    <2> QED
      BY <2>1, <2>4 DEF SaveInv
  <1>4. CASE Scan
    <2>1. pc = "scan" /\ pc' = "scan" /\ plist # NULL /\ ~ packet[plist].key /\ plist' = next[plist]
      BY <1>4 DEF Scan
    <2>2. PICK k \in 1..(L + 1) : plist = At(k) /\ \A j \in 1..(k - 1) : ~ packet[live[j]].key
      BY <2>1 DEF SaveInv, Scanned
    <2>3. k + 1 \in 1..(L + 1) /\ next[plist] = At(k + 1) /\ plist = live[k]
      BY <2>1, <2>2, CursorFacts
    <2>4. \A j \in 1..((k + 1) - 1) : j = k \/ j \in 1..(k - 1)
      BY <1>2
    <2>5. \A j \in 1..((k + 1) - 1) : ~ packet[live[j]].key
      BY <2>1, <2>2, <2>3, <2>4
    <2>6. Scanned'
      BY <1>1, <2>1, <2>3, <2>5 DEF Scanned, At
    <2> QED
      BY <2>1, <2>6 DEF SaveInv
  <1>5. CASE ScanFailed \/ WriteFailed \/ WriteDone
    BY <1>5 DEF ScanFailed, WriteFailed, WriteDone, SaveInv
  <1>6. CASE ScanFound
    <2>1. /\ pc = "scan" /\ pc' = "write" /\ plist # NULL /\ packet[plist].key
          /\ start' = plist /\ file' = <<>> /\ plist' = plist
      BY <1>6 DEF ScanFound, StartAt
    <2>2. PICK k \in 1..(L + 1) : plist = At(k) /\ \A j \in 1..(k - 1) : ~ packet[live[j]].key
      BY <2>1 DEF SaveInv, Scanned
    <2>3. k \in 1..L /\ plist = live[k]
      BY <2>1, <2>2, CursorFacts
    <2>4. k \in k..(L + 1) /\ k - k = 0 /\ 1..(k - k) = {} /\ Len(<<>>) = 0
      BY <1>2, EmptySeq
    <2>5. Written(k, k)'
      <3>1. plist' = At(k)' /\ Len(file') = k - k
        BY <1>1, <2>1, <2>2, <2>4 DEF At
      <3> QED
        BY <1>1, <2>1, <2>2, <2>3, <2>4, <3>1 DEF Written
    <2> QED
      BY <1>1, <2>1, <2>3, <2>4, <2>5 DEF SaveInv
  <1>7. CASE Write
    <2>1. /\ pc = "write" /\ pc' = "write" /\ plist # NULL /\ start' = start /\ plist' = next[plist]
          /\ file' = Append(file, Rebase(packet[plist], packet[start]))
      BY <1>7 DEF Write
    <2>2. PICK i \in 1..L : \E k \in i..(L + 1) : Written(i, k)
      BY <2>1 DEF SaveInv
    <2>3. PICK k \in i..(L + 1) : Written(i, k)
      BY <2>2
    <2>4. k \in 1..(L + 1) /\ plist = At(k)
      BY <1>2, <2>3 DEF Written
    <2>5. k \in 1..L /\ plist = live[k] /\ next[plist] = At(k + 1)
      BY <2>1, <2>4, CursorFacts
    <2>6. k + 1 \in i..(L + 1) /\ (k + 1) - i = (k - i) + 1 /\ i + ((k - i) + 1) - 1 = k /\ k - i \in Nat
      BY <1>2, <2>3, <2>5
    <2> DEFINE e == Rebase(packet[plist], packet[start])
    <2>7. file \in Seq(Rebased) /\ file' = Append(file, e) /\ Len(file) = k - i
      BY <2>1, <2>3 DEF IInv, TypeOK, Written
    <2>8. e \in Rebased
      <3>1. live[i] \in Nodes /\ live[k] \in Nodes
        BY <1>2, <2>5, ElementOfSeq
      <3>2. start = live[i]
        BY <2>3 DEF Written
      <3>3. packet[plist] \in Packet \cup {Blank} /\ packet[start] \in Packet \cup {Blank}
        BY <2>5, <3>1, <3>2 DEF IInv, TypeOK
      <3>4. packet[plist].pts \in Int /\ packet[start].pts \in Int /\ packet[plist].key \in BOOLEAN
        BY <3>3, PtsFacts
      <3>5. packet[plist].pts - packet[start].pts \in Int
        BY <3>4
      <3> QED
        BY <3>4, <3>5 DEF Rebase, Rebased
    <2>9. e = Rebase(packet[live[k]], packet[live[i]])
      BY <2>3, <2>5 DEF Written
    <2> HIDE DEF e
    <2>10. /\ Len(file') = (k - i) + 1 /\ file'[(k - i) + 1] = e
           /\ \A m \in 1..(k - i) : file'[m] = file[m]
      BY <2>7, <2>8, AppendFacts
    <2>11. \A m \in 1..((k + 1) - i) : file'[m] = Rebase(packet[live[i + m - 1]], packet[live[i]])
      <3> TAKE m \in 1..((k + 1) - i)
      <3>1. CASE m = (k - i) + 1
        BY <2>6, <2>9, <2>10, <3>1
      <3>2. CASE m # (k - i) + 1
        <4>1. m \in 1..(k - i)
          BY <2>6, <3>2
        <4> QED
          BY <2>3, <2>10, <4>1 DEF Written
      <3> QED
        BY <3>1, <3>2
    <2>12. Written(i, k + 1)'
      <3>1. plist' = At(k + 1)' /\ Len(file') = (k + 1) - i
        BY <1>1, <2>1, <2>5, <2>6, <2>10 DEF At
      <3>2. start' = live'[i] /\ packet'[live'[i]].key /\ \A j \in 1..(i - 1) : ~ packet'[live'[j]].key
        BY <1>1, <2>1, <2>3 DEF Written
      <3> QED
        BY <1>1, <2>11, <3>1, <3>2 DEF Written
    <2> QED
      BY <1>1, <2>1, <2>6, <2>12 DEF SaveInv
  <1> QED
    BY <1>3, <1>4, <1>5, <1>6, <1>7 DEF SaveLoop

LEMMA SaveInvNext ==
    ASSUME IInv, SaveInv, [Next]_vars
    PROVE  SaveInv'
  <1>1. CASE SaveLoop
    BY <1>1, SaveInvStep
  <1>2. CASE UNCHANGED vars
    <2>1. UNCHANGED <<pc, plist, start, file, live, packet>>
      BY <1>2 DEF vars
    <2>2. Scanned' <=> Scanned
      BY <2>1 DEF Scanned, At
    <2>3. \A i, k : Written(i, k)' <=> Written(i, k)
      BY <2>1 DEF Written, At
    <2> QED
      BY <2>1, <2>2, <2>3 DEF SaveInv
  <1>3. CASE AddNoMemory \/ AddLoop \/ DestroyLoop \/ \E p \in Packet : AddPacket(p)
    <2>1. pc' \notin {"scan", "write"}
      BY <1>3 DEF AddNoMemory, AddLoop, Evict, EvictDone, DestroyLoop, BeginDestroy, Drain, DrainDone,
                  Free, FreeDone, AddPacket, AddRecycled, AddAllocated, Link
    <2> QED
      BY <2>1 DEF SaveInv
  <1> QED
    BY <1>1, <1>2, <1>3 DEF Next

-----------------------------------------------------------------------------
(* The window implemented.                                                 *)

Opened == pc \in {"idle", "evict", "scan", "write"}
Window == IF Opened THEN Trim(Contents, Span) ELSE <<>>

\* ReplayWindow has the operators of PacketSeq by names of its own.
LEMMA SameOperators ==
    /\ \A s, span : RW!Trim(s, span) = Trim(s, span)
    /\ \A s, i : RW!IsStart(s, i) <=> IsStart(s, i)
    /\ \A s, i : RW!CutFrom(s, i) = CutFrom(s, i)
  BY DEF RW!Trim, Trim, RW!Since, Since, RW!FirstSince, FirstSince,
         RW!IsStart, IsStart, RW!CutFrom, CutFrom, RW!Rebase, Rebase

\* A packet that is linked is one that ReplayWindow adds.
LEMMA AddImplements ==
    ASSUME IInv, IInv', Fits, NEW p \in Packet, AddPacket(p)
    PROVE  RW!Add(p)
  <1>1. pc = "idle" /\ pc' = "evict" /\ UNCHANGED replay
    BY DEF AddPacket, AddRecycled, AddAllocated, Link
  <1>2. PICK n \in Nodes : Link(n, [next EXCEPT ![n] = NULL], p) /\ \A i \in 1..Len(live) : live[i] # n
    <2>1. CASE AddRecycled(p)
      <3>1. free \in Seq(Nodes) /\ pool # NULL /\ pool = FirstOf(free)
        BY <1>1, <2>1 DEF AddRecycled, IInv, TypeOK, PointersOK, PoolOK
      <3>2. pool = free[1] /\ pool \in Nodes /\ 1 \in 1..Len(free)
        <4>1. free # <<>> /\ free[1] \in Nodes /\ pool = free[1] /\ Len(free) \in Nat \ {0}
          BY <3>1, FirstFacts
        <4> QED
          BY <4>1
      <3>3. \A i \in 1..Len(live) : live[i] # pool
        BY <3>2 DEF IInv, PointersOK, HeapOK
      <3> QED
        BY <2>1, <3>2, <3>3 DEF AddRecycled
    <2>2. CASE AddAllocated(p)
      <3>1. PICK n \in Nodes \ allocated : Link(n, [next EXCEPT ![n] = NULL], p)
        BY <2>2 DEF AddAllocated, Malloced
      <3>2. \A i \in 1..Len(live) : live[i] # n
        BY <3>1 DEF IInv, PointersOK, HeapOK
      <3> QED
        BY <3>1, <3>2
    <2> QED
      BY <2>1, <2>2 DEF AddPacket
  <1>3. Contents' = Append(Contents, p)
    BY <1>2, LinkContents
  <1>4. Trim(Contents, Span) = Contents
    BY <1>1, WindowWhole
  <1> QED
    BY <1>1, <1>3, <1>4, SameOperators DEF RW!Add

\* What the loop recycles had left the window before.
LEMMA EvictStutters ==
    ASSUME IInv, IInv', Evict
    PROVE  Window' = Window /\ Opened' = Opened /\ UNCHANGED replay
  <1>1. pc = "evict" /\ pc' = "evict" /\ plist # NULL /\ Stale(plist) /\ Recycle /\ UNCHANGED replay
    BY DEF Evict
  <1>2. Contents # <<>> /\ Contents[1] = packet[plist] /\ Contents' = Tail(Contents)
    BY <1>1, RecycleContents
  <1>3. /\ Contents \in Seq(Packet) /\ Len(Contents) = Len(live) /\ Len(live) \in Nat
        /\ \A i \in 1..Len(live) : Contents[i] = packet[live[i]]
        /\ (Contents = <<>> <=> live = <<>>)
    BY ContentsFacts
  <1>4. Span \in Nat /\ \A p \in Packet : p.pts \in Int
    BY PtsFacts
  <1>5. Contents[Len(Contents)] = added[Len(added)]
    <2>1. Len(live) # 0 /\ Len(added) \in Nat
      BY <1>2, <1>3, EmptySeq, LenProperties DEF IInv
    <2>2. Len(live) \in 1..Len(live) /\ Len(added) - Len(live) + Len(live) = Len(added)
      BY <1>3, <2>1
    <2> QED
      BY <1>3, <2>2 DEF IInv, IsSuffix
  <1>6. Contents[1].pts < Contents[Len(Contents)].pts - Span
    BY <1>1, <1>2, <1>5 DEF Stale, IInv, LimitOK
  <1>7. Trim(Contents', Span) = Trim(Contents, Span)
    BY <1>2, <1>3, <1>4, <1>6, TrimTail
  <1> QED
    BY <1>1, <1>7 DEF Window, Opened

\* A save that succeeds has cut the window at its oldest key-frame.
LEMMA WriteDoneImplements ==
    ASSUME IInv, SaveInv, WriteDone
    PROVE  RW!Cut
  <1>1. /\ pc = "write" /\ pc' = "idle" /\ plist = NULL /\ replay' = file
        /\ UNCHANGED <<live, packet>>
    BY DEF WriteDone, heap, history
  <1>2. PICK i \in 1..Len(live) : \E k \in i..(Len(live) + 1) : Written(i, k)
    BY <1>1 DEF SaveInv
  <1>3. PICK k \in i..(Len(live) + 1) : Written(i, k)
    BY <1>2
  <1>4. /\ Contents \in Seq(Packet) /\ Len(Contents) = Len(live) /\ Len(live) \in Nat
        /\ \A j \in 1..Len(live) : Contents[j] = packet[live[j]]
    BY ContentsFacts
  <1>5. k = Len(live) + 1
    <2>1. k \in 1..(Len(live) + 1) /\ plist = At(k)
      BY <1>3, <1>4 DEF Written
    <2> QED
      BY <1>1, <2>1, CursorFacts
  <1>6. Trim(Contents, Span) = Contents /\ Contents' = Contents
    BY <1>1, WindowWhole DEF Contents
  <1>7. i \in 1..Len(Contents) /\ IsStart(Contents, i)
    <2>1. \A j \in 1..(i - 1) : j \in 1..Len(live)
      BY <1>4
    <2> QED
      BY <1>3, <1>4, <2>1 DEF IsStart, Written
  <1>8. file = CutFrom(Contents, i)
    <2> DEFINE n == Len(live) - i + 1
    <2>1. n \in Nat /\ k - i = n /\ \A m \in 1..n : i + m - 1 \in 1..Len(live)
      BY <1>4, <1>5
    <2>2. file \in Seq(Rebased) /\ Len(file) = n
          /\ \A m \in 1..n : file[m] = Rebase(packet[live[i + m - 1]], packet[live[i]])
      BY <1>3, <2>1 DEF Written, IInv, TypeOK
    <2>3. \A m \in 1..n : file[m] = Rebase(Contents[i + m - 1], Contents[i])
      BY <1>4, <2>1, <2>2
    <2>4. file = [m \in 1..n |-> file[m]]
      BY <2>2
    <2>5. CutFrom(Contents, i) = [m \in 1..n |-> Rebase(Contents[i + m - 1], Contents[i])]
      BY <1>4 DEF CutFrom
    <2> QED
      BY <2>3, <2>4, <2>5
  <1> QED
    BY <1>1, <1>6, <1>7, <1>8, SameOperators DEF RW!Cut

LEMMA WindowStep ==
    ASSUME IInv, IInv', SaveInv, Fits, [Next]_vars
    PROVE  [RW!Next]_RW!vars
  <1> USE DEF RW!vars
  <1>1. ASSUME NEW p \in Packet, AddPacket(p) PROVE RW!Next
    BY <1>1, AddImplements DEF RW!Next
  <1>2. CASE Evict
    BY <1>2, EvictStutters DEF Window, Opened
  <1>3. CASE WriteDone
    BY <1>3, WriteDoneImplements DEF RW!Next
  <1>4. CASE EvictDone \/ BeginWrite \/ Scan \/ ScanFailed \/ ScanFound \/ Write \/ WriteFailed \/ UNCHANGED vars
    <2>1. UNCHANGED <<live, packet, replay>> /\ Opened' = Opened
      BY <1>4 DEF EvictDone, BeginWrite, Scan, ScanFailed, ScanFound, Write, WriteFailed, vars,
                  heap, history, Opened
    <2>2. Contents' = Contents
      BY <2>1 DEF Contents
    <2> QED
      BY <2>1, <2>2 DEF Opened
  <1>5. CASE AddNoMemory \/ BeginDestroy
    <2>1. pc = "idle" /\ pc' = "drain" /\ UNCHANGED replay
      BY <1>5 DEF AddNoMemory, BeginDestroy
    <2> QED
      BY <2>1 DEF RW!Next, RW!Close
  <1>6. CASE Drain \/ DrainDone \/ Free \/ FreeDone
    <2>1. ~ Opened /\ ~ Opened' /\ UNCHANGED replay
      BY <1>6 DEF Drain, DrainDone, Free, FreeDone, Opened
    <2> QED
      BY <2>1 DEF Opened
  <1> QED
    BY <1>1, <1>2, <1>3, <1>4, <1>5, <1>6 DEF Next, AddLoop, SaveLoop, DestroyLoop

LEMMA SavesAlways == Fits => (Spec => [](IInv /\ SaveInv))
  <1> SUFFICES ASSUME Fits PROVE Spec => [](IInv /\ SaveInv)
    OBVIOUS
  <1>1. Init => SaveInv
    BY DEF Init, SaveInv
  <1>2. IInv /\ [Next]_vars => IInv'
    BY NextInv
  <1>3. IInv /\ SaveInv /\ [Next]_vars => SaveInv'
    BY SaveInvNext
  <1> QED
    BY <1>1, <1>2, <1>3, InitInv, PTL DEF Spec

(***************************************************************************)
(* A save that fails for want of a key-frame has looked at every packet,   *)
(* and every key-frame that was ever accepted is too old: what the buffer  *)
(* evicts one by one and what the scan passes over is everything           *)
(* (buffer.c:51-66, 105-115).                                              *)
(***************************************************************************)
THEOREM SavesFailWithoutKey == Fits => (Spec => SaveFailsWithoutKey)
  <1> SUFFICES ASSUME Fits PROVE Spec => SaveFailsWithoutKey
    OBVIOUS
  <1>1. IInv /\ SaveInv /\ [Next]_vars => [pc = "scan" /\ pc' = "idle" => NoRecentKey]_vars
    <2> SUFFICES ASSUME IInv, SaveInv, Next, pc = "scan", pc' = "idle" PROVE NoRecentKey
      OBVIOUS
    <2>1. plist = NULL
      BY DEF Next, AddPacket, AddRecycled, AddAllocated, Link, AddNoMemory, AddLoop, Evict, EvictDone, SaveLoop,
             BeginWrite, Scan, ScanFailed, ScanFound, Write, WriteFailed, WriteDone,
             DestroyLoop, BeginDestroy, Drain, DrainDone, Free, FreeDone
    <2>2. PICK k \in 1..(Len(live) + 1) : plist = At(k) /\ \A j \in 1..(k - 1) : ~ packet[live[j]].key
      BY DEF SaveInv, Scanned
    <2>3. Len(live) \in Nat /\ k = Len(live) + 1
      BY <2>1, <2>2, CursorFacts
    <2>4. \A j \in 1..Len(live) : ~ packet[live[j]].key
      BY <2>2, <2>3
    <2>5. ASSUME NEW i \in 1..Len(added), added[i].key
          PROVE  \E j \in 1..Len(added) : added[i].pts < added[j].pts - Span
      <3>1. Len(added) \in Nat /\ Len(live) <= Len(added)
        BY LenProperties DEF IInv, IsSuffix
      <3>2. CASE i \in 1..(Len(added) - Len(live))
        BY <3>2 DEF IInv, RecentKept
      <3>3. CASE i \notin 1..(Len(added) - Len(live))
        <4> DEFINE m == i - (Len(added) - Len(live))
        <4>1. m \in 1..Len(live) /\ Len(added) - Len(live) + m = i
          BY <2>3, <3>1, <3>3
        <4>2. packet[live[m]] = added[i]
          BY <4>1 DEF IInv, IsSuffix
        <4> QED
          BY <2>4, <2>5, <4>1, <4>2
      <3> QED
        BY <3>2, <3>3
    <2> QED
      BY <2>5 DEF NoRecentKey
  <1> QED
    BY <1>1, SavesAlways, PTL DEF Spec, SaveFailsWithoutKey

(***************************************************************************)
(* The list of buffer.c implements the window its client is promised: a    *)
(* packet is in the window from the moment it is linked, only old packets  *)
(* leave it, and a replay that is complete is the window from its oldest   *)
(* key-frame on, in order, with times that count from there.               *)
(***************************************************************************)
THEOREM ImplementsWindow == Fits => (Spec => WindowSpec)
  <1> SUFFICES ASSUME Fits PROVE Spec => WindowSpec
    OBVIOUS
  <1>1. Init => RW!Init
    <2> SUFFICES ASSUME Init PROVE RW!Init
      OBVIOUS
    <2>1. IInv
      BY InitInv
    <2>2. Contents = <<>>
      BY <2>1, ContentsFacts DEF Init
    <2> QED
      BY <2>2 DEF Init, RW!Init, Trim
  <1>2. IInv /\ SaveInv /\ IInv' /\ [Next]_vars => [RW!Next]_RW!vars
    BY WindowStep
  <1> QED
    BY <1>1, <1>2, SavesAlways, PTL DEF Spec, WindowSpec, RW!Spec
=============================================================================
