----------------------------- MODULE PacketList -----------------------------
(***************************************************************************)
(* The video replay buffer of buffer.c as the program keeps it: a singly   *)
(* linked list from tail (oldest) to head (newest) and a stack of recycled *)
(* nodes, pool, in a heap of nodes.  Only the main thread calls it; its    *)
(* loops are stepped through one node at a time, so that every             *)
(* intermediate shape of the list is a state.                              *)
(*                                                                         *)
(* The variables live, free and added are history variables: they are      *)
(* never read by a guard, and say what the pointers are meant to stand for.*)
(***************************************************************************)
EXTENDS PacketSeq

CONSTANTS
    Nodes,          \* the RSPacketList nodes malloc can return
    NULL,
    Pts,            \* presentation times of encoded packets
    GOP,            \* videoGOP: packets from one key-frame to the next
    Reorder,        \* how far the encoder's decode order runs ahead of time
    RecordSeconds,  \* rsConfig.recordSeconds
    TimeBase,       \* AV_TIME_BASE
    IntHalf,        \* 2^31: an int is in -IntHalf .. IntHalf - 1
    Int64Half       \* 2^63: an int64_t is in -Int64Half .. Int64Half - 1

ASSUME NullAssumption == NULL \notin Nodes
ASSUME PtsAssumption == Pts \subseteq Nat
ASSUME GOPAssumption == GOP \in Nat \ {0} /\ Reorder \in Nat
ASSUME RecordAssumption == RecordSeconds \in Nat \ {0} /\ TimeBase \in Nat \ {0}
ASSUME WidthAssumption ==
    /\ IntHalf \in Nat \ {0}
    /\ Int64Half \in Nat
    /\ Int64Half > 2 * IntHalf

VARIABLES
    next,       \* RSPacketList.next of every node
    packet,     \* RSPacketList.packet of every node
    allocated,  \* the nodes malloc has returned and av_freep has not taken back
    pool, tail, head,   \* RSBuffer
    pc,         \* which loop of buffer.c is running
    plist,      \* the loop's cursor: remove, or plist
    startTime,  \* rsBufferAddPacket's startTime
    start,      \* rsBufferWrite's start
    file,       \* what rsBufferWrite has handed to rsOutputWrite so far
    replay,     \* the packets of the last rsBufferWrite that returned 0
    live,       \* history: the nodes of the list, oldest first
    free,       \* history: the nodes of the pool, top first
    added       \* history: the packets the buffer accepted, in order

rsBuffer == <<pool, tail, head>>
heap == <<next, packet, allocated>>
locals == <<plist, startTime, start, file>>
history == <<live, free, added>>
vars == <<next, packet, allocated, pool, tail, head, pc, plist, startTime,
          start, file, replay, live, free, added>>

Span == RecordSeconds * TimeBase

NoPts == -Int64Half                             \* AV_NOPTS_VALUE
Packet == [pts : Pts, key : BOOLEAN]
Blank == [pts |-> NoPts, key |-> FALSE]         \* an unreferenced AVPacket
Rebased == [pts : Int, key : BOOLEAN]

(***************************************************************************)
(* recordSeconds * AV_TIME_BASE is a product of two ints.  When it does    *)
(* not fit, the C is undefined; the builds either wrap it to 32 bits or    *)
(* multiply in the 64-bit register it is about to be used in.              *)
(***************************************************************************)
Fits == Span < IntHalf    \* true up to 2147 seconds
WrapInt(x) == ((x + IntHalf) % (2 * IntHalf)) - IntHalf
Products == IF Fits THEN {Span} ELSE {Span, WrapInt(Span)}

\* 64-bit subtraction, for a minuend and a subtrahend that do not both wrap.
Minus64(x, y) ==
    IF x - y < -Int64Half THEN x - y + 2 * Int64Half ELSE x - y

Init ==
    /\ next = [n \in Nodes |-> NULL]
    /\ packet = [n \in Nodes |-> Blank]
    /\ allocated = {}
    /\ pool = NULL /\ tail = NULL /\ head = NULL
    /\ pc = "idle"
    /\ plist = NULL /\ start = NULL
    /\ startTime = 0
    /\ file = <<>> /\ replay = <<>>
    /\ live = <<>> /\ free = <<>> /\ added = <<>>

-----------------------------------------------------------------------------
(***************************************************************************)
(* rsBufferAddPacket.  Link stands for lines 98 to 109: the packet moves   *)
(* into node n, n becomes the head, and the eviction loop starts at the    *)
(* tail.  Its two uses are the two ways bufferPacketCreate gets a node.    *)
(***************************************************************************)
Link(n, nx, p) ==
    /\ packet' = [packet EXCEPT ![n] = p]
    /\ next' = IF head = NULL THEN nx ELSE [nx EXCEPT ![head] = n]
    /\ tail' = IF head = NULL THEN n ELSE tail
    /\ head' = n
    /\ \E product \in Products : startTime' = Minus64(p.pts, product)
    /\ plist' = tail'
    /\ pc' = "evict"
    /\ live' = Append(live, n)
    /\ added' = Append(added, p)
    /\ UNCHANGED <<start, file, replay>>

AddRecycled(p) ==
    /\ pc = "idle"
    /\ pool # NULL
    /\ Link(pool, [next EXCEPT ![pool] = NULL], p)
    /\ pool' = next[pool]
    /\ free' = Tail(free)
    /\ UNCHANGED allocated

\* What a successful malloc can return.
MallocUnchecked == (Nodes \ allocated) \cup {NULL}  \* mutant: the NULL test is missing
Malloced == Nodes \ allocated

AddAllocated(p) ==
    /\ pc = "idle"
    /\ pool = NULL
    /\ \E n \in Malloced :
          /\ Link(n, [next EXCEPT ![n] = NULL], p)
          /\ allocated' = allocated \cup {n}
    /\ UNCHANGED <<pool, free>>

\* malloc fails: the packet is dropped, and ENOMEM takes main to its cleanup.
AddNoMemory ==
    /\ pc = "idle"
    /\ pool = NULL
    /\ pc' = "drain"
    /\ plist' = tail
    /\ UNCHANGED <<heap, rsBuffer, startTime, start, file, replay, history>>

StaleEarly(n) == packet[n].pts <= startTime     \* mutant: <= for <
Stale(n) == packet[n].pts < startTime

\* The loops read plist->next before bufferPacketDestroy overwrites it.
FollowingLate == pool                           \* mutant: read afterwards
Following == next[plist]

\* av_packet_unref.
Unreferenced(n) == [packet EXCEPT ![n] = Blank]

\* bufferPacketDestroy(buffer, plist), and on to the following node.
Recycle ==
    /\ packet' = Unreferenced(plist)
    /\ next' = [next EXCEPT ![plist] = pool]
    /\ pool' = plist
    /\ plist' = Following
    /\ live' = Tail(live)
    /\ free' = <<plist>> \o free

Evict ==
    /\ pc = "evict"
    /\ plist # NULL /\ Stale(plist)
    /\ Recycle
    /\ UNCHANGED <<allocated, tail, head, pc, startTime, start, file, replay, added>>

EvictDone ==
    /\ pc = "evict"
    /\ plist # NULL => ~Stale(plist)
    /\ tail' = plist
    /\ pc' = "idle"
    /\ UNCHANGED <<heap, pool, head, locals, replay, history>>

-----------------------------------------------------------------------------
(***************************************************************************)
(* rsBufferWrite: bufferPacketGetStart scans for the first key-frame, then *)
(* every packet from there on is rebased and written.                      *)
(***************************************************************************)
ScanFromHead == head                            \* mutant: newest first
ScanFrom == tail

BeginWrite ==
    /\ pc = "idle"
    /\ pc' = "scan"
    /\ plist' = ScanFrom
    /\ UNCHANGED <<heap, rsBuffer, startTime, start, file, replay, history>>

Scan ==
    /\ pc = "scan"
    /\ plist # NULL /\ ~packet[plist].key
    /\ plist' = next[plist]
    /\ UNCHANGED <<heap, rsBuffer, pc, startTime, start, file, replay, history>>

\* "No key-frame available yet": EAGAIN.
ScanFailed ==
    /\ pc = "scan"
    /\ plist = NULL
    /\ pc' = "idle"
    /\ UNCHANGED <<heap, rsBuffer, locals, replay, history>>

StartAtTail == tail                             \* mutant: rebased to the tail
StartAt == plist

ScanFound ==
    /\ pc = "scan"
    /\ plist # NULL /\ packet[plist].key
    /\ pc' = "write"
    /\ start' = StartAt
    /\ file' = <<>>
    /\ UNCHANGED <<heap, rsBuffer, plist, startTime, replay, history>>

Write ==
    /\ pc = "write"
    /\ plist # NULL
    /\ file' = Append(file, Rebase(packet[plist], packet[start]))
    /\ plist' = next[plist]
    /\ UNCHANGED <<heap, rsBuffer, pc, startTime, start, replay, history>>

\* av_packet_ref or rsOutputWrite fails; the buffer itself is untouched.
WriteFailed ==
    /\ pc = "write"
    /\ plist # NULL
    /\ pc' = "idle"
    /\ UNCHANGED <<heap, rsBuffer, locals, replay, history>>

WriteDone ==
    /\ pc = "write"
    /\ plist = NULL
    /\ pc' = "idle"
    /\ replay' = file
    /\ UNCHANGED <<heap, rsBuffer, locals, history>>

-----------------------------------------------------------------------------
(***************************************************************************)
(* rsBufferDestroy: the list is recycled into the pool, then the pool is   *)
(* freed.  head keeps its last value.                                      *)
(***************************************************************************)
BeginDestroyPool ==                             \* mutant: the list is forgotten
    /\ pc = "idle"
    /\ pc' = "free"
    /\ plist' = pool
    /\ UNCHANGED <<heap, rsBuffer, startTime, start, file, replay, history>>
BeginDestroy ==
    /\ pc = "idle"
    /\ pc' = "drain"
    /\ plist' = tail
    /\ UNCHANGED <<heap, rsBuffer, startTime, start, file, replay, history>>

Drain ==
    /\ pc = "drain"
    /\ plist # NULL
    /\ Recycle
    /\ UNCHANGED <<allocated, tail, head, pc, startTime, start, file, replay, added>>

DrainDone ==
    /\ pc = "drain"
    /\ plist = NULL
    /\ tail' = NULL
    /\ plist' = pool
    /\ pc' = "free"
    /\ UNCHANGED <<heap, pool, head, startTime, start, file, replay, history>>

Free ==
    /\ pc = "free"
    /\ plist # NULL
    /\ allocated' = allocated \ {plist}
    /\ plist' = next[plist]
    /\ free' = Tail(free)
    /\ UNCHANGED <<next, packet, rsBuffer, pc, startTime, start, file, replay,
                   live, added>>

FreeDone ==
    /\ pc = "free"
    /\ plist = NULL
    /\ pool' = NULL
    /\ pc' = "gone"
    /\ UNCHANGED <<heap, tail, head, locals, replay, history>>

-----------------------------------------------------------------------------
(***************************************************************************)
(* The encoder, as the main loop uses it: the stream opens with a          *)
(* key-frame, at most GOP - 1 other packets follow one, groups are closed, *)
(* and within a group decode order may run Reorder ahead of presentation   *)
(* order (B-frames).                                                       *)
(***************************************************************************)
EncoderMayEmit(p) ==
    IF p.key
    THEN \A i \in 1..Len(added) : added[i].pts < p.pts
    ELSE \E k \in 1..Len(added) :
            /\ added[k].key
            /\ Len(added) - k + 1 < GOP
            /\ p.pts > added[k].pts
            /\ \A i \in (k + 1)..Len(added) :
                  ~added[i].key /\ added[i].pts # p.pts /\ added[i].pts <= p.pts + Reorder

AddPacket(p) == AddRecycled(p) \/ AddAllocated(p)

AddLoop == Evict \/ EvictDone
SaveLoop ==
    \/ BeginWrite \/ Scan \/ ScanFailed \/ ScanFound
    \/ Write \/ WriteFailed \/ WriteDone
DestroyLoop == BeginDestroy \/ Drain \/ DrainDone \/ Free \/ FreeDone

Next ==
    \/ \E p \in Packet : EncoderMayEmit(p) /\ AddPacket(p)
    \/ AddNoMemory
    \/ AddLoop
    \/ SaveLoop
    \/ DestroyLoop

Spec == Init /\ [][Next]_vars

(***************************************************************************)
(* mainStep leaves its loop on every result of rsEncoderNextPacket but     *)
(* EAGAIN, so when the encoder fails the packet it left blank is added.    *)
(***************************************************************************)
AddBlank == AddPacket(Blank)

SpecEncoderError == Init /\ [][Next \/ AddBlank]_vars

-----------------------------------------------------------------------------
Node == Nodes \cup {NULL}

\* The packets kept, oldest first.
Contents == [i \in 1..Len(live) |-> packet[live[i]]]

\* Every variable of the buffer holds a value of its C type.
TypeOK ==
    /\ next \in [Nodes -> Node]
    /\ packet \in [Nodes -> Packet \cup {Blank}]
    /\ allocated \subseteq Nodes
    /\ pool \in Node /\ tail \in Node /\ head \in Node
    /\ pc \in {"idle", "evict", "scan", "write", "drain", "free", "gone"}
    /\ plist \in Node /\ start \in Node
    /\ startTime \in Int
    /\ file \in Seq(Rebased) /\ replay \in Seq(Rebased)
    /\ live \in Seq(Nodes) /\ free \in Seq(Nodes)
    /\ added \in Seq(Packet \cup {Blank})

\* The nodes of s are chained by next in order, and the last one ends the chain.
Chained(s) ==
    \A i \in 1..Len(s) : next[s[i]] = IF i = Len(s) THEN NULL ELSE s[i + 1]

FirstOf(s) == IF s = <<>> THEN NULL ELSE s[1]

(***************************************************************************)
(* Whatever buffer.c is in the middle of, tail or the loop's cursor leads  *)
(* over the live nodes in order and pool over the recycled ones: no cycle, *)
(* no node in both lists, and none that neither reaches (a leak).          *)
(***************************************************************************)
ListOK ==
    /\ Chained(live)
    /\ pc \in {"idle", "scan", "write"} => tail = FirstOf(live)
    /\ pc \in {"evict", "drain"} => plist = FirstOf(live)
    /\ pc \in {"free", "gone"} => live = <<>>
    /\ \A i, j \in 1..Len(live) : live[i] = live[j] => i = j

PoolOK ==
    /\ Chained(free)
    /\ pc # "free" => pool = FirstOf(free)
    /\ pc = "free" => plist = FirstOf(free)
    /\ pc = "gone" => free = <<>>
    /\ \A i, j \in 1..Len(free) : free[i] = free[j] => i = j
    /\ \A i \in 1..Len(free) : packet[free[i]] = Blank

HeapOK ==
    /\ \A n \in allocated :
          (\E i \in 1..Len(live) : live[i] = n) \/ (\E i \in 1..Len(free) : free[i] = n)
    /\ \A i \in 1..Len(live) : live[i] \in allocated
    /\ \A i \in 1..Len(free) : free[i] \in allocated
    /\ \A i \in 1..Len(live), j \in 1..Len(free) : live[i] # free[j]

\* New packets are linked to the head: it is the last live node, and NULL
\* exactly as long as nothing was ever added.
HeadOK ==
    pc \in {"idle", "evict", "scan", "write"} =>
        /\ head = NULL <=> added = <<>>
        /\ head # NULL => live # <<>> /\ live[Len(live)] = head

\* The loops of a save read live nodes only.
CursorOK ==
    /\ pc \in {"scan", "write"} =>
          plist = NULL \/ \E i \in 1..Len(live) : live[i] = plist
    /\ pc = "write" => \E i \in 1..Len(live) : live[i] = start

PointersOK == ListOK /\ PoolOK /\ HeapOK /\ HeadOK /\ CursorOK

\* After rsBufferDestroy every node has been freed, once.
NothingLeaked == pc = "gone" => allocated = {}

\* The buffer holds a suffix of what it accepted, in the order it accepted it.
IsSuffix ==
    /\ Len(live) <= Len(added)
    /\ \A i \in 1..Len(live) :
          packet[live[i]] = added[Len(added) - Len(live) + i]

(***************************************************************************)
(* The promise of a replay buffer (README.md: "save the last 30 seconds"): *)
(* a packet is gone only when a packet more than recordSeconds newer has   *)
(* been accepted.                                                          *)
(***************************************************************************)
RecentKept ==
    pc \in {"idle", "evict", "scan", "write"} =>
        \A i \in 1..(Len(added) - Len(live)) :
            \E j \in 1..Len(added) : added[i].pts < added[j].pts - Span

(***************************************************************************)
(* A packet the encoder has delivered is on the list when rsBufferAddPacket *)
(* returns, whatever happened before: a save that finds no key-frame        *)
(* (buffer.c:64 "No key-frame available yet") can succeed later.            *)
(***************************************************************************)
NewestListed ==
    pc = "idle" /\ added # <<>> =>
        added[Len(added)] = Blank \/ (tail # NULL /\ head = live[Len(live)])

\* Between calls nothing older than recordSeconds leads the list: memory is
\* bounded by the configured duration.
OldEvicted ==
    pc \in {"idle", "scan", "write"} /\ live # <<>> =>
        packet[live[1]].pts >= packet[live[Len(live)]].pts - Span

\* The content of the buffer is what was accepted, in that order, from a packet on
\* before which all are old and which is not old itself (buffer.c:92-117).
WindowKept == IsSuffix /\ RecentKept /\ OldEvicted

(***************************************************************************)
(* A save fails for want of a key-frame only when no key-frame is among    *)
(* the packets of the last recordSeconds (a GOP longer than the window, or *)
(* a device that stalled for longer than it).                              *)
(***************************************************************************)
NoRecentKey ==
    \A i \in 1..Len(added) :
        added[i].key => \E j \in 1..Len(added) : added[i].pts < added[j].pts - Span
SaveFailsWithoutKey == [][pc = "scan" /\ pc' = "idle" => NoRecentKey]_vars

\* The buffer implements the window of ReplayWindow: an added packet is
\* accepted and the old ones leave when it is linked, whatever the loop has
\* still to do.
RW == INSTANCE ReplayWindow WITH
    open <- pc \in {"idle", "evict", "scan", "write"},
    window <- IF pc \in {"idle", "evict", "scan", "write"}
              THEN Trim(Contents, Span) ELSE <<>>
WindowSpec == RW!Spec
=============================================================================
