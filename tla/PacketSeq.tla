------------------------------ MODULE PacketSeq ------------------------------
(***************************************************************************)
(* What the replay buffer does with a sequence of packets, oldest first.   *)
(* A packet is a record with the two things buffer.c reads of an AVPacket: *)
(* pts and key (AV_PKT_FLAG_KEY).                                          *)
(***************************************************************************)
EXTENDS Integers, Sequences

\* The first packet that is not older than limit; one past the end if all are.
FirstSince(s, limit) ==
    CHOOSE i \in 1..(Len(s) + 1) :
        /\ \A j \in 1..(i - 1) : s[j].pts < limit
        /\ i <= Len(s) => s[i].pts >= limit

\* s without the leading packets that are older than limit.
Since(s, limit) == SubSeq(s, FirstSince(s, limit), Len(s))

\* s without the leading packets more than span older than its last one.
Trim(s, span) == IF s = <<>> THEN s ELSE Since(s, s[Len(s)].pts - span)

\* Packet i is the oldest key-frame of s: a replay starts there.
IsStart(s, i) == s[i].key /\ \A j \in 1..(i - 1) : ~s[j].key

\* A packet of a replay counts time from the packet the replay starts with.
Rebase(p, first) == [pts |-> p.pts - first.pts, key |-> p.key]

\* The replay that starts with packet i.
CutFrom(s, i) == [k \in 1..(Len(s) - i + 1) |-> Rebase(s[i + k - 1], s[i])]
=============================================================================
