---------------------------- MODULE ReplayWindow ----------------------------
(***************************************************************************)
(* What the video replay buffer of buffer.c promises to its only client,   *)
(* the main loop: a window over the encoded packets that always ends with  *)
(* the newest one and reaches back Span microseconds, from which a replay  *)
(* can be cut that begins with a key-frame at time zero.                   *)
(*                                                                         *)
(* The linked list, the pool of recycled nodes and malloc are in module    *)
(* PacketList, which is shown to implement this one.                       *)
(***************************************************************************)
EXTENDS PacketSeq

CONSTANTS
    Packet,  \* the packets the encoder may produce
    Span     \* how far back the window reaches, microseconds

VARIABLES
    window,  \* the packets kept, oldest first
    replay,  \* the packets of the last replay that was cut completely
    open     \* the buffer has been created and not yet destroyed

vars == <<window, replay, open>>

Init == window = <<>> /\ replay = <<>> /\ open = TRUE

\* A packet is accepted; what has become too old leaves the window.
Add(p) ==
    /\ open
    /\ window' = Trim(Append(window, p), Span)
    /\ UNCHANGED <<replay, open>>

\* A replay is cut. A failed attempt is a stuttering step.
Cut ==
    /\ open
    /\ \E i \in 1..Len(window) :
          IsStart(window, i) /\ replay' = CutFrom(window, i)
    /\ UNCHANGED <<window, open>>

Close ==
    /\ open
    /\ open' = FALSE
    /\ window' = <<>>
    /\ UNCHANGED replay

Next == (\E p \in Packet : Add(p)) \/ Cut \/ Close

Spec == Init /\ [][Next]_vars
=============================================================================
