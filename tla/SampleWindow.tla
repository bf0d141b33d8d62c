---------------------------- MODULE SampleWindow ----------------------------
(***************************************************************************)
(* What the audio replay buffer of audio/abuffer.c promises: it keeps the  *)
(* last Capacity samples that were captured, and a clip is every kept      *)
(* sample from the requested time on, in order, each exactly once.         *)
(*                                                                         *)
(* The k-th sample ever captured is the number k; time is counted in       *)
(* sample periods.  The ring and the encoder are in module AudioRing.      *)
(***************************************************************************)
EXTENDS Integers

CONSTANTS Capacity, FrameSizes, Gaps, StartTimes

VARIABLES
    total,    \* samples captured so far
    kept,     \* how many of the last ones are kept
    endTime,  \* the time just after the last one
    clip      \* the samples of the last clip that was cut completely

vars == <<total, kept, endTime, clip>>

\* How many kept samples are older than time, as far as endTime tells.
Skipped(time) ==
    IF time > endTime - kept THEN time - (endTime - kept) ELSE 0

\* The samples from the one numbered first to the last one captured.
ClipFrom(first) == [k \in 1..(total - first + 1) |-> first + k - 1]

Init == total = 0 /\ kept = 0 /\ endTime = 0 /\ clip = <<>>

Capture(nb, gap) ==
    /\ total' = total + nb
    /\ kept' = IF kept + nb > Capacity THEN Capacity ELSE kept + nb
    /\ endTime' = endTime + gap + nb
    /\ UNCHANGED clip

\* A clip is cut. A failed attempt is a stuttering step.
Cut(time) ==
    /\ clip' = ClipFrom(total - kept + 1 + Skipped(time))
    /\ UNCHANGED <<total, kept, endTime>>

Next ==
    \/ \E nb \in FrameSizes, gap \in Gaps : Capture(nb, gap)
    \/ \E time \in StartTimes : Cut(time)

Spec == Init /\ [][Next]_vars
=============================================================================
