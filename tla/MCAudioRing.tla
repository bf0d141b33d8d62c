----------------------------- MODULE MCAudioRing -----------------------------
(***************************************************************************)
(* An instance of AudioRing for TLC.  MaxTotal bounds how many samples are *)
(* captured: enough for the ring to wrap around more than once.            *)
(***************************************************************************)
EXTENDS AudioRing

MCStartTimes == {-1, 1, 2, 4, 6, 9}
=============================================================================
