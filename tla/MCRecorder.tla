----------------------------- MODULE MCRecorder -----------------------------
(***************************************************************************)
(* An instance of Recorder for TLC: two save requests may wait, the        *)
(* encoder may take two frames before it returns a packet.                 *)
(***************************************************************************)
EXTENDS Recorder
=============================================================================
