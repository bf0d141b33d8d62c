---------------------------- MODULE MCPulseDevice ----------------------------
(***************************************************************************)
(* An instance of PulseDevice for TLC.                                     *)
(***************************************************************************)
EXTENDS PulseDevice
=============================================================================
