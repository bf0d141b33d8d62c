---------------------------- MODULE MCKmsProtocol ----------------------------
(***************************************************************************)
(* An instance of KmsProtocol for TLC.                                     *)
(***************************************************************************)
EXTENDS KmsProtocol
=============================================================================
