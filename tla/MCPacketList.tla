---------------------------- MODULE MCPacketList ----------------------------
(***************************************************************************)
(* Instances of PacketList for TLC.  MCPts bounds the presentation times   *)
(* and with them the length of a behaviour; MCNodes is what malloc has.    *)
(***************************************************************************)
EXTENDS PacketList, TLC

CONSTANT LastPts

MCPts == 0..LastPts
NodeSymmetry == Permutations(Nodes)
=============================================================================
