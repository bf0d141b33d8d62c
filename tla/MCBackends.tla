---------------------------- MODULE MCBackends ----------------------------
(* Every configuration; the module has no constants.                       *)
EXTENDS Backends
===========================================================================
