---------------------------- MODULE MCSharedQueue ----------------------------
(* Instances of SharedQueue for TLC. *)
EXTENDS SharedQueue

CONSTANTS t1, t2, t3, a
=============================================================================
