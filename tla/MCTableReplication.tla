------------------------- MODULE MCTableReplication -------------------------
(* TableReplication on small instances. *)
EXTENDS TableReplication, TLC

CONSTANTS api, poller

MCProc == {api, poller}
ProcSymmetry == Permutations(MCProc)
=============================================================================
