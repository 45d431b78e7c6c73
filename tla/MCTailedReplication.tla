------------------------ MODULE MCTailedReplication ------------------------
(* TailedReplication on small instances. *)
EXTENDS TailedReplication

CONSTANT api

MCProc == {api, tailer}

-----------------------------------------------------------------------------
(* The typing; a deleted row that is still shown is one whose tombstone is   *)
(* on its way.                                                             *)
GhostsAreExplained == TailTypeOK /\ GhostsExplained
=============================================================================
