------------------------- MODULE MCPolledReplication -------------------------
(***************************************************************************)
(* PolledReplication under two loads. Under "mixed" rows come and go, the  *)
(* table is altered, syncs fail and the server restarts. Under "shrinking" *)
(* no row is inserted, so that every delete lowers the count the poller    *)
(* compares; what is promised of deletes is promised of that load only.    *)
(***************************************************************************)
EXTENDS PolledReplication

CONSTANTS
  api,               (* another caller of the sync service                           *)
  MaxShrinkVersion   (* bound: last version number under the shrinking load          *)

VARIABLE load

MCProc == {api, poller}

Shrinking == INSTANCE PolledReplication WITH
  Changes <- {"update", "delete"}, MaxVersion <- MaxShrinkVersion,
  QuietStart <- TRUE, Failing <- {"increment", "cycle"}

LoadInit == load \in {"mixed", "shrinking"} /\ PollInit

LoadNext ==
  /\ UNCHANGED load
  /\ \/ load = "mixed" /\ PollNext
     \/ load = "shrinking" /\ Shrinking!PollNext

(* What PollFairness speaks of does not depend on the load.                 *)
LoadSpec == LoadInit /\ [][LoadNext]_<<allVars, load>> /\ PollFairness

-----------------------------------------------------------------------------
(* The typing; while no row is inserted, a ghost is one the next comparison  *)
(* of counts will notice.                                                  *)
GhostsAreNoticed ==
  /\ load = "mixed" => PollTypeOK
  /\ load = "shrinking" => Shrinking!PollTypeOK /\ Shrinking!GhostsNoticed

(* While no row is inserted, a deleted row disappears from the view.       *)
DeletedRowsGo == load = "shrinking" => Shrinking!DeletesArrive
=============================================================================
