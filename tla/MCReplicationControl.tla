------------------------ MODULE MCReplicationControl ------------------------
(* ReplicationControl on small instances: the starts of two commands       *)
(* overlap, and the server crashes or a step fails twice.                  *)
EXTENDS ReplicationControl

-----------------------------------------------------------------------------
(* What runs is what was asked for: the typing, nothing that a stop or a     *)
(* deletion leaves behind, and no service that runs twice.                 *)
RunsAsAsked == ControlTypeOK /\ StoppedIsStopped /\ OneOfEach
=============================================================================
