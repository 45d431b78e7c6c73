-------------------------- MODULE PolledReplication --------------------------
(***************************************************************************)
(* CdcCompatibilityService, the 1-second poller of polling mode, driving   *)
(* ClickHouseSyncService for one table, beside the other callers of the    *)
(* sync service and the MySQL writers.                                     *)
(*                                                                         *)
(* A cycle counts the rows of the table, compares the count with the one   *)
(* of the last cycle that completed, and asks for a rebuild or for an      *)
(* incremental sync.  The steps of the sync are those of TableReplication. *)
(* The cycle also visits the database's other tables: they take part only  *)
(* as the failure of one of them, which ends the cycle before its commit.  *)
(***************************************************************************)
EXTENDS TableReplication

CONSTANTS
  poller,     (* the process that runs the poller's cycles                     *)
  QuietStart, (* until the first commit no cycle fails and nobody else syncs   *)
  Failing     (* which failures occur: "lookup" (the schema query of             *)
              (* syncSingleTable), "rebuild" and "increment" (an await of a     *)
              (* full, an incremental sync), "cycle" (any other await of a      *)
              (* cycle), "restart"                                              *)

ASSUME PollerAssumption == poller \in Proc /\ QuietStart \in BOOLEAN
ASSUME FailingAssumption ==
  Failing \subseteq {"lookup", "rebuild", "increment", "cycle", "restart"}

VARIABLES
  cycle,      (* where the poller's cycle stands                               *)
  listed,     (* visibleClickHouseTables has the table                         *)
  counted,    (* nextSnapshots: the row count this cycle read                  *)
  snapshot,   (* tableSnapshots: the row count of the last completed cycle     *)
  tracked     (* trackedTables has the table                                   *)

pollVars == <<cycle, listed, counted, snapshot, tracked>>
allVars  == <<vars, pollVars>>

NoCount == -1
Rows    == {k \in Key : Present(k)}
Ghost(k) == ~Present(k) /\ Visible(k) # 0

PollTypeOK ==
  /\ TypeOK
  /\ cycle \in {"waiting", "listing", "counting", "deciding", "syncing", "committing"}
  /\ listed \in BOOLEAN
  /\ counted \in 0 .. Cardinality(Key)
  /\ snapshot \in {NoCount} \cup 0 .. Cardinality(Key)
  /\ tracked \in BOOLEAN

PollInit ==
  /\ Init
  /\ cycle = "waiting"
  /\ listed = FALSE
  /\ counted = 0
  /\ snapshot = NoCount
  /\ tracked = FALSE

-----------------------------------------------------------------------------
(* One cycle (runCycle).                                                   *)

(* A timer tick while a cycle is in progress does nothing.                 *)
StartCycle ==
  /\ cycle = "waiting"
  /\ cycle' = "listing"
  /\ UNCHANGED <<vars, listed, counted, snapshot, tracked>>

(* A tracked table that ClickHouse does not list ends the cycle.           *)
ListTables ==
  /\ cycle = "listing"
  /\ listed' = viewUp
  /\ cycle' = IF tracked /\ ~viewUp THEN "waiting" ELSE "counting"
  /\ UNCHANGED <<vars, counted, snapshot, tracked>>

CountRows ==
  /\ cycle = "counting"
  /\ counted' = Cardinality(Rows)
  /\ cycle' = "deciding"
  /\ UNCHANGED <<vars, listed, snapshot, tracked>>

FirstCycle == snapshot = NoCount

(* Mutants of Wanted: nothing to do when the count did not change; no      *)
(* rebuild when it dropped.                                                *)
WantedOnDrift ==
  IF FirstCycle
    THEN IF listed THEN "none" ELSE "full"
    ELSE IF snapshot > counted THEN "full"
    ELSE IF snapshot < counted THEN "single" ELSE "none"
WantedNoRebuild ==
  IF FirstCycle
    THEN IF listed THEN "none" ELSE "full"
    ELSE "single"

(* What the counts ask for: nothing, a rebuild or an incremental sync.     *)
Wanted ==
  IF FirstCycle
    THEN IF listed THEN "none" ELSE "full"
    ELSE IF snapshot > counted THEN "full" ELSE "single"

SkipTable ==
  /\ cycle = "deciding"
  /\ Wanted = "none"
  /\ cycle' = "committing"
  /\ UNCHANGED <<vars, listed, counted, snapshot, tracked>>

RequestSync ==
  /\ cycle = "deciding"
  /\ Wanted # "none"
  /\ Acquire(poller, Wanted)
  /\ cycle' = "syncing"
  /\ UNCHANGED <<listed, counted, snapshot, tracked>>

(* SyncAlreadyInProgressError ends the whole cycle.                        *)
TableLocked ==
  /\ cycle = "deciding"
  /\ Wanted # "none"
  /\ lock
  /\ cycle' = "waiting"
  /\ UNCHANGED <<vars, listed, counted, snapshot, tracked>>

PollerSyncs ==
  /\ SyncStep(poller)
  /\ cycle' = IF pc[poller] = "log" THEN "committing" ELSE cycle
  /\ UNCHANGED <<listed, counted, snapshot, tracked>>

(* Mutant of Commit: the rows are counted again after the sync.             *)
CommitRecount ==
  /\ cycle = "committing"
  /\ snapshot' = Cardinality(Rows)
  /\ tracked' = TRUE
  /\ cycle' = "waiting"
  /\ UNCHANGED <<vars, listed, counted>>
Commit ==
  /\ cycle = "committing"
  /\ snapshot' = counted
  /\ tracked' = TRUE
  /\ cycle' = "waiting"
  /\ UNCHANGED <<vars, listed, counted>>

-----------------------------------------------------------------------------
(* Failures.                                                               *)

MayFail(p) ==
  \/ (mode[p] = "single" => "lookup" \in Failing) /\ SchemaFails(p)
  \/ /\ (IF mode[p] = "full" THEN "rebuild" ELSE "increment") \in Failing
     /\ SyncFails(p)

(* A sync that did not succeed makes the cycle throw: nothing is committed. *)
PollerSyncFails ==
  /\ MayFail(poller)
  /\ cycle' = "waiting"
  /\ UNCHANGED <<listed, counted, snapshot, tracked>>

(* Another await of the cycle rejects, or the sync of another table fails. *)
CycleFails ==
  /\ "cycle" \in Failing
  /\ QuietStart => tracked
  /\ cycle \in {"listing", "counting", "committing"}
  /\ otherFaults < MaxOtherFaults
  /\ otherFaults' = otherFaults + 1
  /\ cycle' = "waiting"
  /\ UNCHANGED <<sourceVars, copyVars, lock, jobVars, rebuildFaults,
                 listed, counted, snapshot, tracked>>

(* The snapshots and the tracked tables are in memory only.                *)
PollRestart ==
  /\ "restart" \in Failing
  /\ "rebuild" \in Failing \/ \A p \in Proc : mode[p] # "full"
  /\ Restart
  /\ cycle' = "waiting"
  /\ listed' = FALSE
  /\ counted' = 0
  /\ snapshot' = NoCount
  /\ tracked' = FALSE

-----------------------------------------------------------------------------
(* The other callers of the sync service.                                  *)

OtherSyncs(p) ==
  /\ \/ (QuietStart => tracked) /\ \E request \in Request : Acquire(p, request)
     \/ SyncStep(p)
     \/ MayFail(p)
  /\ UNCHANGED pollVars

PollStep ==
  \/ StartCycle \/ ListTables \/ CountRows
  \/ SkipTable \/ RequestSync \/ TableLocked
  \/ PollerSyncs
  \/ Commit

PollNext ==
  \/ Source /\ UNCHANGED pollVars
  \/ PollStep
  \/ PollerSyncFails
  \/ CycleFails
  \/ PollRestart
  \/ \E p \in Proc \ {poller} : OtherSyncs(p)

(* The timer ticks every second and every await settles: the poller and a   *)
(* running sync always take their next step.  Nobody else has to act.      *)
PollFairness ==
  /\ WF_allVars(PollStep)
  /\ \A p \in Proc \ {poller} : WF_allVars(SyncStep(p) /\ UNCHANGED pollVars)

PollSpec == PollInit /\ [][PollNext]_allVars /\ PollFairness

-----------------------------------------------------------------------------
(* Properties.                                                             *)

(* The view keeps catching up with every row MySQL holds, with no help but   *)
(* the poller's: it shows the row's version again and again, the last one   *)
(* for good.                                                               *)
RowsArrive ==
  \A k \in Key : []<>(Present(k) => Visible(k) = mysql[k].ver)

(* A deleted row disappears from the view, unless the key is used again: the *)
(* poller rebuilds the table.  It gives up a cycle that finds the table      *)
(* locked, so the other callers must leave it alone at last.               *)
DeletesArrive ==
  (\A p \in Proc \ {poller} : <>[](pc[p] = "idle"))
    => \A k \in Key : ~Present(k) ~> (Present(k) \/ Visible(k) = 0)

(* A row that the view shows and MySQL has deleted is one that the next      *)
(* comparison of counts will notice, unless a sync is running.             *)
GhostsNoticed ==
  tracked /\ ~lock /\ (\E k \in Key : Ghost(k)) => snapshot > Cardinality(Rows)
=============================================================================
