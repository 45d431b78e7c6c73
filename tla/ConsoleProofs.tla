----------------------------- MODULE ConsoleProofs -----------------------------
(***************************************************************************)
(* That what the operator watches is true and does no harm elsewhere,      *)
(* proved for every number of tables, single syncs, databases, batches,    *)
(* lives, checks, tabs and tokens: the record of the syncs says what goes  *)
(* on, no table is synced twice at a time, and no backup of another        *)
(* database is deleted.                                                    *)
(*                                                                         *)
(* The components share no state, so each has an inductive invariant of    *)
(* its own and every step of the composition is a step or a stutter of     *)
(* each of them.                                                           *)
(***************************************************************************)
EXTENDS MCConsole, SequenceTheorems, TLAPS

-----------------------------------------------------------------------------
(* The record of the syncs                                                 *)
-----------------------------------------------------------------------------

\* What works on a table, and is about to write the record.
RunWorks == run.stage \in {"schema", "syncing"}
SingleWorks(s) == single[s].stage \in {"schema", "syncing"}

\* Whoever works on a table has it locked, and alone; who does not has none.
LocksHeld ==
    /\ IF RunWorks THEN run.table \in Table /\ run.table \in activeTableLocks
                   ELSE run.table = NoTable
    /\ \A s \in Single :
         IF SingleWorks(s) THEN single[s].table \in Table /\ single[s].table \in activeTableLocks
                           ELSE single[s].table = NoTable

\* A record in progress is that of a run, of a single sync, or of a run that was
\* cut short.
SomebodyWorks ==
    syncProgress.inProgress =>
        \/ RunWorks
        \/ \E s \in Single : single[s].stage = "syncing"
        \/ syncProgress.tablesCompleted \in 1..Tables - 1

ProgressInv ==
    /\ ProgressTypeOK
    /\ LocksHeld
    /\ OneSyncPerTable
    /\ CountIsRuns
    /\ SomebodyWorks

\* The bounds of the record.
LEMMA ProgressLimits == Tables \in Nat \ {0} /\ MaxLeaks \in Nat
BY ProgressAssumption DEF ProgressAssumption

\* The invariant holds the properties of the record.
LEMMA ProgressInvImplies ==
    ProgressInv => ProgressTypeOK /\ QuietMeansIdle /\ CountIsRuns /\ OneSyncPerTable
<1> SUFFICES ASSUME ProgressInv PROVE QuietMeansIdle
    BY DEF ProgressInv
<1>1. ASSUME Quiet PROVE ~RunWorks /\ \A s \in Single : single[s].stage # "syncing"
    BY <1>1 DEF Quiet, RunWorks, Idle
<1> QED  BY <1>1 DEF ProgressInv, SomebodyWorks, QuietMeansIdle

\* Nothing goes on at the start.
LEMMA ProgressInitially == ProgressInit => ProgressInv
<1> SUFFICES ASSUME ProgressInit PROVE ProgressInv
    OBVIOUS
<1>1. syncProgress \in Progress
    BY ProgressLimits DEF ProgressInit, Progress, NoTable
<1>2. run = Idle /\ single = [s \in Single |-> Idle]
    BY DEF ProgressInit
<1>0. Idle \in [stage : {"none", "listing", "schema", "syncing"}, table : 0..Tables]
      /\ Idle \in [stage : {"none", "schema", "syncing"}, table : 0..Tables]
    BY ProgressLimits DEF Idle, NoTable
<1>3. ProgressTypeOK
  <2>1. /\ activeTableLocks \subseteq Table /\ leaks \in 0..MaxLeaks
        /\ selected \in BOOLEAN /\ stream = "connecting" /\ pending \in BOOLEAN
        /\ syncState \in Progress
    <3>1. 0 \in 0..MaxLeaks
        BY ProgressLimits
    <3> QED  BY <1>1, <3>1 DEF ProgressInit
  <2> QED  BY <1>0, <1>1, <1>2, <2>1 DEF ProgressTypeOK
<1>4. LocksHeld /\ OneSyncPerTable /\ CountIsRuns /\ SomebodyWorks
    BY <1>2 DEF ProgressInit, LocksHeld, OneSyncPerTable, CountIsRuns, SomebodyWorks, Idle,
                RunWorks, SingleWorks
<1> QED  BY <1>3, <1>4 DEF ProgressInv

\* Nothing of the server changes: the browser's business.
LEMMA BrowserKeeps ==
    ASSUME ProgressInv, UNCHANGED <<activeTableLocks, run, single, leaks, syncProgress>>,
           selected' \in BOOLEAN, stream' \in {"connecting", "open", "refused", "deaf"},
           pending' \in BOOLEAN, syncState' \in Progress \cup {Others}
    PROVE  ProgressInv'
<1>1. ProgressTypeOK'
    BY DEF ProgressInv, ProgressTypeOK
<1>2. LocksHeld' /\ OneSyncPerTable' /\ CountIsRuns' /\ SomebodyWorks'
    BY DEF ProgressInv, LocksHeld, OneSyncPerTable, CountIsRuns, SomebodyWorks, RunWorks,
           SingleWorks
<1> QED  BY <1>1, <1>2 DEF ProgressInv

\* The browser's side of a step of the server.
Watched == selected \in BOOLEAN /\ stream \in {"connecting", "open", "refused", "deaf"}
           /\ pending \in BOOLEAN /\ syncState \in Progress \cup {Others}

\* An update of the record, or none, keeps what is typed of it.
LEMMA UpdateKeeps ==
    ASSUME ProgressTypeOK, NEW new \in Progress,
           UpdateProgress(new) \/ (UNCHANGED record /\ new = syncProgress), UNCHANGED browser
    PROVE  syncProgress' = new /\ syncProgress' \in Progress /\ Watched'
BY DEF ProgressTypeOK, UpdateProgress, Watched, record, browser

\* The run goes on to table t, which it has just locked, or is cut short.
LEMMA NextTableKeeps ==
    ASSUME ProgressInv, NEW t \in Table, NEW locks \in SUBSET Table, NextTable(t, locks),
           \A s \in Single : SingleWorks(s) => single[s].table \in locks,
           UNCHANGED <<single, leaks>>, syncProgress' \in Progress, Watched',
           syncProgress'.tablesCompleted = t - 1,
           t \in locks /\ syncProgress'.inProgress => t > 1
    PROVE  ProgressInv'
<1>0. ProgressTypeOK /\ LocksHeld /\ OneSyncPerTable
    BY DEF ProgressInv
<1>t. t \in 1..Tables /\ t \in 0..Tables
    BY ProgressLimits DEF Table
<1>1. CASE t \in locks
  <2>1. run' = Idle /\ activeTableLocks' = locks
      BY <1>1 DEF NextTable
  <2>2. run'.stage = "none" /\ run'.table = NoTable
        /\ run' \in [stage : {"none", "listing", "schema", "syncing"}, table : 0..Tables]
      BY <2>1, ProgressLimits DEF Idle, NoTable
  <2>3. ProgressTypeOK'
      BY <1>0, <2>1, <2>2 DEF ProgressTypeOK, Watched
  <2>4. LocksHeld'
      BY <1>0, <2>1, <2>2 DEF LocksHeld, RunWorks, SingleWorks
  <2>5. OneSyncPerTable' /\ CountIsRuns'
      BY <1>0, <2>2 DEF OneSyncPerTable, CountIsRuns
  <2>6. SomebodyWorks'
      BY <1>1, <1>t, ProgressLimits DEF SomebodyWorks
  <2> QED  BY <2>3, <2>4, <2>5, <2>6 DEF ProgressInv
<1>2. CASE t \notin locks
  <2>1. run' = [stage |-> "schema", table |-> t] /\ activeTableLocks' = locks \cup {t}
      BY <1>2 DEF NextTable
  <2>2. run'.stage = "schema" /\ run'.table = t
        /\ run' \in [stage : {"none", "listing", "schema", "syncing"}, table : 0..Tables]
      BY <1>t, <2>1
  <2>3. ProgressTypeOK'
      BY <1>0, <2>1, <2>2 DEF ProgressTypeOK, Watched
  <2>4. LocksHeld'
      BY <1>0, <2>1, <2>2 DEF LocksHeld, RunWorks, SingleWorks
  <2>5. OneSyncPerTable'
      BY <1>0, <1>2, <2>2 DEF OneSyncPerTable, LocksHeld
  <2>6. CountIsRuns' /\ SomebodyWorks'
      BY <2>2 DEF CountIsRuns, SomebodyWorks, RunWorks
  <2> QED  BY <2>3, <2>4, <2>5, <2>6 DEF ProgressInv
<1> QED  BY <1>1, <1>2

\* The steps of the run over all tables.
LEMMA RunKeeps ==
    ASSUME ProgressInv, StartRun \/ Listed \/ SchemaOfRun \/ EndTable
    PROVE  ProgressInv'
<1>0. /\ ProgressTypeOK /\ LocksHeld /\ OneSyncPerTable /\ CountIsRuns /\ SomebodyWorks
      /\ run \in [stage : {"none", "listing", "schema", "syncing"}, table : 0..Tables]
      /\ syncProgress \in Progress
    BY DEF ProgressInv, ProgressTypeOK
<1>w. Watched
    BY <1>0 DEF ProgressTypeOK, Watched
<1>1. CASE StartRun
  <2>1. /\ run' = [Idle EXCEPT !.stage = "listing"] /\ run = Idle
        /\ UNCHANGED <<activeTableLocks, single, leaks, syncProgress>>
        /\ UNCHANGED <<pending, selected, stream, syncState>>
      BY <1>1 DEF StartRun, record, browser
  <2>2. /\ run'.stage = "listing" /\ run'.table = NoTable /\ run.stage = "none"
        /\ run' \in [stage : {"none", "listing", "schema", "syncing"}, table : 0..Tables]
      BY <2>1, ProgressLimits DEF Idle, NoTable
  <2>3. ProgressTypeOK'
      BY <1>0, <2>1, <2>2 DEF ProgressTypeOK
  <2>4. LocksHeld'
      BY <1>0, <2>1, <2>2 DEF LocksHeld, RunWorks, SingleWorks
  <2>5. OneSyncPerTable' /\ CountIsRuns' /\ SomebodyWorks'
      BY <1>0, <2>1, <2>2 DEF OneSyncPerTable, CountIsRuns, SomebodyWorks, RunWorks
  <2> QED  BY <2>3, <2>4, <2>5 DEF ProgressInv
<1>2. CASE Listed
  <2>1. CASE /\ activeTableLocks = {}
             /\ UpdateProgress([inProgress |-> TRUE, tablesCompleted |-> 0,
                                currentTable |-> NoTable])
             /\ NextTable(1, {})
    <3> DEFINE new == [inProgress |-> TRUE, tablesCompleted |-> 0, currentTable |-> NoTable]
    <3>1. new \in Progress /\ new.tablesCompleted = 1 - 1
      <4>1. 0 \in 0..Tables /\ NoTable \in 0..Tables
          BY ProgressLimits DEF NoTable
      <4>2. new \in Progress
          BY <4>1 DEF Progress
      <4>3. new.tablesCompleted = 0
          OBVIOUS
      <4> QED  BY <4>2, <4>3
    <3> HIDE DEF new
    <3>2. UpdateProgress(new) /\ UNCHANGED browser /\ UNCHANGED <<single, leaks>>
        BY <1>2, <2>1 DEF new, Listed
    <3>3. syncProgress' = new /\ syncProgress' \in Progress /\ Watched'
        BY <1>0, <3>1, <3>2, UpdateKeeps
    <3>4. \A s \in Single : SingleWorks(s) => single[s].table \in {}
        BY <1>0, <2>1 DEF LocksHeld
    <3>5. 1 \in Table /\ {} \in SUBSET Table
        BY ProgressLimits DEF Table
    <3> QED  BY <2>1, <3>1, <3>2, <3>3, <3>4, <3>5, NextTableKeeps
  <2>2. CASE run' = Idle /\ UNCHANGED <<activeTableLocks, record>>
    <3>1. /\ run' = Idle /\ run.stage = "listing"
          /\ UNCHANGED <<activeTableLocks, single, leaks, syncProgress>>
          /\ UNCHANGED <<pending, selected, stream, syncState>>
        BY <1>2, <2>2 DEF Listed, record, browser
    <3>2. /\ run'.stage = "none" /\ run'.table = NoTable
          /\ run' \in [stage : {"none", "listing", "schema", "syncing"}, table : 0..Tables]
        BY <3>1, ProgressLimits DEF Idle, NoTable
    <3>3. ProgressTypeOK'
        BY <1>0, <3>1, <3>2 DEF ProgressTypeOK
    <3>4. LocksHeld'
        BY <1>0, <3>1, <3>2 DEF LocksHeld, RunWorks, SingleWorks
    <3>5. OneSyncPerTable' /\ CountIsRuns' /\ SomebodyWorks'
        BY <1>0, <3>1, <3>2 DEF OneSyncPerTable, CountIsRuns, SomebodyWorks, RunWorks
    <3> QED  BY <3>3, <3>4, <3>5 DEF ProgressInv
  <2> QED  BY <1>2, <2>1, <2>2 DEF Listed
<1>3. CASE SchemaOfRun
  <2> DEFINE new == [syncProgress EXCEPT !.currentTable = run.table]
  <2>1. new \in Progress /\ new.tablesCompleted = syncProgress.tablesCompleted
      BY <1>0 DEF Progress
  <2> HIDE DEF new
  <2>2. /\ run.stage = "schema" /\ run' = [run EXCEPT !.stage = "syncing"]
        /\ UpdateProgress(new) /\ UNCHANGED browser
        /\ UNCHANGED <<activeTableLocks, single, leaks>>
      BY <1>3 DEF SchemaOfRun, new
  <2>3. syncProgress' = new /\ syncProgress' \in Progress /\ Watched'
      BY <1>0, <2>1, <2>2, UpdateKeeps
  <2>4. /\ run'.stage = "syncing" /\ run'.table = run.table
        /\ run' \in [stage : {"none", "listing", "schema", "syncing"}, table : 0..Tables]
      BY <1>0, <2>2
  <2>5. ProgressTypeOK'
      BY <1>0, <2>2, <2>3, <2>4 DEF ProgressTypeOK, Watched
  <2>6. LocksHeld'
      BY <1>0, <2>2, <2>4 DEF LocksHeld, RunWorks, SingleWorks
  <2>7. OneSyncPerTable' /\ CountIsRuns' /\ SomebodyWorks'
      BY <1>0, <2>1, <2>2, <2>3, <2>4
         DEF OneSyncPerTable, CountIsRuns, SomebodyWorks, RunWorks
  <2> QED  BY <2>5, <2>6, <2>7 DEF ProgressInv
<1>4. CASE EndTable
  <2>1. /\ run.stage \in {"schema", "syncing"} /\ RunWorks
        /\ UNCHANGED <<single, leaks>> /\ UNCHANGED browser
      BY <1>4 DEF EndTable, RunWorks
  <2>2. /\ run.table \in Table /\ run.table \in activeTableLocks
        /\ run.table \in 1..Tables /\ syncProgress.tablesCompleted = run.table - 1
      BY <1>0, <2>1 DEF LocksHeld, CountIsRuns, Table
  <2> DEFINE locks == activeTableLocks \ {run.table}
             done == [syncProgress EXCEPT !.tablesCompleted = @ + 1]
             last == [done EXCEPT !.inProgress = FALSE, !.currentTable = NoTable]
  <2>3. /\ done \in Progress /\ done.tablesCompleted = run.table
        /\ last \in Progress /\ last.inProgress = FALSE
    <3>1. done = [syncProgress EXCEPT !.tablesCompleted = run.table]
        BY <1>0, <2>2, ProgressLimits DEF Progress
    <3>2. run.table \in 0..Tables /\ NoTable \in 0..Tables
        BY <2>2, ProgressLimits DEF NoTable
    <3>3. done \in Progress /\ done.tablesCompleted = run.table
        BY <1>0, <3>1, <3>2 DEF Progress
    <3> HIDE DEF done
    <3>4. last \in Progress /\ last.inProgress = FALSE
        BY <3>2, <3>3 DEF Progress
    <3> QED  BY <3>3, <3>4
  <2>4. \A s \in Single : SingleWorks(s) =>
            single[s].table \in locks /\ single[s].table # run.table
    <3>1. ASSUME NEW s \in Single, SingleWorks(s) PROVE single[s].table # run.table
      <4>1. single[s].table # NoTable
          BY <1>0, <3>1 DEF LocksHeld, Table, NoTable
      <4> QED  BY <1>0, <2>1, <4>1 DEF OneSyncPerTable
    <3> QED  BY <1>0, <3>1 DEF LocksHeld
  <2>5. locks \in SUBSET Table
      BY <1>0 DEF ProgressTypeOK
  <2>6. CASE run.table = Tables
    <3> HIDE DEF done, last
    <3>1. UpdateProgress(last) /\ run' = Idle /\ activeTableLocks' = locks
        BY <1>4, <2>6 DEF EndTable, TableDone, done, last
    <3> HIDE DEF locks
    <3>2. syncProgress' = last /\ syncProgress' \in Progress /\ Watched'
        BY <1>0, <2>1, <2>3, <3>1, UpdateKeeps
    <3>3. /\ run'.stage = "none" /\ run'.table = NoTable
          /\ run' \in [stage : {"none", "listing", "schema", "syncing"}, table : 0..Tables]
        BY <3>1, ProgressLimits DEF Idle, NoTable
    <3>4. ProgressTypeOK'
        BY <1>0, <2>1, <2>5, <3>1, <3>2, <3>3 DEF ProgressTypeOK, Watched
    <3>5. LocksHeld'
        BY <1>0, <2>1, <2>4, <3>1, <3>3 DEF LocksHeld, RunWorks, SingleWorks
    <3>6. OneSyncPerTable' /\ CountIsRuns' /\ SomebodyWorks'
        BY <1>0, <2>1, <2>3, <3>2, <3>3 DEF OneSyncPerTable, CountIsRuns, SomebodyWorks
    <3> QED  BY <3>4, <3>5, <3>6 DEF ProgressInv
  <2>7. CASE run.table # Tables
    <3> HIDE DEF done, last
    <3>1. UpdateProgress(done) /\ NextTable(run.table + 1, locks)
        BY <1>4, <2>7 DEF EndTable, TableDone, done
    <3> HIDE DEF locks
    <3>2. syncProgress' = done /\ syncProgress' \in Progress /\ Watched'
        BY <1>0, <2>1, <2>3, <3>1, UpdateKeeps
    <3>3. /\ run.table + 1 \in Table /\ run.table + 1 > 1
          /\ run.table = (run.table + 1) - 1
        BY <2>2, <2>7, ProgressLimits DEF Table
    <3> QED  BY <2>1, <2>3, <2>4, <2>5, <3>1, <3>2, <3>3, NextTableKeeps
  <2> QED  BY <2>6, <2>7
<1> QED  BY <1>1, <1>2, <1>3, <1>4

\* The steps of a sync of one table.
LEMMA SingleKeeps ==
    ASSUME ProgressInv, NEW s \in Single,
           \/ SchemaOfSingle(s) \/ LeakLock(s) \/ EndSingle(s)
           \/ \E t \in Table : StartSingle(s, t)
    PROVE  ProgressInv'
<1>0. /\ ProgressTypeOK /\ LocksHeld /\ OneSyncPerTable /\ CountIsRuns /\ SomebodyWorks
      /\ single \in [Single -> [stage : {"none", "schema", "syncing"}, table : 0..Tables]]
      /\ syncProgress \in Progress
    BY DEF ProgressInv, ProgressTypeOK
<1>i. Idle.stage = "none" /\ Idle.table = NoTable
      /\ Idle \in [stage : {"none", "schema", "syncing"}, table : 0..Tables]
    BY ProgressLimits DEF Idle, NoTable
<1>s. single[s] # Idle => SingleWorks(s)
    BY <1>0 DEF LocksHeld, SingleWorks, Idle
<1>1. CASE SchemaOfSingle(s)
  <2> DEFINE new == [syncProgress EXCEPT !.inProgress = TRUE, !.currentTable = single[s].table]
  <2>1. new \in Progress /\ new.tablesCompleted = syncProgress.tablesCompleted
      BY <1>0 DEF Progress
  <2> HIDE DEF new
  <2>2. /\ single[s].stage = "schema" /\ single' = [single EXCEPT ![s].stage = "syncing"]
        /\ UpdateProgress(new) /\ UNCHANGED browser
        /\ UNCHANGED <<activeTableLocks, run, leaks>>
      BY <1>1 DEF SchemaOfSingle, new
  <2>3. syncProgress' = new /\ syncProgress' \in Progress /\ Watched'
      BY <1>0, <2>1, <2>2, UpdateKeeps
  <2>4. /\ single'[s].stage = "syncing"
        /\ \A r \in Single : single'[r].table = single[r].table
        /\ \A r \in Single : (single'[r].stage \in {"schema", "syncing"}) <=> SingleWorks(r)
        /\ single' \in [Single -> [stage : {"none", "schema", "syncing"}, table : 0..Tables]]
      BY <1>0, <2>2 DEF SingleWorks
  <2>5. ProgressTypeOK'
      BY <1>0, <2>2, <2>3, <2>4 DEF ProgressTypeOK, Watched
  <2>6. LocksHeld'
      BY <1>0, <2>2, <2>4 DEF LocksHeld, RunWorks, SingleWorks
  <2>7. OneSyncPerTable' /\ CountIsRuns' /\ SomebodyWorks'
      BY <1>0, <2>1, <2>2, <2>3, <2>4 DEF OneSyncPerTable, CountIsRuns, SomebodyWorks
  <2> QED  BY <2>5, <2>6, <2>7 DEF ProgressInv
<1>2. CASE LeakLock(s)
  <2>1. /\ single[s].stage = "schema" /\ single' = [single EXCEPT ![s] = Idle]
        /\ leaks' = leaks + 1 /\ leaks < MaxLeaks
        /\ UNCHANGED <<activeTableLocks, run, syncProgress>>
        /\ UNCHANGED <<pending, selected, stream, syncState>>
      BY <1>2 DEF LeakLock, record, browser
  <2>2. leaks' \in 0..MaxLeaks
      BY <1>0, <2>1, ProgressLimits DEF ProgressTypeOK
  <2>3. ProgressTypeOK'
      BY <1>0, <1>i, <2>1, <2>2 DEF ProgressTypeOK
  <2>4. LocksHeld'
      BY <1>0, <1>i, <2>1 DEF LocksHeld, RunWorks, SingleWorks
  <2>5. OneSyncPerTable' /\ CountIsRuns'
      BY <1>0, <1>i, <2>1 DEF OneSyncPerTable, CountIsRuns
  <2>6. SomebodyWorks'
      BY <1>0, <1>i, <2>1 DEF SomebodyWorks, RunWorks
  <2> QED  BY <2>3, <2>4, <2>5, <2>6 DEF ProgressInv
<1>3. CASE EndSingle(s)
  <2> DEFINE new == [syncProgress EXCEPT !.inProgress = FALSE, !.currentTable = NoTable]
  <2>1. new \in Progress /\ new.tablesCompleted = syncProgress.tablesCompleted
        /\ new.inProgress = FALSE
    <3>1. NoTable \in 0..Tables
        BY ProgressLimits DEF NoTable
    <3> QED  BY <1>0, <3>1 DEF Progress
  <2> HIDE DEF new
  <2>2. /\ single[s] # Idle /\ single' = [single EXCEPT ![s] = Idle]
        /\ activeTableLocks' = activeTableLocks \ {single[s].table}
        /\ UpdateProgress(new) /\ UNCHANGED browser
        /\ UNCHANGED <<run, leaks>>
      BY <1>3 DEF EndSingle, new
  <2>3. syncProgress' = new /\ syncProgress' \in Progress /\ Watched'
      BY <1>0, <2>1, <2>2, UpdateKeeps
  <2>4. ProgressTypeOK'
      BY <1>0, <1>i, <2>2, <2>3 DEF ProgressTypeOK, Watched
  <2>5. LocksHeld'
    <3>1. single[s].table # NoTable
        BY <1>0, <1>s, <2>2 DEF LocksHeld, Table, NoTable
    <3>2. RunWorks => run.table # single[s].table
        BY <1>0, <3>1 DEF OneSyncPerTable, RunWorks
    <3>3. \A r \in Single \ {s} : single[r].table # single[s].table
        BY <1>0, <3>1 DEF OneSyncPerTable
    <3> QED  BY <1>0, <1>i, <2>2, <3>2, <3>3 DEF LocksHeld, RunWorks, SingleWorks
  <2>6. OneSyncPerTable' /\ CountIsRuns' /\ SomebodyWorks'
      BY <1>0, <1>i, <2>1, <2>2, <2>3 DEF OneSyncPerTable, CountIsRuns, SomebodyWorks
  <2> QED  BY <2>4, <2>5, <2>6 DEF ProgressInv
<1>4. ASSUME NEW t \in Table, StartSingle(s, t) PROVE ProgressInv'
  <2>1. /\ single[s] = Idle /\ t \notin activeTableLocks
        /\ activeTableLocks' = activeTableLocks \cup {t}
        /\ single' = [single EXCEPT ![s] = [stage |-> "schema", table |-> t]]
        /\ UNCHANGED <<run, leaks, syncProgress>>
        /\ UNCHANGED <<pending, selected, stream, syncState>>
      BY <1>4 DEF StartSingle, record, browser
  <2>2. /\ single' \in [Single -> [stage : {"none", "schema", "syncing"}, table : 0..Tables]]
        /\ single'[s].stage = "schema" /\ single'[s].table = t
        /\ \A r \in Single \ {s} : single'[r] = single[r]
      BY <1>0, <2>1, ProgressLimits DEF Table
  <2>3. ProgressTypeOK'
      BY <1>0, <2>1, <2>2 DEF ProgressTypeOK
  <2>4. LocksHeld'
      BY <1>0, <2>1, <2>2 DEF LocksHeld, RunWorks, SingleWorks
  <2>5. OneSyncPerTable'
    <3>1. RunWorks => run.table # t
        BY <1>0, <2>1 DEF LocksHeld
    <3>2. \A r \in Single \ {s} : single[r].table # t
        BY <1>0, <2>1 DEF LocksHeld, Table, NoTable
    <3> QED  BY <1>0, <2>1, <2>2, <3>1, <3>2 DEF OneSyncPerTable, RunWorks
  <2>6. CountIsRuns' /\ SomebodyWorks'
      BY <1>0, <1>i, <2>1, <2>2 DEF CountIsRuns, SomebodyWorks, RunWorks
  <2> QED  BY <2>3, <2>4, <2>5, <2>6 DEF ProgressInv
<1> QED  BY <1>1, <1>2, <1>3, <1>4

\* Every step of the record, or none, keeps its invariant.
LEMMA ProgressStep == ProgressInv /\ [ProgressNext]_progress => ProgressInv'
<1> SUFFICES ASSUME ProgressInv, [ProgressNext]_progress PROVE ProgressInv'
    OBVIOUS
<1>0. ProgressTypeOK
    BY DEF ProgressInv
<1>1. CASE SwitchDatabase \/ Accept \/ Refuse \/ Deafen \/ Break \/ Show
  <2>1. UNCHANGED <<activeTableLocks, run, single, leaks, syncProgress>>
      BY <1>1 DEF SwitchDatabase, Accept, Refuse, Deafen, Break, Show, server, record
  <2>2. selected' \in BOOLEAN /\ pending' \in BOOLEAN
        /\ stream' \in {"connecting", "open", "refused", "deaf"}
      BY <1>0, <1>1 DEF SwitchDatabase, Accept, Refuse, Deafen, Break, Show, server, record,
                       ProgressTypeOK
  <2>3. syncState' \in Progress \cup {Others}
      BY <1>0, <1>1 DEF SwitchDatabase, Accept, Refuse, Deafen, Break, Show, ProgressTypeOK
  <2> QED  BY <2>1, <2>2, <2>3, BrowserKeeps
<1>2. CASE UNCHANGED progress
  <2>1. UNCHANGED <<activeTableLocks, run, single, leaks, syncProgress>>
        /\ UNCHANGED <<pending, selected, stream, syncState>>
      BY <1>2 DEF progress, server, record, browser
  <2> QED  BY <1>0, <2>1, BrowserKeeps DEF ProgressTypeOK
<1> QED
    BY <1>1, <1>2, RunKeeps, SingleKeeps DEF ProgressNext

-----------------------------------------------------------------------------
(* The pages of the dashboard                                              *)
-----------------------------------------------------------------------------

\* A deletion under way has a list it came from and a database it goes to.
DeletionsAimed ==
    /\ bulk # NoBulk => bulk.left # 0
    /\ removal # NoRemoval => removal.home \in Db /\ removal.to \in Db

DashboardInv ==
    /\ DashboardTypeOK
    /\ DeletionsAimed
    /\ BackupsStayHome

\* What is assumed of the folders of the databases.
LEMMA DashboardLimits ==
    /\ MaxBatches \in Nat
    /\ PathPrefix \in [Db -> Seq(STRING)]
    /\ \A d, e \in Db : IsPrefix(NormalizePrefix(d), NormalizePrefix(e)) => d = e
BY DashboardAssumption DEF DashboardAssumption, NormalizePrefix

\* Of two beginnings of one sequence the shorter begins the longer.
LEMMA BeginningsNest ==
    ASSUME NEW S, NEW s \in Seq(S), NEW t \in Seq(S), NEW u \in Seq(S),
           IsPrefix(s, t \o u)
    PROVE  IsPrefix(s, t) \/ IsPrefix(t, s)
<1>0. /\ Len(s) \in Nat /\ Len(t) \in Nat /\ Len(u) \in Nat
      /\ t \o u \in Seq(S) /\ Len(t \o u) = Len(t) + Len(u)
    OBVIOUS
<1>1. \A i \in 1..Len(s) : s[i] = (t \o u)[i]
  <2>1. /\ Len(s) <= Len(t \o u)
        /\ SubSeq(s, 1, Len(s)) = SubSeq(t \o u, 1, Len(s))
      BY DEF IsPrefix
  <2>2. ASSUME NEW i \in 1..Len(s)
        PROVE  /\ SubSeq(s, 1, Len(s))[i] = s[i]
               /\ SubSeq(t \o u, 1, Len(s))[i] = (t \o u)[i]
      BY <1>0, <2>1
  <2> QED  BY <2>1, <2>2
<1>2. \A i \in 1..Len(t) : (t \o u)[i] = t[i]
    BY <1>0
<1>3. CASE Len(s) <= Len(t)
  <2>1. \A i \in 1..Len(s) : s[i] = t[i]
      BY <1>0, <1>1, <1>2, <1>3
  <2>2. SubSeq(s, 1, Len(s)) = SubSeq(t, 1, Len(s))
      BY <1>0, <1>3, <2>1
  <2> QED  BY <1>3, <2>2 DEF IsPrefix
<1>4. CASE Len(t) <= Len(s)
  <2>1. \A i \in 1..Len(t) : t[i] = s[i]
      BY <1>0, <1>1, <1>2, <1>4
  <2>2. SubSeq(t, 1, Len(t)) = SubSeq(s, 1, Len(t))
      BY <1>0, <1>4, <2>1
  <2> QED  BY <1>4, <2>2 DEF IsPrefix
<1> QED  BY <1>0, <1>3, <1>4

\* assertKeyWithinPrefix lets no database delete the backups of another.
LEMMA OwnBackupsOnly ==
    ASSUME NEW home \in Db, NEW to \in Db, WithinPrefix(home, to)
    PROVE  home = to
<1> DEFINE Char == STRING \cup {"/", "backup"}
<1>0. "/" \in Char /\ "backup" \in Char /\ STRING \subseteq Char
    OBVIOUS
<1> HIDE DEF Char
<1>1. ASSUME NEW d \in Db PROVE NormalizePrefix(d) \in Seq(Char)
  <2>1. PathPrefix[d] \in Seq(STRING)
      BY DashboardLimits
  <2>2. PathPrefix[d] \in Seq(Char)
      BY <1>0, <2>1, SeqMonotonic
  <2> QED  BY <1>0, <2>2 DEF NormalizePrefix
<1>2. <<"backup", "/">> \in Seq(Char)
    BY <1>0
<1>3. IsPrefix(NormalizePrefix(to), NormalizePrefix(home) \o <<"backup", "/">>)
    BY DEF WithinPrefix
<1>4. \/ IsPrefix(NormalizePrefix(to), NormalizePrefix(home))
      \/ IsPrefix(NormalizePrefix(home), NormalizePrefix(to))
    BY <1>1, <1>2, <1>3, BeginningsNest
<1> QED  BY <1>4, DashboardLimits

\* Nothing is deleted at the start.
LEMMA DashboardInitially == DashboardInit => DashboardInv
<1> SUFFICES ASSUME DashboardInit PROVE DashboardInv
    OBVIOUS
<1>1. NoBulk \in [home : Whose, left : 0..MaxBatches, to : Whose]
      /\ NoRemoval \in [home : Whose, to : Whose]
    BY DashboardLimits DEF NoBulk, NoRemoval, Whose
<1>2. DashboardTypeOK
    BY <1>1 DEF DashboardInit, DashboardTypeOK, Whose
<1> QED  BY <1>2 DEF DashboardInit, DashboardInv, DeletionsAimed, BackupsStayHome

\* What is shown, asked or selected deletes nothing.
LEMMA ViewKeeps ==
    ASSUME DashboardInv, UNCHANGED deletions,
           page' \in Page, selectedDatabaseId' \in Db, asked' \subseteq Db, shown' \in Whose,
           operating' \in BOOLEAN, isPaused' \in BOOLEAN, counted' \in BOOLEAN
    PROVE  DashboardInv'
BY DEF DashboardInv, DashboardTypeOK, DeletionsAimed, BackupsStayHome, deletions

\* Every step of the dashboard, or none, keeps its invariant.
LEMMA DashboardStep == DashboardInv /\ [DashboardNext]_dashboard => DashboardInv'
<1> SUFFICES ASSUME DashboardInv, [DashboardNext]_dashboard PROVE DashboardInv'
    OBVIOUS
<1>0. /\ DashboardTypeOK /\ DeletionsAimed /\ BackupsStayHome
      /\ page \in Page /\ selectedDatabaseId \in Db /\ asked \subseteq Db /\ shown \in Whose
      /\ operating \in BOOLEAN /\ isPaused \in BOOLEAN /\ counted \in BOOLEAN
      /\ bulk \in [home : Whose, left : 0..MaxBatches, to : Whose]
      /\ removal \in [home : Whose, to : Whose]
      /\ strayed \subseteq {"table", "backup"}
    BY DEF DashboardInv, DashboardTypeOK
<1>w. selectedDatabaseId \in Whose /\ NoDb \in Whose
    BY <1>0 DEF Whose
<1>1. CASE Navigate
  <2>1. UNCHANGED deletions /\ page' \in Page /\ selectedDatabaseId' \in Db
        /\ asked' \subseteq Db /\ shown' \in Whose
        /\ operating' \in BOOLEAN /\ isPaused' \in BOOLEAN /\ counted' \in BOOLEAN
      BY <1>0, <1>1, <1>w DEF Navigate, Mounted
  <2> QED  BY <2>1, ViewKeeps
<1>2. CASE Refresh \/ Operate \/ OperationEnds \/ TogglePause \/ Validate \/ ResetValidation
  <2>1. UNCHANGED deletions /\ page' \in Page /\ selectedDatabaseId' \in Db
        /\ asked' \subseteq Db /\ shown' \in Whose
      BY <1>0, <1>2, <1>w
         DEF Refresh, Operate, OperationEnds, TogglePause, Validate, ResetValidation
  <2>2. operating' \in BOOLEAN /\ isPaused' \in BOOLEAN /\ counted' \in BOOLEAN
      BY <1>0, <1>2
         DEF Refresh, Operate, OperationEnds, TogglePause, Validate, ResetValidation
  <2> QED  BY <2>1, <2>2, ViewKeeps
<1>3. ASSUME NEW d \in Db, SetDatabase(d) \/ PageAnswered(d) \/ Fail(d)
      PROVE  DashboardInv'
  <2>1. UNCHANGED deletions /\ page' \in Page /\ selectedDatabaseId' \in Db
      BY <1>0, <1>3 DEF SetDatabase, PageAnswered, Fail
  <2>2. asked' \subseteq Db /\ shown' \in Whose
      BY <1>0, <1>3, <1>w DEF SetDatabase, PageAnswered, Fail, Whose
  <2>3. operating' \in BOOLEAN /\ isPaused' \in BOOLEAN /\ counted' \in BOOLEAN
      BY <1>0, <1>3 DEF SetDatabase, PageAnswered, Fail
  <2> QED  BY <2>1, <2>2, <2>3, ViewKeeps
<1>4. CASE BulkDelete
  <2>1. PICK n \in 1..MaxBatches :
            bulk' = [home |-> shown, left |-> n, to |-> selectedDatabaseId]
      BY <1>4 DEF BulkDelete
  <2>2. UNCHANGED <<page, asked, shown, operating, isPaused, counted>>
        /\ UNCHANGED <<selectedDatabaseId, removal, strayed>>
      BY <1>4 DEF BulkDelete, view
  <2>3. bulk' \in [home : Whose, left : 0..MaxBatches, to : Whose] /\ bulk'.left # 0
      BY <1>0, <1>w, <2>1, DashboardLimits
  <2> QED
      BY <1>0, <2>2, <2>3
         DEF DashboardInv, DashboardTypeOK, DeletionsAimed, BackupsStayHome, NoRemoval
<1>5. CASE BatchAnswered
  <2>1. /\ bulk # NoBulk /\ removal' = removal
        /\ UNCHANGED <<page, asked, shown, operating, isPaused, counted>>
        /\ selectedDatabaseId' = selectedDatabaseId
        /\ strayed' = strayed \/ strayed' = strayed \cup {"table"}
        /\ bulk' = IF bulk.left = 1 THEN NoBulk
                   ELSE [bulk EXCEPT !.left = @ - 1, !.to = selectedDatabaseId]
      BY <1>5 DEF BatchAnswered, view
  <2>2. /\ bulk' \in [home : Whose, left : 0..MaxBatches, to : Whose]
        /\ bulk' # NoBulk => bulk'.left # 0
    <3>1. CASE bulk.left = 1
      <4>1. NoBulk \in [home : Whose, left : 0..MaxBatches, to : Whose]
          BY DashboardLimits DEF NoBulk, Whose
      <4> QED  BY <2>1, <3>1, <4>1
    <3>2. CASE bulk.left # 1
      <4>1. bulk.left - 1 \in 0..MaxBatches /\ bulk.left - 1 # 0
          BY <1>0, <2>1, <3>2, DashboardLimits DEF DeletionsAimed
      <4>2. bulk' = [bulk EXCEPT !.left = bulk.left - 1, !.to = selectedDatabaseId]
          BY <2>1, <3>2
      <4>3. bulk'.left = bulk.left - 1
          BY <1>0, <4>2
      <4>4. bulk' \in [home : Whose, left : 0..MaxBatches, to : Whose]
          BY <1>0, <1>w, <4>1, <4>2
      <4> QED  BY <4>1, <4>3, <4>4
    <3> QED  BY <3>1, <3>2
  <2>3. strayed' \subseteq {"table", "backup"} /\ "backup" \notin strayed'
      BY <1>0, <2>1 DEF BackupsStayHome
  <2> QED
      BY <1>0, <2>1, <2>2, <2>3
         DEF DashboardInv, DashboardTypeOK, DeletionsAimed, BackupsStayHome, NoRemoval
<1>6. CASE DeleteBackup
  <2>1. /\ shown # NoDb /\ removal' = [home |-> shown, to |-> selectedDatabaseId]
        /\ UNCHANGED <<page, asked, shown, operating, isPaused, counted>>
        /\ UNCHANGED <<selectedDatabaseId, bulk, strayed>>
      BY <1>6 DEF DeleteBackup, view
  <2>2. shown \in Db
      BY <1>0, <2>1 DEF Whose
  <2>3. /\ removal' \in [home : Whose, to : Whose]
        /\ removal'.home \in Db /\ removal'.to \in Db
      BY <1>0, <1>w, <2>1, <2>2
  <2> QED
      BY <1>0, <2>1, <2>3
         DEF DashboardInv, DashboardTypeOK, DeletionsAimed, BackupsStayHome, NoBulk
<1>7. CASE RemovalAnswered
  <2>1. PICK done \in {WithinPrefix(removal.home, removal.to), FALSE} :
            /\ strayed' = IF done /\ removal.to # removal.home
                          THEN strayed \cup {"backup"} ELSE strayed
            /\ asked' = IF done /\ page = "backups" THEN asked \cup {selectedDatabaseId}
                        ELSE asked
      BY <1>7 DEF RemovalAnswered
  <2>2. /\ removal # NoRemoval /\ removal' = NoRemoval
        /\ UNCHANGED <<page, shown, operating, isPaused, counted, selectedDatabaseId, bulk>>
      BY <1>7 DEF RemovalAnswered
  <2>3. ~(done /\ removal.to # removal.home)
      BY <1>0, <2>1, <2>2, OwnBackupsOnly DEF DeletionsAimed
  <2>4. strayed' = strayed /\ asked' \subseteq Db
      BY <1>0, <2>1, <2>3
  <2>5. NoRemoval \in [home : Whose, to : Whose]
      BY <1>w DEF NoRemoval
  <2> QED
      BY <1>0, <2>2, <2>4, <2>5
         DEF DashboardInv, DashboardTypeOK, DeletionsAimed, BackupsStayHome
<1>8. CASE UNCHANGED dashboard
  <2>1. UNCHANGED <<page, asked, shown, operating, isPaused, counted>>
        /\ UNCHANGED selectedDatabaseId /\ UNCHANGED deletions
      BY <1>8 DEF dashboard, view
  <2> QED  BY <1>0, <2>1, ViewKeeps
<1> QED
    BY <1>1, <1>2, <1>3, <1>4, <1>5, <1>6, <1>7, <1>8 DEF DashboardNext

-----------------------------------------------------------------------------
(* The services of a database                                              *)
-----------------------------------------------------------------------------

\* What an automation service and a health check are.
AService == [on : Life \cup {None}, running : BOOLEAN, first : BOOLEAN, busy : BOOLEAN,
             syncing : BOOLEAN, attempts : 0..MaxRestartAttempts]
ACheck == [stage : {"none", "probing", "waiting", "retrying"}, of : Life \cup {None}]

\* The records and instances, each of its kind.
InstancesTyped ==
    /\ registered \in BOOLEAN /\ life \in 0..MaxLives
    /\ deleting \in {"no", "stopping", "closing"}
    /\ connection \in Life \cup {None} /\ automation \in Life \cup {None}
    /\ syncConnection \in Life \cup {None}
    /\ answering \in BOOLEAN /\ synced \in BOOLEAN

ObjectsTyped ==
    /\ open \in [Life -> BOOLEAN]
    /\ service \in [Life -> AService]
    /\ check \in [Check -> ACheck]

\* A record has a life, and a check under way a service.
ServicesOwned ==
    /\ registered => life \in Life
    /\ \A c \in Check : check[c] # Unused => check[c].of \in Life

ServicesInv == InstancesTyped /\ ObjectsTyped /\ ServicesOwned

\* The bounds of the services.
LEMMA ServicesLimits ==
    MaxLives \in Nat \ {0} /\ MaxRestartAttempts \in Nat /\ MaxChecks \in Nat \ {0}
BY ServicesAssumption DEF ServicesAssumption

\* The invariant holds the typing.
LEMMA ServicesInvImplies == ServicesInv => ServicesTypeOK
<1> SUFFICES ASSUME ServicesInv PROVE ServicesTypeOK
    OBVIOUS
<1>1. {connection, automation, syncConnection} \subseteq Life \cup {None}
    BY DEF ServicesInv, InstancesTyped
<1> QED
    BY <1>1 DEF ServicesInv, InstancesTyped, ObjectsTyped, ServicesTypeOK, AService, ACheck

\* No database, no objects.
LEMMA ServicesInitially == ServicesInit => ServicesInv
<1> SUFFICES ASSUME ServicesInit PROVE ServicesInv
    OBVIOUS
<1>1. InstancesTyped
  <2>1. 0 \in 0..MaxLives
      BY ServicesLimits
  <2> QED  BY <2>1 DEF ServicesInit, InstancesTyped
<1>2. [on |-> None, running |-> FALSE, first |-> FALSE, busy |-> FALSE, syncing |-> FALSE,
       attempts |-> 0] \in AService
    BY ServicesLimits DEF AService
<1>3. Unused \in ACheck
    BY DEF Unused, ACheck
<1>4. ObjectsTyped /\ ServicesOwned
    BY <1>2, <1>3 DEF ServicesInit, ObjectsTyped, ServicesOwned
<1> QED  BY <1>1, <1>4 DEF ServicesInv

\* What the operations make of a service is a service.
LEMMA ServiceOperations ==
    ASSUME NEW s \in AService
    PROVE  /\ Started(s) \in AService /\ Stopped(s) \in AService /\ Begun(s) \in AService
           /\ [Begun(s) EXCEPT !.first = FALSE] \in AService
           /\ [Begun(s) EXCEPT !.attempts = 0] \in AService
           /\ [s EXCEPT !.attempts = 0] \in AService
           /\ s.attempts < MaxRestartAttempts =>
                 [s EXCEPT !.attempts = @ + 1] \in AService
           /\ \A good \in BOOLEAN : SyncEnded(s, good) \in AService
           /\ \A l \in Life : [s EXCEPT !.on = l] \in AService
<1>0. 0 \in 0..MaxRestartAttempts
    BY ServicesLimits
<1>1. Started(s) \in AService /\ Stopped(s) \in AService
    BY DEF Started, Stopped, AService
<1>2. Begun(s) \in AService
    BY DEF Begun, AService
<1>3. \A t \in AService : [t EXCEPT !.first = FALSE] \in AService
                          /\ [t EXCEPT !.attempts = 0] \in AService
    BY <1>0 DEF AService
<1>4. ASSUME s.attempts < MaxRestartAttempts
      PROVE  [s EXCEPT !.attempts = @ + 1] \in AService
  <2>1. s.attempts + 1 \in 0..MaxRestartAttempts
      BY <1>4, ServicesLimits DEF AService
  <2> QED  BY <2>1 DEF AService
<1>5. ASSUME NEW good \in BOOLEAN PROVE SyncEnded(s, good) \in AService
  <2>1. (IF good THEN 0 ELSE s.attempts) \in 0..MaxRestartAttempts
      BY <1>0 DEF AService
  <2> QED  BY <2>1 DEF SyncEnded, AService
<1>6. \A l \in Life : [s EXCEPT !.on = l] \in AService
    BY DEF AService
<1> QED  BY <1>1, <1>2, <1>3, <1>4, <1>5, <1>6

\* The getInstance calls of a handler of a database that is registered.
LEMMA ConnectionsKept ==
    ASSUME ServicesInv, registered, GetConnections
    PROVE  /\ connection' \in Life \cup {None} /\ syncConnection' \in Life \cup {None}
           /\ open' \in [Life -> BOOLEAN] /\ CurrentConnection \in Life /\ life \in Life
BY DEF ServicesInv, InstancesTyped, ObjectsTyped, ServicesOwned, GetConnections,
       CurrentConnection, None, Life

\* A handler that also uses the automation service.
LEMMA WithAutomationKeeps ==
    ASSUME ServicesInv, NEW s, registered => s \in AService, WithAutomation(s)
    PROVE  ServicesInv'
<1>1. /\ registered /\ GetConnections
      /\ automation' = IF automation = None THEN life ELSE automation
      /\ service' = [service EXCEPT ![automation'] = s]
      /\ UNCHANGED <<registered, life, deleting, check, answering, synced>>
    BY DEF WithAutomation, records
<1>2. /\ connection' \in Life \cup {None} /\ syncConnection' \in Life \cup {None}
      /\ open' \in [Life -> BOOLEAN] /\ life \in Life
    BY <1>1, ConnectionsKept
<1>3. automation' \in Life \cup {None} /\ service' \in [Life -> AService]
    BY <1>1, <1>2 DEF ServicesInv, InstancesTyped, ObjectsTyped
<1> QED
    BY <1>1, <1>2, <1>3 DEF ServicesInv, InstancesTyped, ObjectsTyped, ServicesOwned

\* The automation service of a registered database is a service.
LEMMA AutomationIsService == ServicesInv /\ registered => AutomationService \in AService
<1> SUFFICES ASSUME ServicesInv, registered PROVE AutomationService \in AService
    OBVIOUS
<1>1. life \in Life /\ service \in [Life -> AService]
      /\ connection \in Life \cup {None} /\ automation \in Life \cup {None}
    BY DEF ServicesInv, ServicesOwned, ObjectsTyped, InstancesTyped
<1>2. CurrentConnection \in Life
    BY <1>1 DEF CurrentConnection
<1>3. [service[life] EXCEPT !.on = CurrentConnection] \in AService
    BY <1>1, <1>2, ServiceOperations
<1> QED  BY <1>1, <1>3 DEF AutomationService

\* Services and checks change, one each at most, and pools open or close.
LEMMA ObjectsKeep ==
    ASSUME ServicesInv, open' \in [Life -> BOOLEAN], service' \in [Life -> AService],
           check' \in [Check -> ACheck],
           \A c \in Check : check'[c] # Unused => check'[c].of \in Life,
           UNCHANGED <<records, instances, answering>>, synced' \in BOOLEAN
    PROVE  ServicesInv'
BY DEF ServicesInv, InstancesTyped, ObjectsTyped, ServicesOwned, records, instances

\* The steps of a health check.
LEMMA ChecksKeep ==
    ASSUME ServicesInv, NEW c \in Check, Probe(c) \/ ReconnectPool(c) \/ Retry(c)
    PROVE  ServicesInv'
<1>0. /\ open \in [Life -> BOOLEAN] /\ service \in [Life -> AService]
      /\ check \in [Check -> ACheck] /\ synced \in BOOLEAN
      /\ \A k \in Check : check[k] # Unused => check[k].of \in Life
    BY DEF ServicesInv, InstancesTyped, ObjectsTyped, ServicesOwned
<1> DEFINE a == check[c].of
<1>1. check[c].stage # "none" /\ a \in Life
    BY <1>0 DEF Probe, ReconnectPool, Retry, Unused
<1>2. UNCHANGED <<records, instances, answering>> /\ synced' = synced
    BY DEF Probe, ReconnectPool, Retry
<1>3. open' \in [Life -> BOOLEAN]
    BY <1>0 DEF Probe, ReconnectPool, Retry
<1>4. service' \in [Life -> AService]
  <2>1. service[a] \in AService
      BY <1>0, <1>1
  <2>2. \/ service' = service
        \/ service' = [service EXCEPT ![a] = [service[a] EXCEPT !.attempts = 0]]
        \/ service' = [service EXCEPT ![a] = Stopped(service[a])]
        \/ /\ service[a].attempts < MaxRestartAttempts
           /\ service' = [service EXCEPT ![a] = [service[a] EXCEPT !.attempts = @ + 1]]
        \/ service' = [service EXCEPT ![a] = [Begun(service[a]) EXCEPT !.attempts = 0]]
      BY DEF Probe, ReconnectPool, Retry
  <2> QED  BY <1>0, <1>1, <2>1, <2>2, ServiceOperations
<1>5. /\ check' \in [Check -> ACheck]
      /\ \A k \in Check : check'[k] # Unused => check'[k].of \in Life
  <2>1. \/ check' = [check EXCEPT ![c] = Unused]
        \/ \E stage \in {"waiting", "retrying"} : check' = [check EXCEPT ![c].stage = stage]
      BY DEF Probe, ReconnectPool, Retry
  <2>2. Unused \in ACheck
      BY DEF Unused, ACheck
  <2> QED  BY <1>0, <1>1, <2>1, <2>2 DEF ACheck
<1> QED  BY <1>0, <1>2, <1>3, <1>4, <1>5, ObjectsKeep

\* Every step of the services, or none, keeps their invariant.
LEMMA ServicesStep == ServicesInv /\ [ServicesNext]_services => ServicesInv'
<1> SUFFICES ASSUME ServicesInv, [ServicesNext]_services PROVE ServicesInv'
    OBVIOUS
<1>0. /\ InstancesTyped /\ ObjectsTyped /\ ServicesOwned
      /\ open \in [Life -> BOOLEAN] /\ service \in [Life -> AService]
      /\ check \in [Check -> ACheck] /\ synced \in BOOLEAN
      /\ \A k \in Check : check[k] # Unused => check[k].of \in Life
    BY DEF ServicesInv, InstancesTyped, ObjectsTyped, ServicesOwned
<1>1. CASE AddDatabase
  <2>1. /\ life' = life + 1 /\ life < MaxLives /\ registered' = TRUE
        /\ UNCHANGED <<deleting, connection, automation, syncConnection, answering, synced>>
        /\ UNCHANGED <<open, service, check>>
      BY <1>1 DEF AddDatabase, instances, objects
  <2>2. life' \in Life /\ life' \in 0..MaxLives
      BY <1>0, <2>1, ServicesLimits DEF InstancesTyped, Life
  <2> QED
      BY <1>0, <2>1, <2>2 DEF ServicesInv, InstancesTyped, ObjectsTyped, ServicesOwned
<1>2. CASE UseDatabase
  <2>1. /\ registered /\ GetConnections
        /\ UNCHANGED <<registered, life, deleting, automation, service, check, answering, synced>>
      BY <1>2 DEF UseDatabase, records
  <2>2. /\ connection' \in Life \cup {None} /\ syncConnection' \in Life \cup {None}
        /\ open' \in [Life -> BOOLEAN]
      BY <2>1, ConnectionsKept
  <2> QED
      BY <1>0, <2>1, <2>2 DEF ServicesInv, InstancesTyped, ObjectsTyped, ServicesOwned
<1>3. CASE StartAutomation \/ StopAutomation \/ RequestSync
  <2>1. registered => /\ Started(AutomationService) \in AService
                      /\ Stopped(AutomationService) \in AService
                      /\ Begun(AutomationService) \in AService
      BY AutomationIsService, ServiceOperations
  <2> QED
      BY <1>3, <2>1, WithAutomationKeeps DEF StartAutomation, StopAutomation, RequestSync
<1>4. CASE BeginDelete \/ StoreChanges
  <2>1. /\ deleting' \in {"no", "stopping", "closing"} /\ answering' \in BOOLEAN
        /\ UNCHANGED <<registered, life, connection, automation, syncConnection, synced>>
        /\ UNCHANGED <<open, service, check>>
      BY <1>0, <1>4
         DEF BeginDelete, StoreChanges, records, instances, objects, InstancesTyped
  <2> QED
      BY <1>0, <2>1 DEF ServicesInv, InstancesTyped, ObjectsTyped, ServicesOwned
<1>5. ASSUME NEW a \in Life, TimedSync(a) \/ EndSync(a) PROVE ServicesInv'
  <2>1. \/ service' = [service EXCEPT ![a] = [Begun(service[a]) EXCEPT !.first = FALSE]]
        \/ \E good \in BOOLEAN : service' = [service EXCEPT ![a] = SyncEnded(service[a], good)]
    <3>1. CASE TimedSync(a)
        BY <3>1 DEF TimedSync
    <3>2. CASE EndSync(a)
      <4>1. Answers(syncConnection) \in BOOLEAN
          BY DEF Answers
      <4> QED  BY <3>2, <4>1 DEF EndSync
    <3> QED  BY <1>5, <3>1, <3>2
  <2>2. service' \in [Life -> AService]
    <3>1. service[a] \in AService
        BY <1>0, <1>5
    <3>2. /\ [Begun(service[a]) EXCEPT !.first = FALSE] \in AService
          /\ \A good \in BOOLEAN : SyncEnded(service[a], good) \in AService
        BY <3>1, ServiceOperations
    <3> QED  BY <1>0, <2>1, <3>2
  <2>3. UNCHANGED <<records, instances, answering>> /\ UNCHANGED <<open, check>>
      BY <1>5 DEF TimedSync, EndSync
  <2>4. synced' \in BOOLEAN
      BY <1>0, <1>5 DEF TimedSync, EndSync
  <2> QED  BY <1>0, <2>2, <2>3, <2>4, ObjectsKeep
<1>6. ASSUME NEW c \in Check, NEW a \in Life, StartCheck(c, a) PROVE ServicesInv'
  <2>1. /\ check' = [check EXCEPT ![c] = [stage |-> "probing", of |-> a]]
        /\ UNCHANGED <<records, instances, answering>> /\ UNCHANGED <<open, service, synced>>
      BY <1>6 DEF StartCheck
  <2>2. /\ check' \in [Check -> ACheck]
        /\ \A k \in Check : check'[k] # Unused => check'[k].of \in Life
      BY <1>0, <2>1 DEF ACheck
  <2> QED  BY <1>0, <2>1, <2>2, ObjectsKeep
<1>7. ASSUME NEW c \in Check, Probe(c) \/ ReconnectPool(c) \/ Retry(c) PROVE ServicesInv'
    BY <1>7, ChecksKeep
<1>8. CASE Unregister
  <2>1. /\ deleting' = "closing" /\ registered' = FALSE /\ automation' = None
        /\ service' = service \/ service' = [service EXCEPT ![automation] = Stopped(service[automation])]
        /\ UNCHANGED <<life, connection, syncConnection, open, check, answering, synced>>
      BY <1>8 DEF Unregister
  <2>2. \A a \in Life : Stopped(service[a]) \in AService
      BY <1>0, ServiceOperations
  <2>3. service' \in [Life -> AService]
    <3>1. CASE automation \in Life
        BY <1>0, <2>1, <2>2, <3>1
    <3>2. CASE automation \notin Life
        BY <1>0, <2>1, <3>2
    <3> QED  BY <3>1, <3>2
  <2> QED
      BY <1>0, <2>1, <2>3 DEF ServicesInv, InstancesTyped, ObjectsTyped, ServicesOwned
<1>9. CASE CloseInstance
  <2>1. /\ deleting' = "no" /\ connection' = None
        /\ open' = open \/ open' = [open EXCEPT ![connection] = FALSE]
        /\ UNCHANGED <<registered, life, automation, syncConnection, service, check,
                       answering, synced>>
      BY <1>9 DEF CloseInstance
  <2>2. open' \in [Life -> BOOLEAN]
      BY <1>0, <2>1
  <2> QED
      BY <1>0, <2>1, <2>2 DEF ServicesInv, InstancesTyped, ObjectsTyped, ServicesOwned
<1>10. CASE UNCHANGED services
  <2>1. UNCHANGED <<records, instances, answering>> /\ UNCHANGED <<open, service, check, synced>>
      BY <1>10 DEF services, objects
  <2> QED  BY <1>0, <2>1, ObjectsKeep
<1> QED
    BY <1>1, <1>2, <1>3, <1>4, <1>5, <1>6, <1>7, <1>8, <1>9, <1>10
    DEF ServicesNext, Automatic

-----------------------------------------------------------------------------
(* The tabs that are signed in                                             *)
-----------------------------------------------------------------------------

\* The bound on tokens.
LEMMA SignInLimits == MaxTokens \in Nat \ {0}
BY SignInAssumption DEF SignInAssumption

\* Nobody is signed in at the start.
LEMMA SignInInitially == SignInInit => SignInTypeOK
BY SignInLimits DEF SignInInit, SignInTypeOK, NoToken, NoPoll, NoCheck

\* A tab that goes to a route with a token, or without.
LEMMA GoToKeeps ==
    ASSUME SignInTypeOK, NEW t \in Tab, NEW route \in {"login", "page"}, NEW k \in 0..MaxTokens,
           GoTo(t, route, k)
    PROVE  /\ place' \in [Tab -> {"login", "page"}]
           /\ asking' \in [Tab -> {NoCheck} \cup [to : {"login", "page"}, token : Token]]
<1>1. place' \in [Tab -> {"login", "page"}]
    BY DEF SignInTypeOK, GoTo
<1>2. k # NoToken => k \in Token
    BY SignInLimits DEF NoToken, Token
<1>3. (IF k = NoToken THEN NoCheck ELSE [to |-> route, token |-> k])
          \in {NoCheck} \cup [to : {"login", "page"}, token : Token]
    BY <1>2
<1>4. asking' \in [Tab -> {NoCheck} \cup [to : {"login", "page"}, token : Token]]
    BY <1>3 DEF SignInTypeOK, GoTo
<1> QED  BY <1>1, <1>4

\* Every step of the tabs, or none, keeps the typing.
LEMMA SignInStep == SignInTypeOK /\ [SignInNext]_signIn => SignInTypeOK'
<1> SUFFICES ASSUME SignInTypeOK, [SignInNext]_signIn PROVE SignInTypeOK'
    OBVIOUS
<1>0. /\ stored \in 0..issued /\ issued \in 0..MaxTokens /\ live \subseteq 1..issued
      /\ place \in [Tab -> {"login", "page"}]
      /\ asking \in [Tab -> {NoCheck} \cup [to : {"login", "page"}, token : Token]]
      /\ poll \in [Tab -> 0..NoPoll] /\ leaving \in [Tab -> BOOLEAN]
    BY DEF SignInTypeOK
<1>1. stored \in 0..MaxTokens /\ stored \in 0..NoPoll /\ NoToken \in 0..issued
      /\ NoToken \in 0..MaxTokens /\ NoPoll \in 0..NoPoll
    BY <1>0, SignInLimits DEF NoToken, NoPoll
<1>2. CASE Expire
    BY <1>0, <1>2 DEF Expire, SignInTypeOK
<1>3. ASSUME NEW t \in Tab, Open(t) PROVE SignInTypeOK'
    BY <1>0, <1>1, <1>3, GoToKeeps DEF Open, SignInTypeOK
<1>4. ASSUME NEW t \in Tab, Login(t) PROVE SignInTypeOK'
  <2>1. /\ issued' = issued + 1 /\ stored' = issued' /\ live' = live \cup {issued'}
        /\ GoTo(t, "page", issued') /\ UNCHANGED <<poll, leaving>> /\ issued < MaxTokens
      BY <1>4 DEF Login
  <2>2. /\ issued' \in 0..MaxTokens /\ stored' \in 0..issued' /\ live' \subseteq 1..issued'
      BY <1>0, <2>1, SignInLimits
  <2> QED  BY <1>0, <2>1, <2>2, GoToKeeps DEF SignInTypeOK
<1>5. ASSUME NEW t \in Tab, CheckAnswered(t) PROVE SignInTypeOK'
  <2>1. /\ UNCHANGED <<stored, issued, live, poll, leaving>>
        /\ \/ GoTo(t, "page", stored) \/ GoTo(t, "login", stored)
           \/ /\ place' = [place EXCEPT ![t] = "page"] \/ place' = [place EXCEPT ![t] = "login"]
              /\ asking' = [asking EXCEPT ![t] = NoCheck]
      BY <1>5 DEF CheckAnswered
  <2>2. /\ place' \in [Tab -> {"login", "page"}]
        /\ asking' \in [Tab -> {NoCheck} \cup [to : {"login", "page"}, token : Token]]
      BY <1>0, <1>1, <2>1, GoToKeeps
  <2> QED  BY <1>0, <2>1, <2>2 DEF SignInTypeOK
<1>6. ASSUME NEW t \in Tab, CheckFails(t) PROVE SignInTypeOK'
    BY <1>0, <1>1, <1>6, GoToKeeps DEF CheckFails, SignInTypeOK
<1>7. ASSUME NEW t \in Tab, Poll(t) \/ PollFails(t) \/ Logout(t) PROVE SignInTypeOK'
    BY <1>0, <1>1, <1>7 DEF Poll, PollFails, Logout, SignInTypeOK
<1>8. ASSUME NEW t \in Tab, PollAnswered(t) PROVE SignInTypeOK'
  <2>1. /\ UNCHANGED <<issued, live>>
        /\ stored' = stored \/ stored' = NoToken
        /\ poll' = [poll EXCEPT ![t] = NoPoll]
        /\ leaving' = leaving \/ leaving' = [leaving EXCEPT ![t] = FALSE]
        /\ UNCHANGED <<place, asking>> \/ GoTo(t, "login", NoToken)
      BY <1>8 DEF PollAnswered, TokenRefused, Reload
  <2>2. /\ place' \in [Tab -> {"login", "page"}]
        /\ asking' \in [Tab -> {NoCheck} \cup [to : {"login", "page"}, token : Token]]
      BY <1>0, <1>1, <2>1, GoToKeeps
  <2>3. poll' \in [Tab -> 0..NoPoll] /\ leaving' \in [Tab -> BOOLEAN] /\ stored' \in 0..issued
      BY <1>0, <1>1, <2>1
  <2> QED  BY <1>0, <2>1, <2>2, <2>3 DEF SignInTypeOK
<1>9. ASSUME NEW t \in Tab, LogoutEnds(t) PROVE SignInTypeOK'
    BY <1>0, <1>1, <1>9, GoToKeeps DEF LogoutEnds, SignInTypeOK
<1>10. CASE UNCHANGED signIn
    BY <1>0, <1>10 DEF signIn, SignInTypeOK
<1> QED
    BY <1>2, <1>3, <1>4, <1>5, <1>6, <1>7, <1>8, <1>9, <1>10 DEF SignInNext

-----------------------------------------------------------------------------
(* The console                                                             *)
-----------------------------------------------------------------------------

ConsoleInv == ProgressInv /\ DashboardInv /\ ServicesInv /\ SignInTypeOK

\* All begin in order, ...
LEMMA ConsoleInitially == ConsoleInit => ConsoleInv
BY ProgressInitially, DashboardInitially, ServicesInitially, SignInInitially
   DEF ConsoleInit, ConsoleInv

\* ... a step moves one of them at most, ...
LEMMA ConsoleMoves ==
    [ConsoleNext]_console =>
        /\ [ServicesNext]_services /\ [DashboardNext]_dashboard
        /\ [ProgressNext]_progress /\ [SignInNext]_signIn
BY DEF ConsoleNext, console

\* ... and none of them gets out of order.
LEMMA ConsoleStep == ConsoleInv /\ [ConsoleNext]_console => ConsoleInv'
BY ConsoleMoves, ProgressStep, DashboardStep, ServicesStep, SignInStep DEF ConsoleInv

\* The invariant of the console: the base of the theorems below.
THEOREM ConsoleInvariance == ConsoleSpec => []ConsoleInv
<1>1. ConsoleInit => ConsoleInv
    BY ConsoleInitially
<1>2. ConsoleInv /\ [ConsoleNext]_console => ConsoleInv'
    BY ConsoleStep
<1> QED  BY <1>1, <1>2, PTL DEF ConsoleSpec

\* For any number of tables and single syncs: a record that is in progress while
\* nothing goes on is that of a run that was cut short, the count is that of the
\* run, and a table is synced once at a time, whatever locks were left behind
\* (runSync and syncSingleTable of clickhouseSyncService.ts).
THEOREM RecordStaysTrue == ConsoleSpec => []RecordIsTrue
<1>1. ConsoleInv => RecordIsTrue
    BY ProgressInvImplies, ServicesInvImplies
       DEF ConsoleInv, DashboardInv, RecordIsTrue
<1> QED  BY <1>1, ConsoleInvariance, PTL

\* No backup is deleted through a database it is not of, for any databases and any
\* prefixes none of which lies within another (assertKeyWithinPrefix of
\* s3BackupService.ts), however late the list of the selected database arrives.
THEOREM NoBackupStrays == ConsoleSpec => []BackupsStayHome
<1>1. ConsoleInv => BackupsStayHome
    BY DEF ConsoleInv, DashboardInv
<1> QED  BY <1>1, ConsoleInvariance, PTL
==============================================================================
