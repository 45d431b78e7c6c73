----------------------------- MODULE SyncProgress -----------------------------
(***************************************************************************)
(* The progress record of one database: runSync and syncSingleTable of     *)
(* clickhouseSyncService.ts share it, the event stream of server.ts sends  *)
(* its changes, and the header of the dashboard (useSyncStatus.ts) shows   *)
(* what comes over the stream of the database that is selected.            *)
(*                                                                         *)
(* What a sync does to its table is the business of TableReplication. Here *)
(* are the locks, the order of the steps and what they write into the      *)
(* record. Events arrive in order; those that a later one replaces before  *)
(* they are shown are left out.                                            *)
(***************************************************************************)
EXTENDS Integers

CONSTANTS
    Tables,                 \* number of tables, synced in this order
    Single,                 \* callers of syncSingleTable: requests, the poller,
                            \* the tailer
    MaxLeaks                \* bound on the schema queries that fail

ASSUME ProgressAssumption == Tables \in Nat \ {0} /\ MaxLeaks \in Nat

VARIABLES
    activeTableLocks,
    run,                    \* the run over all tables, one at a time
    single,                 \* [Single -> its sync]
    syncProgress,           \* the record
    leaks,                  \* schema queries of syncSingleTable that failed
    selected,               \* the header has this database selected
    stream,                 \* its event stream
    pending,                \* an event is on its way
    syncState               \* what the header shows

record == <<syncProgress, pending>>
server == <<activeTableLocks, run, single, leaks, record>>
browser == <<selected, stream, syncState>>
progress == <<server, browser>>

Table == 1..Tables
NoTable == 0
Idle == [stage |-> "none", table |-> NoTable]
Progress == [inProgress : BOOLEAN, tablesCompleted : 0..Tables, currentTable : 0..Tables]
Others == [inProgress |-> FALSE, tablesCompleted |-> -1, currentTable |-> NoTable]

ProgressTypeOK ==
    /\ activeTableLocks \subseteq Table
    /\ run \in [stage : {"none", "listing", "schema", "syncing"}, table : 0..Tables]
    /\ single \in [Single -> [stage : {"none", "schema", "syncing"}, table : 0..Tables]]
    /\ syncProgress \in Progress /\ leaks \in 0..MaxLeaks
    /\ selected \in BOOLEAN /\ stream \in {"connecting", "open", "refused", "deaf"}
    /\ pending \in BOOLEAN /\ syncState \in Progress \cup {Others}

ProgressInit ==
    /\ activeTableLocks = {} /\ run = Idle /\ single = [s \in Single |-> Idle]
    /\ syncProgress = [inProgress |-> FALSE, tablesCompleted |-> 0, currentTable |-> NoTable]
    /\ leaks = 0 /\ selected \in BOOLEAN /\ stream = "connecting" /\ pending = FALSE
    /\ syncState = syncProgress

-----------------------------------------------------------------------------
\* updateProgress: the record changes and the listeners of the streams are told.
UpdateProgress(new) ==
    /\ syncProgress' = new
    /\ pending' = (pending \/ (selected /\ stream = "open"))

\* The automation starts no run while another is under way.
StartRun ==
    /\ run = Idle /\ run' = [Idle EXCEPT !.stage = "listing"]
    /\ UNCHANGED <<activeTableLocks, single, leaks, record, browser>>

\* Table t is next; the run ends without a word to the record when it is locked.
NextTable(t, locks) ==
    IF t \in locks THEN run' = Idle /\ activeTableLocks' = locks
    ELSE run' = [stage |-> "schema", table |-> t] /\ activeTableLocks' = locks \cup {t}

\* The tables are listed (or the query fails).
Listed ==
    /\ run.stage = "listing"
    /\ \/ /\ activeTableLocks = {}
          /\ UpdateProgress([inProgress |-> TRUE, tablesCompleted |-> 0,
                             currentTable |-> NoTable])
          /\ NextTable(1, {})
       \/ run' = Idle /\ UNCHANGED <<activeTableLocks, record>>
    /\ UNCHANGED <<single, leaks, browser>>

SchemaOfRun ==
    /\ run.stage = "schema" /\ run' = [run EXCEPT !.stage = "syncing"]
    /\ UpdateProgress([syncProgress EXCEPT !.currentTable = run.table])
    /\ UNCHANGED <<activeTableLocks, single, leaks, browser>>

TableDone(good) == [syncProgress EXCEPT !.tablesCompleted = @ + 1]

\* The sync of a table ends, or its schema query fails; the next one follows at
\* once. The last one ends the run.
EndTable ==
    /\ run.stage \in {"schema", "syncing"}
    /\ \E good \in {run.stage = "syncing", FALSE} :
         IF run.table = Tables
         THEN UpdateProgress([TableDone(good) EXCEPT !.inProgress = FALSE,
                                                     !.currentTable = NoTable])
         ELSE UpdateProgress(TableDone(good))
    /\ LET locks == activeTableLocks \ {run.table} IN
         IF run.table = Tables THEN run' = Idle /\ activeTableLocks' = locks
                               ELSE NextTable(run.table + 1, locks)
    /\ UNCHANGED <<single, leaks, browser>>

-----------------------------------------------------------------------------
\* A caller that finds the table locked is told so.
StartSingle(s, t) ==
    /\ single[s] = Idle /\ t \notin activeTableLocks
    /\ activeTableLocks' = activeTableLocks \cup {t}
    /\ single' = [single EXCEPT ![s] = [stage |-> "schema", table |-> t]]
    /\ UNCHANGED <<run, leaks, record, browser>>

SchemaOfSingle(s) ==
    /\ single[s].stage = "schema"
    /\ single' = [single EXCEPT ![s].stage = "syncing"]
    /\ UpdateProgress([syncProgress EXCEPT !.inProgress = TRUE,
                                           !.currentTable = single[s].table])
    /\ UNCHANGED <<activeTableLocks, run, leaks, browser>>

\* The schema query of syncSingleTable fails before the try: the lock stays.
LeakLock(s) ==
    /\ single[s].stage = "schema" /\ leaks < MaxLeaks
    /\ leaks' = leaks + 1 /\ single' = [single EXCEPT ![s] = Idle]
    /\ UNCHANGED <<activeTableLocks, run, record, browser>>

\* Mutant of EndSingle: the record is left as it is.
EndSingleWell(s) ==
    /\ single[s] # Idle
    /\ activeTableLocks' = activeTableLocks \ {single[s].table}
    /\ single' = [single EXCEPT ![s] = Idle]
    /\ UpdateProgress(syncProgress)
    /\ UNCHANGED <<run, leaks, browser>>

\* The end, good or bad; forceFullSyncTable gets here from its schema query, too.
EndSingle(s) ==
    /\ single[s] # Idle
    /\ activeTableLocks' = activeTableLocks \ {single[s].table}
    /\ single' = [single EXCEPT ![s] = Idle]
    /\ UpdateProgress([syncProgress EXCEPT !.inProgress = FALSE, !.currentTable = NoTable])
    /\ UNCHANGED <<run, leaks, browser>>

-----------------------------------------------------------------------------
\* The header selects this database or another one: the stream of the previous
\* one is closed, what it told stays until the new one tells something.
SwitchDatabase ==
    /\ selected' = ~selected /\ stream' = "connecting" /\ pending' = FALSE
    /\ UNCHANGED <<activeTableLocks, run, single, leaks, syncProgress, syncState>>

\* Mutant of Accept: nothing is sent before the first change.
AcceptSilently ==
    /\ stream = "connecting" /\ stream' = "open"
    /\ UNCHANGED <<server, selected, syncState>>

\* syncEvents sends the whole state, then listens for changes.
Accept ==
    /\ stream = "connecting" /\ stream' = "open" /\ pending' = TRUE
    /\ UNCHANGED <<activeTableLocks, run, single, leaks, syncProgress, selected, syncState>>

\* 401 or 429: a browser does not try again.
Refuse ==
    /\ stream = "connecting" /\ stream' = "refused"
    /\ UNCHANGED <<server, selected, syncState>>

\* The status query fails after the headers are sent: the stream stays, silent.
Deafen ==
    /\ stream = "connecting" /\ stream' = "deaf"
    /\ UNCHANGED <<server, selected, syncState>>

\* The connection is lost: the browser opens it again.
Break ==
    /\ stream \in {"open", "deaf"} /\ stream' = "connecting" /\ pending' = FALSE
    /\ UNCHANGED <<activeTableLocks, run, single, leaks, syncProgress, selected, syncState>>

Show ==
    /\ pending /\ pending' = FALSE
    /\ syncState' = IF selected THEN syncProgress ELSE Others
    /\ UNCHANGED <<activeTableLocks, run, single, leaks, syncProgress, selected, stream>>

ProgressNext ==
    \/ StartRun \/ Listed \/ SchemaOfRun \/ EndTable
    \/ \E s \in Single : \/ SchemaOfSingle(s) \/ LeakLock(s) \/ EndSingle(s)
                         \/ \E t \in Table : StartSingle(s, t)
    \/ SwitchDatabase \/ Accept \/ Refuse \/ Deafen \/ Break \/ Show

\* Statements end; a stream that is tried again and again gets through, and an
\* event is delivered unless the stream breaks, which it does not always do.
ProgressFairness ==
    /\ WF_progress(Listed \/ SchemaOfRun \/ EndTable)
    /\ \A s \in Single : WF_progress(SchemaOfSingle(s) \/ LeakLock(s) \/ EndSingle(s))
    /\ SF_progress(Accept) /\ SF_progress(Show)

ProgressSpec == ProgressInit /\ [][ProgressNext]_progress /\ ProgressFairness

-----------------------------------------------------------------------------
Quiet == run = Idle /\ \A s \in Single : single[s] = Idle

\* When no sync is under way the record says so, whatever runs and single syncs
\* overlapped. The exception is a run that was cut short by a locked table: it
\* leaves the record of a run in the middle.
QuietMeansIdle ==
    Quiet /\ syncProgress.inProgress => syncProgress.tablesCompleted \in 1..Tables - 1

\* While a run works on a table the record counts exactly the tables before it,
\* synced or failed, whatever single syncs write into the same record.
CountIsRuns ==
    run.stage \in {"schema", "syncing"} => syncProgress.tablesCompleted = run.table - 1

\* No table is synced twice at a time, also after locks were left behind.
OneSyncPerTable ==
    \A s \in Single : single[s].table # NoTable =>
        /\ run.stage \in {"schema", "syncing"} => run.table # single[s].table
        /\ \A r \in Single \ {s} : single[r].table # single[s].table

\* The header of a database that stays selected shows what the record says again
\* and again, the last time for good, unless the server refuses the stream or
\* fails between its headers and its first event.
HeaderCatchesUp ==
    <>[](selected /\ stream \notin {"refused", "deaf"}) => []<>(syncState = syncProgress)
=============================================================================
