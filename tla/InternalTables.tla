---------------------------- MODULE InternalTables ----------------------------
(***************************************************************************)
(* The tables a ClickHouse database needs before anything else can be done *)
(* in it (watermarks, sync log, sessions): initializeDatabase of           *)
(* clickhouse.ts, which every statement waits for and which callers share  *)
(* while it runs, reconnect(), and clearAllData of server.ts, which drops  *)
(* the tables one by one and has them made again.                          *)
(*                                                                         *)
(* The tables are numbered in the order in which they are created and      *)
(* dropped. A run of doInitialize is the promise it returns.               *)
(***************************************************************************)
EXTENDS Naturals, FiniteSets

CONSTANTS
    Run,                    \* places for runs of doInitialize under way
    Tables                  \* number of internal tables

ASSUME InternalAssumption ==
    /\ Tables \in Nat \ {0}
    /\ "none" \notin Run /\ "settled" \notin Run      \* NoRun and Settled

VARIABLES
    tables,                 \* the internal tables that exist
    initialized,            \* initializedInstances.has(databaseId)
    initializationPromise,  \* a run, Settled (it has succeeded) or NoRun
    step,                   \* [Run -> the table it creates next], 0 none
    clear,                  \* clearAllData: the table it drops next, 0 none
    awaits,                 \* the run that clearAllData waits for
    cleared,                \* the last clearAllData has answered success
    broken,                 \* a clearAllData has failed since
    overtaken               \* a run has succeeded that was not the shared one

internal == <<tables, initialized, initializationPromise, step, clear, awaits,
              cleared, broken, overtaken>>

NoRun == "none"
Settled == "settled"
Table == 1..Tables

InternalTypeOK ==
    /\ tables \subseteq Table /\ initialized \in BOOLEAN
    /\ initializationPromise \in Run \cup {NoRun, Settled}
    /\ step \in [Run -> 0..Tables + 1] /\ clear \in 0..Tables + 1
    /\ awaits \in Run \cup {NoRun}
    /\ cleared \in BOOLEAN /\ broken \in BOOLEAN /\ overtaken \in BOOLEAN

InternalInit ==
    /\ tables = {} /\ initialized = FALSE /\ initializationPromise = NoRun
    /\ step = [r \in Run |-> 0] /\ clear = 0 /\ awaits = NoRun
    /\ cleared = FALSE /\ broken = FALSE /\ overtaken = FALSE

-----------------------------------------------------------------------------
\* The first caller starts a run; the callers after it share its promise.
Begin(r) ==
    /\ step[r] = 0 /\ initializationPromise' = r
    /\ step' = [step EXCEPT ![r] = 1]

\* initializeDatabase for any statement.
InitializeDatabase ==
    /\ ~initialized /\ initializationPromise = NoRun
    /\ \E r \in Run : Begin(r)
    /\ UNCHANGED <<tables, initialized, clear, awaits, cleared, broken, overtaken>>

CreateTable(r) ==
    /\ step[r] \in Table
    /\ tables' = tables \cup {step[r]} /\ step' = [step EXCEPT ![r] = @ + 1]
    /\ UNCHANGED <<initialized, initializationPromise, clear, awaits, cleared, broken,
                   overtaken>>

\* The run has ended well; also one that reset or reconnect have abandoned.
Succeed(r) ==
    /\ step[r] = Tables + 1
    /\ initialized' = TRUE /\ step' = [step EXCEPT ![r] = 0]
    /\ initializationPromise' = IF initializationPromise = r THEN Settled
                                ELSE initializationPromise
    /\ overtaken' = (overtaken \/ initializationPromise # r)
    /\ IF awaits = r THEN awaits' = NoRun /\ clear' = 0 /\ cleared' = TRUE
                     ELSE UNCHANGED <<awaits, clear, cleared>>
    /\ UNCHANGED <<tables, broken>>

\* A statement of the run fails: whoever waits for it fails, the next caller
\* starts another one.
Fail(r) ==
    /\ step[r] # 0 /\ step' = [step EXCEPT ![r] = 0]
    /\ initializationPromise' = NoRun
    /\ IF awaits = r THEN awaits' = NoRun /\ clear' = 0 /\ broken' = TRUE
                     ELSE UNCHANGED <<awaits, clear, broken>>
    /\ UNCHANGED <<tables, initialized, cleared, overtaken>>

\* reconnect(), of the health check.
Reconnect ==
    /\ initialized' = FALSE /\ initializationPromise' = NoRun
    /\ UNCHANGED <<tables, step, clear, awaits, cleared, broken, overtaken>>

-----------------------------------------------------------------------------
\* clearAllData: the mirrored tables are gone, the internal ones follow.
BeginClear ==
    /\ clear = 0 /\ initialized
    /\ clear' = 1 /\ cleared' = FALSE /\ broken' = FALSE
    /\ UNCHANGED <<tables, initialized, initializationPromise, step, awaits, overtaken>>

\* dropTable, once initialized like any statement.
DropTable ==
    /\ clear \in Table /\ initialized
    /\ tables' = tables \ {clear} /\ clear' = clear + 1
    /\ UNCHANGED <<initialized, initializationPromise, step, awaits, cleared, broken,
                   overtaken>>

DropFails ==
    /\ clear \in Table /\ clear' = 0 /\ broken' = TRUE
    /\ UNCHANGED <<tables, initialized, initializationPromise, step, awaits, cleared,
                   overtaken>>

\* Mutant of ResetAndInitialize: the promise is not forgotten.
InitializeAgain ==
    /\ clear = Tables + 1 /\ awaits = NoRun
    /\ clear' = 0 /\ cleared' = TRUE
    /\ UNCHANGED <<tables, initialized, initializationPromise, step, awaits, broken,
                   overtaken>>

\* resetInitialized and initializeDatabase, without an await between them.
ResetAndInitialize ==
    /\ clear = Tables + 1 /\ awaits = NoRun
    /\ initialized' = FALSE
    /\ \E r \in Run : Begin(r) /\ awaits' = r
    /\ UNCHANGED <<tables, clear, cleared, broken, overtaken>>

InternalNext ==
    \/ InitializeDatabase \/ Reconnect
    \/ \E r \in Run : CreateTable(r) \/ Succeed(r) \/ Fail(r)
    \/ BeginClear \/ DropTable \/ DropFails \/ ResetAndInitialize

InternalSpec == InternalInit /\ [][InternalNext]_internal

-----------------------------------------------------------------------------
Quiet == clear = 0 /\ \A r \in Run : step[r] = 0

\* A database that counts as initialized has its internal tables, once nothing
\* is under way: whatever initializations were shared, abandoned by a reconnect
\* or failed, and however a clear ran among them. Two cases are outside of it:
\* a clear that failed in the middle, which leaves the flag set, and a run that
\* succeeded after it was abandoned, which sets the flag for another.
InitializedHasTables ==
    initialized /\ Quiet /\ ~broken /\ ~overtaken => tables = Table

\* "All ClickHouse data cleared successfully. Database reinitialized."
\* (server.ts:914): when that is answered the tables are there again, and stay
\* until the next clear.
ClearedMeansReady == cleared => tables = Table
=============================================================================
