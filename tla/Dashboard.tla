------------------------------- MODULE Dashboard -------------------------------
(***************************************************************************)
(* One tab of the dashboard (packages/frontend): the page that is open,    *)
(* the database selected in its header, the requests on their way, and     *)
(* whose data is shown. Every request names the database that is selected  *)
(* when it is sent, not the one whose data the operator looks at. Answers  *)
(* come in any order and are shown as they come.                           *)
(*                                                                         *)
(* Pages: "overview" (index.vue) and "logs" poll; "backups" stands for the *)
(* pages that load on demand and act on what they list (also tables.vue,   *)
(* api-keys.vue, replication.vue); "validate" works through its list in    *)
(* batches. All that is told of data is the database it belongs to.        *)
(***************************************************************************)
EXTENDS Naturals, SequencesExt

CONSTANTS
    Db,                     \* the databases, whose backups share a bucket
    PathPrefix,             \* [Db -> their s3Backup.pathPrefix, a sequence of
                            \* characters, without the slash it may end in]
    MaxBatches              \* bound on the batches of a bulk deletion

\* No database keeps its backups in the folder of another or below it: two
\* defaults, the ids of the databases, never do, and what operators configure
\* must not either.
ASSUME DashboardAssumption ==
    /\ MaxBatches \in Nat
    /\ PathPrefix \in [Db -> Seq(STRING)]
    /\ \A d, e \in Db :
         IsPrefix(Append(PathPrefix[d], "/"), Append(PathPrefix[e], "/")) => d = e

Page == {"overview", "logs", "backups", "validate"}
NoDb == "none"

VARIABLES
    page,                   \* the page that is open
    selectedDatabaseId,     \* the database in the header
    asked,                  \* databases whose data is on its way to the page
    shown,                  \* the database whose data the page shows
    operating,              \* overview: an operation is under way
    isPaused,               \* logs: the poll is suspended
    counted,                \* validate: the details of the list are there
    bulk,                   \* validate: the bulk deletion under way
    removal,                \* backups: the deletion under way
    strayed                 \* kinds of things deleted in another database than
                            \* the one whose list the operator acted on

view == <<page, asked, shown, operating, isPaused, counted>>
deletions == <<bulk, removal, strayed>>
dashboard == <<view, selectedDatabaseId, deletions>>

Whose == Db \cup {NoDb}
NoBulk == [home |-> NoDb, left |-> 0, to |-> NoDb]
NoRemoval == [home |-> NoDb, to |-> NoDb]

DashboardTypeOK ==
    /\ page \in Page /\ selectedDatabaseId \in Db
    /\ asked \subseteq Db /\ shown \in Whose
    /\ operating \in BOOLEAN /\ isPaused \in BOOLEAN /\ counted \in BOOLEAN
    /\ bulk \in [home : Whose, left : 0..MaxBatches, to : Whose]
    /\ removal \in [home : Whose, to : Whose]
    /\ strayed \subseteq {"table", "backup"}

-----------------------------------------------------------------------------
\* What a page asks for when it is mounted.
Mounted ==
    /\ asked' = {selectedDatabaseId} /\ shown' = NoDb
    /\ operating' = FALSE /\ isPaused' = FALSE /\ counted' = FALSE

DashboardInit ==
    /\ page \in Page /\ selectedDatabaseId \in Db
    /\ asked = {selectedDatabaseId} /\ shown = NoDb
    /\ operating = FALSE /\ isPaused = FALSE /\ counted = FALSE
    /\ bulk = NoBulk /\ removal = NoRemoval /\ strayed = {}

\* Answers to a page that was left change nothing; its loops run on.
Navigate ==
    /\ page' \in Page \ {page} /\ Mounted
    /\ UNCHANGED <<selectedDatabaseId, deletions>>

\* The watchers of the selected database: all pages load again; logs and the
\* list to validate are cleared first, and logs asks one thing at a time.
SetDatabase(d) ==
    /\ d # selectedDatabaseId /\ selectedDatabaseId' = d
    /\ shown' = IF page \in {"logs", "validate"} THEN NoDb ELSE shown
    /\ asked' = IF page = "logs" /\ asked # {} THEN asked ELSE asked \cup {d}
    /\ counted' = FALSE
    /\ UNCHANGED <<page, operating, isPaused, deletions>>

\* Mutant of OverviewPolls: it asks until it has something to show.
OverviewAsksOnce == page = "overview" /\ ~operating /\ shown = NoDb

\* The timers of the two pages that poll.
OverviewPolls == page = "overview" /\ ~operating
LogsPoll == page = "logs" /\ ~isPaused /\ asked = {}

\* The buttons of the others, disabled during a load; validate asks again when
\* its list is empty.
BackupsLoad == page = "backups" /\ asked = {}
ListLoads == page = "validate" /\ shown = NoDb /\ asked = {}

Refresh ==
    /\ OverviewPolls \/ LogsPoll \/ BackupsLoad \/ ListLoads
    /\ asked' = asked \cup {selectedDatabaseId}
    /\ UNCHANGED <<page, shown, operating, isPaused, counted, selectedDatabaseId,
                   deletions>>

PageAnswered(d) ==
    /\ d \in asked /\ asked' = asked \ {d} /\ shown' = d
    /\ counted' = FALSE
    /\ UNCHANGED <<page, operating, isPaused, selectedDatabaseId, deletions>>

Fail(d) ==
    /\ d \in asked /\ asked' = asked \ {d}
    /\ UNCHANGED <<page, shown, operating, isPaused, counted, selectedDatabaseId,
                   deletions>>

-----------------------------------------------------------------------------
\* overview: a sync, a validation or the removal of all data.
Operate ==
    /\ page = "overview" /\ ~operating /\ operating' = TRUE
    /\ UNCHANGED <<page, asked, shown, isPaused, counted, selectedDatabaseId,
                   deletions>>

\* Its end, good or bad, refreshes the page.
OperationEnds ==
    /\ operating /\ operating' = FALSE
    /\ asked' = asked \cup {selectedDatabaseId}
    /\ UNCHANGED <<page, shown, isPaused, counted, selectedDatabaseId, deletions>>

TogglePause ==
    /\ page = "logs" /\ isPaused' = ~isPaused
    /\ UNCHANGED <<page, asked, shown, operating, counted, selectedDatabaseId,
                   deletions>>

-----------------------------------------------------------------------------
\* validate: the details of the listed tables are loaded.
Validate ==
    /\ page = "validate" /\ shown # NoDb /\ ~counted /\ counted' = TRUE
    /\ UNCHANGED <<page, asked, shown, operating, isPaused, selectedDatabaseId,
                   deletions>>

ResetValidation ==
    /\ page = "validate" /\ shown' = NoDb /\ counted' = FALSE
    /\ UNCHANGED <<page, asked, operating, isPaused, selectedDatabaseId, deletions>>

\* The operator confirms the deletion of the listed tables; the first batch is
\* sent.
BulkDelete ==
    /\ page = "validate" /\ counted /\ bulk = NoBulk
    /\ \E n \in 1..MaxBatches :
         bulk' = [home |-> shown, left |-> n, to |-> selectedDatabaseId]
    /\ UNCHANGED <<view, selectedDatabaseId, removal, strayed>>

\* deleteTableFromClickHouse for each table of the batch: a database that has
\* tables of these names loses them. The next batch is sent.
BatchAnswered ==
    /\ bulk # NoBulk
    /\ bulk' = IF bulk.left = 1 THEN NoBulk
               ELSE [bulk EXCEPT !.left = @ - 1, !.to = selectedDatabaseId]
    /\ \E done \in BOOLEAN :
         strayed' = IF done /\ bulk.to # bulk.home THEN strayed \cup {"table"} ELSE strayed
    /\ UNCHANGED <<view, selectedDatabaseId, removal>>

\* backups: the deletion of a backup that is listed.
DeleteBackup ==
    /\ page = "backups" /\ shown # NoDb /\ removal = NoRemoval
    /\ removal' = [home |-> shown, to |-> selectedDatabaseId]
    /\ UNCHANGED <<view, selectedDatabaseId, bulk, strayed>>

\* Mutant of NormalizePrefix: the prefix as it was configured.
AsConfigured(d) == PathPrefix[d]

NormalizePrefix(d) == Append(PathPrefix[d], "/")

\* assertKeyWithinPrefix, for the key of a backup of `home`, a folder itself.
WithinPrefix(home, to) ==
    IsPrefix(NormalizePrefix(to), NormalizePrefix(home) \o <<"backup", "/">>)

\* The answer of the server: the objects are gone and the list is loaded again,
\* or an error is shown.
RemovalAnswered ==
    /\ removal # NoRemoval /\ removal' = NoRemoval
    /\ \E done \in {WithinPrefix(removal.home, removal.to), FALSE} :
         /\ strayed' = IF done /\ removal.to # removal.home
                       THEN strayed \cup {"backup"} ELSE strayed
         /\ asked' = IF done /\ page = "backups" THEN asked \cup {selectedDatabaseId}
                     ELSE asked
    /\ UNCHANGED <<page, shown, operating, isPaused, counted, selectedDatabaseId, bulk>>

DashboardNext ==
    \/ Navigate \/ Refresh \/ Operate \/ OperationEnds \/ TogglePause
    \/ Validate \/ ResetValidation \/ BulkDelete \/ BatchAnswered
    \/ DeleteBackup \/ RemovalAnswered
    \/ \E d \in Db : SetDatabase(d) \/ PageAnswered(d) \/ Fail(d)

\* Timers fire; requests are answered or fail, and of those that are repeated
\* again and again some are answered.
DashboardFairness ==
    /\ WF_dashboard((OverviewPolls \/ LogsPoll) /\ Refresh)
    /\ WF_dashboard(OperationEnds)
    /\ \A d \in Db : WF_dashboard(PageAnswered(d) \/ Fail(d)) /\ SF_dashboard(PageAnswered(d))

DashboardSpec == DashboardInit /\ [][DashboardNext]_dashboard /\ DashboardFairness

-----------------------------------------------------------------------------
\* A page that polls and stays open ends up showing the database in the header,
\* whatever late answers of other databases overwrote it and whatever loads and
\* operations failed (the other pages keep what came last).
PagesCatchUp ==
    \A d \in Db, p \in {"overview", "logs"} :
        <>[](page = p /\ ~isPaused /\ selectedDatabaseId = d) => <>[](shown = d)

\* "What this prevents is unintentional cross-database damage" (s3BackupService.
\* ts:309): a backup listed for one database is not deleted through another,
\* whose list has not arrived yet when the operator clicks, as long as no
\* pathPrefix lies within that of another database.
BackupsStayHome == "backup" \notin strayed

\* "Are you sure you want to delete ${n} tables from ClickHouse?" (validate.vue:
\* 303): the tables deleted are those of the database that was listed.
TablesStayHome == "table" \notin strayed
=============================================================================
