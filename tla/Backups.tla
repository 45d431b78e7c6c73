-------------------------------- MODULE Backups --------------------------------
(***************************************************************************)
(* The S3 backups of one database: s3BackupService.ts, its scheduler in    *)
(* clickhouseAutomationService.ts, and the backup endpoints of server.ts.  *)
(*                                                                         *)
(* Time is the age of things, which stops counting where the code stops    *)
(* telling ages apart. A backup that fails, or whose deletion fails in the *)
(* middle, leaves a directory without a manifest ("partial"), which is     *)
(* listed like any other and cannot be restored.                           *)
(***************************************************************************)
EXTENDS Naturals, FiniteSets

CONSTANTS
    Backup,                 \* places in the bucket: bounds the backups kept
    Interval,               \* s3Backup.intervalHours, in ticks
    Retention               \* s3Backup.retentionDays, in ticks

ASSUME BackupAssumption ==
    /\ Interval \in Nat \ {0} /\ Retention \in Nat \ {0}
    /\ "no backup" \notin Backup                      \* NoBackup

VARIABLES
    enabled,                \* s3Backup.enabled, read at every tick
    markerAge,              \* age of lastScheduledBackupAt; Interval: it is due
    attempt,                \* the scheduled attempt under way
    inFlight,               \* the backup being written; NoBackup: none
    pruning,                \* a backup was taken, pruneOldBackups is next
    bucket,                 \* [Backup -> what is in the bucket]
    everTaken,              \* a backup has completed
    handDeleted,            \* the operator has deleted a backup
    lastAge                 \* age of the last scheduled backup that completed

schedule == <<enabled, markerAge, attempt>>
storage == <<inFlight, pruning, bucket>>
past == <<everTaken, handDeleted, lastAge>>
backups == <<schedule, storage, past>>

NoBackup == "no backup"
Empty == [content |-> "none", age |-> 0]
Free == {b \in Backup : bucket[b].content = "none"}

BackupTypeOK ==
    /\ enabled \in BOOLEAN /\ pruning \in BOOLEAN
    /\ markerAge \in 0..Interval /\ lastAge \in 0..Interval
    /\ attempt \in [stage : {"none", "asked", "running"}, saved : 0..Interval]
    /\ inFlight \in Backup \cup {NoBackup}
    /\ bucket \in [Backup -> [content : {"none", "partial", "complete"},
                              age : 0..Retention + 1]]
    /\ everTaken \in BOOLEAN /\ handDeleted \in BOOLEAN

NoAttempt == [stage |-> "none", saved |-> 0]

BackupInit ==
    /\ enabled = FALSE /\ markerAge = Interval /\ attempt = NoAttempt
    /\ inFlight = NoBackup /\ pruning = FALSE /\ bucket = [b \in Backup |-> Empty]
    /\ everTaken = FALSE /\ handDeleted = FALSE /\ lastAge = Interval

-----------------------------------------------------------------------------
Older(age, limit) == IF age < limit THEN age + 1 ELSE limit

\* Time passes; a prune follows its backup at once.
Tick ==
    /\ ~pruning
    /\ markerAge' = Older(markerAge, Interval) /\ lastAge' = Older(lastAge, Interval)
    /\ attempt' = [attempt EXCEPT !.saved = Older(@, Interval)]
    /\ bucket' = [b \in Backup |->
           IF bucket[b].content = "none" THEN Empty
           ELSE [bucket[b] EXCEPT !.age = Older(@, Retention + 1)]]
    /\ UNCHANGED <<enabled, inFlight, pruning, everTaken, handDeleted>>

\* setS3BackupConfig, deleteS3BackupConfig.
Configure ==
    /\ enabled' = ~enabled
    /\ UNCHANGED <<markerAge, attempt, storage, past>>

\* maybeRunScheduledBackup up to its first await. (A tick that finds the
\* marker due again while its predecessor runs is refused by runBackup.)
AskScheduled ==
    /\ enabled /\ markerAge = Interval /\ attempt.stage = "none"
    /\ attempt' = [stage |-> "asked", saved |-> markerAge]
    /\ markerAge' = 0
    /\ UNCHANGED <<enabled, storage, past>>

\* Mutant of GiveUp: the marker stays where the attempt has put it.
GiveUpQuietly ==
    /\ attempt' = NoAttempt
    /\ UNCHANGED <<enabled, markerAge>>

\* The attempt failed: the marker goes back, the next tick tries again.
GiveUp ==
    /\ attempt' = NoAttempt /\ markerAge' = attempt.saved
    /\ UNCHANGED enabled

\* runBackup up to its await: the first object is in the bucket.
BeginBackup(b) ==
    /\ inFlight = NoBackup /\ b \in Free
    /\ inFlight' = b /\ bucket' = [bucket EXCEPT ![b] = [content |-> "partial", age |-> 0]]
    /\ UNCHANGED pruning

RunScheduled ==
    /\ attempt.stage = "asked"
    /\ \/ /\ \E b \in Backup : BeginBackup(b)
          /\ attempt' = [attempt EXCEPT !.stage = "running"]
          /\ UNCHANGED <<enabled, markerAge>>
       \/ /\ inFlight # NoBackup \/ ~enabled    \* already in progress, no config
          /\ GiveUp /\ UNCHANGED storage
    /\ UNCHANGED past

\* takeS3Backup, of a database that has the configuration, enabled or not.
RunManual ==
    /\ \E b \in Backup : BeginBackup(b)
    /\ UNCHANGED <<schedule, past>>

\* The BACKUP statement answers.
BackupDone ==
    /\ inFlight # NoBackup /\ inFlight' = NoBackup /\ pruning' = TRUE
    /\ bucket' = [bucket EXCEPT ![inFlight] =
           [content |-> IF @.content = "none" THEN "partial" ELSE "complete", age |-> 0]]
    /\ everTaken' = TRUE
    /\ IF attempt.stage = "running"
       THEN attempt' = NoAttempt /\ lastAge' = markerAge
       ELSE UNCHANGED <<attempt, lastAge>>
    /\ UNCHANGED <<enabled, markerAge, handDeleted>>

BackupFails ==
    /\ inFlight # NoBackup /\ inFlight' = NoBackup
    /\ IF attempt.stage = "running" THEN GiveUp ELSE UNCHANGED schedule
    /\ UNCHANGED <<pruning, bucket, past>>

Expired == {b \in Backup : bucket[b].content # "none" /\ bucket[b].age > Retention}

\* Mutant of Prune: the room is made before the backup is written.
PruneFirst ==
    /\ inFlight # NoBackup \/ pruning
    /\ pruning' = FALSE
    /\ bucket' = [b \in Backup |-> IF b \in Expired THEN Empty ELSE bucket[b]]
    /\ UNCHANGED <<schedule, inFlight, past>>

\* pruneOldBackups: each deletion may fail, also after some of its objects; so
\* may the listing, or retentionDays be unset.
Prune ==
    /\ pruning /\ pruning' = FALSE
    /\ \E left \in [Expired -> {"none", "partial", "as it is"}] :
         bucket' = [b \in Backup |->
             IF b \notin Expired \/ left[b] = "as it is" THEN bucket[b]
             ELSE IF left[b] = "none" THEN Empty
             ELSE [bucket[b] EXCEPT !.content = "partial"]]
    /\ UNCHANGED <<schedule, inFlight, past>>

\* deleteS3Backup, by the operator, of anything that is listed.
DeleteBackup(b) ==
    /\ bucket[b].content # "none"
    /\ \E left \in {Empty} \cup {[bucket[x] EXCEPT !.content = "partial"] : x \in {b} \ {inFlight}} :
         bucket' = [bucket EXCEPT ![b] = left]
    /\ handDeleted' = TRUE
    /\ UNCHANGED <<schedule, inFlight, pruning, everTaken, lastAge>>

\* The process dies and starts again; a BACKUP under way ends or does not.
RestartServer ==
    /\ \E c \in {"partial", "complete"} :
         bucket' = [b \in Backup |-> IF b = inFlight THEN [bucket[b] EXCEPT !.content = c]
                                    ELSE bucket[b]]
    /\ markerAge' = Interval /\ attempt' = NoAttempt
    /\ inFlight' = NoBackup /\ pruning' = FALSE
    /\ UNCHANGED <<enabled, past>>

BackupNext ==
    \/ Tick \/ Configure \/ AskScheduled \/ RunScheduled \/ RunManual
    \/ BackupDone \/ BackupFails \/ Prune \/ RestartServer
    \/ \E b \in Backup : DeleteBackup(b)

BackupSpec == BackupInit /\ [][BackupNext]_backups

-----------------------------------------------------------------------------
\* Between attempts the marker says what it means: when it is not yet due, a
\* scheduled backup has completed that was begun then. An attempt that was
\* refused or failed does not count, however attempts, manual backups, changes
\* of the configuration and restarts follow on one another.
MarkerIsTrue ==
    attempt.stage = "none" /\ markerAge < Interval => lastAge = markerAge

\* Once a backup has completed there is one to restore, unless the operator
\* deletes backups: pruning never makes room for a backup that does not come.
SomethingToRestore ==
    everTaken /\ ~handDeleted => \E b \in Backup : bucket[b].content = "complete"

\* "the actual backup only runs when intervalHours has elapsed since the last
\* completion timestamp recorded on disk by S3BackupService"
\* (clickhouseAutomationService.ts:116).
IntervalIsKept == attempt.stage = "asked" => lastAge = Interval
=============================================================================
