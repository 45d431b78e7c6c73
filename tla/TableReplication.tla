-------------------------- MODULE TableReplication --------------------------
(***************************************************************************)
(* One MySQL table with a primary key, copied by ClickHouseSyncService     *)
(* into the append-only table <t>__raw and read through the view <t>.      *)
(*                                                                         *)
(* Every sync entry point (the poller, a tailer nudge, the REST API) is a  *)
(* process of Proc.  A step of a process is the code between two awaits;   *)
(* MySQL writers run between any two of them.                              *)
(*                                                                         *)
(* Abstractions.  A row is a version number and the value of its timestamp *)
(* column.  <t>__raw keeps every row ever inserted and the view picks the  *)
(* newest _sync_timestamp of a key: raw[k] is that newest row, which is    *)
(* all a reader can tell apart as long as two inserts of the same key do   *)
(* not share a millisecond.                                                *)
(***************************************************************************)
EXTENDS Integers, FiniteSets

CONSTANTS
  Key,               (* primary-key values; their order is the pagination order  *)
  Proc,              (* concurrent callers of the sync service                   *)
  FullBatch,         (* config.sync.fullSyncBatchSize: LIMIT of a full page      *)
  IncrBatch,         (* config.sync.batchSize: LIMIT of an incremental page      *)
  Timestamped,       (* detectTimestampColumn finds a column                     *)
  SharedTimes,       (* the timestamp column is coarse: writes may share a value *)
  Changes,           (* which of "insert", "update", "delete", "alter" occur     *)
  MaxVersion,        (* bound: last version number a writer may produce          *)
  MaxClock,          (* bound: last value of the timestamp column's clock        *)
  MaxSchema,         (* bound: last schema number                                *)
  MaxRebuildFaults,  (* bound: failures while a full sync streams its rows       *)
  MaxOtherFaults     (* bound: failures of any other await                       *)

ASSUME KeyAssumption == Key \subseteq Nat \ {0} /\ IsFiniteSet(Key)
ASSUME BatchAssumption == FullBatch \in Nat \ {0} /\ IncrBatch \in Nat \ {0}
ASSUME FlagAssumption == Timestamped \in BOOLEAN /\ SharedTimes \in BOOLEAN
ASSUME BoundAssumption == /\ {MaxVersion, MaxClock, MaxSchema} \subseteq Nat
                          /\ {MaxRebuildFaults, MaxOtherFaults} \subseteq Nat

VARIABLES
  (* MySQL *)
  mysql,        (* the row stored under each key                                 *)
  clock,        (* what NOW() writes into the timestamp column                   *)
  nextVer,      (* the version number of the next write                          *)
  schema,       (* the table's current column list                               *)
  (* ClickHouse *)
  viewUp,       (* the projection view <t> exists                                *)
  rawUp,        (* the table <t>__raw exists                                     *)
  rawSchema,    (* column list <t>__raw was created with                         *)
  raw,          (* the newest raw row of each key                                *)
  watermark,    (* newest last_processed_timestamp in appender_watermarks        *)
  (* the sync service *)
  lock,         (* the table is in activeTableLocks                              *)
  pc,           (* the await each process is suspended at                        *)
  mode,         (* what it was asked for, then which of the two syncs it runs    *)
  jobSchema,    (* the column list it fetched                                    *)
  cursorKey,    (* primary key and timestamp of the last row it streamed         *)
  cursorTs,
  page,         (* the batch it has read and not yet inserted                    *)
  more,         (* batch.length === batchSize: another page will be asked for    *)
  (* bounds *)
  rebuildFaults, otherFaults

sourceVars == <<mysql, clock, nextVer, schema>>
copyVars   == <<viewUp, rawUp, rawSchema, raw, watermark>>
cursorVars == <<cursorKey, cursorTs>>
jobVars    == <<pc, mode, jobSchema, cursorKey, cursorTs, page, more>>
faultVars  == <<rebuildFaults, otherFaults>>
vars == <<mysql, clock, nextVer, schema, viewUp, rawUp, rawSchema, raw, watermark,
          lock, pc, mode, jobSchema, cursorKey, cursorTs, page, more,
          rebuildFaults, otherFaults>>

-----------------------------------------------------------------------------
(* Rows.  Version and timestamp 0 stand for "none": an absent row, and a   *)
(* null timestamp in a watermark.                                          *)

NoTime == 0
Row    == [ver : Nat, ts : Nat]
NoRow  == [ver |-> 0, ts |-> NoTime]
Entry  == [ver : Nat, dead : BOOLEAN]
NoEntry == [ver |-> 0, dead |-> FALSE]

Present(k) == mysql[k] # NoRow

(* The projection view: the newest row of a key unless it is a tombstone.  *)
Visible(k) == IF viewUp /\ rawUp /\ ~raw[k].dead THEN raw[k].ver ELSE 0

PC == {"idle", "schema", "choose", "dropView", "dropRaw", "createRaw", "createView",
       "read", "insert", "save", "log"}
Request == {"single", "incremental", "full"}

TypeOK ==
  /\ mysql \in [Key -> Row]
  /\ clock \in Nat \ {0}
  /\ nextVer \in Nat \ {0}
  /\ schema \in Nat
  /\ viewUp \in BOOLEAN
  /\ rawUp \in BOOLEAN
  /\ rawSchema \in Nat
  /\ raw \in [Key -> Entry]
  /\ watermark \in Nat
  /\ lock \in BOOLEAN
  /\ pc \in [Proc -> PC]
  /\ mode \in [Proc -> Request \cup {"none"}]
  /\ jobSchema \in [Proc -> Nat]
  /\ cursorKey \in [Proc -> Nat]
  /\ cursorTs \in [Proc -> Nat]
  /\ page \in [Proc -> [Key -> Row]]
  /\ more \in [Proc -> BOOLEAN]
  /\ rebuildFaults \in Nat
  /\ otherFaults \in Nat

EmptyPage == [k \in Key |-> NoRow]

Init ==
  /\ mysql \in [Key -> {NoRow, [ver |-> 1, ts |-> 1]}]
  /\ clock = 1
  /\ nextVer = 2
  /\ schema = 0
  /\ viewUp = FALSE
  /\ rawUp = FALSE
  /\ rawSchema = 0
  /\ raw = [k \in Key |-> NoEntry]
  /\ watermark = NoTime
  /\ lock = FALSE
  /\ pc = [p \in Proc |-> "idle"]
  /\ mode = [p \in Proc |-> "none"]
  /\ jobSchema = [p \in Proc |-> 0]
  /\ cursorKey = [p \in Proc |-> 0]
  /\ cursorTs = [p \in Proc |-> NoTime]
  /\ page = [p \in Proc |-> EmptyPage]
  /\ more = [p \in Proc |-> FALSE]
  /\ rebuildFaults = 0
  /\ otherFaults = 0

-----------------------------------------------------------------------------
(* The source.  A write stamps the row's timestamp column with the current *)
(* clock, as ON UPDATE CURRENT_TIMESTAMP does: with the second it falls in, *)
(* or, when SharedTimes is FALSE, with an instant of its own.               *)

Write(k) ==
  /\ IF Present(k) THEN "update" \in Changes ELSE "insert" \in Changes
  /\ nextVer <= MaxVersion
  /\ clock' = IF SharedTimes THEN clock ELSE clock + 1
  /\ mysql' = [mysql EXCEPT ![k] = [ver |-> nextVer, ts |-> clock']]
  /\ nextVer' = nextVer + 1
  /\ UNCHANGED <<schema, copyVars, lock, jobVars, faultVars>>

Delete(k) ==
  /\ "delete" \in Changes
  /\ Present(k)
  /\ nextVer <= MaxVersion
  /\ mysql' = [mysql EXCEPT ![k] = NoRow]
  /\ nextVer' = nextVer + 1
  /\ UNCHANGED <<clock, schema, copyVars, lock, jobVars, faultVars>>

Alter ==
  /\ "alter" \in Changes
  /\ schema < MaxSchema
  /\ schema' = schema + 1
  /\ UNCHANGED <<mysql, clock, nextVer, copyVars, lock, jobVars, faultVars>>

Tick ==
  /\ clock < MaxClock
  /\ clock' = clock + 1
  /\ UNCHANGED <<mysql, nextVer, schema, copyVars, lock, jobVars, faultVars>>

Source == Alter \/ Tick \/ \E k \in Key : Write(k) \/ Delete(k)

-----------------------------------------------------------------------------
(* Taking and giving back the table lock.                                  *)

Goto(p, await) == pc' = [pc EXCEPT ![p] = await]

(* Mutant of Acquire: the caller does not look at activeTableLocks.         *)
AcquireUnguarded(p, request) ==
  /\ pc[p] = "idle"
  /\ lock' = TRUE
  /\ Goto(p, "schema")
  /\ mode' = [mode EXCEPT ![p] = request]
  /\ UNCHANGED <<sourceVars, copyVars, jobSchema, cursorVars, page, more, faultVars>>

(* tryAcquireTableLock.  A caller that finds the lock taken throws          *)
(* SyncAlreadyInProgressError and changes nothing.                         *)
Acquire(p, request) ==
  /\ pc[p] = "idle"
  /\ ~lock
  /\ lock' = TRUE
  /\ Goto(p, "schema")
  /\ mode' = [mode EXCEPT ![p] = request]
  /\ UNCHANGED <<sourceVars, copyVars, jobSchema, cursorVars, page, more, faultVars>>

(* Locals of a sync that returns or throws go out of scope.                *)
EndJob(p) ==
  /\ Goto(p, "idle")
  /\ mode' = [mode EXCEPT ![p] = "none"]
  /\ jobSchema' = [jobSchema EXCEPT ![p] = 0]
  /\ cursorKey' = [cursorKey EXCEPT ![p] = 0]
  /\ cursorTs' = [cursorTs EXCEPT ![p] = NoTime]
  /\ page' = [page EXCEPT ![p] = EmptyPage]
  /\ more' = [more EXCEPT ![p] = FALSE]

ReadSchema(p) ==
  /\ pc[p] = "schema"
  /\ jobSchema' = [jobSchema EXCEPT ![p] = schema]
  /\ IF mode[p] = "full" \/ ~Timestamped
       THEN Goto(p, "dropView") /\ mode' = [mode EXCEPT ![p] = "full"]
       ELSE Goto(p, "choose") /\ mode' = [mode EXCEPT ![p] = "incremental"]
  /\ UNCHANGED <<sourceVars, copyVars, lock, cursorVars, page, more, faultVars>>

(* syncSingleTable fetches the schema after taking the lock and before its *)
(* try block: if that await rejects, nothing releases the lock.            *)
SchemaFails(p) ==
  /\ pc[p] = "schema"
  /\ otherFaults < MaxOtherFaults
  /\ otherFaults' = otherFaults + 1
  /\ lock' = (mode[p] = "single")
  /\ EndJob(p)
  /\ UNCHANGED <<sourceVars, copyVars, rebuildFaults>>

-----------------------------------------------------------------------------
(* performIncrementalSyncForTable decides whether it can go on from the     *)
(* stored watermark.                                                       *)

(* SELECT _sync_schema_fingerprint ... LIMIT 1 returns some raw row's: none *)
(* when the table is empty, possibly none when it holds a tombstone.        *)
FingerprintDiffers(p) ==
  /\ \E k \in Key : raw[k].ver # 0
  /\ rawSchema # jobSchema[p]
TombstonePresent  == \E k \in Key : raw[k].dead

MustRebuild == ~viewUp \/ ~rawUp \/ watermark = NoTime

ChooseRebuild(p) ==
  /\ pc[p] = "choose"
  /\ MustRebuild \/ FingerprintDiffers(p)
  /\ Goto(p, "dropView")
  /\ mode' = [mode EXCEPT ![p] = "full"]
  /\ UNCHANGED <<sourceVars, copyVars, lock, jobSchema, cursorVars, page, more, faultVars>>

(* Mutant of ChooseWatermark: the first page asks for ts > watermark.       *)
ChooseAfterWatermark(p) ==
  /\ pc[p] = "choose"
  /\ ~MustRebuild
  /\ FingerprintDiffers(p) => TombstonePresent
  /\ Goto(p, "read")
  /\ cursorKey' = [cursorKey EXCEPT ![p] = 0]
  /\ cursorTs' = [cursorTs EXCEPT ![p] = watermark + 1]
  /\ UNCHANGED <<sourceVars, copyVars, lock, mode, jobSchema, page, more, faultVars>>

(* Mutant of ChooseWatermark: the fingerprint is not compared.              *)
ChooseUnchecked(p) ==
  /\ pc[p] = "choose"
  /\ ~MustRebuild
  /\ Goto(p, "read")
  /\ cursorKey' = [cursorKey EXCEPT ![p] = 0]
  /\ cursorTs' = [cursorTs EXCEPT ![p] = watermark]
  /\ UNCHANGED <<sourceVars, copyVars, lock, mode, jobSchema, page, more, faultVars>>

(* The first page asks for ts >= watermark: every key comes after 0.       *)
ChooseWatermark(p) ==
  /\ pc[p] = "choose"
  /\ ~MustRebuild
  /\ FingerprintDiffers(p) => TombstonePresent
  /\ Goto(p, "read")
  /\ cursorKey' = [cursorKey EXCEPT ![p] = 0]
  /\ cursorTs' = [cursorTs EXCEPT ![p] = watermark]
  /\ UNCHANGED <<sourceVars, copyVars, lock, mode, jobSchema, page, more, faultVars>>

-----------------------------------------------------------------------------
(* rebuildTable: four statements, each of which readers and faults can see. *)

(* Mutant of DropView: the table goes first, the view after it.             *)
DropTableFirst(p) ==
  /\ pc[p] = "dropView"
  /\ rawUp' = FALSE
  /\ raw' = [k \in Key |-> NoEntry]
  /\ Goto(p, "dropRaw")
  /\ UNCHANGED <<sourceVars, viewUp, rawSchema, watermark, lock, mode, jobSchema,
                 cursorVars, page, more, faultVars>>

DropView(p) ==
  /\ pc[p] = "dropView"
  /\ viewUp' = FALSE
  /\ Goto(p, "dropRaw")
  /\ UNCHANGED <<sourceVars, rawUp, rawSchema, raw, watermark, lock, mode, jobSchema,
                 cursorVars, page, more, faultVars>>

DropRaw(p) ==
  /\ pc[p] = "dropRaw"
  /\ rawUp' = FALSE
  /\ raw' = [k \in Key |-> NoEntry]
  /\ Goto(p, "createRaw")
  /\ UNCHANGED <<sourceVars, viewUp, rawSchema, watermark, lock, mode, jobSchema,
                 cursorVars, page, more, faultVars>>

CreateRaw(p) ==
  /\ pc[p] = "createRaw"
  /\ rawUp' = TRUE
  /\ rawSchema' = jobSchema[p]
  /\ Goto(p, "createView")
  /\ UNCHANGED <<sourceVars, viewUp, raw, watermark, lock, mode, jobSchema,
                 cursorVars, page, more, faultVars>>

CreateView(p) ==
  /\ pc[p] = "createView"
  /\ viewUp' = TRUE
  /\ Goto(p, "read")
  /\ UNCHANGED <<sourceVars, rawUp, rawSchema, raw, watermark, lock, mode, jobSchema,
                 cursorVars, page, more, faultVars>>

-----------------------------------------------------------------------------
(* Streaming.  streamTableData pages by primary key, streamIncrementalData  *)
(* by (timestamp, primary key); both ask for the rows after the last one.   *)

After(p, k) ==
  IF mode[p] = "full"
    THEN cursorKey[p] < k
    ELSE \/ cursorTs[p] < mysql[k].ts
         \/ cursorTs[p] = mysql[k].ts /\ cursorKey[p] < k

Before(p, j, k) ==
  IF mode[p] = "full"
    THEN j < k
    ELSE \/ mysql[j].ts < mysql[k].ts
         \/ mysql[j].ts = mysql[k].ts /\ j < k

Limit(p) == IF mode[p] = "full" THEN FullBatch ELSE IncrBatch

Pending(p) == {k \in Key : Present(k) /\ After(p, k)}

(* SELECT ... ORDER BY ... LIMIT n: the n first of the rows asked for, or   *)
(* all of them when there are fewer.                                       *)
IsPage(p, S) ==
  /\ \A k \in S : \A j \in Pending(p) : Before(p, j, k) => j \in S
  /\ Cardinality(S) <= Limit(p)
  /\ Cardinality(S) < Limit(p) => S = Pending(p)

ReadPage(p) ==
  /\ pc[p] = "read"
  /\ \E S \in SUBSET Pending(p) :
       /\ IsPage(p, S)
       /\ page' = [page EXCEPT ![p] = [k \in Key |-> IF k \in S THEN mysql[k] ELSE NoRow]]
       /\ more' = [more EXCEPT ![p] = (Cardinality(S) = Limit(p))]
       /\ \/ /\ S = {}
             /\ Goto(p, "save")
             /\ UNCHANGED cursorVars
          \/ \E last \in S :
               /\ \A k \in S : k = last \/ Before(p, k, last)
               /\ cursorKey' = [cursorKey EXCEPT ![p] = last]
               /\ cursorTs' = [cursorTs EXCEPT ![p] = mysql[last].ts]
               /\ Goto(p, "insert")
  /\ UNCHANGED <<sourceVars, copyVars, lock, mode, jobSchema, faultVars>>

InsertPage(p) ==
  /\ pc[p] = "insert"
  /\ raw' = [k \in Key |-> IF page[p][k] # NoRow
                             THEN [ver |-> page[p][k].ver, dead |-> FALSE]
                             ELSE raw[k]]
  /\ page' = [page EXCEPT ![p] = EmptyPage]
  /\ Goto(p, IF more[p] THEN "read" ELSE "save")
  /\ UNCHANGED <<sourceVars, viewUp, rawUp, rawSchema, watermark, lock, mode, jobSchema,
                 cursorVars, more, faultVars>>

(* Mutants of SaveWatermark: the time of the sync instead of the last row's; *)
(* one unit less, to overlap with the next sync.                           *)
SaveNow(p) ==
  /\ pc[p] = "save"
  /\ watermark' = IF Timestamped THEN clock ELSE NoTime
  /\ Goto(p, "log")
  /\ UNCHANGED <<sourceVars, viewUp, rawUp, rawSchema, raw, lock, mode, jobSchema,
                 cursorVars, page, more, faultVars>>
SaveWithOverlap(p) ==
  /\ pc[p] = "save"
  /\ watermark' = IF Timestamped THEN cursorTs[p] - 1 ELSE NoTime
  /\ Goto(p, "log")
  /\ UNCHANGED <<sourceVars, viewUp, rawUp, rawSchema, raw, lock, mode, jobSchema,
                 cursorVars, page, more, faultVars>>

(* The watermark is the timestamp of the last row streamed, whichever the   *)
(* streaming order was; with no row streamed, what the cursor started from. *)
SaveWatermark(p) ==
  /\ pc[p] = "save"
  /\ watermark' = IF Timestamped THEN cursorTs[p] ELSE NoTime
  /\ Goto(p, "log")
  /\ UNCHANGED <<sourceVars, viewUp, rawUp, rawSchema, raw, lock, mode, jobSchema,
                 cursorVars, page, more, faultVars>>

WriteSyncLog(p) ==
  /\ pc[p] = "log"
  /\ lock' = FALSE
  /\ EndJob(p)
  /\ UNCHANGED <<sourceVars, copyVars, faultVars>>

-----------------------------------------------------------------------------
(* Failures.  An await of the try block rejects: the catch reports, the     *)
(* finally releases the lock, and nothing that was done is undone.          *)

Streaming(p) == mode[p] = "full" /\ pc[p] \in {"read", "insert", "save"}

CountFault(atRisk) ==
  IF atRisk
    THEN /\ rebuildFaults < MaxRebuildFaults
         /\ rebuildFaults' = rebuildFaults + 1
         /\ UNCHANGED otherFaults
    ELSE /\ otherFaults < MaxOtherFaults
         /\ otherFaults' = otherFaults + 1
         /\ UNCHANGED rebuildFaults

SyncFails(p) ==
  /\ pc[p] \notin {"idle", "schema"}
  /\ CountFault(Streaming(p))
  /\ lock' = FALSE
  /\ EndJob(p)
  /\ UNCHANGED <<sourceVars, copyVars>>

(* The server process dies and starts again: locks and jobs were in memory. *)
Restart ==
  /\ \E p \in Proc : pc[p] # "idle"
  /\ CountFault(\E p \in Proc : Streaming(p))
  /\ lock' = FALSE
  /\ pc' = [p \in Proc |-> "idle"]
  /\ mode' = [p \in Proc |-> "none"]
  /\ jobSchema' = [p \in Proc |-> 0]
  /\ cursorKey' = [p \in Proc |-> 0]
  /\ cursorTs' = [p \in Proc |-> NoTime]
  /\ page' = [p \in Proc |-> EmptyPage]
  /\ more' = [p \in Proc |-> FALSE]
  /\ UNCHANGED <<sourceVars, copyVars>>

-----------------------------------------------------------------------------
(* One turn of a running sync.                                             *)
SyncStep(p) ==
  \/ ReadSchema(p)
  \/ ChooseRebuild(p) \/ ChooseWatermark(p)
  \/ DropView(p) \/ DropRaw(p) \/ CreateRaw(p) \/ CreateView(p)
  \/ ReadPage(p) \/ InsertPage(p)
  \/ SaveWatermark(p) \/ WriteSyncLog(p)

Next ==
  \/ Source
  \/ \E p \in Proc :
       \/ \E request \in Request : Acquire(p, request)
       \/ SyncStep(p)
       \/ SchemaFails(p)
       \/ SyncFails(p)
  \/ Restart

Spec == Init /\ [][Next]_vars

-----------------------------------------------------------------------------
(* Properties.                                                             *)

(* Everything MySQL holds below the watermark has reached <t>__raw: the     *)
(* incremental sync never asks for those rows again.                       *)
Covered ==
  \A k \in Key : Present(k) /\ mysql[k].ts < watermark
                   => raw[k] = [ver |-> mysql[k].ver, dead |-> FALSE]

(* A full sync is between dropping <t>__raw and storing its watermark.      *)
Rebuilding(p) == pc[p] \in {"createRaw", "createView"} \/ Streaming(p)

(* No row is lost (clickhouseSyncService.ts, both perform* methods): while  *)
(* the view can be read and no rebuild is on, a row the view does not show  *)
(* with its current version is one the next incremental sync will read.     *)
NoLostRows == viewUp /\ (\A p \in Proc : ~Rebuilding(p)) => Covered

(* Outside a rebuild the copy of a key never goes back to an older version: *)
(* two syncs of the table never overlap, so no stale page overwrites a      *)
(* newer one.                                                              *)
NoRegression ==
  [][rawUp /\ rawUp' => \A k \in Key : raw'[k].ver >= raw[k].ver]_vars

(* Only a full sync can lose rows: whatever happens in between, failures    *)
(* and restarts included, a step that neither drops <t>__raw nor stores the *)
(* watermark of a full sync keeps coverage.                                *)
IncrementalKeepsCoverage ==
  [][/\ Covered
     /\ rawUp => rawUp'
     /\ ~ \E p \in Proc : mode[p] = "full" /\ pc[p] = "save"
     => Covered']_vars

(* The rows a sync inserts have the columns <t>__raw was created with, also  *)
(* when the table is altered between two syncs, under one, or between the   *)
(* drop and the create of a rebuild: the fingerprint of any stored row tells.  *)
PagesFit == \A p \in Proc : pc[p] = "insert" => rawSchema = jobSchema[p]

(* The projection view never outlives the table it selects from.           *)
ViewOverTable == viewUp => rawUp
=============================================================================
