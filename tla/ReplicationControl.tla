------------------------- MODULE ReplicationControl -------------------------
(***************************************************************************)
(* Starting and stopping the replication of one database: the handlers of   *)
(* server.ts, ReplicationCoordinator, BootstrapService (Phase 1), and the   *)
(* life cycle of the poller, of the binlog tailer and of PeerDB's mirrors   *)
(* (Phase 2).                                                              *)
(*                                                                         *)
(* Every HTTP request, the background start of a new database and the start *)
(* at boot is a command; a step is the code between two awaits.  What the   *)
(* poller, the tailer and a sync do is in the modules PolledReplication,    *)
(* TailedReplication and TableReplication: here a table is copied in one    *)
(* go, or not.  PeerDB and MySQL are external.                             *)
(***************************************************************************)
EXTENDS Integers, FiniteSets

CONSTANTS
  Table,        (* the tables of the source database                             *)
  Command,      (* commands in progress at the same time                         *)
  Kinds,        (* which commands are given: see Start, and "stop", "mode", "delete" *)
  Modes,        (* replication modes an operator chooses; "auto" unsets it       *)
  Sources,      (* what a probe may find: "full" binlogs, "rows" without their    *)
                (* metadata, "none" (also when the probe or the grants fail)     *)
  Careful,      (* stop, mode and delete are given when nothing else is in       *)
                (* progress, and the mode changes only while nothing runs        *)
  Faults,       (* which failures occur: "list", "dump", "checkpoint", "lookup", *)
                (* "create", "crash"                                             *)
  MaxFaults,    (* bound: how many of them                                       *)
  MaxCommands   (* bound: how many commands                                      *)

(* Commands that load the tables and start Phase 2: auto-bootstrap, POST    *)
(* /cdc/start, POST /bootstrap with its two flags, the restore at boot.     *)
Start == {"auto", "start", "force", "resume", "boot"}
Mode  == {"peerdb", "polling", "none"}

ASSUME ControlAssumption ==
  /\ IsFiniteSet(Table) /\ Table \subseteq Nat \ {0}
  /\ Kinds \subseteq Start \cup {"stop", "mode", "delete"}
  /\ Modes \subseteq Mode \cup {"auto"}
  /\ Sources \subseteq {"full", "rows", "none"} /\ Sources # {}
  /\ Careful \in BOOLEAN
  /\ Faults \subseteq {"list", "dump", "checkpoint", "lookup", "create", "crash"}
  /\ {MaxFaults, MaxCommands} \subseteq Nat

VARIABLES
  (* databases.json *)
  registered,   (* the database is in it                                       *)
  chosen,       (* replicationMode, "auto" when there is none                  *)
  enabled,      (* cdcEnabled                                                  *)
  status,       (* bootstrap.status                                            *)
  progress,     (* bootstrap.tableProgress                                     *)
  (* ClickHouse and PeerDB *)
  layout,       (* "none", "polled" (<t>__raw and its view, loaded), "mirrored" *)
  mirror,       (* "none", "running", "paused"                                 *)
  (* memory of the server *)
  cmd,          (* the commands in progress                                    *)
  run,          (* BootstrapService.inFlight                                   *)
  running,      (* the service considers itself running                        *)
  live,         (* how many timers / binlog streams of the service exist       *)
  held,         (* its current instance can stop one of them                   *)
  gen,          (* counts its instances (closeInstance drops one)              *)
  booting,      (* the server has not looked at databases.json yet             *)
  (* history and bounds *)
  wanted,       (* no stop was carried out since the last start                *)
  handed,       (* tables that were handed over to PeerDB                      *)
  faults, given

configVars  == <<registered, chosen, enabled, status, progress>>
dataVars    == <<layout, mirror>>
serviceVars == <<running, live, held, gen>>
historyVars == <<wanted, handed>>
controlVars == <<registered, chosen, enabled, status, progress, layout, mirror, cmd, run,
                 running, live, held, gen, booting, wanted, handed, faults, given>>

Service == {"poller", "tailer"}
NoTable == 0
NoCommand == [kind |-> "none", at |-> "idle", mode |-> "none", todo |-> {},
              table |-> NoTable, gen |-> 0]
NoRun     == [at |-> "none", resuming |-> FALSE, todo |-> {}, table |-> NoTable,
              done |-> {}, failed |-> {}]
Progress  == {"none", "pending", "in_progress", "completed", "failed"}

ControlTypeOK ==
  /\ {registered, enabled, booting, wanted} \subseteq BOOLEAN
  /\ chosen \in Mode \cup {"auto"}
  /\ status \in Progress
  /\ progress \in [Table -> Progress]
  /\ layout \in [Table -> {"none", "polled", "mirrored"}]
  /\ mirror \in [Table -> {"none", "running", "paused"}]
  /\ cmd \in [Command ->
       [kind : Kinds \cup {"none", "boot"},
        at   : {"idle", "probe", "position", "clean", "attach", "join", "waiting", "phase2",
                "cycle", "tailer", "stream", "commit", "stop", "pause", "close"},
        mode : Mode \cup {"auto"}, todo : SUBSET Table,
        table : Table \cup {NoTable}, gen : Nat]]
  /\ run \in [at : {"none", "list", "next", "copying"}, resuming : BOOLEAN,
              todo : SUBSET Table, table : Table \cup {NoTable}, done : SUBSET Table, failed : SUBSET Table]
  /\ running \in [Service -> BOOLEAN]
  /\ live \in [Service -> Nat]
  /\ held \in [Service -> BOOLEAN]
  /\ gen \in [Service -> Nat]
  /\ handed \subseteq Table
  /\ faults \in 0 .. MaxFaults /\ given \in 0 .. MaxCommands

ControlInit ==
  /\ registered = TRUE
  /\ chosen = "auto"
  /\ enabled = FALSE
  /\ status = "none"
  /\ progress = [t \in Table |-> "none"]
  /\ layout = [t \in Table |-> "none"]
  /\ mirror = [t \in Table |-> "none"]
  /\ cmd = [c \in Command |-> NoCommand]
  /\ run = NoRun
  /\ running = [s \in Service |-> FALSE]
  /\ live = [s \in Service |-> 0]
  /\ held = [s \in Service |-> FALSE]
  /\ gen = [s \in Service |-> 0]
  /\ booting = FALSE
  /\ wanted = FALSE
  /\ handed = {}
  /\ faults = 0
  /\ given = 0

Idle == \A c \in Command : cmd[c].at = "idle"
NothingRuns == /\ \A s \in Service : live[s] = 0
               /\ \A t \in Table : mirror[t] # "running"

Fault(kind) ==
  /\ kind \in Faults
  /\ faults < MaxFaults
  /\ faults' = faults + 1

Move(c, await) == cmd' = [cmd EXCEPT ![c].at = await]
Finish(c)      == cmd' = [cmd EXCEPT ![c] = NoCommand]

-----------------------------------------------------------------------------
(* A command is given.                                                     *)

(* The port is opened when the restore at boot has ended.                  *)
Listening == ~booting /\ \A c \in Command : cmd[c].kind # "boot"

Give(c, kind) ==
  /\ Listening
  /\ registered
  /\ cmd[c].at = "idle"
  /\ given < MaxCommands
  /\ given' = given + 1
  /\ Careful => IF kind \in {"stop", "delete"}
                  THEN Idle
                  ELSE \A d \in Command : cmd[d].kind \notin {"stop", "delete"}
  /\ UNCHANGED <<configVars, dataVars, run, serviceVars, booting, handed, faults>>

GiveStart(c) ==
  \E kind \in Kinds \cap (Start \ {"boot"}) :
    /\ Give(c, kind)
    /\ cmd' = [cmd EXCEPT ![c] = [NoCommand EXCEPT !.kind = kind, !.at = "probe"]]
    /\ wanted' = TRUE

GiveStop(c) ==
  /\ "stop" \in Kinds
  /\ Give(c, "stop")
  /\ cmd' = [cmd EXCEPT ![c] = [NoCommand EXCEPT !.kind = "stop", !.at = "stop"]]
  /\ UNCHANGED wanted

GiveDelete(c) ==
  /\ "delete" \in Kinds
  /\ Give(c, "delete")
  /\ cmd' = [cmd EXCEPT ![c] = [NoCommand EXCEPT !.kind = "delete", !.at = "stop"]]
  /\ UNCHANGED wanted

(* PUT /replication-mode only writes the choice down; it does not wait.    *)
SetMode ==
  /\ "mode" \in Kinds
  /\ Listening /\ registered
  /\ given < MaxCommands
  /\ Careful => Idle /\ NothingRuns
  /\ chosen' \in Modes
  /\ given' = given + 1
  /\ UNCHANGED <<registered, enabled, status, progress, dataVars, cmd, run, serviceVars,
                 booting, historyVars, faults>>

-----------------------------------------------------------------------------
(* bootstrapAndStart.                                                      *)

(* PeerDB needs row events with full images and metadata, and grants.       *)
Recommended(source) == IF source = "full" THEN "peerdb" ELSE "polling"

(* detectMode: the probe's advice is written down unless a mode is chosen.  *)
(* A command whose database is gone by now throws.                         *)
Probe(c) ==
  /\ cmd[c].at = "probe"
  /\ IF ~registered
       THEN Finish(c) /\ UNCHANGED chosen
       ELSE \E source \in Sources :
              LET mode == IF chosen = "auto" THEN Recommended(source) ELSE chosen
              IN  /\ chosen' = mode
                  /\ cmd' = [cmd EXCEPT ![c].mode = mode,
                                        ![c].at = IF mode = "peerdb" THEN "position" ELSE "join"]
  /\ UNCHANGED <<registered, enabled, status, progress, dataVars, run, serviceVars, booting,
                 historyVars, faults, given>>

(* PeerDB loads the tables itself: Phase 1 is called completed beforehand.  *)
RecordPosition(c) ==
  /\ cmd[c].at = "position"
  /\ status' = IF registered THEN "completed" ELSE status
  /\ handed' = Table
  /\ cmd' = [cmd EXCEPT ![c].at = "clean", ![c].todo = Table]
  /\ UNCHANGED <<registered, chosen, enabled, progress, dataVars, run, serviceVars, booting,
                 wanted, faults, given>>

(* startPhase2, per table: whatever is in its place is dropped.            *)
CleanTable(c, t) ==
  /\ cmd[c].at = "clean"
  /\ t \in cmd[c].todo
  /\ layout' = [layout EXCEPT ![t] = "none"]
  /\ cmd' = [cmd EXCEPT ![c].at = "attach", ![c].todo = @ \ {t},
                        ![c].table = t]
  /\ UNCHANGED <<configVars, mirror, run, serviceVars, booting, historyVars, faults, given>>

(* The mirror is resumed, which loads nothing, or created, which takes a    *)
(* snapshot; a mirror the status lookup missed is "already there".         *)
AttachMirror(c) ==
  LET t == cmd[c].table
      found == mirror[t] # "none"
      next == IF cmd[c].todo = {} THEN "commit" ELSE "clean"
  IN  /\ cmd[c].at = "attach"
      /\ \/ /\ found
            /\ mirror' = [mirror EXCEPT ![t] = "running"]
            /\ UNCHANGED <<layout, faults>>
         \/ /\ found /\ Fault("lookup")
            /\ UNCHANGED dataVars
         \/ /\ ~found
            /\ mirror' = [mirror EXCEPT ![t] = "running"]
            /\ layout' = [layout EXCEPT ![t] = "mirrored"]
            /\ UNCHANGED faults
      /\ cmd' = [cmd EXCEPT ![c].at = next, ![c].table = NoTable]
      /\ UNCHANGED <<configVars, run, serviceVars, booting, historyVars, given>>

(* createMirror gives up: the command fails, the other tables are left.    *)
CreateFails(c) ==
  /\ cmd[c].at = "attach"
  /\ mirror[cmd[c].table] = "none"
  /\ Fault("create")
  /\ Finish(c)
  /\ UNCHANGED <<configVars, dataVars, run, serviceVars, booting, historyVars, given>>

-----------------------------------------------------------------------------
(* BootstrapService.run.  A run in flight is joined, whatever its options.  *)

AlreadyLoaded(c) == status = "completed" /\ cmd[c].kind \notin {"force", "resume"}

JoinRun(c) ==
  /\ cmd[c].at = "join"
  /\ run.at # "none" \/ (registered /\ ~AlreadyLoaded(c))
  /\ Move(c, "waiting")
  /\ run' = IF run.at # "none" THEN run
             ELSE [NoRun EXCEPT !.at = "list",
                                !.resuming = cmd[c].kind = "resume" /\ status # "completed"]
  /\ UNCHANGED <<configVars, dataVars, serviceVars, booting, historyVars, faults, given>>

(* Phase 1 was completed earlier, or the database is gone.                 *)
JoinNeedless(c) ==
  /\ cmd[c].at = "join"
  /\ run.at = "none"
  /\ \/ registered /\ AlreadyLoaded(c) /\ Move(c, "phase2")
     \/ ~registered /\ Finish(c)
  /\ UNCHANGED <<configVars, dataVars, run, serviceVars, booting, historyVars, faults, given>>

(* Mutant of RunSettles: who joined is forgotten.                           *)
RunSettlesOne(await) ==
  /\ \E c \in Command :
       /\ cmd[c].at = "waiting"
       /\ cmd' = [cmd EXCEPT ![c] = IF await = "idle" THEN NoCommand ELSE [@ EXCEPT !.at = await]]
  /\ run' = NoRun

(* Every caller that joined gets the same outcome.                         *)
RunSettles(await) ==
  /\ cmd' = [c \in Command |->
               IF cmd[c].at # "waiting" THEN cmd[c]
               ELSE IF await = "idle" THEN NoCommand ELSE [cmd[c] EXCEPT !.at = await]]
  /\ run' = NoRun

(* The progress of a database that was removed is not written.             *)
Note(t, state) ==
  progress' = IF registered THEN [progress EXCEPT ![t] = state] ELSE progress

Completed == {t \in Table : progress[t] = "completed"}

RunLists ==
  /\ run.at = "list"
  /\ LET kept == IF run.resuming THEN Completed ELSE {}
     IN  /\ run' = [run EXCEPT !.at = "next", !.todo = Table \ kept, !.done = kept]
         /\ status' = IF registered THEN "in_progress" ELSE status
         /\ progress' = IF ~registered THEN progress
                        ELSE [t \in Table |->
                                IF run.resuming /\ progress[t] # "none" THEN progress[t]
                                ELSE "pending"]
  /\ UNCHANGED <<registered, chosen, enabled, dataVars, cmd, serviceVars, booting, historyVars,
                 faults, given>>

(* getTables rejects: persistFailure, and every caller gets the error.     *)
ListFails ==
  /\ run.at = "list"
  /\ Fault("list")
  /\ status' = IF registered THEN "failed" ELSE status
  /\ RunSettles("idle")
  /\ UNCHANGED <<registered, chosen, enabled, progress, dataVars, serviceVars, booting,
                 historyVars, given>>

(* forceFullSyncTable begins by dropping what is there.                    *)
CopyTable(t) ==
  /\ run.at = "next"
  /\ t \in run.todo
  /\ Note(t, "in_progress")
  /\ layout' = [layout EXCEPT ![t] = "none"]
  /\ run' = [run EXCEPT !.at = "copying", !.table = t]
  /\ UNCHANGED <<registered, chosen, enabled, status, mirror, cmd, serviceVars, booting,
                 historyVars, faults, given>>

CopyEnds ==
  LET t == run.table
  IN  /\ run.at = "copying"
      /\ \/ /\ layout' = [layout EXCEPT ![t] = "polled"]
            /\ Note(t, "completed")
            /\ run' = [run EXCEPT !.at = "next", !.todo = @ \ {t}, !.done = @ \cup {t},
                                  !.table = NoTable]
            /\ UNCHANGED faults
         \/ /\ Fault("dump")
            /\ Note(t, "failed")
            /\ run' = [run EXCEPT !.at = "next", !.todo = @ \ {t}, !.failed = @ \cup {t},
                                  !.table = NoTable]
            /\ UNCHANGED layout
      /\ UNCHANGED <<registered, chosen, enabled, status, mirror, cmd, serviceVars, booting,
                     historyVars, given>>

(* Mutant of RunEnds: what would be "partial" is written as "completed".    *)
RunEndsPartly ==
  /\ run.at = "next"
  /\ run.todo = {}
  /\ status' = IF ~registered THEN status
               ELSE IF run.failed = {} \/ run.done # {} THEN "completed" ELSE "failed"
  /\ RunSettles(IF run.failed # {} /\ run.done = {} THEN "commit" ELSE "phase2")
  /\ UNCHANGED <<registered, chosen, enabled, progress, dataVars, serviceVars, booting,
                 historyVars, faults, given>>

(* The status in databases.json has no "partial": it is "failed" as soon as *)
(* one table did; Phase 2 starts as soon as one table did not.             *)
RunEnds ==
  /\ run.at = "next"
  /\ run.todo = {}
  /\ status' = IF ~registered THEN status
               ELSE IF run.failed = {} THEN "completed" ELSE "failed"
  /\ RunSettles(IF run.failed # {} /\ run.done = {} THEN "commit" ELSE "phase2")
  /\ UNCHANGED <<registered, chosen, enabled, progress, dataVars, serviceVars, booting,
                 historyVars, faults, given>>

-----------------------------------------------------------------------------
(* startPhase2 in polling mode.  A service that considers itself running is *)
(* left alone; the others get their timer, or stream, after another await.  *)

Enter(c, s, started, skipped) ==
  IF running[s]
    THEN Move(c, skipped) /\ UNCHANGED running
    ELSE /\ running' = [running EXCEPT ![s] = TRUE]
         /\ cmd' = [cmd EXCEPT ![c].at = started, ![c].gen = gen[s]]

(* A handle that is overwritten, or belongs to a dropped instance, is lost.  *)
Install(c, s) ==
  /\ live' = [live EXCEPT ![s] = @ + 1]
  /\ held' = [held EXCEPT ![s] = @ \/ cmd[c].gen = gen[s]]

(* loadCheckpoint is awaited before the poller looks at isRunning.         *)
StartPoller(c) ==
  /\ cmd[c].at = "phase2"
  /\ IF cmd[c].mode = "none"
       THEN Move(c, "commit") /\ UNCHANGED running
       ELSE Enter(c, "poller", "cycle", "tailer")
  /\ UNCHANGED <<configVars, dataVars, run, live, held, gen, booting, historyVars, faults, given>>

CheckpointFails(c) ==
  /\ cmd[c].at = "phase2"
  /\ cmd[c].mode # "none"
  /\ Fault("checkpoint")
  /\ Finish(c)
  /\ UNCHANGED <<configVars, dataVars, run, serviceVars, booting, historyVars, given>>

FirstCycleEnds(c) ==
  /\ cmd[c].at = "cycle"
  /\ Install(c, "poller")
  /\ Move(c, "tailer")
  /\ UNCHANGED <<configVars, dataVars, run, running, gen, booting, historyVars, faults, given>>

(* maybeStartCdcLite probes again.                                         *)
StartTailer(c) ==
  /\ cmd[c].at = "tailer"
  /\ \E source \in Sources :
       IF source = "none"
         THEN Move(c, "commit") /\ UNCHANGED running
         ELSE Enter(c, "tailer", "stream", "commit")
  /\ UNCHANGED <<configVars, dataVars, run, live, held, gen, booting, historyVars, faults, given>>

TailerConnects(c) ==
  /\ cmd[c].at = "stream"
  /\ Install(c, "tailer")
  /\ Move(c, "commit")
  /\ UNCHANGED <<configVars, dataVars, run, running, gen, booting, historyVars, faults, given>>

(* Only POST /cdc/start persists that replication is to be restored.       *)
CommitStart(c) ==
  /\ cmd[c].at = "commit"
  /\ cmd[c].kind \in Start
  /\ enabled' = (enabled \/ (registered /\ cmd[c].kind = "start"))
  /\ Finish(c)
  /\ UNCHANGED <<registered, chosen, status, progress, dataVars, run, serviceVars, booting,
                 historyVars, faults, given>>

-----------------------------------------------------------------------------
(* stopCdc and deleteDatabase.                                             *)

Halt(s) ==
  /\ live' = [live EXCEPT ![s] = IF held[s] THEN @ - 1 ELSE @]
  /\ held' = [held EXCEPT ![s] = FALSE]
  /\ running' = [running EXCEPT ![s] = FALSE]

(* stopPhase2 stops the back end of the mode that is configured now.       *)
StopPoller(c) ==
  /\ cmd[c].at = "stop"
  /\ IF cmd[c].kind = "delete" \/ chosen \in {"auto", "polling"}
       THEN /\ Halt("poller")
            /\ gen' = IF cmd[c].kind = "delete" THEN [gen EXCEPT !["poller"] = @ + 1] ELSE gen
            /\ Move(c, "close")
       ELSE /\ cmd' = [cmd EXCEPT ![c].at = IF chosen = "peerdb" THEN "pause" ELSE "commit",
                                  ![c].todo = Table]
            /\ UNCHANGED serviceVars
  /\ UNCHANGED <<configVars, dataVars, run, booting, historyVars, faults, given>>

(* Mutant of CloseTailer: the tailer is left to stop with the poller.       *)
LeaveTailer(c) ==
  /\ cmd[c].at = "close"
  /\ Move(c, "commit")
  /\ UNCHANGED <<configVars, dataVars, run, serviceVars, booting, historyVars, faults, given>>

CloseTailer(c) ==
  /\ cmd[c].at = "close"
  /\ Halt("tailer")
  /\ gen' = [gen EXCEPT !["tailer"] = @ + 1]
  /\ Move(c, "commit")
  /\ UNCHANGED <<configVars, dataVars, run, booting, historyVars, faults, given>>

(* A mirror that cannot be paused is skipped.                              *)
PauseMirrors(c) ==
  /\ cmd[c].at = "pause"
  /\ mirror' = [t \in Table |-> IF mirror[t] = "running" THEN "paused" ELSE mirror[t]]
  /\ Move(c, "commit")
  /\ UNCHANGED <<configVars, layout, run, serviceVars, booting, historyVars, faults, given>>

CommitStop(c) ==
  /\ cmd[c].at = "commit"
  /\ cmd[c].kind = "stop"
  /\ enabled' = FALSE
  /\ wanted' = FALSE
  /\ Finish(c)
  /\ UNCHANGED <<registered, chosen, status, progress, dataVars, run, serviceVars, booting,
                 handed, faults, given>>

(* The configuration goes last, with everything written in it.             *)
CommitDelete(c) ==
  /\ cmd[c].at = "commit"
  /\ cmd[c].kind = "delete"
  /\ registered' = FALSE
  /\ Finish(c)
  /\ UNCHANGED <<chosen, enabled, status, progress, dataVars, run, serviceVars, booting,
                 historyVars, faults, given>>

-----------------------------------------------------------------------------
(* The server dies and starts again: only databases.json survives.         *)

Crash ==
  /\ Fault("crash")
  /\ cmd' = [c \in Command |-> NoCommand]
  /\ run' = NoRun
  /\ running' = [s \in Service |-> FALSE]
  /\ live' = [s \in Service |-> 0]
  /\ held' = [s \in Service |-> FALSE]
  /\ gen' = [s \in Service |-> 0]
  /\ booting' = TRUE
  /\ UNCHANGED <<configVars, dataVars, historyVars, given>>

(* Mutant of Boot: replication that was on is not restored.                 *)
BootIdle ==
  /\ booting /\ Idle
  /\ booting' = FALSE
  /\ UNCHANGED <<configVars, dataVars, cmd, run, serviceVars, historyVars, faults, given>>

(* start: the port is opened only when the restore has ended, either way.  *)
Boot ==
  /\ booting /\ Idle
  /\ IF registered /\ enabled
       THEN /\ \E c \in Command :
                 cmd' = [cmd EXCEPT ![c] = [NoCommand EXCEPT !.kind = "boot", !.at = "probe"]]
       ELSE UNCHANGED cmd
  /\ booting' = FALSE
  /\ UNCHANGED <<configVars, dataVars, run, serviceVars, historyVars, faults, given>>

-----------------------------------------------------------------------------
(* Every await settles.                                                    *)
StartStep(c) ==
  \/ Probe(c)
  \/ RecordPosition(c) \/ (\E t \in Table : CleanTable(c, t)) \/ AttachMirror(c)
  \/ JoinRun(c) \/ JoinNeedless(c)
  \/ StartPoller(c) \/ FirstCycleEnds(c) \/ StartTailer(c) \/ TailerConnects(c)
  \/ CommitStart(c)

StopStep(c) ==
  StopPoller(c) \/ CloseTailer(c) \/ PauseMirrors(c) \/ CommitStop(c) \/ CommitDelete(c)

RunStep == RunLists \/ (\E t \in Table : CopyTable(t)) \/ CopyEnds \/ RunEnds

ControlNext ==
  \/ \E c \in Command :
       \/ GiveStart(c) \/ GiveStop(c) \/ GiveDelete(c)
       \/ StartStep(c) \/ StopStep(c)
       \/ CreateFails(c) \/ CheckpointFails(c)
  \/ SetMode
  \/ RunStep \/ ListFails
  \/ Crash \/ Boot

ControlSpec ==
  /\ ControlInit /\ [][ControlNext]_controlVars
  /\ \A c \in Command : WF_controlVars(StartStep(c) \/ StopStep(c))
  /\ WF_controlVars(RunStep)
  /\ WF_controlVars(Boot)

-----------------------------------------------------------------------------
(* Properties.                                                             *)

(* A table that bootstrap.tableProgress calls completed is in ClickHouse,    *)
(* loaded, whatever was joined, resumed, forced or interrupted: a resumed    *)
(* bootstrap skips it.  So is every table once the bootstrap is completed.  *)
(* PeerDB's tables are its own affair.                                     *)
ProgressIsTrue ==
  \A t \in Table \ handed :
    registered /\ "completed" \in {status, progress[t]} => layout[t] = "polled"

(* Once a stop, or the deletion of the database, is carried out and nothing  *)
(* new is started, no timer, no binlog stream and no mirror of it is left.  *)
StoppedIsStopped ==
  Idle => /\ ~wanted => NothingRuns
          /\ ~registered => \A s \in Service : live[s] = 0

(* There is one poll timer and one binlog stream at most, however many       *)
(* commands start them at the same time.                                   *)
OneOfEach == \A s \in Service : live[s] <= 1

(* Every command is answered: a caller that joined a run gets its outcome.  *)
CommandsEnd == \A c \in Command : cmd[c].at # "idle" ~> cmd[c].at = "idle"

(* After a restart of the server, replication that was on is on again, if    *)
(* nothing fails from the restart on.                                      *)
RestoredAtBoot ==
  booting /\ faults = MaxFaults /\ registered /\ enabled /\ chosen = "polling"
    ~> ~booting /\ live["poller"] = 1

(* POST /cdc/start is idempotent: once Phase 1 is completed, the tables are  *)
(* there when no command is in progress.                                   *)
StartIsIdempotent ==
  Idle /\ registered /\ status = "completed" => \A t \in Table : layout[t] # "none"
=============================================================================
