---------------------- MODULE ReplicationControlProofs ----------------------
(* Theorems about ReplicationControl, for every set of tables and commands. *)
EXTENDS MCReplicationControl, TLAPS

(***************************************************************************)
(* The inductive invariant.                                                *)
(***************************************************************************)

Loading  == {"probe", "position", "clean", "attach", "join", "waiting", "phase2",
             "cycle", "tailer", "stream"}
Stopping == {"stop", "pause", "close"}
Stops    == {"stop", "delete"}

(* A command is at a step of its kind.                                      *)
CommandShape ==
  \A c \in Command :
    /\ cmd[c].at = "idle" <=> cmd[c].kind = "none"
    /\ cmd[c].at \in Loading => cmd[c].kind \in Start
    /\ cmd[c].at \in Stopping => cmd[c].kind \in Stops

(* The table being copied is one of those to do; done ones are not.         *)
RunShape ==
  /\ run.at = "copying" => run.table \in run.todo
  /\ run.todo \cap run.done = {}

(* What an instance can stop exists.                                        *)
HeldIsLive == \A s \in Service : held[s] => live[s] >= 1

(* While a run of Phase 1 goes on, each table is to do, done or failed, and *)
(* the done ones are there; only PeerDB's commands drop tables beside it.   *)
RunIsTrue ==
  /\ \A c \in Command : cmd[c].at \in {"clean", "attach"} => handed = Table
  /\ run.at \in {"next", "copying"} /\ registered =>
       \A t \in Table \ handed :
         /\ status # "completed"
         /\ t \in run.todo \cup run.done \cup run.failed
         /\ t \in run.done => layout[t] = "polled"

LoadInv == /\ ControlTypeOK /\ CommandShape /\ RunShape /\ HeldIsLive
           /\ RunIsTrue /\ ProgressIsTrue

(* A stop or a deletion is alone (Careful).                                 *)
StopsAlone ==
  \A c, d \in Command : cmd[c].kind \in Stops /\ cmd[d].at # "idle" => c = d

(* The step at which a command has started a service that has no timer, or  *)
(* stream, yet.                                                            *)
Starting(s) == IF s = "poller" THEN "cycle" ELSE "stream"

(* The flag isRunning admits one starter at a time, and what it starts      *)
(* belongs to the instance a stop will find.                               *)
OneStarter ==
  \A s \in Service :
    /\ live[s] <= 1 /\ (live[s] = 1 => held[s])
    /\ \A c \in Command : cmd[c].at = Starting(s) =>
         /\ running[s] /\ live[s] = 0 /\ cmd[c].gen = gen[s]
         /\ \A d \in Command : cmd[d].at = Starting(s) => c = d
    /\ ~running[s] => live[s] = 0

(* A command that has looked at the mode follows it.                        *)
Follows(command) ==
  /\ command.at \in {"position", "clean", "attach"} => chosen = "peerdb"
  /\ command.at \in {"join", "waiting", "phase2"} =>
       command.mode = chosen /\ chosen \in {"polling", "none"}
  /\ command.at \in {"cycle", "tailer", "stream"} => chosen = "polling"

(* What runs, or is about to, is what the chosen mode says.                 *)
ModeFits ==
  /\ \A s \in Service : live[s] > 0 => chosen = "polling"
  /\ \A t \in Table : mirror[t] = "running" => chosen = "peerdb"
  /\ \A c \in Command : Follows(cmd[c])

(* How far a stop has come.                                                 *)
StopProgress ==
  \A c \in Command :
    /\ cmd[c].at = "close" => live["poller"] = 0
    /\ cmd[c].at = "pause" => \A s \in Service : live[s] = 0
    /\ cmd[c].kind \in Stops /\ cmd[c].at = "commit" => \A s \in Service : live[s] = 0
    /\ cmd[c].kind = "stop" /\ cmd[c].at \in {"close", "commit"} =>
         \A t \in Table : mirror[t] # "running"

(* Only what is wanted is started or restored, and nothing is, of a         *)
(* database that is gone.                                                  *)
WantedOnly ==
  /\ enabled => wanted
  /\ \A c \in Command : cmd[c].kind \in Start => wanted
  /\ ~wanted => NothingRuns
  /\ ~registered => Idle /\ \A s \in Service : live[s] = 0

Orderly    == StopsAlone /\ OneStarter /\ ModeFits /\ StopProgress /\ WantedOnly
CarefulInv == LoadInv /\ Orderly

(***************************************************************************)
(* Type correctness.                                                       *)
(***************************************************************************)

Await        == {"idle", "probe", "position", "clean", "attach", "join", "waiting", "phase2",
                 "cycle", "tailer", "stream", "commit", "stop", "pause", "close"}
CommandState == [kind : Kinds \cup {"none", "boot"}, at : Await, mode : Mode \cup {"auto"},
                 todo : SUBSET Table, table : Table \cup {NoTable}, gen : Nat]
RunState     == [at : {"none", "list", "next", "copying"}, resuming : BOOLEAN,
                 todo : SUBSET Table, table : Table \cup {NoTable}, done : SUBSET Table,
                 failed : SUBSET Table]

(* The parts of the type, by the names used in the proofs.                  *)
LEMMA ControlTypes ==
  ControlTypeOK <=>
    /\ registered \in BOOLEAN /\ enabled \in BOOLEAN /\ booting \in BOOLEAN /\ wanted \in BOOLEAN
    /\ chosen \in Mode \cup {"auto"}
    /\ status \in Progress /\ progress \in [Table -> Progress]
    /\ layout \in [Table -> {"none", "polled", "mirrored"}]
    /\ mirror \in [Table -> {"none", "running", "paused"}]
    /\ cmd \in [Command -> CommandState]
    /\ run \in RunState
    /\ running \in [Service -> BOOLEAN] /\ held \in [Service -> BOOLEAN]
    /\ live \in [Service -> Nat] /\ gen \in [Service -> Nat]
    /\ handed \subseteq Table
    /\ faults \in 0 .. MaxFaults /\ given \in 0 .. MaxCommands
  BY DEF ControlTypeOK, CommandState, RunState, Await

(* Commands and runs at rest.                                               *)
LEMMA RestTypes ==
  /\ NoCommand \in CommandState
  /\ NoRun \in RunState
  /\ NoCommand.at = "idle" /\ NoCommand.kind = "none"
  BY DEF NoCommand, CommandState, NoRun, RunState, Await, Mode, NoTable

(* What a counted fault and a counted command leave of their bounds.        *)
LEMMA Bounds ==
  ASSUME ControlTypeOK
  PROVE  /\ \A kind : Fault(kind) => faults' \in 0 .. MaxFaults
         /\ given < MaxCommands => given + 1 \in 0 .. MaxCommands
  BY ControlAssumption DEF ControlTypeOK, Fault

(* Every step keeps commands and runs well typed.                           *)
LEMMA CommandTypeStep ==
  ASSUME ControlTypeOK, RunShape, [ControlNext]_controlVars
  PROVE  cmd' \in [Command -> CommandState] /\ run' \in RunState
<1>0. cmd \in [Command -> CommandState] /\ run \in RunState /\ gen \in [Service -> Nat]
  BY ControlTypes
<1> USE RestTypes DEF Await, Move, Finish
<1>1. ASSUME NEW c \in Command, GiveStart(c) \/ GiveStop(c) \/ GiveDelete(c)
      PROVE  cmd' \in [Command -> CommandState] /\ UNCHANGED run
  <2>1. \A kind \in Kinds \cup {"boot"} : \A at \in Await :
          [NoCommand EXCEPT !.kind = kind, !.at = at] \in CommandState
    BY DEF NoCommand, CommandState
  <2>2. \E kind \in Kinds \cup {"boot"} : \E at \in Await :
          cmd' = [cmd EXCEPT ![c] = [NoCommand EXCEPT !.kind = kind, !.at = at]]
    BY <1>1 DEF GiveStart, GiveStop, GiveDelete
  <2>3. QED
    BY <1>0, <1>1, <2>1, <2>2 DEF GiveStart, GiveStop, GiveDelete, Give
<1>2. ASSUME NEW c \in Command, Probe(c)
      PROVE  cmd' \in [Command -> CommandState] /\ UNCHANGED run
  <2>1. CASE Finish(c)
    BY <1>0, <1>2, <2>1 DEF Probe
  <2>2. ASSUME NEW mode \in Mode \cup {"auto"}, NEW at \in Await,
               cmd' = [cmd EXCEPT ![c].mode = mode, ![c].at = at]
        PROVE  cmd' \in [Command -> CommandState]
    <3>1. [cmd[c] EXCEPT !.mode = mode, !.at = at] \in CommandState
      BY <1>0 DEF CommandState
    <3>2. cmd' = [cmd EXCEPT ![c] = [cmd[c] EXCEPT !.mode = mode, !.at = at]]
      BY <1>0, <2>2
    <3>3. QED
      BY <1>0, <3>1, <3>2
  <2>3. chosen \in Mode \cup {"auto"} /\ \A source \in Sources : Recommended(source) \in Mode
    BY ControlTypes DEF Recommended, Mode
  <2>4. QED
    BY <1>2, <2>1, <2>2, <2>3 DEF Probe
<1>3. ASSUME NEW c \in Command, RecordPosition(c)
      PROVE  cmd' \in [Command -> CommandState] /\ UNCHANGED run
  BY <1>0, <1>3 DEF RecordPosition, CommandState
<1>4. ASSUME NEW c \in Command, NEW t \in Table, CleanTable(c, t)
      PROVE  cmd' \in [Command -> CommandState] /\ UNCHANGED run
  BY <1>0, <1>4 DEF CleanTable, CommandState
<1>5. ASSUME NEW c \in Command, AttachMirror(c)
      PROVE  cmd' \in [Command -> CommandState] /\ UNCHANGED run
  <2>1. PICK next \in {"commit", "clean"} :
          cmd' = [cmd EXCEPT ![c].at = next, ![c].table = NoTable]
    BY <1>5 DEF AttachMirror
  <2>2. [cmd[c] EXCEPT !.at = next, !.table = NoTable] \in CommandState
    BY <1>0 DEF CommandState
  <2>3. cmd' = [cmd EXCEPT ![c] = [cmd[c] EXCEPT !.at = next, !.table = NoTable]]
    BY <1>0, <2>1
  <2>4. UNCHANGED run
    BY <1>5 DEF AttachMirror
  <2>5. QED
    BY <1>0, <2>2, <2>3, <2>4
<1>6. ASSUME NEW c \in Command,
             \/ CreateFails(c) \/ JoinNeedless(c) \/ CheckpointFails(c)
             \/ FirstCycleEnds(c) \/ TailerConnects(c) \/ CommitStart(c) \/ CloseTailer(c)
             \/ PauseMirrors(c) \/ CommitStop(c) \/ CommitDelete(c)
      PROVE  cmd' \in [Command -> CommandState] /\ UNCHANGED run
  BY <1>0, <1>6 DEF CreateFails, JoinNeedless, CheckpointFails, FirstCycleEnds, TailerConnects,
     CommitStart, CloseTailer, PauseMirrors, CommitStop, CommitDelete, CommandState
<1>7. ASSUME NEW c \in Command, JoinRun(c)
      PROVE  cmd' \in [Command -> CommandState] /\ run' \in RunState
  <2>1. run' \in RunState
    BY <1>0, <1>7 DEF JoinRun, RunState, NoRun
  <2>2. QED
    BY <1>0, <1>7, <2>1 DEF JoinRun, CommandState
<1>8. ASSUME NEW c \in Command, StartPoller(c) \/ StartTailer(c)
      PROVE  cmd' \in [Command -> CommandState] /\ UNCHANGED run
  BY <1>0, <1>8 DEF StartPoller, StartTailer, Enter, CommandState, Service
<1>9. ASSUME NEW c \in Command, StopPoller(c)
      PROVE  cmd' \in [Command -> CommandState] /\ UNCHANGED run
  BY <1>0, <1>9 DEF StopPoller, CommandState
<1>10. ASSUME NEW await \in {"idle", "commit", "phase2"}, RunSettles(await)
       PROVE  cmd' \in [Command -> CommandState] /\ run' \in RunState
  BY <1>0, <1>10 DEF RunSettles, CommandState
<1>11. CASE RunLists
  BY <1>0, <1>11 DEF RunLists, RunState, Completed
<1>12. ASSUME NEW t \in Table, CopyTable(t)
       PROVE  UNCHANGED cmd /\ run' \in RunState
  BY <1>0, <1>12 DEF CopyTable, RunState
<1>13. CASE CopyEnds
  <2>1. run.table \in Table
    BY <1>0, <1>13 DEF CopyEnds, RunShape, RunState
  <2>2. \/ run' = [run EXCEPT !.at = "next", !.todo = @ \ {run.table},
                              !.done = @ \cup {run.table}, !.table = NoTable]
        \/ run' = [run EXCEPT !.at = "next", !.todo = @ \ {run.table},
                              !.failed = @ \cup {run.table}, !.table = NoTable]
    BY <1>13 DEF CopyEnds
  <2>3. UNCHANGED cmd
    BY <1>13 DEF CopyEnds
  <2>4. run.todo \ {run.table} \in SUBSET Table /\ run.done \cup {run.table} \in SUBSET Table
        /\ run.failed \cup {run.table} \in SUBSET Table
    BY <1>0, <2>1 DEF RunState
  <2>5. run' \in RunState
    <3> HIDE <2>1
    <3>1. QED
      BY <1>0, <2>2, <2>4 DEF RunState
  <2>6. QED
    BY <1>0, <2>3, <2>5
<1>14. CASE RunEnds
  BY <1>10, <1>14 DEF RunEnds
<1>15. CASE ListFails
  BY <1>10, <1>15 DEF ListFails
<1>16. CASE Crash
  BY <1>16 DEF Crash
<1>17. CASE Boot
  <2>1. [NoCommand EXCEPT !.kind = "boot", !.at = "probe"] \in CommandState
    BY DEF NoCommand, CommandState
  <2>2. QED
    BY <1>0, <1>17, <2>1 DEF Boot
<1>18. CASE SetMode \/ UNCHANGED controlVars
  BY <1>0, <1>18 DEF SetMode, controlVars
<1>19. QED
  BY <1>0, <1>1, <1>2, <1>3, <1>4, <1>5, <1>6, <1>7, <1>8, <1>9, <1>11, <1>12, <1>13,
     <1>14, <1>15, <1>16, <1>17, <1>18 DEF ControlNext, StartStep, StopStep, RunStep

(* Every step keeps the other variables well typed; what can be stopped is  *)
(* there.                                                                  *)
LEMMA ControlTypeStep ==
  ASSUME ControlTypeOK, RunShape, HeldIsLive, [ControlNext]_controlVars
  PROVE  ControlTypeOK' /\ HeldIsLive'
<1> USE DEF configVars, dataVars, serviceVars, historyVars
<1>1. cmd' \in [Command -> CommandState] /\ run' \in RunState
  BY CommandTypeStep
<1>2. /\ registered' \in BOOLEAN /\ booting' \in BOOLEAN /\ chosen' \in Mode \cup {"auto"}
      /\ wanted' \in BOOLEAN
  <2>1. registered \in BOOLEAN /\ booting \in BOOLEAN /\ chosen \in Mode \cup {"auto"}
        /\ wanted \in BOOLEAN
    BY ControlTypes
  <2>2. registered' \in {registered, FALSE} /\ booting' \in {booting, TRUE, FALSE}
        /\ wanted' \in {wanted, TRUE, FALSE}
    BY DEF ControlNext, StartStep, StopStep, RunStep, GiveStart, GiveStop, GiveDelete, Give,
           Probe, RecordPosition, CleanTable, AttachMirror, CreateFails, JoinRun, JoinNeedless,
           RunLists, ListFails, CopyTable, CopyEnds, RunEnds, StartPoller, CheckpointFails,
           FirstCycleEnds, StartTailer, TailerConnects, CommitStart, StopPoller, CloseTailer,
           PauseMirrors, CommitStop, CommitDelete, SetMode, Crash, Boot, controlVars
  <2>3. chosen' \in {chosen} \cup Mode \cup Modes
    BY DEF ControlNext, StartStep, StopStep, RunStep, GiveStart, GiveStop, GiveDelete, Give,
           Probe, Recommended, Mode, RecordPosition, CleanTable, AttachMirror, CreateFails,
           JoinRun, JoinNeedless,
           RunLists, ListFails, CopyTable, CopyEnds, RunEnds, StartPoller, CheckpointFails,
           FirstCycleEnds, StartTailer, TailerConnects, CommitStart, StopPoller, CloseTailer,
           PauseMirrors, CommitStop, CommitDelete, SetMode, Crash, Boot, controlVars
  <2>4. QED
    BY <2>1, <2>2, <2>3, ControlAssumption
<1>3. status' \in Progress /\ progress' \in [Table -> Progress] /\ enabled' \in BOOLEAN
  <2>1. status \in Progress /\ progress \in [Table -> Progress]
        /\ registered \in BOOLEAN /\ enabled \in BOOLEAN
    BY ControlTypes
  <2>2. ASSUME NEW c \in Command, RecordPosition(c) \/ CommitStart(c) \/ CommitStop(c)
        PROVE  status' \in Progress /\ UNCHANGED progress /\ enabled' \in BOOLEAN
    BY <2>1, <2>2 DEF RecordPosition, CommitStart, CommitStop, Progress
  <2>3. CASE RunLists \/ ListFails \/ RunEnds
    BY <2>1, <2>3 DEF RunLists, ListFails, RunEnds, Progress
  <2>4. CASE CopyEnds \/ \E t \in Table : CopyTable(t)
    BY <2>1, <2>4 DEF CopyEnds, CopyTable, Note, Progress
  <2>5. ASSUME NEW c \in Command,
               \/ GiveStart(c) \/ GiveStop(c) \/ GiveDelete(c) \/ Probe(c)
               \/ (\E t \in Table : CleanTable(c, t)) \/ AttachMirror(c) \/ CreateFails(c)
               \/ JoinRun(c) \/ JoinNeedless(c) \/ StartPoller(c) \/ CheckpointFails(c)
               \/ FirstCycleEnds(c) \/ StartTailer(c) \/ TailerConnects(c) \/ StopPoller(c)
               \/ CloseTailer(c) \/ PauseMirrors(c) \/ CommitDelete(c)
        PROVE  UNCHANGED <<status, progress, enabled>>
    BY <2>5 DEF GiveStart, GiveStop, GiveDelete, Give, Probe, CleanTable, AttachMirror,
       CreateFails, JoinRun, JoinNeedless, StartPoller, CheckpointFails, FirstCycleEnds,
       StartTailer, TailerConnects, StopPoller, CloseTailer, PauseMirrors, CommitDelete
  <2>6. CASE SetMode \/ Crash \/ Boot \/ UNCHANGED controlVars
    BY <2>1, <2>6 DEF SetMode, Crash, Boot, controlVars
  <2>7. QED
    BY <2>1, <2>2, <2>3, <2>4, <2>5, <2>6 DEF ControlNext, StartStep, StopStep, RunStep
<1>4. /\ layout' \in [Table -> {"none", "polled", "mirrored"}]
      /\ mirror' \in [Table -> {"none", "running", "paused"}] /\ handed' \subseteq Table
  <2> DEFINE DataType == /\ layout \in [Table -> {"none", "polled", "mirrored"}]
                         /\ mirror \in [Table -> {"none", "running", "paused"}]
                         /\ handed \subseteq Table
  <2>1. DataType
    BY ControlTypes
  <2>2. ASSUME NEW c \in Command,
               \/ RecordPosition(c) \/ (\E t \in Table : CleanTable(c, t)) \/ PauseMirrors(c)
        PROVE  DataType'
    BY <2>1, <2>2 DEF RecordPosition, CleanTable, PauseMirrors
  <2>3. ASSUME NEW c \in Command, AttachMirror(c) PROVE DataType'
    BY <2>1, <2>3 DEF AttachMirror
  <2>4. CASE CopyEnds \/ \E t \in Table : CopyTable(t)
    BY <2>1, <2>4 DEF CopyEnds, CopyTable
  <2>5. ASSUME NEW c \in Command,
               \/ GiveStart(c) \/ GiveStop(c) \/ GiveDelete(c) \/ Probe(c) \/ CreateFails(c)
               \/ JoinRun(c) \/ JoinNeedless(c) \/ StartPoller(c) \/ CheckpointFails(c)
               \/ FirstCycleEnds(c) \/ StartTailer(c) \/ TailerConnects(c) \/ CommitStart(c)
               \/ StopPoller(c) \/ CloseTailer(c) \/ CommitStop(c) \/ CommitDelete(c)
        PROVE  UNCHANGED <<layout, mirror, handed>>
    BY <2>5 DEF GiveStart, GiveStop, GiveDelete, Give, Probe, CreateFails, JoinRun, JoinNeedless,
       StartPoller, CheckpointFails, FirstCycleEnds, StartTailer, TailerConnects, CommitStart,
       StopPoller, CloseTailer, CommitStop, CommitDelete
  <2>6. CASE RunLists \/ ListFails \/ RunEnds \/ SetMode \/ Crash \/ Boot \/ UNCHANGED controlVars
    BY <2>1, <2>6 DEF RunLists, ListFails, RunEnds, SetMode, Crash, Boot, controlVars
  <2>7. QED
    BY <2>1, <2>2, <2>3, <2>4, <2>5, <2>6 DEF ControlNext, StartStep, StopStep, RunStep
<1>5. /\ running' \in [Service -> BOOLEAN] /\ held' \in [Service -> BOOLEAN]
      /\ live' \in [Service -> Nat] /\ gen' \in [Service -> Nat] /\ HeldIsLive'
  <2> DEFINE ServiceType ==
        /\ running \in [Service -> BOOLEAN] /\ held \in [Service -> BOOLEAN]
        /\ live \in [Service -> Nat] /\ gen \in [Service -> Nat] /\ HeldIsLive
  <2>1. ServiceType /\ "poller" \in Service /\ "tailer" \in Service
    BY ControlTypes DEF Service
  <2>2. ASSUME NEW c \in Command, StartPoller(c) \/ StartTailer(c) PROVE ServiceType'
    BY <2>1, <2>2 DEF StartPoller, StartTailer, Enter, HeldIsLive
  <2>3. ASSUME NEW c \in Command, NEW s \in Service, Install(c, s), UNCHANGED <<running, gen>>
        PROVE  ServiceType'
    BY <2>1, <2>3 DEF Install, HeldIsLive
  <2>4. ASSUME NEW s \in Service, Halt(s), gen' \in [Service -> Nat] PROVE ServiceType'
    BY <2>1, <2>4 DEF Halt, HeldIsLive
  <2>5. ASSUME NEW c \in Command, StopPoller(c) PROVE ServiceType'
    <3>1. gen' \in [Service -> Nat]
      BY <2>1, <2>5 DEF StopPoller
    <3>2. Halt("poller") \/ UNCHANGED serviceVars
      BY <2>5 DEF StopPoller
    <3>3. QED
      BY <2>1, <2>4, <3>1, <3>2 DEF HeldIsLive
  <2>6. ASSUME NEW c \in Command, CloseTailer(c) PROVE ServiceType'
    <3>1. gen' \in [Service -> Nat]
      BY <2>1, <2>6 DEF CloseTailer
    <3>2. QED
      BY <2>1, <2>4, <2>6, <3>1 DEF CloseTailer
  <2>7. ASSUME NEW c \in Command, FirstCycleEnds(c) \/ TailerConnects(c) PROVE ServiceType'
    BY <2>1, <2>3, <2>7 DEF FirstCycleEnds, TailerConnects
  <2>8. CASE Crash
    BY <2>8 DEF Crash, HeldIsLive
  <2>9. ASSUME NEW c \in Command,
               \/ GiveStart(c) \/ GiveStop(c) \/ GiveDelete(c) \/ Probe(c) \/ RecordPosition(c)
               \/ (\E t \in Table : CleanTable(c, t)) \/ AttachMirror(c) \/ CreateFails(c)
               \/ JoinRun(c) \/ JoinNeedless(c) \/ CheckpointFails(c) \/ CommitStart(c)
               \/ PauseMirrors(c) \/ CommitStop(c) \/ CommitDelete(c)
        PROVE  UNCHANGED serviceVars
    BY <2>9 DEF GiveStart, GiveStop, GiveDelete, Give, Probe, RecordPosition, CleanTable,
       AttachMirror, CreateFails, JoinRun, JoinNeedless, CheckpointFails, CommitStart,
       PauseMirrors, CommitStop, CommitDelete
  <2>10. ASSUME RunStep \/ ListFails \/ SetMode \/ Boot \/ UNCHANGED controlVars
         PROVE  UNCHANGED serviceVars
    BY <2>10 DEF RunStep, RunLists, CopyTable, CopyEnds, RunEnds, ListFails, SetMode, Boot,
       controlVars
  <2>11. UNCHANGED serviceVars => ServiceType'
    BY <2>1 DEF HeldIsLive
  <2>12. QED
    BY <2>2, <2>5, <2>6, <2>7, <2>8, <2>9, <2>10, <2>11
       DEF ControlNext, StartStep, StopStep
<1>6. faults' \in 0 .. MaxFaults /\ given' \in 0 .. MaxCommands
  <2>1. faults \in 0 .. MaxFaults /\ given \in 0 .. MaxCommands
    BY ControlTypes
  <2>2. faults' = faults \/ \E kind : Fault(kind)
    BY DEF ControlNext, StartStep, StopStep, RunStep, GiveStart, GiveStop, GiveDelete, Give,
           Probe, RecordPosition, CleanTable, AttachMirror, CreateFails,
           JoinRun, JoinNeedless,
           RunLists, ListFails, CopyTable, CopyEnds, RunEnds, StartPoller, CheckpointFails,
           FirstCycleEnds, StartTailer, TailerConnects, CommitStart, StopPoller, CloseTailer,
           PauseMirrors, CommitStop, CommitDelete, SetMode, Crash, Boot, controlVars
  <2>3. \/ \E c \in Command : GiveStart(c) \/ GiveStop(c) \/ GiveDelete(c)
        \/ SetMode
        \/ given' = given
    BY DEF ControlNext, StartStep, StopStep, RunStep,
           Probe, RecordPosition, CleanTable, AttachMirror, CreateFails,
           JoinRun, JoinNeedless,
           RunLists, ListFails, CopyTable, CopyEnds, RunEnds, StartPoller, CheckpointFails,
           FirstCycleEnds, StartTailer, TailerConnects, CommitStart, StopPoller, CloseTailer,
           PauseMirrors, CommitStop, CommitDelete, Crash, Boot, controlVars
  <2>4. given' = given \/ (given < MaxCommands /\ given' = given + 1)
    BY <2>3 DEF GiveStart, GiveStop, GiveDelete, Give, SetMode
  <2>5. QED
    BY <2>1, <2>2, <2>4, Bounds
<1>7. QED
  BY <1>1, <1>2, <1>3, <1>4, <1>5, <1>6
     DEF ControlTypeOK, CommandState, RunState, Await

(* A command stays at a step of its kind.                                   *)
LEMMA CommandShapeStep ==
  ASSUME ControlTypeOK, CommandShape, [ControlNext]_controlVars
  PROVE  CommandShape'
<1>0. cmd \in [Command -> CommandState]
  BY ControlTypes
<1> USE RestTypes DEF CommandShape, Loading, Stopping, Stops, Start, Move, Finish, CommandState
<1>2. ASSUME NEW c \in Command, GiveStart(c) \/ GiveStop(c) \/ GiveDelete(c)
      PROVE  CommandShape'
  <2>1. CASE GiveStart(c)
    <3>1. PICK kind \in Start : cmd' = [cmd EXCEPT ![c] = [NoCommand EXCEPT !.kind = kind, !.at = "probe"]]
      BY <2>1 DEF GiveStart
    <3>2. QED
      BY <1>0, <3>1 DEF NoCommand
  <2>2. CASE GiveStop(c)
    BY <1>0, <2>2 DEF GiveStop, NoCommand
  <2>3. CASE GiveDelete(c)
    BY <1>0, <2>3 DEF GiveDelete, NoCommand
  <2>4. QED
    BY <1>2, <2>1, <2>2, <2>3
<1>3. ASSUME NEW c \in Command, Finish(c) PROVE CommandShape'
  BY <1>0, <1>3
<1>4. ASSUME NEW c \in Command, NEW at,
             \A d \in Command : cmd'[d].kind = cmd[d].kind
                                /\ cmd'[d].at = IF d = c THEN at ELSE cmd[d].at,
             \/ cmd[c].at \in Loading /\ at \in Loading \cup {"commit"}
             \/ cmd[c].at \in Stopping /\ at \in Stopping \cup {"commit"}
      PROVE  CommandShape'
  BY <1>0, <1>4
<1>5. ASSUME NEW c \in Command,
             Probe(c) \/ RecordPosition(c) \/ (\E t \in Table : CleanTable(c, t)) \/ AttachMirror(c)
      PROVE  CommandShape'
  <2>1. Finish(c) \/ \E at \in {"position", "join", "clean", "attach", "commit"} :
          \A d \in Command : cmd'[d].kind = cmd[d].kind
                             /\ cmd'[d].at = IF d = c THEN at ELSE cmd[d].at
    <3>1. CASE Probe(c)
      <4>1. CASE ~Finish(c)
        <5>1. PICK mode, at : /\ cmd' = [cmd EXCEPT ![c].mode = mode, ![c].at = at]
                              /\ at \in {"position", "join"}
          BY <3>1, <4>1 DEF Probe
        <5>2. \A d \in Command : cmd'[d].kind = cmd[d].kind
                                 /\ cmd'[d].at = IF d = c THEN at ELSE cmd[d].at
          BY <1>0, <5>1
        <5>3. at \in {"position", "join", "clean", "attach", "commit"}
          BY <5>1
        <5>4. QED
          BY ONLY <5>2, <5>3, Zenon
      <4>2. QED
        BY <4>1
    <3>2. CASE RecordPosition(c)
      BY <1>0, <3>2 DEF RecordPosition
    <3>3. CASE \E t \in Table : CleanTable(c, t)
      BY <1>0, <3>3 DEF CleanTable
    <3>4. CASE AttachMirror(c)
      <4>1. \E at \in {"clean", "commit"} :
              cmd' = [cmd EXCEPT ![c].at = at, ![c].table = NoTable]
        BY <3>4 DEF AttachMirror
      <4>2. QED
        BY <1>0, <4>1
    <3>5. QED
      BY <1>5, <3>1, <3>2, <3>3, <3>4
  <2>2. cmd[c].at \in Loading
    BY <1>5 DEF Probe, RecordPosition, CleanTable, AttachMirror
  <2>3. QED
    BY <1>3, <1>4, <2>1, <2>2
<1>6. ASSUME NEW c \in Command,
             \/ JoinRun(c) \/ StartPoller(c) \/ FirstCycleEnds(c) \/ StartTailer(c)
             \/ TailerConnects(c) \/ StopPoller(c) \/ CloseTailer(c) \/ PauseMirrors(c)
      PROVE  CommandShape'
  <2>1. \E at \in {"waiting", "commit", "cycle", "tailer", "stream", "close", "pause"} :
          /\ \A d \in Command : cmd'[d].kind = cmd[d].kind
                                /\ cmd'[d].at = IF d = c THEN at ELSE cmd[d].at
          /\ \/ cmd[c].at \in Loading /\ at \in Loading \cup {"commit"}
             \/ cmd[c].at \in Stopping /\ at \in Stopping \cup {"commit"}
    BY <1>0, <1>6 DEF JoinRun, StartPoller, FirstCycleEnds, StartTailer, TailerConnects,
       StopPoller, CloseTailer, PauseMirrors, Enter
  <2>2. QED
    BY <1>4, <2>1
<1>7. ASSUME NEW c \in Command,
             \/ CreateFails(c) \/ JoinNeedless(c) \/ CheckpointFails(c)
             \/ CommitStart(c) \/ CommitStop(c) \/ CommitDelete(c)
      PROVE  CommandShape'
  BY <1>0, <1>3, <1>7 DEF CreateFails, JoinNeedless, CheckpointFails, CommitStart, CommitStop,
     CommitDelete
<1>8. ASSUME NEW await \in {"idle", "commit", "phase2"}, RunSettles(await) PROVE CommandShape'
  BY <1>0, <1>8 DEF RunSettles
<1>9. CASE RunEnds \/ ListFails
  BY <1>8, <1>9 DEF RunEnds, ListFails
<1>10. CASE UNCHANGED cmd
  BY <1>10
<1>11. CASE RunLists \/ (\E t \in Table : CopyTable(t)) \/ CopyEnds \/ SetMode
            \/ UNCHANGED controlVars
  BY <1>10, <1>11 DEF RunLists, CopyTable, CopyEnds, SetMode, controlVars
<1>12. CASE Crash
  BY <1>12 DEF Crash
<1>13. CASE Boot
  <2>1. UNCHANGED cmd \/ \E c \in Command :
          cmd' = [cmd EXCEPT ![c] = [NoCommand EXCEPT !.kind = "boot", !.at = "probe"]]
    BY <1>13 DEF Boot
  <2>2. ASSUME NEW c \in Command,
               cmd' = [cmd EXCEPT ![c] = [NoCommand EXCEPT !.kind = "boot", !.at = "probe"]]
        PROVE  CommandShape'
    BY <1>0, <2>2 DEF NoCommand
  <2>3. QED
    BY <1>10, <2>1, <2>2
<1>14. QED
  BY <1>2, <1>5, <1>6, <1>7, <1>9, <1>11, <1>12, <1>13
     DEF ControlNext, StartStep, StopStep, RunStep

(* What is done of a run is no longer to do.                                *)
LEMMA RunShapeStep ==
  ASSUME ControlTypeOK, RunShape, [ControlNext]_controlVars
  PROVE  RunShape'
<1>0. run \in RunState
  BY ControlTypes
<1> USE DEF RunShape, RunState
<1>1. CASE UNCHANGED run
  BY <1>1
<1>2. CASE run' = NoRun
  BY <1>2 DEF NoRun
<1>3. ASSUME NEW c \in Command, JoinRun(c) PROVE RunShape'
  BY <1>3 DEF JoinRun, NoRun
<1>4. CASE RunLists
  BY <1>0, <1>4 DEF RunLists
<1>5. ASSUME NEW t \in Table, CopyTable(t) PROVE RunShape'
  BY <1>0, <1>5 DEF CopyTable
<1>6. CASE CopyEnds
  BY <1>0, <1>6 DEF CopyEnds
<1>7. CASE ListFails \/ RunEnds \/ Crash
  BY <1>2, <1>7 DEF ListFails, RunEnds, RunSettles, Crash
<1>8. ASSUME NEW c \in Command,
             \/ GiveStart(c) \/ GiveStop(c) \/ GiveDelete(c) \/ Probe(c) \/ RecordPosition(c)
             \/ (\E t \in Table : CleanTable(c, t)) \/ AttachMirror(c) \/ CreateFails(c)
             \/ JoinNeedless(c) \/ StartPoller(c) \/ CheckpointFails(c) \/ FirstCycleEnds(c)
             \/ StartTailer(c) \/ TailerConnects(c) \/ CommitStart(c) \/ StopStep(c)
      PROVE  UNCHANGED run
  BY <1>8 DEF GiveStart, GiveStop, GiveDelete, Give, Probe, RecordPosition, CleanTable,
     AttachMirror, CreateFails, JoinNeedless, StartPoller, CheckpointFails, FirstCycleEnds,
     StartTailer, TailerConnects, CommitStart, StopStep, StopPoller, CloseTailer, PauseMirrors,
     CommitStop, CommitDelete
<1>9. CASE SetMode \/ Boot \/ UNCHANGED controlVars
  BY <1>1, <1>9 DEF SetMode, Boot, controlVars
<1>10. QED
  BY <1>1, <1>3, <1>4, <1>5, <1>6, <1>7, <1>8, <1>9 DEF ControlNext, StartStep, RunStep

(***************************************************************************)
(* What is recorded of Phase 1.                                            *)
(***************************************************************************)

(* The tables are handed over before PeerDB's command drops the first.      *)
LEMMA HandedStep ==
  ASSUME ControlTypeOK, RunIsTrue, [ControlNext]_controlVars
  PROVE  /\ handed \subseteq handed'
         /\ \A c \in Command : cmd'[c].at \in {"clean", "attach"} => handed' = Table
<1> DEFINE Handed == \A c \in Command : cmd[c].at \in {"clean", "attach"} => handed = Table
<1>0. cmd \in [Command -> CommandState] /\ handed \subseteq Table /\ Handed
  BY ControlTypes DEF RunIsTrue
<1> USE DEF CommandState, Move, Finish, historyVars
<1>1. ASSUME NEW c \in Command,
             \A d \in Command : d = c \/ cmd'[d].at = cmd[d].at,
             cmd[c].at \in {"clean", "attach"} \/ cmd'[c].at \notin {"clean", "attach"},
             UNCHANGED handed
      PROVE  handed \subseteq handed' /\ Handed'
  BY <1>0, <1>1
<1>2. ASSUME NEW c \in Command, RecordPosition(c) PROVE handed \subseteq handed' /\ Handed'
  BY <1>0, <1>2 DEF RecordPosition
<1>3. ASSUME NEW c \in Command,
             (\E t \in Table : CleanTable(c, t)) \/ AttachMirror(c) \/ CreateFails(c)
      PROVE  handed \subseteq handed' /\ Handed'
  <2>1. UNCHANGED handed /\ cmd[c].at \in {"clean", "attach"}
    BY <1>3 DEF CleanTable, AttachMirror, CreateFails
  <2>2. \A d \in Command : d = c \/ cmd'[d].at = cmd[d].at
    BY <1>0, <1>3 DEF CleanTable, AttachMirror, CreateFails
  <2>3. QED
    BY <1>1, <2>1, <2>2
<1>4. ASSUME NEW c \in Command,
             \/ JoinRun(c) \/ JoinNeedless(c) \/ StartPoller(c) \/ CheckpointFails(c)
             \/ FirstCycleEnds(c) \/ StartTailer(c) \/ TailerConnects(c) \/ CommitStart(c)
             \/ StopStep(c)
      PROVE  handed \subseteq handed' /\ Handed'
  <2>1. UNCHANGED handed
    BY <1>4 DEF JoinRun, JoinNeedless, StartPoller, CheckpointFails, FirstCycleEnds, StartTailer,
       TailerConnects, CommitStart, StopStep, StopPoller, CloseTailer, PauseMirrors, CommitStop,
       CommitDelete
  <2>2. \A d \in Command : d = c \/ cmd'[d].at = cmd[d].at
    BY <1>0, <1>4 DEF JoinRun, JoinNeedless, StartPoller, CheckpointFails, FirstCycleEnds,
       StartTailer, TailerConnects, CommitStart, StopStep, StopPoller, CloseTailer, PauseMirrors,
       CommitStop, CommitDelete, Enter
  <2>3. cmd'[c].at \notin {"clean", "attach"}
    BY <1>0, <1>4, RestTypes DEF JoinRun, JoinNeedless, StartPoller, CheckpointFails,
       FirstCycleEnds, StartTailer, TailerConnects, CommitStart, StopStep, StopPoller,
       CloseTailer, PauseMirrors, CommitStop, CommitDelete, Enter
  <2>4. QED
    BY <1>1, <2>1, <2>2, <2>3
<1>5. ASSUME NEW c \in Command, Probe(c) PROVE handed \subseteq handed' /\ Handed'
  <2>1. UNCHANGED handed
    BY <1>5 DEF Probe
  <2>2. CASE Finish(c)
    BY <1>0, <1>1, <2>1, <2>2, RestTypes
  <2>3. CASE ~Finish(c)
    <3>1. PICK mode, at : /\ cmd' = [cmd EXCEPT ![c].mode = mode, ![c].at = at]
                          /\ at \in {"position", "join"}
      BY <1>5, <2>3 DEF Probe
    <3>2. \A d \in Command : cmd'[d].at = IF d = c THEN at ELSE cmd[d].at
      BY <1>0, <3>1
    <3>3. QED
      BY <1>1, <2>1, <3>1, <3>2
  <2>4. QED
    BY <2>2, <2>3
<1>6. ASSUME NEW c \in Command, GiveStart(c) \/ GiveStop(c) \/ GiveDelete(c)
      PROVE  handed \subseteq handed' /\ Handed'
  <2>1. UNCHANGED handed
    BY <1>6 DEF GiveStart, GiveStop, GiveDelete, Give
  <2>2. PICK kind, at : /\ cmd' = [cmd EXCEPT ![c] = [NoCommand EXCEPT !.kind = kind, !.at = at]]
                        /\ at \in {"probe", "stop"}
    BY <1>6 DEF GiveStart, GiveStop, GiveDelete
  <2>3. \A d \in Command : cmd'[d].at = IF d = c THEN at ELSE cmd[d].at
    BY <1>0, <2>2 DEF NoCommand
  <2>4. QED
    BY <1>1, <2>1, <2>2, <2>3
<1>7. ASSUME NEW await \in {"idle", "commit", "phase2"}, RunSettles(await), UNCHANGED handed
      PROVE  handed \subseteq handed' /\ Handed'
  BY <1>0, <1>7, RestTypes DEF RunSettles
<1>8. CASE RunEnds \/ ListFails
  BY <1>7, <1>8 DEF RunEnds, ListFails
<1>9. CASE RunLists \/ (\E t \in Table : CopyTable(t)) \/ CopyEnds \/ SetMode
           \/ UNCHANGED controlVars
  <2>1. UNCHANGED <<cmd, handed>>
    BY <1>9 DEF RunLists, CopyTable, CopyEnds, SetMode, controlVars
  <2>2. QED
    BY <1>0, <2>1
<1>10. CASE Crash
  BY <1>10, RestTypes DEF Crash
<1>11. CASE Boot
  <2>1. UNCHANGED handed
    BY <1>11 DEF Boot
  <2>2. CASE UNCHANGED cmd
    BY <1>0, <2>1, <2>2
  <2>3. CASE ~UNCHANGED cmd
    <3>1. PICK c \in Command :
            cmd' = [cmd EXCEPT ![c] = [NoCommand EXCEPT !.kind = "boot", !.at = "probe"]]
      BY <1>11, <2>3 DEF Boot
    <3>2. \A d \in Command : cmd'[d].at = IF d = c THEN "probe" ELSE cmd[d].at
      BY <1>0, <3>1 DEF NoCommand
    <3>3. QED
      BY <1>1, <2>1, <3>2
  <2>4. QED
    BY <2>2, <2>3
<1>12. QED
  BY <1>2, <1>3, <1>4, <1>5, <1>6, <1>8, <1>9, <1>10, <1>11
     DEF ControlNext, StartStep, RunStep

(* A run records what it did, whoever joins it and whatever is resumed.     *)
LEMMA LoadStep ==
  ASSUME ControlTypeOK, RunShape, RunIsTrue, ProgressIsTrue, [ControlNext]_controlVars
  PROVE  RunIsTrue' /\ ProgressIsTrue'
<1>0. /\ run \in RunState /\ registered \in BOOLEAN /\ handed \subseteq Table
      /\ layout \in [Table -> {"none", "polled", "mirrored"}]
      /\ progress \in [Table -> Progress]
  BY ControlTypes
<1>1. /\ handed \subseteq handed'
      /\ \A c \in Command : cmd'[c].at \in {"clean", "attach"} => handed' = Table
  BY HandedStep
<1> DEFINE InRun(t) == run.at \in {"next", "copying"} =>
             /\ status # "completed"
             /\ t \in run.todo \cup run.done \cup run.failed
             /\ t \in run.done => layout[t] = "polled"
<1> DEFINE Noted(t) == "completed" \in {status, progress[t]} => layout[t] = "polled"
<1>2. SUFFICES ASSUME NEW t \in Table, t \notin handed', registered'
               PROVE  InRun(t)' /\ Noted(t)'
  BY <1>1 DEF RunIsTrue, ProgressIsTrue
<1>3. registered /\ t \notin handed
  <2>1. registered' \in {registered, FALSE}
    BY DEF ControlNext, StartStep, StopStep, RunStep, GiveStart, GiveStop, GiveDelete, Give,
           Probe, RecordPosition, CleanTable, AttachMirror, CreateFails, JoinRun, JoinNeedless,
           RunLists, ListFails, CopyTable, CopyEnds, RunEnds, StartPoller, CheckpointFails,
           FirstCycleEnds, StartTailer, TailerConnects, CommitStart, StopPoller, CloseTailer,
           PauseMirrors, CommitStop, CommitDelete, SetMode, Crash, Boot, controlVars, configVars
  <2>2. QED
    BY <1>1, <1>2, <2>1
<1>4. InRun(t) /\ Noted(t)
  BY <1>2, <1>3 DEF RunIsTrue, ProgressIsTrue
<1> USE DEF configVars, dataVars, historyVars
<1>5. CASE UNCHANGED <<run, status, progress, layout>>
  BY <1>4, <1>5
<1>6. ASSUME NEW c \in Command,
             RecordPosition(c) \/ (\E u \in Table : CleanTable(c, u)) \/ AttachMirror(c)
      PROVE  FALSE
  <2>1. handed' = Table
    BY <1>6 DEF RunIsTrue, RecordPosition, CleanTable, AttachMirror
  <2>2. QED
    BY <1>2, <2>1
<1>7. ASSUME NEW c \in Command, JoinRun(c) PROVE InRun(t)' /\ Noted(t)'
  BY <1>4, <1>7 DEF JoinRun, NoRun
<1>8. CASE RunLists
  <2>1. /\ run' = [run EXCEPT !.at = "next",
                              !.todo = Table \ (IF run.resuming THEN Completed ELSE {}),
                              !.done = IF run.resuming THEN Completed ELSE {}]
        /\ status' = "in_progress" /\ UNCHANGED layout
        /\ progress' = [u \in Table |-> IF run.resuming /\ progress[u] # "none"
                                           THEN progress[u] ELSE "pending"]
    BY <1>3, <1>8 DEF RunLists
  <2>2. /\ run'.at = "next" /\ run'.done = (IF run.resuming THEN Completed ELSE {})
        /\ run'.todo = Table \ (IF run.resuming THEN Completed ELSE {})
    BY <1>0, <2>1 DEF RunState
  <2>3. progress'[t] \in {progress[t], "pending"}
    BY <2>1
  <2>4. t \in Completed => layout[t] = "polled"
    BY <1>4 DEF Completed
  <2>5. QED
    BY <1>2, <1>4, <2>1, <2>2, <2>3, <2>4
<1>9. ASSUME NEW u \in Table, CopyTable(u) PROVE InRun(t)' /\ Noted(t)'
  <2>1. /\ u \in run.todo /\ run.at = "next" /\ UNCHANGED status
        /\ run' = [run EXCEPT !.at = "copying", !.table = u]
        /\ progress' = [progress EXCEPT ![u] = "in_progress"]
        /\ layout' = [layout EXCEPT ![u] = "none"]
    BY <1>3, <1>9 DEF CopyTable, Note
  <2>2. /\ run'.todo = run.todo /\ run'.done = run.done /\ run'.failed = run.failed
    BY <1>0, <2>1 DEF RunState
  <2>3. CASE t = u
    BY <1>0, <1>4, <2>1, <2>2, <2>3 DEF RunShape
  <2>4. CASE t # u
    BY <1>0, <1>4, <2>1, <2>2, <2>4
  <2>5. QED
    BY <2>3, <2>4
<1>10. CASE CopyEnds
  <2> DEFINE u == run.table
  <2>1. u \in run.todo /\ u \in Table /\ run.at = "copying" /\ UNCHANGED status
    BY <1>0, <1>10 DEF CopyEnds, RunShape, RunState
  <2>2. CASE /\ run' = [run EXCEPT !.at = "next", !.todo = @ \ {u}, !.done = @ \cup {u},
                                   !.table = NoTable]
             /\ layout' = [layout EXCEPT ![u] = "polled"]
             /\ progress' = [progress EXCEPT ![u] = "completed"]
    <3>1. run'.todo = run.todo \ {u} /\ run'.done = run.done \cup {u} /\ run'.failed = run.failed
      BY <1>0, <2>2 DEF RunState
    <3>2. layout'[t] = (IF t = u THEN "polled" ELSE layout[t])
          /\ progress'[t] = (IF t = u THEN "completed" ELSE progress[t])
      BY <1>0, <2>2
    <3>3. QED
      BY <1>4, <2>1, <3>1, <3>2
  <2>3. CASE /\ run' = [run EXCEPT !.at = "next", !.todo = @ \ {u}, !.failed = @ \cup {u},
                                   !.table = NoTable]
             /\ UNCHANGED layout
             /\ progress' = [progress EXCEPT ![u] = "failed"]
    <3>1. run'.todo = run.todo \ {u} /\ run'.done = run.done /\ run'.failed = run.failed \cup {u}
      BY <1>0, <2>3 DEF RunState
    <3>2. progress'[t] = (IF t = u THEN "failed" ELSE progress[t])
      BY <1>0, <2>3
    <3>3. QED
      BY <1>4, <2>1, <2>3, <3>1, <3>2
  <2>4. QED
    BY <1>3, <1>10, <2>2, <2>3 DEF CopyEnds, Note
<1>11. CASE RunEnds
  <2>1. /\ run' = NoRun /\ run.at = "next" /\ run.todo = {} /\ UNCHANGED <<layout, progress>>
        /\ status' = IF run.failed = {} THEN "completed" ELSE "failed"
    BY <1>3, <1>11 DEF RunEnds, RunSettles
  <2>2. QED
    BY <1>4, <2>1 DEF NoRun
<1>12. CASE ListFails
  BY <1>3, <1>4, <1>12 DEF ListFails, RunSettles, NoRun
<1>13. CASE Crash
  BY <1>4, <1>13 DEF Crash, NoRun
<1>14. ASSUME NEW c \in Command,
              \/ GiveStart(c) \/ GiveStop(c) \/ GiveDelete(c) \/ Probe(c) \/ CreateFails(c)
              \/ JoinNeedless(c) \/ StartPoller(c) \/ CheckpointFails(c) \/ FirstCycleEnds(c)
              \/ StartTailer(c) \/ TailerConnects(c) \/ CommitStart(c) \/ StopStep(c)
       PROVE  UNCHANGED <<run, status, progress, layout>>
  BY <1>14 DEF GiveStart, GiveStop, GiveDelete, Give, Probe, CreateFails, JoinNeedless,
     StartPoller, CheckpointFails, FirstCycleEnds, StartTailer, TailerConnects, CommitStart,
     StopStep, StopPoller, CloseTailer, PauseMirrors, CommitStop, CommitDelete
<1>15. CASE SetMode \/ Boot \/ UNCHANGED controlVars
  BY <1>5, <1>15 DEF SetMode, Boot, controlVars
<1>16. QED
  BY <1>5, <1>6, <1>7, <1>8, <1>9, <1>10, <1>11, <1>12, <1>13, <1>14, <1>15
     DEF ControlNext, StartStep, RunStep

(* Every step keeps all of it.                                              *)
LEMMA LoadInvStep == LoadInv /\ [ControlNext]_controlVars => LoadInv'
  BY ControlTypeStep, CommandShapeStep, RunShapeStep, LoadStep DEF LoadInv

(* Nothing has been done at first.                                          *)
LEMMA LoadInvInit == ControlInit => LoadInv
<1> SUFFICES ASSUME ControlInit PROVE LoadInv
  OBVIOUS
<1>1. cmd \in [Command -> CommandState] /\ run \in RunState
  BY RestTypes DEF ControlInit
<1>2. ControlTypeOK
  <2>1. /\ registered \in BOOLEAN /\ enabled \in BOOLEAN /\ booting \in BOOLEAN
        /\ wanted \in BOOLEAN /\ chosen \in Mode \cup {"auto"}
        /\ status \in Progress /\ progress \in [Table -> Progress] /\ handed \subseteq Table
        /\ layout \in [Table -> {"none", "polled", "mirrored"}]
        /\ mirror \in [Table -> {"none", "running", "paused"}]
    BY DEF ControlInit, Progress
  <2>2. /\ running \in [Service -> BOOLEAN] /\ held \in [Service -> BOOLEAN]
        /\ live \in [Service -> Nat] /\ gen \in [Service -> Nat]
    BY DEF ControlInit
  <2>3. faults \in 0 .. MaxFaults /\ given \in 0 .. MaxCommands
    BY ControlAssumption DEF ControlInit
  <2>4. QED
    BY <1>1, <2>1, <2>2, <2>3, ControlTypes
<1>3. CommandShape /\ RunShape /\ HeldIsLive /\ RunIsTrue /\ ProgressIsTrue
  BY RestTypes DEF ControlInit, CommandShape, RunShape, HeldIsLive, RunIsTrue, ProgressIsTrue,
     Loading, Stopping, NoRun
<1>4. QED
  BY <1>2, <1>3 DEF LoadInv

(* What databases.json says is loaded is loaded: starts of every kind may   *)
(* overlap with each other and with stops, deletions and changes of mode,   *)
(* and the server may crash at any point.                                  *)
THEOREM ProgressTrue == ControlSpec => []ProgressIsTrue
<1>1. LoadInv => ProgressIsTrue
  BY DEF LoadInv
<1>2. QED
  BY <1>1, LoadInvInit, LoadInvStep, PTL DEF ControlSpec

(***************************************************************************)
(* What runs, when stops, deletions and changes of mode keep to themselves. *)
(***************************************************************************)

(* The steps of commands that leave services, mirrors and the mode alone:   *)
(* each command stays where it is, ends, or goes on with its start.         *)
LEMMA QuietStep ==
  ASSUME ControlTypeOK, CommandShape, Orderly,
         UNCHANGED <<running, live, held, gen, mirror, chosen, wanted, registered>>,
         enabled' => wanted,
         \A d \in Command :
           \/ cmd'[d] = cmd[d]
           \/ cmd'[d] = NoCommand
           \/ /\ cmd[d].kind \in Start /\ cmd'[d].kind = cmd[d].kind
              /\ cmd'[d].at \in {"position", "clean", "attach", "join", "waiting", "phase2",
                                 "tailer", "commit"}
              /\ Follows(cmd'[d])
  PROVE  Orderly'
<1> USE RestTypes DEF Orderly
<1>1. ASSUME NEW c \in Command
      PROVE  /\ cmd'[c].kind \in {cmd[c].kind, "none"}
             /\ cmd'[c].at # "idle" => cmd[c].at # "idle"
             /\ cmd'[c].kind \in Stops => cmd'[c] = cmd[c]
             /\ cmd'[c].at \in {"cycle", "stream", "close", "pause"} => cmd'[c] = cmd[c]
  BY DEF CommandShape, Start, Stops
<1>2. StopsAlone'
  BY <1>1 DEF StopsAlone, Stops
<1>3. OneStarter'
  BY <1>1 DEF OneStarter, Starting
<1>4. ModeFits'
  BY DEF ModeFits, Follows
<1>5. StopProgress'
  BY <1>1 DEF StopProgress, Stops
<1>6. WantedOnly'
  BY <1>1 DEF WantedOnly, Start, NothingRuns, Idle
<1>7. QED
  BY <1>2, <1>3, <1>4, <1>5, <1>6

(* The steps of a start that are quiet.                                     *)
LEMMA StartQuiet ==
  ASSUME ControlTypeOK, CommandShape, Orderly, NEW c \in Command,
         \/ RecordPosition(c) \/ (\E t \in Table : CleanTable(c, t)) \/ CreateFails(c)
         \/ JoinRun(c) \/ JoinNeedless(c) \/ CheckpointFails(c) \/ CommitStart(c)
  PROVE  Orderly'
<1>0. cmd \in [Command -> CommandState]
  BY ControlTypes
<1> USE DEF CommandState, Move, Finish, configVars, dataVars, serviceVars, historyVars
<1>1. UNCHANGED <<running, live, held, gen, mirror, chosen, wanted, registered>>
  BY DEF RecordPosition, CleanTable, CreateFails, JoinRun, JoinNeedless, CheckpointFails,
         CommitStart
<1>2. enabled' => wanted
  <2>1. enabled => wanted
    BY DEF Orderly, WantedOnly
  <2>2. cmd[c].kind \in Start => wanted
    BY DEF Orderly, WantedOnly
  <2>3. QED
    BY <2>1, <2>2 DEF RecordPosition, CleanTable, CreateFails, JoinRun, JoinNeedless,
       CheckpointFails, CommitStart
<1>3. \A d \in Command \ {c} : cmd'[d] = cmd[d]
  BY <1>0 DEF RecordPosition, CleanTable, CreateFails, JoinRun, JoinNeedless, CheckpointFails,
         CommitStart
<1>4. Follows(cmd[c]) /\ (cmd[c].at \in Loading => cmd[c].kind \in Start)
  BY DEF Orderly, ModeFits, CommandShape
<1>5. CASE CreateFails(c) \/ CheckpointFails(c) \/ CommitStart(c)
  <2>1. cmd'[c] = NoCommand
    BY <1>0, <1>5 DEF CreateFails, CheckpointFails, CommitStart
  <2>2. QED
    BY <1>1, <1>2, <1>3, <2>1, QuietStep
<1>6. CASE RecordPosition(c) \/ \E t \in Table : CleanTable(c, t)
  <2>1. /\ cmd[c].at \in {"position", "clean"} /\ cmd'[c].kind = cmd[c].kind
        /\ cmd'[c].at \in {"clean", "attach"}
    <3>1. CASE RecordPosition(c)
      BY <1>0, <3>1 DEF RecordPosition
    <3>2. CASE \E t \in Table : CleanTable(c, t)
      <4>1. PICK t \in Table : CleanTable(c, t)
        BY <3>2
      <4>2. /\ cmd[c].at = "clean"
            /\ cmd' = [cmd EXCEPT ![c].at = "attach", ![c].todo = @ \ {t}, ![c].table = t]
        BY <4>1 DEF CleanTable
      <4>3. cmd'[c].at = "attach" /\ cmd'[c].kind = cmd[c].kind
        BY <1>0, <4>2
      <4>4. QED
        BY <4>2, <4>3
    <3>3. QED
      BY <1>6, <3>1, <3>2
  <2>2. cmd[c].kind \in Start /\ Follows(cmd'[c])
    BY <1>4, <2>1 DEF Follows, Loading
  <2>3. QED
    BY <1>1, <1>2, <1>3, <2>1, <2>2, QuietStep
<1>7. CASE JoinRun(c) \/ JoinNeedless(c)
  <2>1. /\ cmd[c].at = "join"
        /\ \/ cmd'[c] = NoCommand
           \/ /\ cmd'[c].kind = cmd[c].kind /\ cmd'[c].mode = cmd[c].mode
              /\ cmd'[c].at \in {"waiting", "phase2"}
    BY <1>0, <1>7 DEF JoinRun, JoinNeedless
  <2>2. cmd[c].kind \in Start /\ (cmd'[c] = NoCommand \/ Follows(cmd'[c]))
    BY <1>4, <2>1 DEF Follows, Loading
  <2>3. QED
    BY <1>1, <1>2, <1>3, <2>1, <2>2, QuietStep
<1>8. QED
  BY <1>5, <1>6, <1>7

(* So are the steps of Phase 1, its outcome and its failure among them.     *)
LEMMA RunQuiet ==
  ASSUME ControlTypeOK, CommandShape, Orderly, RunStep \/ ListFails
  PROVE  Orderly'
<1>0. cmd \in [Command -> CommandState] /\ (enabled => wanted)
  BY ControlTypes DEF Orderly, WantedOnly
<1> USE DEF CommandState, configVars, dataVars, serviceVars, historyVars
<1>1. UNCHANGED <<running, live, held, gen, mirror, chosen, wanted, registered, enabled>>
  BY DEF RunStep, RunLists, CopyTable, CopyEnds, RunEnds, ListFails
<1>2. CASE UNCHANGED cmd
  BY <1>0, <1>1, <1>2, QuietStep
<1>3. ASSUME NEW await \in {"idle", "commit", "phase2"}, RunSettles(await) PROVE Orderly'
  <2>1. ASSUME NEW d \in Command
        PROVE  \/ cmd'[d] = cmd[d]
               \/ cmd'[d] = NoCommand
               \/ /\ cmd[d].kind \in Start /\ cmd'[d].kind = cmd[d].kind
                  /\ cmd'[d].at \in {"commit", "phase2"}
                  /\ Follows(cmd'[d])
    <3>1. CASE cmd[d].at = "waiting" /\ await # "idle"
      <4>1. cmd'[d] = [cmd[d] EXCEPT !.at = await]
        BY <1>3, <3>1 DEF RunSettles
      <4>2. cmd'[d].at = await /\ cmd'[d].kind = cmd[d].kind /\ cmd'[d].mode = cmd[d].mode
        BY <1>0, <4>1
      <4>3. Follows(cmd[d]) /\ cmd[d].kind \in Start
        BY <3>1 DEF Orderly, ModeFits, CommandShape, Loading
      <4>4. QED
        BY <1>3, <3>1, <4>2, <4>3 DEF Follows
    <3>2. CASE ~(cmd[d].at = "waiting" /\ await # "idle")
      BY <1>3, <3>2 DEF RunSettles
    <3>3. QED
      BY <3>1, <3>2
  <2>2. QED
    BY <1>0, <1>1, <2>1, QuietStep
<1>4. CASE RunEnds \/ ListFails
  BY <1>3, <1>4 DEF RunEnds, ListFails
<1>5. CASE RunLists \/ (\E t \in Table : CopyTable(t)) \/ CopyEnds
  BY <1>2, <1>5 DEF RunLists, CopyTable, CopyEnds
<1>6. QED
  BY <1>4, <1>5 DEF RunStep

(* What a start in progress says: it is wanted, and nothing is stopping.    *)
LEMMA WhileStarting ==
  ASSUME CommandShape, Orderly, NEW c \in Command, cmd[c].at \in Loading
  PROVE  /\ registered /\ wanted /\ cmd[c].kind \in Start
         /\ \A d \in Command : cmd[d].kind \notin Stops /\ cmd[d].at \notin Stopping
<1>1. cmd[c].kind \in Start /\ cmd[c].at # "idle"
  BY DEF CommandShape, Loading
<1>2. \A d \in Command : cmd[d].kind \notin Stops
  BY <1>1 DEF Orderly, StopsAlone, Start, Stops
<1>3. QED
  BY <1>1, <1>2 DEF Orderly, WantedOnly, Idle, CommandShape

(* What a stop or a deletion in progress says: nothing else is.             *)
LEMMA WhileStopping ==
  ASSUME CommandShape, Orderly, NEW c \in Command,
         cmd[c].at \in Stopping \/ (cmd[c].at # "idle" /\ cmd[c].kind \in Stops)
  PROVE  /\ registered /\ cmd[c].kind \in Stops
         /\ \A d \in Command \ {c} : cmd[d].at = "idle" /\ cmd[d].kind = "none"
<1>1. cmd[c].kind \in Stops /\ cmd[c].at # "idle"
  BY DEF CommandShape, Stopping
<1>2. \A d \in Command \ {c} : cmd[d].at = "idle"
  BY <1>1 DEF Orderly, StopsAlone
<1>3. QED
  BY <1>1, <1>2 DEF Orderly, WantedOnly, Idle, CommandShape

(* A command is given, or a mode chosen, at the right moment.               *)
LEMMA GiveOrderly ==
  ASSUME ControlTypeOK, CommandShape, Orderly, Careful,
         SetMode \/ \E c \in Command : GiveStart(c) \/ GiveStop(c) \/ GiveDelete(c)
  PROVE  Orderly'
<1>0. cmd \in [Command -> CommandState]
  BY ControlTypes
<1> USE RestTypes DEF Orderly, configVars, dataVars, serviceVars, historyVars
<1>1. CASE SetMode
  <2>1. /\ UNCHANGED <<cmd, running, live, held, gen, mirror, wanted, registered, enabled>>
        /\ Idle /\ NothingRuns
    BY <1>1 DEF SetMode
  <2>2. ModeFits'
    BY <2>1 DEF ModeFits, Follows, Idle, NothingRuns
  <2>3. StopsAlone' /\ OneStarter' /\ StopProgress' /\ WantedOnly'
    BY <2>1 DEF StopsAlone, OneStarter, StopProgress, WantedOnly, NothingRuns, Idle
  <2>4. QED
    BY <2>2, <2>3
<1>2. ASSUME NEW c \in Command, GiveStart(c) \/ GiveStop(c) \/ GiveDelete(c) PROVE Orderly'
  <2>0. wanted => wanted'
    BY <1>2 DEF GiveStart, GiveStop, GiveDelete
  <2>1. /\ UNCHANGED <<running, live, held, gen, mirror, chosen, registered, enabled>>
        /\ registered /\ cmd[c].at = "idle"
    BY <1>2 DEF GiveStart, GiveStop, GiveDelete, Give
  <2>2. PICK kind, at : cmd' = [cmd EXCEPT ![c] = [NoCommand EXCEPT !.kind = kind, !.at = at]]
    BY <1>2 DEF GiveStart, GiveStop, GiveDelete
  <2>3. /\ \A d \in Command \ {c} : cmd'[d] = cmd[d]
        /\ \/ cmd'[c].at = "probe" /\ cmd'[c].kind \in Start /\ wanted'
              /\ \A d \in Command : cmd[d].kind \notin Stops
           \/ cmd'[c].at = "stop" /\ cmd'[c].kind \in Stops /\ UNCHANGED wanted /\ Idle
    <3>1. CASE GiveStart(c)
      <4>1. PICK k \in Start : cmd' = [cmd EXCEPT ![c] = [NoCommand EXCEPT !.kind = k, !.at = "probe"]]
        BY <3>1 DEF GiveStart
      <4>2. wanted' /\ \A d \in Command : cmd[d].kind \notin Stops
        BY <3>1 DEF GiveStart, Give, Start, Stops
      <4>3. QED
        BY <1>0, <4>1, <4>2 DEF NoCommand
    <3>2. CASE GiveStop(c)
      BY <1>0, <3>2 DEF GiveStop, Give, NoCommand, Stops
    <3>3. CASE GiveDelete(c)
      BY <1>0, <3>3 DEF GiveDelete, Give, NoCommand, Stops
    <3>4. QED
      BY <1>2, <3>1, <3>2, <3>3
  <2>4. StopsAlone'
    BY <2>1, <2>3 DEF StopsAlone, Idle, Start, Stops, CommandShape
  <2>5. OneStarter'
    BY <2>1, <2>3 DEF OneStarter, Starting
  <2>6. ModeFits'
    BY <2>1, <2>3 DEF ModeFits, Follows
  <2>7. StopProgress'
    BY <2>1, <2>3 DEF StopProgress, Start, Stops
  <2>8. WantedOnly'
    BY <2>0, <2>1, <2>3 DEF WantedOnly, Idle, NothingRuns, Start, Stops
  <2>9. QED
    BY <2>4, <2>5, <2>6, <2>7, <2>8
<1>3. QED
  BY <1>1, <1>2

(* The mode is probed once: what runs by an earlier choice keeps it.        *)
LEMMA ProbeOrderly ==
  ASSUME ControlTypeOK, CommandShape, Orderly, NEW c \in Command, Probe(c)
  PROVE  Orderly'
<1>0. cmd \in [Command -> CommandState] /\ chosen \in Mode \cup {"auto"}
  BY ControlTypes
<1>1. UNCHANGED <<running, live, held, gen, mirror, wanted, registered, enabled>>
  BY DEF Probe, serviceVars, dataVars, historyVars
<1>2. registered /\ wanted /\ cmd[c].kind \in Start /\ \A d \in Command : cmd[d].kind \notin Stops
  BY WhileStarting DEF Probe, Loading
<1>3. PICK mode \in Mode :
        /\ chosen \in {"auto", mode} /\ chosen' = mode
        /\ cmd' = [cmd EXCEPT ![c].mode = mode,
                              ![c].at = IF mode = "peerdb" THEN "position" ELSE "join"]
  BY <1>0, <1>2 DEF Probe, Recommended, Mode
<1>4. /\ \A d \in Command \ {c} : cmd'[d] = cmd[d]
      /\ cmd'[c].mode = mode /\ cmd'[c].at = (IF mode = "peerdb" THEN "position" ELSE "join")
      /\ cmd'[c].kind = cmd[c].kind
  BY <1>0, <1>3 DEF CommandState
<1> USE DEF Orderly
<1>5. StopsAlone'
  BY <1>2, <1>4 DEF StopsAlone
<1>6. OneStarter'
  BY <1>1, <1>4 DEF OneStarter, Starting
<1>7. ModeFits'
  <2>1. CASE chosen = mode
    <3>1. UNCHANGED chosen
      BY <1>3, <2>1
    <3>2. \A d \in Command \ {c} : Follows(cmd[d])'
      BY <1>4, <3>1 DEF ModeFits, Follows
    <3>3. Follows(cmd[c])'
      BY <1>3, <1>4 DEF Follows, Mode
    <3>4. QED
      BY <1>1, <3>1, <3>2, <3>3 DEF ModeFits
  <2>2. CASE chosen = "auto"
    <3>1. /\ \A s \in Service : ~(live[s] > 0)
          /\ \A t \in Table : mirror[t] # "running"
          /\ \A d \in Command : cmd[d].at \notin {"position", "clean", "attach", "join", "waiting",
                                               "phase2", "cycle", "tailer", "stream"}
      BY <2>2 DEF ModeFits, Follows
    <3>2. \A d \in Command \ {c} : Follows(cmd[d])'
      BY <1>4, <3>1 DEF Follows
    <3>3. Follows(cmd[c])'
      BY <1>3, <1>4 DEF Follows, Mode
    <3>4. QED
      BY <1>1, <3>1, <3>2, <3>3 DEF ModeFits
  <2>3. QED
    BY <1>3, <2>1, <2>2
<1>8. StopProgress'
  BY <1>1, <1>2, <1>4 DEF StopProgress
<1>9. WantedOnly'
  BY <1>1, <1>2, <1>4 DEF WantedOnly
<1>10. QED
  BY <1>5, <1>6, <1>7, <1>8, <1>9

(* A mirror runs only while the mode is PeerDB's.                           *)
LEMMA AttachOrderly ==
  ASSUME ControlTypeOK, CommandShape, Orderly, NEW c \in Command, AttachMirror(c)
  PROVE  Orderly'
<1>0. /\ cmd \in [Command -> CommandState]
      /\ mirror \in [Table -> {"none", "running", "paused"}]
  BY ControlTypes
<1>1. UNCHANGED <<running, live, held, gen, wanted, registered, enabled, chosen>>
  BY DEF AttachMirror, serviceVars, configVars, historyVars
<1>2. /\ registered /\ wanted /\ cmd[c].kind \in Start
      /\ \A d \in Command : cmd[d].kind \notin Stops /\ cmd[d].at \notin Stopping
  BY WhileStarting DEF AttachMirror, Loading
<1>3. chosen = "peerdb"
  BY DEF AttachMirror, Orderly, ModeFits, Follows
<1>4. /\ \A d \in Command \ {c} : cmd'[d] = cmd[d]
      /\ cmd'[c].at \in {"clean", "commit"} /\ cmd'[c].kind = cmd[c].kind
  <2>1. PICK next \in {"commit", "clean"} :
          cmd' = [cmd EXCEPT ![c].at = next, ![c].table = NoTable]
    BY DEF AttachMirror
  <2>2. QED
    BY <1>0, <2>1 DEF CommandState
<1> USE DEF Orderly
<1>5. StopsAlone'
  BY <1>2, <1>4 DEF StopsAlone
<1>6. OneStarter'
  BY <1>1, <1>4 DEF OneStarter, Starting
<1>7. ModeFits'
  BY <1>1, <1>3, <1>4 DEF ModeFits, Follows
<1>8. StopProgress'
  BY <1>1, <1>2, <1>4 DEF StopProgress, Stopping, Start, Stops
<1>9. WantedOnly'
  BY <1>1, <1>2, <1>4 DEF WantedOnly
<1>10. QED
  BY <1>5, <1>6, <1>7, <1>8, <1>9

(* A service is entered by one command at a time, and only when polling.    *)
LEMMA EnterOrderly ==
  ASSUME ControlTypeOK, CommandShape, Orderly, NEW c \in Command,
         StartPoller(c) \/ StartTailer(c)
  PROVE  Orderly'
<1>0. /\ cmd \in [Command -> CommandState] /\ running \in [Service -> BOOLEAN]
      /\ "poller" \in Service /\ "tailer" \in Service /\ (enabled => wanted)
  BY ControlTypes DEF Service, Orderly, WantedOnly
<1>1. UNCHANGED <<live, held, gen, mirror, wanted, registered, enabled, chosen>>
  BY DEF StartPoller, StartTailer, dataVars, configVars, historyVars
<1>2. cmd[c].at \in {"phase2", "tailer"} /\ cmd[c].at \in Loading
  BY DEF StartPoller, StartTailer, Loading
<1>3. /\ registered /\ wanted /\ cmd[c].kind \in Start
      /\ \A d \in Command : cmd[d].kind \notin Stops /\ cmd[d].at \notin Stopping
  BY <1>2, WhileStarting
<1>4. /\ cmd[c].at = "tailer" => chosen = "polling"
      /\ cmd[c].at = "phase2" => cmd[c].mode = chosen /\ chosen \in {"polling", "none"}
  BY DEF Orderly, ModeFits, Follows
<1>5. ASSUME NEW at \in {"commit", "tailer"}, Move(c, at), UNCHANGED running,
             at = "tailer" => chosen = "polling"
      PROVE  Orderly'
  <2>1. /\ \A d \in Command \ {c} : cmd'[d] = cmd[d]
        /\ cmd'[c].at = at /\ cmd'[c].kind = cmd[c].kind
    BY <1>0, <1>5 DEF Move, CommandState
  <2>2. Follows(cmd'[c])
    BY <1>5, <2>1 DEF Follows
  <2>3. QED
    BY <1>0, <1>1, <1>3, <1>5, <2>1, <2>2, QuietStep
<1>6. ASSUME NEW s \in Service, ~running[s], running' = [running EXCEPT ![s] = TRUE],
             cmd' = [cmd EXCEPT ![c].at = Starting(s), ![c].gen = gen[s]],
             chosen = "polling"
      PROVE  Orderly'
  <2>1. /\ \A d \in Command \ {c} : cmd'[d] = cmd[d]
        /\ cmd'[c].at = Starting(s) /\ cmd'[c].gen = gen[s] /\ cmd'[c].kind = cmd[c].kind
    BY <1>0, <1>6 DEF CommandState
  <2> USE DEF Orderly
  <2>2. StopsAlone'
    BY <1>3, <2>1 DEF StopsAlone
  <2>3. OneStarter'
    <3>1. live[s] = 0 /\ \A d \in Command : cmd[d].at # Starting(s)
      BY <1>6 DEF OneStarter
    <3>2. \A r \in Service : r # s => Starting(r) # Starting(s) /\ running'[r] = running[r]
      BY <1>0, <1>6 DEF Starting, Service
    <3>3. running'[s] = TRUE
      BY <1>0, <1>6
    <3>4. ASSUME NEW r \in Service
          PROVE  /\ live[r] <= 1 /\ (live[r] = 1 => held[r])
                 /\ \A d \in Command : cmd'[d].at = Starting(r) =>
                      /\ running'[r] /\ live[r] = 0 /\ cmd'[d].gen = gen[r]
                      /\ \A e \in Command : cmd'[e].at = Starting(r) => d = e
                 /\ ~running'[r] => live[r] = 0
      BY <2>1, <3>1, <3>2, <3>3 DEF OneStarter
    <3>5. QED
      BY <1>1, <3>4 DEF OneStarter
  <2>4. ModeFits'
    <3>1. Starting(s) \in {"cycle", "stream"}
      BY DEF Starting
    <3>2. QED
      BY <1>1, <1>6, <2>1, <3>1 DEF ModeFits, Follows
  <2>5. StopProgress'
    BY <1>1, <1>3, <2>1 DEF StopProgress, Stopping, Starting
  <2>6. WantedOnly'
    BY <1>0, <1>1, <1>3, <2>1 DEF WantedOnly
  <2>7. QED
    BY <2>2, <2>3, <2>4, <2>5, <2>6
<1>7. CASE StartPoller(c)
  <2>1. cmd[c].mode = "none" => Move(c, "commit") /\ UNCHANGED running
    BY <1>7 DEF StartPoller
  <2>2. cmd[c].mode # "none" => Enter(c, "poller", "cycle", "tailer") /\ chosen = "polling"
    BY <1>4, <1>7 DEF StartPoller
  <2>3. QED
    BY <1>0, <1>5, <1>6, <2>1, <2>2 DEF Enter, Starting
<1>8. CASE StartTailer(c)
  <2>1. \/ Move(c, "commit") /\ UNCHANGED running
        \/ Enter(c, "tailer", "stream", "commit")
    BY <1>8 DEF StartTailer
  <2>2. chosen = "polling"
    BY <1>4, <1>8 DEF StartTailer
  <2>3. QED
    BY <1>0, <1>5, <1>6, <2>1, <2>2 DEF Enter, Starting
<1>9. QED
  BY <1>7, <1>8

(* The command that entered a service installs its only timer or stream.    *)
LEMMA InstallOrderly ==
  ASSUME ControlTypeOK, CommandShape, Orderly, NEW c \in Command,
         FirstCycleEnds(c) \/ TailerConnects(c)
  PROVE  Orderly'
<1>0. /\ cmd \in [Command -> CommandState] /\ live \in [Service -> Nat]
      /\ held \in [Service -> BOOLEAN]
  BY ControlTypes
<1>1. UNCHANGED <<running, gen, mirror, wanted, registered, enabled, chosen>>
  BY DEF FirstCycleEnds, TailerConnects, dataVars, configVars, historyVars
<1>2. PICK s \in Service : /\ cmd[c].at = Starting(s) /\ Install(c, s)
                           /\ \E at \in {"tailer", "commit"} : Move(c, at)
  BY DEF FirstCycleEnds, TailerConnects, Starting, Service
<1>3. cmd[c].at \in {"cycle", "stream"} /\ cmd[c].at \in Loading
  BY <1>2 DEF Starting, Loading
<1>4. /\ registered /\ wanted /\ cmd[c].kind \in Start
      /\ \A d \in Command : cmd[d].kind \notin Stops /\ cmd[d].at \notin Stopping
  BY <1>3, WhileStarting
<1>5. chosen = "polling"
  BY <1>3 DEF Orderly, ModeFits, Follows
<1>6. /\ \A d \in Command \ {c} : cmd'[d] = cmd[d]
      /\ cmd'[c].at \in {"tailer", "commit"} /\ cmd'[c].kind = cmd[c].kind
  BY <1>0, <1>2 DEF Move, CommandState
<1> USE DEF Orderly
<1>7. StopsAlone'
  BY <1>4, <1>6 DEF StopsAlone
<1>8. OneStarter'
  <2>1. /\ live[s] = 0 /\ cmd[c].gen = gen[s] /\ running[s]
        /\ \A d \in Command : cmd[d].at = Starting(s) => d = c
    BY <1>2 DEF OneStarter
  <2>2. live'[s] = 1 /\ held'[s]
    <3>1. live'[s] = live[s] + 1
      BY <1>0, <1>2 DEF Install
    <3>2. held'[s] = (held[s] \/ cmd[c].gen = gen[s])
      BY <1>0, <1>2 DEF Install
    <3>3. live'[s] = 1
      BY <2>1, <3>1
    <3>4. held'[s]
      BY <2>1, <3>2
    <3>5. QED
      BY <3>3, <3>4
  <2>3. \A r \in Service \ {s} : live'[r] = live[r] /\ held'[r] = held[r]
    BY <1>0, <1>2 DEF Install
  <2>4. \A d \in Command : cmd'[d].at # Starting(s)
    BY <1>6, <2>1 DEF Starting
  <2>5. ASSUME NEW r \in Service \ {s}
        PROVE  \A d \in Command : cmd'[d].at = Starting(r) => cmd[d].at = Starting(r) /\ cmd'[d] = cmd[d]
    BY <1>6 DEF Starting
  <2>6. ASSUME NEW r \in Service
        PROVE  /\ live'[r] <= 1 /\ (live'[r] = 1 => held'[r])
               /\ \A d \in Command : cmd'[d].at = Starting(r) =>
                    /\ running[r] /\ live'[r] = 0 /\ cmd'[d].gen = gen[r]
                    /\ \A e \in Command : cmd'[e].at = Starting(r) => d = e
               /\ ~running[r] => live'[r] = 0
    BY <2>1, <2>2, <2>3, <2>4, <2>5 DEF OneStarter
  <2>7. QED
    BY <1>1, <2>6 DEF OneStarter
<1>9. ModeFits'
  BY <1>1, <1>5, <1>6 DEF ModeFits, Follows
<1>10. StopProgress'
  BY <1>4, <1>6 DEF StopProgress, Stopping, Start, Stops
<1>11. WantedOnly'
  BY <1>1, <1>4, <1>6 DEF WantedOnly
<1>12. QED
  BY <1>7, <1>8, <1>9, <1>10, <1>11

(* A stop finds all that runs: nothing starts beside it.                    *)
LEMMA StopOrderly ==
  ASSUME ControlTypeOK, CommandShape, HeldIsLive, Orderly, NEW c \in Command, StopStep(c)
  PROVE  Orderly'
<1>0. /\ cmd \in [Command -> CommandState] /\ live \in [Service -> Nat]
      /\ held \in [Service -> BOOLEAN] /\ running \in [Service -> BOOLEAN]
      /\ mirror \in [Table -> {"none", "running", "paused"}]
      /\ Service = {"poller", "tailer"}
  BY ControlTypes DEF Service
<1>1. cmd[c].at \in Stopping \/ (cmd[c].at # "idle" /\ cmd[c].kind \in Stops)
  <2>1. CASE StopPoller(c) \/ CloseTailer(c) \/ PauseMirrors(c)
    <3>1. cmd[c].at \in {"stop", "close", "pause"}
      BY <2>1 DEF StopPoller, CloseTailer, PauseMirrors
    <3>2. QED
      BY <3>1 DEF Stopping
  <2>2. CASE CommitStop(c) \/ CommitDelete(c)
    BY <2>2 DEF CommitStop, CommitDelete, Stops
  <2>3. QED
    BY <2>1, <2>2 DEF StopStep
<1>2. /\ registered /\ cmd[c].kind \in Stops
      /\ \A d \in Command \ {c} : cmd[d].at = "idle" /\ cmd[d].kind = "none"
  BY <1>1, WhileStopping
<1>3. UNCHANGED chosen
  BY DEF StopStep, StopPoller, CloseTailer, PauseMirrors, CommitStop, CommitDelete, configVars
<1>4. \A d \in Command \ {c} : cmd'[d] = cmd[d]
  BY <1>0 DEF StopStep, StopPoller, CloseTailer, PauseMirrors, CommitStop, CommitDelete, Move,
              Finish
(* No service is being started, and each live one can be stopped.           *)
<1>5. \A s \in Service : live[s] \in {0, 1} /\ (live[s] = 1 => held[s])
  BY <1>0 DEF Orderly, OneStarter
<1>6. ASSUME NEW s \in Service, Halt(s)
      PROVE  /\ live'[s] = 0 /\ ~running'[s]
             /\ \A r \in Service \ {s} : live'[r] = live[r] /\ held'[r] = held[r]
                                       /\ running'[r] = running[r]
  <2>1. live'[s] = 0
    BY <1>0, <1>5, <1>6 DEF Halt, HeldIsLive
  <2>2. QED
    BY <1>0, <1>6, <2>1 DEF Halt
(* It is enough to look at the services, the mirrors and the command.       *)
<1>7. ASSUME \/ cmd'[c] = NoCommand
             \/ /\ cmd'[c].kind = cmd[c].kind
                /\ cmd'[c].at \in {"close", "pause", "commit"},
             \A s \in Service : \/ live'[s] = 0
                               \/ /\ live'[s] = live[s] /\ held'[s] = held[s]
                                  /\ running'[s] = running[s],
             \A t \in Table : mirror'[t] = "running" => mirror[t] = "running",
             StopProgress', WantedOnly'
      PROVE  Orderly'
  <2>1. /\ cmd'[c].at \in {"idle", "close", "pause", "commit"}
        /\ \A d \in Command : d # c => cmd'[d].at = "idle" /\ cmd'[d].kind = "none"
    BY <1>2, <1>4, <1>7, RestTypes
  <2>2. StopsAlone'
    BY <2>1 DEF StopsAlone, Stops
  <2>3. OneStarter'
    <3>1. \A s \in Service : \A d \in Command : cmd'[d].at # Starting(s)
      BY <2>1 DEF Starting
    <3>2. \A s \in Service :
            live'[s] <= 1 /\ (live'[s] = 1 => held'[s]) /\ (~running'[s] => live'[s] = 0)
      BY <1>7 DEF Orderly, OneStarter
    <3>3. QED
      BY <3>1, <3>2 DEF OneStarter
  <2>4. ModeFits'
    <3>1. \A d \in Command : Follows(cmd[d])'
      BY <2>1 DEF Follows
    <3>2. /\ \A s \in Service : live'[s] > 0 => chosen' = "polling"
          /\ \A t \in Table : mirror'[t] = "running" => chosen' = "peerdb"
      BY <1>3, <1>7 DEF Orderly, ModeFits
    <3>3. QED
      BY <3>1, <3>2 DEF ModeFits
  <2>5. QED
    BY <1>7, <2>2, <2>3, <2>4 DEF Orderly
<1>8. /\ enabled => wanted
      /\ ~wanted => NothingRuns
      /\ \A s \in Service : live[s] > 0 => chosen = "polling"
      /\ \A t \in Table : mirror[t] = "running" => chosen = "peerdb"
  BY DEF Orderly, WantedOnly, ModeFits
<1>9. CASE StopPoller(c)
  <2>1. UNCHANGED <<mirror, wanted, registered, enabled>> /\ cmd[c].at = "stop"
    BY <1>9 DEF StopPoller, configVars, dataVars, historyVars
  <2>2. CASE cmd[c].kind = "delete" \/ chosen \in {"auto", "polling"}
    <3>1. Halt("poller") /\ cmd' = [cmd EXCEPT ![c].at = "close"]
      BY <1>9, <2>2 DEF StopPoller, Move
    <3>2. cmd'[c].at = "close" /\ cmd'[c].kind = cmd[c].kind
      BY <1>0, <3>1 DEF CommandState
    <3>3. /\ live'["poller"] = 0 /\ live'["tailer"] = live["tailer"]
          /\ \A s \in Service : \/ live'[s] = 0
                               \/ /\ live'[s] = live[s] /\ held'[s] = held[s]
                                  /\ running'[s] = running[s]
      BY <1>0, <1>6, <3>1
    <3>4. cmd[c].kind = "stop" => \A t \in Table : mirror'[t] # "running"
      BY <1>8, <2>1, <2>2
    <3>5. StopProgress'
      BY <1>2, <1>4, <3>2, <3>3, <3>4 DEF StopProgress, Stops
    <3>6. WantedOnly'
      BY <1>0, <1>2, <1>4, <1>8, <2>1, <3>2, <3>3 DEF WantedOnly, NothingRuns, Stops, Start
    <3>7. QED
      BY <1>7, <2>1, <3>2, <3>3, <3>5, <3>6
  <2>3. CASE cmd[c].kind # "delete" /\ chosen \in {"peerdb", "none"}
    <3>1. /\ UNCHANGED serviceVars
          /\ cmd' = [cmd EXCEPT ![c].at = IF chosen = "peerdb" THEN "pause" ELSE "commit",
                                ![c].todo = Table]
      BY <1>9, <2>3 DEF StopPoller
    <3>2. /\ cmd'[c].at = (IF chosen = "peerdb" THEN "pause" ELSE "commit")
          /\ cmd'[c].kind = cmd[c].kind
      BY <1>0, <3>1 DEF CommandState
    <3>3. (\A s \in Service : live'[s] = 0) /\ UNCHANGED <<live, held, running>>
      BY <1>0, <1>5, <1>8, <2>3, <3>1 DEF serviceVars
    <3>4. StopProgress'
      BY <1>2, <1>4, <1>8, <2>1, <2>3, <3>2, <3>3 DEF StopProgress, Stops, Service
    <3>5. WantedOnly'
      BY <1>0, <1>2, <1>4, <1>8, <2>1, <3>2, <3>3 DEF WantedOnly, NothingRuns, Stops, Start
    <3>6. QED
      BY <1>7, <2>1, <3>2, <3>3, <3>4, <3>5
  <2>4. QED
    BY <2>2, <2>3, ControlTypes DEF Mode
<1>10. CASE CloseTailer(c)
  <2>1. /\ UNCHANGED <<mirror, wanted, registered, enabled>> /\ cmd[c].at = "close"
        /\ Halt("tailer") /\ cmd' = [cmd EXCEPT ![c].at = "commit"]
    BY <1>10 DEF CloseTailer, Move, configVars, dataVars, historyVars
  <2>2. cmd'[c].at = "commit" /\ cmd'[c].kind = cmd[c].kind
    BY <1>0, <2>1 DEF CommandState
  <2>3. /\ \A s \in Service : live'[s] = 0
        /\ cmd[c].kind = "stop" => \A t \in Table : mirror[t] # "running"
    BY <1>0, <1>6, <2>1 DEF Orderly, StopProgress
  <2>4. StopProgress'
    BY <1>2, <1>4, <2>1, <2>2, <2>3 DEF StopProgress, Stops, Service
  <2>5. WantedOnly'
    BY <1>2, <1>4, <1>8, <2>1, <2>2, <2>3 DEF WantedOnly, NothingRuns, Stops, Start
  <2>6. QED
    BY <1>7, <2>1, <2>2, <2>3, <2>4, <2>5
<1>11. CASE PauseMirrors(c)
  <2>1. /\ UNCHANGED <<live, held, running, wanted, registered, enabled>> /\ cmd[c].at = "pause"
        /\ \A t \in Table : mirror'[t] # "running"
        /\ cmd' = [cmd EXCEPT ![c].at = "commit"]
    BY <1>11 DEF PauseMirrors, Move, configVars, serviceVars, historyVars
  <2>2. cmd'[c].at = "commit" /\ cmd'[c].kind = cmd[c].kind
    BY <1>0, <2>1 DEF CommandState
  <2>3. \A s \in Service : live'[s] = 0
    BY <2>1 DEF Orderly, StopProgress
  <2>4. StopProgress'
    BY <1>2, <1>4, <2>1, <2>2, <2>3 DEF StopProgress, Stops, Service
  <2>5. WantedOnly'
    BY <1>2, <1>4, <1>8, <2>1, <2>2, <2>3 DEF WantedOnly, NothingRuns, Stops, Start
  <2>6. QED
    BY <1>7, <2>1, <2>2, <2>3, <2>4, <2>5
<1>12. CASE CommitStop(c) \/ CommitDelete(c)
  <2>1. /\ UNCHANGED <<live, held, running, mirror>> /\ cmd[c].at = "commit"
        /\ cmd' = [cmd EXCEPT ![c] = NoCommand]
    BY <1>12 DEF CommitStop, CommitDelete, Finish, dataVars, serviceVars
  <2>2. cmd'[c] = NoCommand
    BY <1>0, <2>1
  <2>3. (\A s \in Service : live[s] = 0)
        /\ (cmd[c].kind = "stop" => \A t \in Table : mirror[t] # "running")
    BY <1>2, <2>1 DEF Orderly, StopProgress
  <2>4. StopProgress'
    BY <1>2, <1>4, <2>1, <2>2, <2>3, RestTypes DEF StopProgress, Stops, Service
  <2>5. \A d \in Command : cmd'[d].at = "idle" /\ cmd'[d].kind = "none"
    BY <1>2, <1>4, <2>2, RestTypes
  <2>6. \/ /\ cmd[c].kind = "stop" /\ enabled' = FALSE /\ wanted' = FALSE
        \/ UNCHANGED <<enabled, wanted>>
    BY <1>12 DEF CommitStop, CommitDelete, historyVars
  <2>7. WantedOnly'
    BY <1>8, <2>1, <2>3, <2>5, <2>6 DEF WantedOnly, NothingRuns, Start, Idle
  <2>8. QED
    BY <1>7, <2>1, <2>2, <2>4, <2>7
<1>13. QED
  BY <1>9, <1>10, <1>11, <1>12 DEF StopStep

(* A crash leaves nothing but the mirrors running; the restore at boot is   *)
(* of what is wanted.                                                      *)
LEMMA CrashOrderly ==
  ASSUME ControlTypeOK, CommandShape, Orderly, Crash \/ Boot
  PROVE  Orderly'
<1>0. cmd \in [Command -> CommandState]
  BY ControlTypes
<1> USE RestTypes DEF Orderly, configVars, dataVars, serviceVars, historyVars
<1>1. UNCHANGED <<mirror, chosen, wanted, registered, enabled>>
  BY DEF Crash, Boot
<1>2. CASE Crash
  <2>1. /\ \A c \in Command : cmd'[c] = NoCommand
        /\ \A s \in Service : live'[s] = 0
    BY <1>2 DEF Crash
  <2>2. StopsAlone' /\ StopProgress'
    BY <2>1 DEF StopsAlone, StopProgress, Stops, Service
  <2>3. OneStarter'
    BY <2>1 DEF OneStarter, Starting
  <2>4. ModeFits'
    BY <1>1, <2>1 DEF ModeFits, Follows
  <2>5. WantedOnly'
    BY <1>1, <2>1 DEF WantedOnly, NothingRuns, Idle, Start
  <2>6. QED
    BY <2>2, <2>3, <2>4, <2>5
<1>3. CASE Boot
  <2>1. UNCHANGED <<running, live, held, gen>> /\ Idle
    BY <1>3 DEF Boot
  <2>2. CASE UNCHANGED cmd
    BY <1>1, <2>1, <2>2, QuietStep DEF WantedOnly
  <2>3. CASE ~UNCHANGED cmd
    <3>1. PICK c \in Command :
            /\ cmd' = [cmd EXCEPT ![c] = [NoCommand EXCEPT !.kind = "boot", !.at = "probe"]]
            /\ registered /\ enabled
      BY <1>3, <2>3 DEF Boot
    <3>2. /\ \A d \in Command \ {c} : cmd'[d] = cmd[d] /\ cmd[d].at = "idle"
          /\ cmd'[c].at = "probe" /\ cmd'[c].kind = "boot"
      BY <1>0, <2>1, <3>1 DEF NoCommand, Idle
    <3>3. \A d \in Command : cmd'[d].kind \notin Stops
      BY <3>2 DEF CommandShape, Stops
    <3>4. StopsAlone' /\ StopProgress'
      BY <3>2, <3>3 DEF StopsAlone, StopProgress
    <3>5. OneStarter'
      BY <2>1, <3>2 DEF OneStarter, Starting
    <3>6. ModeFits'
      BY <1>1, <2>1, <3>2 DEF ModeFits, Follows
    <3>7. WantedOnly'
      BY <1>1, <2>1, <3>1 DEF WantedOnly, NothingRuns
    <3>8. QED
      BY <3>4, <3>5, <3>6, <3>7
  <2>4. QED
    BY <2>2, <2>3
<1>4. QED
  BY <1>2, <1>3

(* Every step keeps all of it.                                              *)
LEMMA CarefulInvStep ==
  ASSUME Careful
  PROVE  CarefulInv /\ [ControlNext]_controlVars => CarefulInv'
<1> SUFFICES ASSUME CarefulInv, [ControlNext]_controlVars PROVE Orderly'
  BY LoadInvStep DEF CarefulInv
<1>1. ControlTypeOK /\ CommandShape /\ HeldIsLive /\ Orderly
  BY DEF CarefulInv, LoadInv
<1>2. CASE UNCHANGED controlVars
  BY <1>1, <1>2, QuietStep DEF controlVars, Orderly, WantedOnly
<1>3. ASSUME NEW c \in Command, StartStep(c) \/ CreateFails(c) \/ CheckpointFails(c)
      PROVE  Orderly'
  BY <1>1, <1>3, StartQuiet, ProbeOrderly, AttachOrderly, EnterOrderly, InstallOrderly
     DEF StartStep
<1>4. QED
  BY <1>1, <1>2, <1>3, GiveOrderly, RunQuiet, StopOrderly, CrashOrderly DEF ControlNext

(* Nothing runs at first.                                                   *)
LEMMA CarefulInvInit == ControlInit => CarefulInv
<1> SUFFICES ASSUME ControlInit PROVE Orderly
  BY LoadInvInit DEF CarefulInv
<1>1. /\ \A c \in Command : cmd[c].at = "idle" /\ cmd[c].kind = "none"
      /\ \A s \in Service : live[s] = 0
      /\ \A t \in Table : mirror[t] = "none"
      /\ enabled = FALSE /\ registered = TRUE
  BY RestTypes DEF ControlInit
<1>2. QED
  BY <1>1 DEF Orderly, StopsAlone, OneStarter, Starting, ModeFits, Follows, StopProgress,
     WantedOnly, NothingRuns, Idle, Stops, Start, Service

(* When stops, deletions and changes of mode are given on their own, a      *)
(* stopped or deleted database leaves nothing behind, and no poll timer or  *)
(* binlog stream is ever doubled, however starts overlap, fail or are cut   *)
(* short by a crash.                                                       *)
THEOREM RunsWhatWasAsked == Careful => (ControlSpec => []RunsAsAsked)
<1> SUFFICES ASSUME Careful PROVE ControlSpec => []RunsAsAsked
  OBVIOUS
<1>1. CarefulInv => RunsAsAsked
  BY DEF CarefulInv, LoadInv, Orderly, RunsAsAsked, StoppedIsStopped, WantedOnly, OneOfEach,
         OneStarter
<1>2. CarefulInv /\ [ControlNext]_controlVars => CarefulInv'
  BY CarefulInvStep
<1>3. QED
  BY <1>1, <1>2, CarefulInvInit, PTL DEF ControlSpec
=============================================================================
