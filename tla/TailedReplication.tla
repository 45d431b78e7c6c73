-------------------------- MODULE TailedReplication --------------------------
(***************************************************************************)
(* BinlogTailerService (CDC-lite) beside ClickHouseSyncService, for one     *)
(* table.  The tailer follows the MySQL binlog: a delete becomes a         *)
(* tombstone row in <t>__raw, any other row event asks for an incremental  *)
(* sync of the table.  The steps of a sync are those of TableReplication.  *)
(*                                                                         *)
(* The stream is zongji's, an external library: it delivers the events in   *)
(* binlog order from where it was started.  The handler of an event is not  *)
(* awaited, so tombstones of several events are in flight at once.         *)
(*                                                                         *)
(* A tombstone is stamped and written in one step: what another writer does *)
(* between the two is what it could do just before or just after, except    *)
(* for a page that is read but not yet inserted.  The stamps of its rows    *)
(* may fall on either side of the tombstone's (see InsertOvertaken).       *)
(***************************************************************************)
EXTENDS TableReplication, Sequences

CONSTANTS
  tailer,       (* the process that runs the syncs the tailer asks for           *)
  KeysReused,   (* a deleted primary key may be inserted again                   *)
  Breaks,       (* which failures occur: "stream" (the connection), "tombstone"  *)
                (* (its insert), "load" (reading the checkpoint), "restart"      *)
  MaxBreaks     (* bound: how many of them                                       *)

ASSUME TailerAssumption ==
  /\ tailer \in Proc
  /\ KeysReused \in BOOLEAN
  /\ Breaks \subseteq {"stream", "tombstone", "load", "restart"}
  /\ MaxBreaks \in Nat

VARIABLES
  binlog,     (* the row events MySQL has logged                               *)
  link,       (* the stream: "off", "down" (a retry is due), "opening", "up"   *)
  reading,    (* how many events the stream has delivered or skipped           *)
  position,   (* status.binlogPosition / gtidSet: the event last seen          *)
  dirty,      (* checkpointDirty                                               *)
  stored,     (* the checkpoint in cdc_binlog_position                         *)
  attempts,   (* reconnectAttempts; 2 stands for two and more                  *)
  landing,    (* delete events whose tombstone is being written                *)
  overtaken,  (* per process, events whose tombstone was stamped after the     *)
              (* page it holds was read, and deletes a row of that page        *)
  nudged,     (* pendingNudges has the table                                   *)
  flush,      (* "idle", "timer" (nudgeTimer is armed), "syncing" (in flight)  *)
  excused,    (* history: delete events no tombstone will ever follow          *)
  breaks      (* bound                                                         *)

streamVars == <<link, reading, attempts>>
spotVars   == <<position, dirty, stored>>
nudgeVars  == <<nudged, flush>>
tailVars   == <<binlog, streamVars, spotVars, landing, overtaken, nudgeVars, excused, breaks>>
allVars    == <<vars, tailVars>>

None    == -1
Events  == DOMAIN binlog
Event   == [kind : {"write", "delete"}, key : Key]

TailTypeOK ==
  /\ TypeOK
  /\ binlog \in Seq(Event)
  /\ link \in {"off", "down", "opening", "up"}
  /\ reading \in 0 .. Len(binlog)
  /\ position \in None .. Len(binlog)
  /\ dirty \in BOOLEAN
  /\ stored \in None .. Len(binlog)
  /\ attempts \in 0 .. 2
  /\ landing \subseteq Events
  /\ overtaken \in [Proc -> SUBSET Events]
  /\ nudged \in BOOLEAN
  /\ flush \in {"idle", "timer", "syncing"}
  /\ excused \subseteq Events
  /\ breaks \in 0 .. MaxBreaks

(* The tailer starts after Phase 1: the table has been copied.             *)
TailInit ==
  /\ mysql \in [Key -> {NoRow, [ver |-> 1, ts |-> 1]}]
  /\ clock = 1
  /\ nextVer = 2
  /\ schema = 0
  /\ viewUp = TRUE
  /\ rawUp = TRUE
  /\ rawSchema = 0
  /\ raw = [k \in Key |-> [ver |-> mysql[k].ver, dead |-> FALSE]]
  /\ watermark = IF \E k \in Key : Present(k) THEN 1 ELSE NoTime
  /\ lock = FALSE
  /\ pc = [p \in Proc |-> "idle"]
  /\ mode = [p \in Proc |-> "none"]
  /\ jobSchema = [p \in Proc |-> 0]
  /\ cursorKey = [p \in Proc |-> 0]
  /\ cursorTs = [p \in Proc |-> NoTime]
  /\ page = [p \in Proc |-> EmptyPage]
  /\ more = [p \in Proc |-> FALSE]
  /\ rebuildFaults = 0
  /\ otherFaults = 0
  /\ binlog = <<>>
  /\ link = "off"
  /\ reading = 0
  /\ position = None
  /\ dirty = FALSE
  /\ stored = None
  /\ attempts = 0
  /\ landing = {}
  /\ overtaken = [p \in Proc |-> {}]
  /\ nudged = FALSE
  /\ flush = "idle"
  /\ excused = {}
  /\ breaks = 0

Break(kind) ==
  /\ kind \in Breaks
  /\ breaks < MaxBreaks
  /\ breaks' = breaks + 1

-----------------------------------------------------------------------------
(* MySQL logs every row it writes or deletes.                              *)

Logged(kind, k) == binlog' = Append(binlog, [kind |-> kind, key |-> k])

Deleted(k) == \E i \in Events : binlog[i] = [kind |-> "delete", key |-> k]

SourceLogs ==
  /\ \/ \E k \in Key :
          \/ (KeysReused \/ ~Deleted(k)) /\ Write(k) /\ Logged("write", k)
          \/ Delete(k) /\ Logged("delete", k)
     \/ Tick /\ UNCHANGED binlog
  /\ UNCHANGED <<streamVars, spotVars, landing, overtaken, nudgeVars, excused, breaks>>

-----------------------------------------------------------------------------
(* The stream.                                                             *)

(* The event will be delivered, at once or after the next connect.         *)
Ahead(i) ==
  IF link \in {"opening", "up"} THEN i > reading ELSE stored = None \/ i > stored

(* start: every projection view is created anew, whoever holds the table's  *)
(* lock; the statement fails, and is ignored, when there is no <t>__raw.   *)
StartTailer ==
  /\ link = "off"
  /\ viewUp' = (viewUp \/ rawUp)
  /\ link' = "down"
  /\ attempts' = 0
  /\ UNCHANGED <<sourceVars, rawUp, rawSchema, raw, watermark, lock, jobVars, faultVars,
                 binlog, reading, spotVars, landing, overtaken, nudgeVars, excused, breaks>>

OpenAt(start) ==
  /\ reading' = start
  /\ link' = "opening"
  /\ UNCHANGED attempts

(* connect, with a checkpoint that could be read.                          *)
ConnectFromCheckpoint ==
  /\ link = "down"
  /\ attempts < 2
  /\ stored # None
  /\ OpenAt(stored)
  /\ UNCHANGED <<vars, binlog, spotVars, landing, overtaken, nudgeVars, excused, breaks>>

SkipToEnd ==
  /\ OpenAt(Len(binlog))
  /\ excused' = excused \cup {i \in Events : Ahead(i)}

(* connect, without one or when reading it fails: startAtEnd.              *)
ConnectAtEnd ==
  /\ link = "down"
  /\ attempts < 2
  /\ IF stored = None THEN UNCHANGED breaks ELSE Break("load")
  /\ SkipToEnd
  /\ UNCHANGED <<vars, binlog, spotVars, landing, overtaken, nudgeVars>>

(* After two failures in a row the checkpoint is dropped before connecting.  *)
(* If the delete is refused the next connect may still find it.            *)
DropCheckpoint ==
  /\ link = "down"
  /\ attempts = 2
  /\ position' = None
  /\ dirty' = FALSE
  /\ stored' = None
  /\ SkipToEnd
  /\ UNCHANGED <<vars, binlog, landing, overtaken, nudgeVars, breaks>>

StreamReady ==
  /\ link = "opening"
  /\ link' = "up"
  /\ attempts' = 0
  /\ UNCHANGED <<vars, binlog, reading, spotVars, landing, overtaken, nudgeVars, excused, breaks>>

(* scheduleReconnect: what was handled since the checkpoint comes again.   *)
StreamError ==
  /\ link \in {"opening", "up"}
  /\ Break("stream")
  /\ link' = "down"
  /\ attempts' = IF attempts < 2 THEN attempts + 1 ELSE 2
  /\ UNCHANGED <<vars, binlog, reading, spotVars, landing, overtaken, nudgeVars, excused>>

(* persistCheckpoint, every five seconds.                                  *)
Persist ==
  /\ link # "off"
  /\ dirty
  /\ stored' = position
  /\ dirty' = FALSE
  /\ UNCHANGED <<vars, binlog, streamVars, position, landing, overtaken, nudgeVars,
                 excused, breaks>>

-----------------------------------------------------------------------------
(* Handling one event (handleEvent).                                       *)

See(i) ==
  /\ reading' = i
  /\ position' = i
  /\ dirty' = TRUE

(* Mutant of DeliverDelete: deletes of a table under a sync are skipped.     *)
DeliverUnlocked ==
  /\ link = "up"
  /\ reading < Len(binlog)
  /\ binlog[reading + 1].kind = "delete"
  /\ See(reading + 1)
  /\ landing' = IF lock THEN landing ELSE landing \cup {reading + 1}
  /\ UNCHANGED <<vars, binlog, link, attempts, stored, overtaken, nudgeVars, excused, breaks>>

(* The position moves first, then the tombstone is written.                *)
DeliverDelete ==
  /\ link = "up"
  /\ reading < Len(binlog)
  /\ binlog[reading + 1].kind = "delete"
  /\ See(reading + 1)
  /\ landing' = landing \cup {reading + 1}
  /\ UNCHANGED <<vars, binlog, link, attempts, stored, overtaken, nudgeVars, excused, breaks>>

(* queueNudge arms the timer unless it is armed or a flush is in flight.   *)
DeliverWrite ==
  /\ link = "up"
  /\ reading < Len(binlog)
  /\ binlog[reading + 1].kind = "write"
  /\ See(reading + 1)
  /\ nudged' = TRUE
  /\ flush' = IF flush = "idle" THEN "timer" ELSE flush
  /\ UNCHANGED <<vars, binlog, link, attempts, stored, landing, overtaken, excused, breaks>>

InHand(p, k) == pc[p] = "insert" /\ page[p][k] # NoRow

(* writeTombstones: the newest row of the key is now a tombstone.          *)
Land(i) ==
  LET k == binlog[i].key
  IN  /\ i \in landing
      /\ rawUp
      /\ raw' = [raw EXCEPT ![k] = [ver |-> @.ver, dead |-> TRUE]]
      /\ landing' = landing \ {i}
      /\ overtaken' = [p \in Proc |-> IF InHand(p, k) THEN overtaken[p] \cup {i} ELSE overtaken[p]]
      /\ UNCHANGED <<sourceVars, viewUp, rawUp, rawSchema, watermark, lock, jobVars, faultVars,
                     binlog, streamVars, spotVars, nudgeVars, excused, breaks>>

(* The insert is rejected, always when a rebuild has dropped <t>__raw: the   *)
(* error is logged and the event forgotten.                                *)
TombstoneFails(i) ==
  /\ i \in landing
  /\ IF rawUp THEN Break("tombstone") ELSE UNCHANGED breaks
  /\ landing' = landing \ {i}
  /\ excused' = excused \cup {i}
  /\ UNCHANGED <<vars, binlog, streamVars, spotVars, overtaken, nudgeVars>>

-----------------------------------------------------------------------------
(* Syncs, the tailer's own among them.                                     *)

(* Mutant of FlushNudges: the flush does not look again at pendingNudges.   *)
FlushOnce ==
  \/ /\ flush = "timer"
     /\ flush' = "syncing"
     /\ nudged' = FALSE
     /\ IF lock THEN UNCHANGED vars ELSE Acquire(tailer, "single")
  \/ /\ flush = "syncing"
     /\ pc[tailer] = "idle"
     /\ flush' = "idle"
     /\ UNCHANGED <<vars, nudged>>

(* flushNudges: the nudges that came during a sync are served before the    *)
(* flush ends.  A sync that is refused, or fails, is not tried again.      *)
FlushNudges ==
  \/ /\ \/ flush = "timer"
        \/ flush = "syncing" /\ pc[tailer] = "idle" /\ nudged
     /\ flush' = "syncing"
     /\ nudged' = FALSE
     /\ IF lock THEN UNCHANGED vars ELSE Acquire(tailer, "single")
  \/ /\ flush = "syncing"
     /\ pc[tailer] = "idle"
     /\ ~nudged
     /\ flush' = "idle"
     /\ UNCHANGED <<vars, nudged>>

Flush ==
  /\ FlushNudges
  /\ UNCHANGED <<binlog, streamVars, spotVars, landing, overtaken, excused, breaks>>

(* Rows of the page are stamped after it is read: some of them before the   *)
(* tombstone that overtook them (it stays the newest row), some after.     *)
InsertOvertaken(p) ==
  /\ pc[p] = "insert"
  /\ \E beaten \in SUBSET overtaken[p] :
       /\ raw' = [k \in Key |->
                    IF page[p][k] = NoRow \/ \E i \in overtaken[p] \ beaten : binlog[i].key = k
                      THEN raw[k]
                      ELSE [ver |-> page[p][k].ver, dead |-> FALSE]]
       /\ excused' = excused \cup beaten
  /\ page' = [page EXCEPT ![p] = EmptyPage]
  /\ overtaken' = [overtaken EXCEPT ![p] = {}]
  /\ Goto(p, IF more[p] THEN "read" ELSE "save")
  /\ UNCHANGED <<sourceVars, viewUp, rawUp, rawSchema, watermark, lock, mode, jobSchema,
                 cursorVars, more, faultVars,
                 binlog, streamVars, spotVars, landing, nudgeVars, breaks>>

TailedSync(p) ==
  \/ overtaken[p] # {} /\ InsertOvertaken(p)
  \/ overtaken[p] = {} /\ SyncStep(p) /\ UNCHANGED tailVars

SyncEnds(p) ==
  /\ SchemaFails(p) \/ SyncFails(p)
  /\ overtaken' = [overtaken EXCEPT ![p] = {}]
  /\ UNCHANGED <<binlog, streamVars, spotVars, landing, nudgeVars, excused, breaks>>

OtherRequests(p) ==
  /\ \E request \in Request : Acquire(p, request)
  /\ UNCHANGED tailVars

(* The server process dies: what only memory held is gone, and a tombstone  *)
(* on its way is lost if the checkpoint is past its event.                 *)
TailRestart ==
  /\ Break("restart")
  /\ lock' = FALSE
  /\ pc' = [p \in Proc |-> "idle"]
  /\ mode' = [p \in Proc |-> "none"]
  /\ jobSchema' = [p \in Proc |-> 0]
  /\ cursorKey' = [p \in Proc |-> 0]
  /\ cursorTs' = [p \in Proc |-> NoTime]
  /\ page' = [p \in Proc |-> EmptyPage]
  /\ more' = [p \in Proc |-> FALSE]
  /\ link' = "off"
  /\ position' = None
  /\ dirty' = FALSE
  /\ attempts' = 0
  /\ excused' = excused \cup {i \in landing : i <= stored}
  /\ landing' = {}
  /\ overtaken' = [p \in Proc |-> {}]
  /\ nudged' = FALSE
  /\ flush' = "idle"
  /\ UNCHANGED <<sourceVars, copyVars, faultVars, binlog, reading, stored>>

-----------------------------------------------------------------------------
Handle == DeliverDelete \/ DeliverWrite \/ \E i \in Events : Land(i)

TailNext ==
  \/ SourceLogs
  \/ StartTailer \/ ConnectFromCheckpoint \/ ConnectAtEnd \/ DropCheckpoint
  \/ StreamReady \/ StreamError \/ Persist
  \/ Handle
  \/ \E i \in Events : TombstoneFails(i)
  \/ Flush
  \/ \E p \in Proc : TailedSync(p) \/ SyncEnds(p)
  \/ \E p \in Proc \ {tailer} : OtherRequests(p)
  \/ TailRestart

(* A timer that is armed fires and the awaits of a running sync settle.    *)
TailSpec ==
  /\ TailInit /\ [][TailNext]_allVars
  /\ WF_allVars(Flush)
  /\ \A p \in Proc : WF_allVars(TailedSync(p))

-----------------------------------------------------------------------------
(* Properties.                                                             *)

LastDelete(k, i) ==
  /\ binlog[i] = [kind |-> "delete", key |-> k]
  /\ \A j \in Events : j > i => binlog[j].key # k

(* A deleted row that the view still shows is never simply forgotten: its    *)
(* event is still to be delivered, its tombstone is on its way, or the       *)
(* event is one of those the tailer gives up, all of which are named above:  *)
(* a rejected insert, a crash after the checkpoint, a gap of the stream, a   *)
(* page that was read before the delete.                                   *)
GhostsExplained ==
  \A k \in Key : \A i \in Events :
    LastDelete(k, i) /\ Visible(k) # 0 => Ahead(i) \/ i \in landing \/ i \in excused

(* A tombstone does not stick: once the key is inserted again, its row is    *)
(* shown or the next incremental sync will read it.                        *)
TombstonesDoNotStick ==
  viewUp /\ (\A p \in Proc : ~Rebuilding(p)) =>
    \A k \in Key : Present(k) /\ raw[k].dead => mysql[k].ts >= watermark

(* Every write event that is delivered is followed by a request for a sync,  *)
(* also when it comes while the flush of earlier ones is in flight.        *)
NudgesServed == nudged ~> ~nudged
=============================================================================
