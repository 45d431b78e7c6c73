----------------------- MODULE TailedReplicationProofs -----------------------
(* Theorems about TailedReplication, for every table, every binlog and any  *)
(* number of failures.  Keys may be used again.                            *)
EXTENDS MCTailedReplication, TableReplicationProofs

(***************************************************************************)
(* The inductive invariant.                                                *)
(***************************************************************************)

(* No tailer has had the event yet, and none will start behind it: what is  *)
(* delivered, and what the checkpoint has been moved past, is at or before  *)
(* the position.                                                           *)
Unseen(i) ==
  /\ i > position
  /\ i > stored
  /\ link \in {"opening", "up"} => i > reading

Explained(i) == Unseen(i) \/ i \in landing \/ i \in excused

(* A row of <t>__raw that a view shows as soon as there is one.             *)
Standing(k) == raw[k].ver # 0 /\ ~raw[k].dead

(* What is known of the last delete of a key that was not inserted since:   *)
(* MySQL has no row, one that stands in <t>__raw is explained, and one that *)
(* a sync is about to insert is explained or overtaken by the tombstone.    *)
DeleteFollowed ==
  \A k \in Key : \A i \in Events : LastDelete(k, i) =>
    /\ mysql[k] = NoRow
    /\ Standing(k) => Explained(i)
    /\ \A p \in Proc : InHand(p, k) => Explained(i) \/ i \in overtaken[p]

TailInv == TailTypeOK /\ DeleteFollowed

(***************************************************************************)
(* Type correctness.                                                       *)
(***************************************************************************)

(* What the type says of the binlog.                                        *)
LEMMA BinlogFacts ==
  ASSUME TailTypeOK
  PROVE  /\ Len(binlog) \in Nat /\ Events = 1 .. Len(binlog)
         /\ \A i \in Events : binlog[i] \in Event
<1>1. binlog \in Seq(Event)
  BY DEF TailTypeOK
<1>2. QED
  BY <1>1 DEF Events

(* Types of TableReplication are kept: most steps are steps of that module  *)
(* or leave it alone.                                                      *)
LEMMA TailTableTypeStep == TailTypeOK /\ [TailNext]_allVars => TypeOK'
<1> SUFFICES ASSUME TailTypeOK, [TailNext]_allVars PROVE TypeOK'
  OBVIOUS
<1> USE TailerAssumption
<1>0. TypeOK
  BY DEF TailTypeOK
<1>1. CASE UNCHANGED vars
  BY <1>0, <1>1, TypeStep
<1>2. CASE SourceLogs
  <2>1. Source
    BY <1>2 DEF SourceLogs, Source
  <2>2. QED
    BY <1>0, <2>1, TypeStep DEF Next
<1>3. CASE StartTailer
  BY <1>0, <1>3 DEF StartTailer, TypeOK, sourceVars, jobVars, faultVars
<1>4. ASSUME NEW i \in Events, Land(i) PROVE TypeOK'
  <2>1. binlog[i].key \in Key
    BY <1>4, BinlogFacts DEF Event
  <2>2. raw' \in [Key -> Entry]
    BY <1>0, <1>4, <2>1 DEF Land, TypeOK, Entry
  <2>3. QED
    BY <1>0, <1>4, <2>2 DEF Land, TypeOK, sourceVars, jobVars, faultVars
<1>5. CASE Flush
  <2>1. UNCHANGED vars \/ Acquire(tailer, "single")
    BY <1>5 DEF Flush, FlushNudges
  <2>2. QED
    BY <1>0, <2>1, TypeStep DEF Next, Request
<1>6. ASSUME NEW p \in Proc, TailedSync(p) PROVE TypeOK'
  <2>1. CASE SyncStep(p)
    BY <1>0, <2>1, TypeStep DEF Next
  <2>2. CASE InsertOvertaken(p)
    <3>1. raw' \in [Key -> Entry] /\ page' \in [Proc -> [Key -> Row]] /\ pc' \in [Proc -> PC]
      BY <1>0, <2>2, EmptyPageType DEF InsertOvertaken, TypeOK, Row, Entry, Goto, PC
    <3>2. QED
      BY <1>0, <2>2, <3>1 DEF InsertOvertaken, TypeOK, sourceVars, cursorVars, faultVars
  <2>3. QED
    BY <1>6, <2>1, <2>2 DEF TailedSync
<1>7. ASSUME NEW p \in Proc, SyncEnds(p) PROVE TypeOK'
  BY <1>0, <1>7, TypeStep DEF SyncEnds, Next
<1>8. ASSUME NEW p \in Proc, OtherRequests(p) PROVE TypeOK'
  BY <1>0, <1>8, TypeStep DEF OtherRequests, Next
<1>9. CASE TailRestart
  BY <1>0, <1>9, EmptyPageType
     DEF TailRestart, TypeOK, PC, NoTime, sourceVars, copyVars, faultVars
<1>10. CASE \/ ConnectFromCheckpoint \/ ConnectAtEnd \/ DropCheckpoint
            \/ StreamReady \/ StreamError \/ Persist \/ DeliverDelete \/ DeliverWrite
            \/ \E i \in Events : TombstoneFails(i)
  BY <1>1, <1>10 DEF ConnectFromCheckpoint, ConnectAtEnd, DropCheckpoint, StreamReady,
     StreamError, Persist, DeliverDelete, DeliverWrite, TombstoneFails
<1>11. CASE UNCHANGED allVars
  BY <1>1, <1>11 DEF allVars
<1>12. QED
  BY <1>2, <1>3, <1>4, <1>5, <1>6, <1>7, <1>8, <1>9, <1>10, <1>11 DEF TailNext, Handle

(* The tailer's own variables keep their types.                             *)
LEMMA TailTypeStep == TailTypeOK /\ [TailNext]_allVars => TailTypeOK'
<1> SUFFICES ASSUME TailTypeOK, [TailNext]_allVars PROVE TailTypeOK'
  OBVIOUS
<1>0. TypeOK'
  BY TailTableTypeStep
<1> USE <1>0, TailerAssumption
<1> USE DEF TailTypeOK, Events, None, streamVars, spotVars, nudgeVars
<1>1. CASE SourceLogs
  <2>1. CASE UNCHANGED binlog
    BY <1>1, <2>1 DEF SourceLogs
  <2>2. ASSUME NEW k \in Key, NEW kind \in {"write", "delete"}, Logged(kind, k)
        PROVE  TailTypeOK'
    <3>1. [kind |-> kind, key |-> k] \in Event
      BY DEF Event
    <3>2. binlog' \in Seq(Event) /\ Len(binlog') = Len(binlog) + 1 /\ Len(binlog) \in Nat
      BY <2>2, <3>1 DEF Logged
    <3>3. DOMAIN binlog = 1 .. Len(binlog) /\ DOMAIN binlog' = 1 .. Len(binlog')
      BY <3>2
    <3>4. DOMAIN binlog \subseteq DOMAIN binlog'
      BY <3>2, <3>3
    <3>5. QED
      BY <1>1, <3>2, <3>4 DEF SourceLogs
  <2>3. QED
    BY <1>1, <2>1, <2>2 DEF SourceLogs
<1>2. CASE StartTailer
  BY <1>2 DEF StartTailer
<1>3. CASE ConnectFromCheckpoint \/ ConnectAtEnd \/ DropCheckpoint
  <2>1. reading' \in 0 .. Len(binlog) /\ excused' \subseteq Events
    BY <1>3, BinlogFacts
       DEF ConnectFromCheckpoint, ConnectAtEnd, DropCheckpoint, SkipToEnd, OpenAt
  <2>2. breaks' \in 0 .. MaxBreaks
    BY <1>3 DEF ConnectFromCheckpoint, ConnectAtEnd, DropCheckpoint, Break
  <2>3. position' \in None .. Len(binlog) /\ stored' \in None .. Len(binlog)
    BY <1>3, BinlogFacts DEF ConnectFromCheckpoint, ConnectAtEnd, DropCheckpoint
  <2>4. link' = "opening" /\ dirty' \in BOOLEAN /\ attempts' = attempts
    BY <1>3 DEF ConnectFromCheckpoint, ConnectAtEnd, DropCheckpoint, SkipToEnd, OpenAt
  <2>5. UNCHANGED <<binlog, landing, overtaken, nudged, flush>>
    BY <1>3 DEF ConnectFromCheckpoint, ConnectAtEnd, DropCheckpoint
  <2>6. QED
    BY <2>1, <2>2, <2>3, <2>4, <2>5
<1>4. CASE StreamReady \/ StreamError \/ Persist
  <2>1. breaks' \in 0 .. MaxBreaks
    BY <1>4 DEF StreamReady, StreamError, Persist, Break
  <2>2. attempts' \in 0 .. 2
    BY <1>4 DEF StreamReady, StreamError, Persist
  <2>3. /\ link' \in {link, "down", "up"} /\ dirty' \in BOOLEAN
        /\ stored' \in {stored, position}
    BY <1>4 DEF StreamReady, StreamError, Persist
  <2>4. UNCHANGED <<binlog, reading, position, landing, overtaken, nudged, flush, excused>>
    BY <1>4 DEF StreamReady, StreamError, Persist
  <2>5. QED
    BY <2>1, <2>2, <2>3, <2>4
<1>5. CASE DeliverDelete \/ DeliverWrite
  <2>1. reading + 1 \in 0 .. Len(binlog) /\ reading + 1 \in Events
    BY <1>5, BinlogFacts DEF DeliverDelete, DeliverWrite
  <2>2. /\ reading' = reading + 1 /\ position' = reading + 1 /\ dirty' = TRUE
        /\ UNCHANGED <<binlog, link, attempts, stored, overtaken, excused, breaks>>
    BY <1>5 DEF DeliverDelete, DeliverWrite, See
  <2>3. landing' \subseteq Events
    BY <1>5, <2>1 DEF DeliverDelete, DeliverWrite
  <2>4. nudged' \in BOOLEAN /\ flush' \in {"idle", "timer", "syncing"}
    BY <1>5 DEF DeliverDelete, DeliverWrite
  <2>5. reading + 1 \in None .. Len(binlog)
    BY <2>1
  <2>6. QED
    BY <2>1, <2>2, <2>3, <2>4, <2>5
<1>6. ASSUME NEW i \in Events, Land(i) PROVE TailTypeOK'
  BY <1>6 DEF Land
<1>7. ASSUME NEW i \in Events, TombstoneFails(i) PROVE TailTypeOK'
  BY <1>7 DEF TombstoneFails, Break, vars
<1>8. CASE Flush
  BY <1>8 DEF Flush, FlushNudges
<1>9. ASSUME NEW p \in Proc, TailedSync(p) PROVE TailTypeOK'
  <2>1. CASE UNCHANGED tailVars
    BY <2>1 DEF tailVars
  <2>2. CASE InsertOvertaken(p)
    BY <2>2 DEF InsertOvertaken
  <2>3. QED
    BY <1>9, <2>1, <2>2 DEF TailedSync
<1>10. ASSUME NEW p \in Proc, SyncEnds(p) PROVE TailTypeOK'
  BY <1>10 DEF SyncEnds
<1>11. CASE TailRestart
  <2>1. breaks' \in 0 .. MaxBreaks
    BY <1>11 DEF TailRestart, Break
  <2>2. position' \in None .. Len(binlog)
    BY <1>11, BinlogFacts DEF TailRestart
  <2>3. /\ landing' = {} /\ excused' \subseteq Events /\ overtaken' \in [Proc -> SUBSET Events]
        /\ UNCHANGED <<binlog, reading, stored>>
    BY <1>11 DEF TailRestart
  <2>4. /\ link' = "off" /\ dirty' = FALSE /\ attempts' \in 0 .. 2
        /\ nudged' = FALSE /\ flush' = "idle"
    BY <1>11 DEF TailRestart
  <2>5. QED
    BY <2>1, <2>2, <2>3, <2>4
<1>12. CASE UNCHANGED tailVars
  BY <1>12 DEF tailVars
<1>13. QED
  BY <1>1, <1>2, <1>3, <1>4, <1>5, <1>6, <1>7, <1>8, <1>9, <1>10, <1>11, <1>12
     DEF TailNext, Handle, OtherRequests, allVars

(***************************************************************************)
(* The invariant is kept.                                                  *)
(***************************************************************************)

(* It is enough that explanations last, that no row rises and none comes   *)
(* into the hands of a sync.                                               *)
LEMMA StillFollowed ==
  ASSUME DeleteFollowed, UNCHANGED <<mysql, binlog>>,
         \A k \in Key : \A i \in Events : LastDelete(k, i) /\ Explained(i) => Explained(i)',
         \A k \in Key : Standing(k)' => Standing(k),
         \A p \in Proc : \A k \in Key :
           InHand(p, k)' => InHand(p, k) /\ overtaken[p] \subseteq overtaken'[p]
  PROVE  DeleteFollowed'
<1> SUFFICES ASSUME NEW k \in Key, NEW i \in Events', LastDelete(k, i)'
             PROVE  /\ mysql'[k] = NoRow
                    /\ Standing(k)' => Explained(i)'
                    /\ \A p \in Proc : InHand(p, k)' => Explained(i)' \/ i \in overtaken'[p]
  BY DEF DeleteFollowed
<1>1. i \in Events /\ LastDelete(k, i)
  BY DEF Events, LastDelete
<1>2. QED
  BY <1>1 DEF DeleteFollowed

(* A write takes a key out of the reach of the invariant; a delete brings   *)
(* one in, with an event that nobody has seen.                             *)
LEMMA SourceFollowed == TailTypeOK /\ DeleteFollowed /\ SourceLogs => DeleteFollowed'
<1> SUFFICES ASSUME TailTypeOK, DeleteFollowed, SourceLogs PROVE DeleteFollowed'
  OBVIOUS
<1>0. /\ UNCHANGED <<raw, pc, page, link, reading, position, stored, landing, overtaken, excused>>
      /\ mysql \in [Key -> Row]
  BY DEF SourceLogs, Write, Delete, Tick, copyVars, jobVars, faultVars, streamVars, spotVars,
         TailTypeOK, TypeOK
<1>1. CASE Tick /\ UNCHANGED binlog
  <2>1. UNCHANGED mysql
    BY <1>1 DEF Tick
  <2>2. QED
    BY <1>0, <1>1, <2>1, StillFollowed DEF Explained, Unseen, Standing, InHand
<1>2. ASSUME NEW kind \in {"write", "delete"}, NEW j \in Key, Logged(kind, j),
             \/ kind = "write" /\ Write(j)
             \/ kind = "delete" /\ Delete(j)
      PROVE  DeleteFollowed'
  <2>1. /\ Len(binlog) \in Nat /\ Len(binlog') = Len(binlog) + 1
        /\ Events = 1 .. Len(binlog) /\ Events' = 1 .. Len(binlog) + 1
        /\ binlog'[Len(binlog) + 1] = [kind |-> kind, key |-> j]
        /\ \A i \in Events : binlog'[i] = binlog[i]
    <3>1. binlog \in Seq(Event) /\ [kind |-> kind, key |-> j] \in Event
      BY DEF TailTypeOK, Event
    <3>2. QED
      BY <1>2, <3>1 DEF Logged, Events
  <2>2. \A k \in Key \ {j} : mysql'[k] = mysql[k]
    BY <1>0, <1>2 DEF Write, Delete
  <2>3. SUFFICES ASSUME NEW k \in Key, NEW i \in Events', LastDelete(k, i)'
                 PROVE  /\ mysql'[k] = NoRow
                        /\ Standing(k)' => Explained(i)'
                        /\ \A p \in Proc : InHand(p, k)' => Explained(i)' \/ i \in overtaken'[p]
    BY DEF DeleteFollowed
  <2>4. CASE i = Len(binlog) + 1
    <3>1. kind = "delete" /\ k = j
      BY <2>1, <2>3, <2>4 DEF LastDelete
    <3>2. mysql'[k] = NoRow
      BY <1>0, <1>2, <3>1 DEF Delete
    <3>3. position \in -1 .. Len(binlog) /\ stored \in -1 .. Len(binlog) /\ reading \in 0 .. Len(binlog)
      BY DEF TailTypeOK, None
    <3>4. Explained(i)'
      BY <1>0, <2>1, <2>4, <3>3 DEF Explained, Unseen
    <3>5. QED
      BY <3>2, <3>4
  <2>5. CASE i # Len(binlog) + 1
    <3>1. i \in Events /\ binlog[i] = binlog'[i]
      BY <2>1, <2>5
    <3>2. k # j
      BY <2>1, <2>3, <3>1 DEF LastDelete
    <3>3. LastDelete(k, i)
      BY <2>1, <2>3, <3>1 DEF LastDelete
    <3>4. /\ mysql[k] = NoRow
          /\ Standing(k) => Explained(i)
          /\ \A p \in Proc : InHand(p, k) => Explained(i) \/ i \in overtaken[p]
      BY <3>1, <3>3 DEF DeleteFollowed
    <3>5. QED
      BY <1>0, <2>2, <3>2, <3>4 DEF Explained, Unseen, Standing, InHand
  <2>6. QED
    BY <2>4, <2>5
<1>3. ASSUME NEW k \in Key, Write(k), Logged("write", k) PROVE DeleteFollowed'
  <2>1. "write" \in {"write", "delete"}
    OBVIOUS
  <2>2. QED
    BY <1>2, <1>3, <2>1
<1>4. ASSUME NEW k \in Key, Delete(k), Logged("delete", k) PROVE DeleteFollowed'
  BY <1>2, <1>4
<1>5. QED
  BY <1>1, <1>3, <1>4 DEF SourceLogs

(* Opening, losing and moving the stream never skips an event in silence.   *)
LEMMA StreamFollowed ==
  ASSUME TailTypeOK, DeleteFollowed,
         \/ StartTailer \/ ConnectFromCheckpoint \/ ConnectAtEnd \/ DropCheckpoint
         \/ StreamReady \/ StreamError \/ Persist
         \/ \E i \in Events : TombstoneFails(i)
  PROVE  DeleteFollowed'
<1> USE DEF sourceVars, jobVars, streamVars, spotVars, vars
<1>1. /\ UNCHANGED <<mysql, binlog, raw, pc, page, overtaken>>
      /\ landing \subseteq landing' \/ \E i \in Events : TombstoneFails(i)
  BY DEF StartTailer, ConnectFromCheckpoint, ConnectAtEnd, DropCheckpoint, StreamReady,
         StreamError, Persist, TombstoneFails
<1>2. ASSUME NEW i \in Events, Explained(i) PROVE Explained(i)'
  <2>0. i \in Nat /\ position \in Int /\ stored \in Int /\ reading \in Int /\ stored >= -1
    BY BinlogFacts DEF TailTypeOK, None
  <2>1. CASE StartTailer \/ StreamError
    BY <1>2, <2>0, <2>1 DEF StartTailer, StreamError, Explained, Unseen
  <2>2. CASE ConnectFromCheckpoint
    BY <1>2, <2>0, <2>2 DEF ConnectFromCheckpoint, OpenAt, Explained, Unseen
  <2>3. CASE ConnectAtEnd \/ DropCheckpoint
    <3>1. UNCHANGED landing /\ excused' = excused \cup {j \in Events : Ahead(j)} /\ link = "down"
      BY <2>3 DEF ConnectAtEnd, DropCheckpoint, SkipToEnd
    <3>2. Unseen(i) => Ahead(i)
      BY <3>1 DEF Unseen, Ahead
    <3>3. QED
      BY <1>2, <3>1, <3>2 DEF Explained
  <2>4. CASE StreamReady
    BY <1>2, <2>0, <2>4 DEF StreamReady, Explained, Unseen
  <2>5. CASE Persist
    BY <1>2, <2>0, <2>5 DEF Persist, Explained, Unseen
  <2>6. CASE \E j \in Events : TombstoneFails(j)
    BY <1>2, <2>6 DEF TombstoneFails, Explained, Unseen
  <2>7. QED
    BY <2>1, <2>2, <2>3, <2>4, <2>5, <2>6
<1>3. QED
  BY <1>1, <1>2, StillFollowed DEF Standing, InHand

(* A delivered delete goes from unseen to landing; a write is no delete.    *)
LEMMA DeliveryFollowed ==
  ASSUME TailTypeOK, DeleteFollowed, DeliverDelete \/ DeliverWrite
  PROVE  DeleteFollowed'
<1>1. /\ UNCHANGED <<mysql, binlog, raw, pc, page, overtaken, excused, stored, link>>
      /\ position' = reading + 1 /\ reading' = reading + 1 /\ link = "up"
  BY DEF DeliverDelete, DeliverWrite, See, vars
<1>2. ASSUME NEW k \in Key, NEW i \in Events, LastDelete(k, i), Explained(i)
      PROVE  Explained(i)'
  <2>0. i \in Nat /\ reading \in Nat
    BY BinlogFacts DEF TailTypeOK
  <2>1. landing \subseteq landing'
    BY DEF DeliverDelete, DeliverWrite
  <2>2. CASE ~Unseen(i)
    BY <1>1, <1>2, <2>1, <2>2 DEF Explained
  <2>3. CASE Unseen(i) /\ i # reading + 1
    BY <1>1, <2>0, <2>3 DEF Explained, Unseen
  <2>4. CASE Unseen(i) /\ i = reading + 1
    <3>1. binlog[reading + 1].kind = "delete"
      BY <1>2, <2>4 DEF LastDelete
    <3>2. landing' = landing \cup {reading + 1}
      BY <3>1 DEF DeliverDelete, DeliverWrite
    <3>3. QED
      BY <2>4, <3>2 DEF Explained
  <2>5. QED
    BY <2>2, <2>3, <2>4
<1>3. QED
  BY <1>1, <1>2, StillFollowed DEF Standing, InHand

(* A tombstone that lands takes the row down and overtakes the pages that   *)
(* hold it.                                                                *)
LEMMA LandFollowed ==
  ASSUME TailTypeOK, DeleteFollowed, NEW j \in Events, Land(j)
  PROVE  DeleteFollowed'
<1> DEFINE key == binlog[j].key
<1>1. /\ UNCHANGED <<mysql, binlog, pc, page, excused, stored, position, reading, link>>
      /\ raw' = [raw EXCEPT ![key] = [ver |-> @.ver, dead |-> TRUE]]
      /\ landing' = landing \ {j}
      /\ overtaken' = [p \in Proc |->
                         IF InHand(p, key) THEN overtaken[p] \cup {j} ELSE overtaken[p]]
  BY DEF Land, sourceVars, jobVars, streamVars, spotVars
<1>2. raw \in [Key -> Entry] /\ key \in Key
  BY BinlogFacts DEF TailTypeOK, TypeOK, Event
<1>3. SUFFICES ASSUME NEW k \in Key, NEW i \in Events, LastDelete(k, i)
               PROVE  /\ mysql[k] = NoRow
                      /\ Standing(k)' => Explained(i)'
                      /\ \A p \in Proc : InHand(p, k) => Explained(i)' \/ i \in overtaken'[p]
  BY <1>1 DEF DeleteFollowed, LastDelete, Events, InHand
<1>4. /\ mysql[k] = NoRow
      /\ Standing(k) => Explained(i)
      /\ \A p \in Proc : InHand(p, k) => Explained(i) \/ i \in overtaken[p]
  BY <1>3 DEF DeleteFollowed
<1>5. CASE i = j
  <2>1. key = k
    BY <1>3, <1>5 DEF LastDelete
  <2>2. ~Standing(k)'
    BY <1>1, <1>2, <2>1 DEF Standing
  <2>3. \A p \in Proc : InHand(p, k) => i \in overtaken'[p]
    BY <1>1, <1>5, <2>1
  <2>4. QED
    BY <1>4, <2>2, <2>3
<1>6. CASE i # j
  <2>1. Explained(i) => Explained(i)'
    BY <1>1, <1>6 DEF Explained, Unseen
  <2>2. Standing(k)' => Standing(k)
    BY <1>1, <1>2 DEF Standing
  <2>3. \A p \in Proc : overtaken[p] \subseteq overtaken'[p]
    BY <1>1
  <2>4. QED
    BY <1>4, <2>1, <2>2, <2>3
<1>7. QED
  BY <1>5, <1>6

(* Inserting a page raises a row only with an explanation.                  *)
LEMMA InsertFollowed ==
  ASSUME TailTypeOK, DeleteFollowed, NEW p \in Proc,
         \/ overtaken[p] = {} /\ InsertPage(p) /\ UNCHANGED tailVars
         \/ InsertOvertaken(p)
  PROVE  DeleteFollowed'
<1>1. /\ UNCHANGED <<mysql, binlog, landing, stored, position, reading, link>>
      /\ pc[p] = "insert" /\ pc'[p] # "insert"
      /\ \A q \in Proc \ {p} : pc'[q] = pc[q] /\ page'[q] = page[q] /\ overtaken'[q] = overtaken[q]
  BY DEF InsertPage, InsertOvertaken, tailVars, sourceVars, streamVars, spotVars, Goto,
         TailTypeOK, TypeOK
<1>2. PICK beaten \in SUBSET overtaken[p] :
        /\ excused' = excused \cup beaten
        /\ \A k \in Key :
             \/ raw'[k] = raw[k]
             \/ /\ page[p][k] # NoRow
                /\ \A i \in overtaken[p] : binlog[i].key = k => i \in beaten
  <2>1. CASE overtaken[p] = {} /\ InsertPage(p) /\ UNCHANGED tailVars
    <3>1. /\ excused' = excused \cup {}
          /\ \A k \in Key : raw'[k] = raw[k] \/ page[p][k] # NoRow
      BY <2>1 DEF InsertPage, tailVars
    <3>2. QED
      BY <2>1, <3>1
  <2>2. CASE InsertOvertaken(p)
    <3>1. PICK beaten \in SUBSET overtaken[p] :
            /\ raw' = [k \in Key |->
                         IF page[p][k] = NoRow \/ \E i \in overtaken[p] \ beaten : binlog[i].key = k
                           THEN raw[k]
                           ELSE [ver |-> page[p][k].ver, dead |-> FALSE]]
            /\ excused' = excused \cup beaten
      BY <2>2 DEF InsertOvertaken
    <3>2. ASSUME NEW k \in Key, raw'[k] # raw[k]
          PROVE  /\ page[p][k] # NoRow
                 /\ \A i \in overtaken[p] : binlog[i].key = k => i \in beaten
      BY <3>1, <3>2
    <3>3. QED
      BY <3>1, <3>2
  <2>3. QED
    BY <2>1, <2>2
<1>3. SUFFICES ASSUME NEW k \in Key, NEW i \in Events, LastDelete(k, i)
               PROVE  /\ mysql[k] = NoRow
                      /\ Standing(k)' => Explained(i)'
                      /\ \A q \in Proc : InHand(q, k)' => Explained(i)' \/ i \in overtaken'[q]
  BY <1>1 DEF DeleteFollowed, LastDelete, Events
<1>4. /\ mysql[k] = NoRow
      /\ Standing(k) => Explained(i)
      /\ \A q \in Proc : InHand(q, k) => Explained(i) \/ i \in overtaken[q]
  BY <1>3 DEF DeleteFollowed
<1>5. Explained(i) => Explained(i)'
  BY <1>1, <1>2 DEF Explained, Unseen
<1>6. Standing(k)' => Explained(i)'
  <2>1. CASE raw'[k] = raw[k]
    BY <1>4, <1>5, <2>1 DEF Standing
  <2>2. CASE page[p][k] # NoRow /\ \A j \in overtaken[p] : binlog[j].key = k => j \in beaten
    <3>1. binlog[i].key = k
      BY <1>3 DEF LastDelete
    <3>2. Explained(i) \/ i \in overtaken[p]
      BY <1>1, <1>4, <2>2 DEF InHand
    <3>3. i \in overtaken[p] => i \in excused'
      BY <1>2, <2>2, <3>1
    <3>4. QED
      BY <1>5, <3>2, <3>3 DEF Explained
  <2>3. QED
    BY <1>2, <2>1, <2>2
<1>7. ASSUME NEW q \in Proc, InHand(q, k)' PROVE Explained(i)' \/ i \in overtaken'[q]
  BY <1>1, <1>4, <1>5, <1>7 DEF InHand
<1>8. QED
  BY <1>4, <1>6, <1>7

(* A page is read from the rows MySQL has: a deleted row is in none.        *)
LEMMA ReadFollowed ==
  ASSUME TailTypeOK, DeleteFollowed, NEW p \in Proc, ReadPage(p), UNCHANGED tailVars
  PROVE  DeleteFollowed'
<1>1. UNCHANGED <<mysql, raw, binlog, landing, excused, stored, position, reading, link, overtaken>>
  BY DEF ReadPage, sourceVars, copyVars, tailVars, streamVars, spotVars
<1>2. PICK S \in SUBSET Pending(p) :
        page' = [page EXCEPT ![p] = [k \in Key |-> IF k \in S THEN mysql[k] ELSE NoRow]]
  BY DEF ReadPage
<1>3. \A k \in Key : page'[p][k] = NoRow \/ page'[p][k] = mysql[k]
  BY <1>2 DEF TailTypeOK, TypeOK
<1>4. \A q \in Proc \ {p} : page'[q] = page[q] /\ pc'[q] = pc[q]
  BY <1>2 DEF TailTypeOK, TypeOK, ReadPage, Goto
<1>5. SUFFICES ASSUME NEW k \in Key, NEW i \in Events, LastDelete(k, i)
               PROVE  /\ mysql[k] = NoRow
                      /\ Standing(k)' => Explained(i)'
                      /\ \A q \in Proc : InHand(q, k)' => Explained(i)' \/ i \in overtaken'[q]
  BY <1>1 DEF DeleteFollowed, LastDelete, Events
<1>6. /\ mysql[k] = NoRow
      /\ Standing(k) => Explained(i)
      /\ \A q \in Proc : InHand(q, k) => Explained(i) \/ i \in overtaken[q]
  BY <1>5 DEF DeleteFollowed
<1>7. (Explained(i) <=> Explained(i)') /\ (Standing(k) <=> Standing(k)')
  BY <1>1 DEF Explained, Unseen, Standing
<1>8. ASSUME NEW q \in Proc, InHand(q, k)' PROVE Explained(i)' \/ i \in overtaken'[q]
  BY <1>1, <1>3, <1>4, <1>6, <1>7, <1>8 DEF InHand
<1>9. QED
  BY <1>6, <1>7, <1>8

(* The other steps of a sync neither read nor write rows.                   *)
LEMMA OtherSyncFollowed ==
  ASSUME TailTypeOK, DeleteFollowed, NEW p \in Proc,
         UNCHANGED <<binlog, landing, excused, stored, position, reading, link>>,
         \A q \in Proc : overtaken'[q] = overtaken[q] \/ q = p,
         pc'[p] # "insert",
         \/ ReadSchema(p) \/ ChooseRebuild(p) \/ ChooseWatermark(p)
         \/ DropView(p) \/ DropRaw(p) \/ CreateRaw(p) \/ CreateView(p)
         \/ SaveWatermark(p) \/ WriteSyncLog(p) \/ SchemaFails(p) \/ SyncFails(p)
         \/ \E request \in Request : Acquire(p, request)
  PROVE  DeleteFollowed'
<1> USE DEF TailTypeOK, TypeOK, sourceVars, copyVars, Goto, EndJob
<1>1. UNCHANGED mysql
  BY DEF ReadSchema, ChooseRebuild, ChooseWatermark, DropView, DropRaw, CreateRaw, CreateView,
         SaveWatermark, WriteSyncLog, SchemaFails, SyncFails, Acquire
<1>2. \A k \in Key : Standing(k)' => Standing(k)
  <2>1. UNCHANGED raw \/ \A k \in Key : raw'[k] = NoEntry
    BY DEF ReadSchema, ChooseRebuild, ChooseWatermark, DropView, DropRaw, CreateRaw, CreateView,
           SaveWatermark, WriteSyncLog, SchemaFails, SyncFails, Acquire
  <2>2. QED
    BY <2>1 DEF Standing, NoEntry
<1>3. \A q \in Proc \ {p} : pc'[q] = pc[q] /\ page'[q] = page[q]
  BY DEF ReadSchema, ChooseRebuild, ChooseWatermark, DropView, DropRaw, CreateRaw, CreateView,
         SaveWatermark, WriteSyncLog, SchemaFails, SyncFails, Acquire
<1>4. \A q \in Proc : \A k \in Key :
        InHand(q, k)' => InHand(q, k) /\ overtaken[q] \subseteq overtaken'[q]
  BY <1>3 DEF InHand
<1>5. \A i \in Events : Explained(i) => Explained(i)'
  BY DEF Explained, Unseen
<1>6. QED
  BY <1>1, <1>2, <1>4, <1>5, StillFollowed

(* A crash forgets every position but the checkpoint, and every page.       *)
LEMMA RestartFollowed == TailTypeOK /\ DeleteFollowed /\ TailRestart => DeleteFollowed'
<1> SUFFICES ASSUME TailTypeOK, DeleteFollowed, TailRestart PROVE DeleteFollowed'
  OBVIOUS
<1>1. /\ UNCHANGED <<mysql, raw, binlog, stored>> /\ link' = "off" /\ position' = -1
      /\ landing' = {} /\ excused' = excused \cup {i \in landing : i <= stored}
      /\ \A p \in Proc : pc'[p] = "idle"
  BY DEF TailRestart, sourceVars, copyVars, None
<1>2. ASSUME NEW i \in Events, Explained(i) PROVE Explained(i)'
  <2>1. i \in Nat /\ i > -1 /\ stored \in Int
    BY BinlogFacts DEF TailTypeOK, None
  <2>2. QED
    BY <1>1, <1>2, <2>1 DEF Explained, Unseen
<1>3. QED
  BY <1>1, <1>2, StillFollowed DEF Standing, InHand

(***************************************************************************)
(* The theorem.                                                            *)
(***************************************************************************)

(* The invariant is kept by every step.                                     *)
LEMMA TailInvStep == TailInv /\ [TailNext]_allVars => TailInv'
<1> SUFFICES ASSUME TailTypeOK, DeleteFollowed, [TailNext]_allVars PROVE DeleteFollowed'
  BY TailTypeStep DEF TailInv
<1> USE DEF tailVars, streamVars, spotVars, nudgeVars
<1>1. CASE SourceLogs
  BY <1>1, SourceFollowed
<1>2. CASE \/ StartTailer \/ ConnectFromCheckpoint \/ ConnectAtEnd \/ DropCheckpoint
           \/ StreamReady \/ StreamError \/ Persist
           \/ \E i \in Events : TombstoneFails(i)
  BY <1>2, StreamFollowed
<1>3. CASE Handle
  BY <1>3, DeliveryFollowed, LandFollowed DEF Handle
<1>4. CASE Flush
  <2>1. CASE UNCHANGED vars
    BY <1>4, <2>1, StillFollowed DEF Flush, vars, Explained, Unseen, Standing, InHand
  <2>2. CASE Acquire(tailer, "single")
    <3>1. pc'[tailer] # "insert"
      BY <2>2, TailerAssumption DEF Acquire, Goto, TailTypeOK, TypeOK
    <3>2. QED
      BY <1>4, <2>2, <3>1, OtherSyncFollowed, TailerAssumption DEF Flush, Request
  <2>3. QED
    BY <1>4, <2>1, <2>2 DEF Flush, FlushNudges
<1>5. ASSUME NEW p \in Proc, TailedSync(p) PROVE DeleteFollowed'
  <2>1. CASE \/ overtaken[p] = {} /\ InsertPage(p) /\ UNCHANGED tailVars
             \/ InsertOvertaken(p)
    BY <2>1, InsertFollowed
  <2>2. CASE ReadPage(p) /\ UNCHANGED tailVars
    BY <2>2, ReadFollowed
  <2>3. CASE /\ \/ ReadSchema(p) \/ ChooseRebuild(p) \/ ChooseWatermark(p)
                \/ DropView(p) \/ DropRaw(p) \/ CreateRaw(p) \/ CreateView(p)
                \/ SaveWatermark(p) \/ WriteSyncLog(p)
             /\ UNCHANGED tailVars
    <3>1. pc'[p] # "insert"
      BY <2>3 DEF ReadSchema, ChooseRebuild, ChooseWatermark, DropView, DropRaw, CreateRaw,
                  CreateView, SaveWatermark, WriteSyncLog, EndJob, Goto, TailTypeOK, TypeOK
    <3>2. QED
      BY <2>3, <3>1, OtherSyncFollowed
  <2>4. QED
    BY <1>5, <2>1, <2>2, <2>3 DEF TailedSync, SyncStep
<1>6. ASSUME NEW p \in Proc, SyncEnds(p) PROVE DeleteFollowed'
  <2>1. pc'[p] # "insert" /\ \A q \in Proc : overtaken'[q] = overtaken[q] \/ q = p
    BY <1>6 DEF SyncEnds, SchemaFails, SyncFails, EndJob, Goto, TailTypeOK, TypeOK
  <2>2. QED
    BY <1>6, <2>1, OtherSyncFollowed DEF SyncEnds
<1>7. ASSUME NEW p \in Proc, OtherRequests(p) PROVE DeleteFollowed'
  <2>1. pc'[p] # "insert"
    BY <1>7 DEF OtherRequests, Acquire, Goto, TailTypeOK, TypeOK
  <2>2. QED
    BY <1>7, <2>1, OtherSyncFollowed DEF OtherRequests
<1>8. CASE TailRestart
  BY <1>8, RestartFollowed
<1>9. CASE UNCHANGED allVars
  BY <1>9, StillFollowed DEF allVars, vars, Explained, Unseen, Standing, InHand
<1>10. QED
  BY <1>1, <1>2, <1>3, <1>4, <1>5, <1>6, <1>7, <1>8, <1>9 DEF TailNext

(* It holds when the tailer starts: nothing has been logged.                *)
LEMMA TailInvInit == TailInit => TailInv
<1> SUFFICES ASSUME TailInit PROVE TailInv
  OBVIOUS
<1>1. /\ mysql \in [Key -> Row] /\ NoRow \in Row
      /\ \A k \in Key : mysql[k].ver \in Nat
  BY DEF TailInit, Row, NoRow, NoTime
<1>2. raw \in [Key -> Entry] /\ page \in [Proc -> [Key -> Row]]
  BY <1>1, EmptyPageType DEF TailInit, Entry
<1>3. watermark \in Nat
  BY DEF TailInit, NoTime
<1>4. /\ pc \in [Proc -> PC] /\ mode \in [Proc -> Request \cup {"none"}]
      /\ jobSchema \in [Proc -> Nat] /\ more \in [Proc -> BOOLEAN]
      /\ cursorKey \in [Proc -> Nat] /\ cursorTs \in [Proc -> Nat]
  BY DEF TailInit, PC, NoTime
<1>5. TypeOK
  <2>1. /\ clock \in Nat \ {0} /\ nextVer \in Nat \ {0} /\ schema \in Nat
        /\ rawSchema \in Nat /\ rebuildFaults \in Nat /\ otherFaults \in Nat
    BY DEF TailInit
  <2>2. viewUp \in BOOLEAN /\ rawUp \in BOOLEAN /\ lock \in BOOLEAN
    BY DEF TailInit
  <2>3. QED
    BY <1>1, <1>2, <1>3, <1>4, <2>1, <2>2 DEF TypeOK
<1>6. /\ binlog \in Seq(Event) /\ Len(binlog) = 0 /\ Events = {}
  BY DEF TailInit, Events
<1>7. /\ reading \in 0 .. Len(binlog) /\ position \in None .. Len(binlog)
      /\ stored \in None .. Len(binlog) /\ attempts \in 0 .. 2 /\ breaks \in 0 .. MaxBreaks
  BY <1>6, TailerAssumption DEF TailInit, None
<1>8. /\ link \in {"off", "down", "opening", "up"} /\ dirty \in BOOLEAN /\ landing \subseteq Events
      /\ overtaken \in [Proc -> SUBSET Events] /\ nudged \in BOOLEAN
      /\ flush \in {"idle", "timer", "syncing"} /\ excused \subseteq Events
  BY DEF TailInit
<1>9. TailTypeOK
  BY <1>5, <1>6, <1>7, <1>8 DEF TailTypeOK
<1>10. QED
  BY <1>6, <1>9 DEF TailInv, DeleteFollowed

(* No deleted row stays visible without a reason that is named: whatever    *)
(* the stream, the tombstones, the syncs and the server itself go through,  *)
(* in any order, its event is still to come, its tombstone is on its way,   *)
(* or it is one of those the tailer gives up.                              *)
THEOREM NoSilentGhosts == TailSpec => []GhostsAreExplained
<1>1. TailInv => GhostsAreExplained
  <2> SUFFICES ASSUME TailInv, NEW k \in Key, NEW i \in Events,
                      LastDelete(k, i), Visible(k) # 0
               PROVE  Ahead(i) \/ i \in landing \/ i \in excused
    BY DEF TailInv, GhostsAreExplained, GhostsExplained
  <2>1. Standing(k)
    BY DEF Visible, Standing
  <2>2. Explained(i)
    BY <2>1 DEF TailInv, DeleteFollowed
  <2>3. Unseen(i) => Ahead(i)
    BY DEF Unseen, Ahead
  <2>4. QED
    BY <2>2, <2>3 DEF Explained
<1>2. QED
  BY <1>1, TailInvInit, TailInvStep, PTL DEF TailSpec
=============================================================================
