----------------------- MODULE TableReplicationProofs -----------------------
(* Theorems about TableReplication, for every table, batch size and bound:  *)
(* rows, views and versions first, then columns.                           *)
EXTENDS TableReplication, FiniteSetTheorems, TLAPS

(***************************************************************************)
(* Type correctness.                                                       *)
(***************************************************************************)

(* An empty page is a page, and an absent row a row.                       *)
LEMMA EmptyPageType == EmptyPage \in [Key -> Row] /\ NoRow \in Row
  BY DEF EmptyPage, NoRow, Row, NoTime

(* Type correctness is kept by every step of the sync service.             *)
LEMMA TypeStep == TypeOK /\ [Next]_vars => TypeOK'
<1> SUFFICES ASSUME TypeOK, [Next]_vars PROVE TypeOK'
  OBVIOUS
<1> USE KeyAssumption, FlagAssumption, BoundAssumption, EmptyPageType
<1> USE DEF TypeOK, sourceVars, copyVars, cursorVars, jobVars, faultVars, Goto
<1>1. ASSUME NEW k \in Key, Write(k) PROVE TypeOK'
  <2>1. [ver |-> nextVer, ts |-> clock'] \in Row /\ clock' \in Nat \ {0}
    BY <1>1 DEF Write, Row
  <2>2. QED
    BY <1>1, <2>1 DEF Write
<1>2. ASSUME NEW k \in Key, Delete(k) PROVE TypeOK'
  BY <1>2 DEF Delete
<1>3. CASE Alter
  BY <1>3 DEF Alter
<1>4. CASE Tick
  BY <1>4 DEF Tick
<1>5. ASSUME NEW p \in Proc, NEW request \in Request, Acquire(p, request) PROVE TypeOK'
  BY <1>5 DEF Acquire, PC, Request
<1>6. ASSUME NEW p \in Proc, ReadSchema(p) PROVE TypeOK'
  BY <1>6 DEF ReadSchema, PC, Request
<1>7. ASSUME NEW p \in Proc, SchemaFails(p) PROVE TypeOK'
  BY <1>7 DEF SchemaFails, EndJob, PC, NoTime
<1>8. ASSUME NEW p \in Proc, ChooseRebuild(p) PROVE TypeOK'
  BY <1>8 DEF ChooseRebuild, PC, Request
<1>9. ASSUME NEW p \in Proc, ChooseWatermark(p) PROVE TypeOK'
  BY <1>9 DEF ChooseWatermark, PC
<1>10. ASSUME NEW p \in Proc, DropView(p) PROVE TypeOK'
  BY <1>10 DEF DropView, PC
<1>11. ASSUME NEW p \in Proc, DropRaw(p) PROVE TypeOK'
  BY <1>11 DEF DropRaw, PC, NoEntry, Entry
<1>12. ASSUME NEW p \in Proc, CreateRaw(p) PROVE TypeOK'
  BY <1>12 DEF CreateRaw, PC
<1>13. ASSUME NEW p \in Proc, CreateView(p) PROVE TypeOK'
  BY <1>13 DEF CreateView, PC
<1>14. ASSUME NEW p \in Proc, ReadPage(p) PROVE TypeOK'
  <2>1. PICK S \in SUBSET Pending(p) :
          /\ page' = [page EXCEPT ![p] = [k \in Key |-> IF k \in S THEN mysql[k] ELSE NoRow]]
          /\ more' = [more EXCEPT ![p] = (Cardinality(S) = Limit(p))]
          /\ \/ S = {} /\ Goto(p, "save") /\ UNCHANGED cursorVars
             \/ \E last \in S :
                  /\ cursorKey' = [cursorKey EXCEPT ![p] = last]
                  /\ cursorTs' = [cursorTs EXCEPT ![p] = mysql[last].ts]
                  /\ Goto(p, "insert")
    BY <1>14 DEF ReadPage
  <2>2. S \subseteq Key /\ \A k \in Key : mysql[k].ts \in Nat
    BY DEF Pending, Row
  <2>3. page' \in [Proc -> [Key -> Row]] /\ more' \in [Proc -> BOOLEAN]
    BY <2>1
  <2>4. cursorKey' \in [Proc -> Nat] /\ cursorTs' \in [Proc -> Nat] /\ pc' \in [Proc -> PC]
    BY <2>1, <2>2 DEF PC
  <2>5. QED
    BY <1>14, <2>3, <2>4 DEF ReadPage
<1>15. ASSUME NEW p \in Proc, InsertPage(p) PROVE TypeOK'
  <2>1. raw' \in [Key -> Entry]
    BY <1>15 DEF InsertPage, Row, Entry
  <2>2. QED
    BY <1>15, <2>1 DEF InsertPage, PC
<1>16. ASSUME NEW p \in Proc, SaveWatermark(p) PROVE TypeOK'
  BY <1>16 DEF SaveWatermark, PC, NoTime
<1>17. ASSUME NEW p \in Proc, WriteSyncLog(p) PROVE TypeOK'
  BY <1>17 DEF WriteSyncLog, EndJob, PC, NoTime
<1>18. ASSUME NEW p \in Proc, SyncFails(p) PROVE TypeOK'
  <2>1. rebuildFaults' \in Nat /\ otherFaults' \in Nat
    BY <1>18 DEF SyncFails, CountFault, Streaming
  <2>2. QED
    BY <1>18, <2>1 DEF SyncFails, EndJob, PC, NoTime
<1>19. CASE Restart
  <2>1. rebuildFaults' \in Nat /\ otherFaults' \in Nat
    BY <1>19 DEF Restart, CountFault, Streaming
  <2>2. QED
    BY <1>19, <2>1 DEF Restart, PC, NoTime
<1>20. CASE UNCHANGED vars
  BY <1>20 DEF vars
<1>21. QED
  BY <1>1, <1>2, <1>3, <1>4, <1>5, <1>6, <1>7, <1>8, <1>9, <1>10, <1>11, <1>12, <1>13,
     <1>14, <1>15, <1>16, <1>17, <1>18, <1>19, <1>20
     DEF Next, Source, SyncStep

(* The initial state is well typed.                                        *)
LEMMA InitType == Init => TypeOK
<1> SUFFICES ASSUME Init PROVE TypeOK
  OBVIOUS
<1>1. mysql \in [Key -> Row] /\ raw \in [Key -> Entry]
  BY DEF Init, Row, NoRow, NoTime, Entry, NoEntry
<1>2. page \in [Proc -> [Key -> Row]]
  BY EmptyPageType DEF Init
<1>3. pc \in [Proc -> PC] /\ mode \in [Proc -> Request \cup {"none"}]
  BY DEF Init, PC
<1>4. /\ jobSchema \in [Proc -> Nat] /\ more \in [Proc -> BOOLEAN]
      /\ cursorKey \in [Proc -> Nat] /\ cursorTs \in [Proc -> Nat]
  BY DEF Init, NoTime
<1>5. /\ clock \in Nat \ {0} /\ nextVer \in Nat \ {0} /\ schema \in Nat
      /\ rawSchema \in Nat /\ watermark \in Nat
      /\ rebuildFaults \in Nat /\ otherFaults \in Nat
  BY DEF Init, NoTime
<1>6. viewUp \in BOOLEAN /\ rawUp \in BOOLEAN /\ lock \in BOOLEAN
  BY DEF Init
<1>7. QED
  BY <1>1, <1>2, <1>3, <1>4, <1>5, <1>6 DEF TypeOK

(* Every variable of the sync service keeps its type.                      *)
THEOREM TypeCorrect == Spec => []TypeOK
  BY InitType, TypeStep, PTL DEF Spec

(***************************************************************************)
(* The inductive invariant.                                                *)
(***************************************************************************)

(* The table lock admits one sync at a time.                               *)
OneSync ==
  /\ \A p \in Proc : pc[p] # "idle" => lock
  /\ \A p, q \in Proc : pc[p] # "idle" /\ pc[q] # "idle" => p = q

Rebuild == {"dropView", "dropRaw", "createRaw", "createView"}
Stream  == {"read", "insert", "save"}

(* Where a sync stands fixes what it is doing and what readers can see.    *)
JobShape ==
  \A p \in Proc :
    /\ pc[p] = "choose" => mode[p] = "incremental"
    /\ pc[p] \in Rebuild => mode[p] = "full"
    /\ pc[p] \in Stream => mode[p] \in {"incremental", "full"}
    /\ pc[p] \in {"dropRaw", "createRaw", "createView"} => ~viewUp
    /\ pc[p] \in Rebuild \cup {"idle", "schema", "choose"}
         => cursorKey[p] = 0 /\ cursorTs[p] = NoTime
    /\ pc[p] \in {"createView"} \cup Stream => rawUp

(* No timestamp is ahead of the clock that writers read.                   *)
NotAhead ==
  /\ \A k \in Key : mysql[k].ts <= clock
  /\ \A p \in Proc : cursorTs[p] <= clock
  /\ watermark <= clock

Copied(k) == raw[k] = [ver |-> mysql[k].ver, dead |-> FALSE]

(* Versions of a key only grow on the way from MySQL to <t>__raw.          *)
VersionOrder ==
  /\ \A k \in Key : mysql[k].ver < nextVer /\ raw[k].ver < nextVer
  /\ \A k \in Key : Present(k) => raw[k].ver <= mysql[k].ver
  /\ \A p \in Proc, k \in Key :
       pc[p] = "insert" /\ page[p][k] # NoRow =>
         /\ page[p][k].ver < nextVer
         /\ raw[k].ver <= page[p][k].ver
         /\ Present(k) => page[p][k].ver <= mysql[k].ver

(* A page with room for every row of the table is the last one.            *)
OnePageFull == Cardinality(Key) < FullBatch
OnePageIncr == Cardinality(Key) < IncrBatch
(* Incremental paging is safe if no page can end inside a second that is    *)
(* still being written in.                                                 *)
SafeIncremental == OnePageIncr \/ ~SharedTimes

(* The rows an incremental sync has left behind its cursor.                *)
Passed(p, k) ==
  /\ Present(k)
  /\ watermark <= mysql[k].ts
  /\ \/ mysql[k].ts < cursorTs[p]
     \/ ~SharedTimes /\ mysql[k].ts = cursorTs[p] /\ k <= cursorKey[p]

(* They are in <t>__raw, or in the page about to be inserted.               *)
IncrementalProgress ==
  \A p \in Proc : mode[p] = "incremental" =>
    /\ pc[p] = "read" /\ SharedTimes => cursorTs[p] = watermark /\ cursorKey[p] = 0
    /\ pc[p] = "insert" /\ SharedTimes => ~more[p]
    /\ pc[p] \in {"read", "save"} => \A k \in Key : Passed(p, k) => Copied(k)
    /\ pc[p] = "insert" =>
         \A k \in Key : Passed(p, k) =>
           \/ page[p][k] = mysql[k]
           \/ page[p][k] = NoRow /\ Copied(k)

(* A page read before a row changed never holds what the watermark already  *)
(* covers.                                                                 *)
PageFresh ==
  \A p \in Proc : pc[p] = "insert" =>
    \A k \in Key : \/ page[p][k] = NoRow
                   \/ page[p][k] = mysql[k]
                   \/ ~Present(k)
                   \/ watermark <= mysql[k].ts

(* A dropped table has no rows.                                            *)
EmptyWhenDown == ~rawUp => \A k \in Key : raw[k] = NoEntry

(* The single page of a full sync holds every row older than its last one.  *)
FullProgress ==
  \A p \in Proc : mode[p] = "full" =>
    /\ pc[p] = "read" => cursorKey[p] = 0 /\ cursorTs[p] = NoTime
    /\ pc[p] = "insert" =>
         /\ ~more[p]
         /\ \A k \in Key : Present(k) /\ mysql[k].ts < cursorTs[p] => page[p][k] = mysql[k]
    /\ pc[p] = "save" =>
         \A k \in Key : Present(k) /\ mysql[k].ts < cursorTs[p] => Copied(k)

IInv ==
  /\ TypeOK
  /\ OneSync
  /\ JobShape
  /\ NotAhead
  /\ VersionOrder
  /\ ViewOverTable
  /\ EmptyWhenDown
  /\ PageFresh
  /\ SafeIncremental => IncrementalProgress
  /\ OnePageFull => FullProgress
  /\ SafeIncremental /\ OnePageFull /\ MaxRebuildFaults = 0 => NoLostRows

(***************************************************************************)
(* The lock and the program counters.                                      *)
(***************************************************************************)

(* What a step can do to the lock and the program counters.                *)
Move(p) == pc[p] # "idle" /\ lock' = lock /\ \E await \in PC \ {"idle"} : Goto(p, await)
Leave(p) == pc[p] # "idle" /\ Goto(p, "idle")

(* Every step leaves each sync and the lock alone, or starts, moves or ends  *)
(* one sync, or kills them all.                                            *)
LEMMA StepKinds ==
  ASSUME TypeOK, [Next]_vars
  PROVE  \/ UNCHANGED <<pc, lock>>
         \/ \E p \in Proc, request \in Request : Acquire(p, request)
         \/ \E p \in Proc : Move(p) \/ Leave(p)
         \/ Restart
<1> USE DEF jobVars, Goto, PC
<1>1. CASE Source \/ UNCHANGED vars
  BY <1>1 DEF Source, Write, Delete, Alter, Tick, vars
<1>2. ASSUME NEW p \in Proc, SyncStep(p) PROVE Move(p) \/ Leave(p)
  <2>1. CASE ReadSchema(p) \/ ChooseRebuild(p) \/ ChooseWatermark(p)
    BY <2>1 DEF ReadSchema, ChooseRebuild, ChooseWatermark, Move
  <2>2. CASE DropView(p) \/ DropRaw(p) \/ CreateRaw(p) \/ CreateView(p)
    BY <2>2 DEF DropView, DropRaw, CreateRaw, CreateView, Move
  <2>3. CASE ReadPage(p)
    BY <2>3 DEF ReadPage, Move
  <2>4. CASE InsertPage(p)
    BY <2>4 DEF InsertPage, Move
  <2>5. CASE SaveWatermark(p)
    BY <2>5 DEF SaveWatermark, Move
  <2>6. CASE WriteSyncLog(p)
    BY <2>6 DEF WriteSyncLog, EndJob, Leave
  <2>7. QED
    BY <1>2, <2>1, <2>2, <2>3, <2>4, <2>5, <2>6 DEF SyncStep
<1>3. ASSUME NEW p \in Proc, SchemaFails(p) \/ SyncFails(p) PROVE Leave(p)
  BY <1>3 DEF SchemaFails, SyncFails, EndJob, Leave
<1>4. QED
  BY <1>1, <1>2, <1>3 DEF Next

(* Syncs of the table never overlap.                                       *)
LEMMA OneSyncStep == TypeOK /\ OneSync /\ [Next]_vars => OneSync'
<1> SUFFICES ASSUME TypeOK, OneSync, [Next]_vars PROVE OneSync'
  OBVIOUS
<1> USE DEF OneSync, TypeOK, Goto
<1>1. CASE UNCHANGED <<pc, lock>>
  BY <1>1
<1>2. ASSUME NEW p \in Proc, NEW request \in Request, Acquire(p, request) PROVE OneSync'
  BY <1>2 DEF Acquire
<1>3. ASSUME NEW p \in Proc, Move(p) PROVE OneSync'
  BY <1>3 DEF Move
<1>4. ASSUME NEW p \in Proc, Leave(p) PROVE OneSync'
  <2>1. \A q \in Proc : pc'[q] = "idle"
    BY <1>4 DEF Leave
  <2>2. QED
    BY <2>1
<1>5. CASE Restart
  BY <1>5 DEF Restart
<1>6. QED
  BY <1>1, <1>2, <1>3, <1>4, <1>5, StepKinds

(***************************************************************************)
(* What each program counter implies.                                      *)
(***************************************************************************)

(* A sync at a given await has the mode, tables and page that lead there.   *)
LEMMA JobShapeStep == TypeOK /\ OneSync /\ JobShape /\ [Next]_vars => JobShape'
<1> SUFFICES ASSUME TypeOK, OneSync, JobShape, [Next]_vars PROVE JobShape'
  OBVIOUS
<1> USE DEF TypeOK, JobShape, Rebuild, Stream, Goto, EndJob,
            sourceVars, copyVars, cursorVars, jobVars
<1>1. CASE Source \/ UNCHANGED vars
  BY <1>1 DEF Source, Write, Delete, Alter, Tick, vars
<1>2. ASSUME NEW p \in Proc, NEW request \in Request, Acquire(p, request) PROVE JobShape'
  BY <1>2 DEF Acquire
<1>3. ASSUME NEW p \in Proc, ReadSchema(p) PROVE JobShape'
  BY <1>3 DEF ReadSchema
<1>4. ASSUME NEW p \in Proc, SchemaFails(p) \/ SyncFails(p) \/ WriteSyncLog(p) PROVE JobShape'
  BY <1>4 DEF SchemaFails, SyncFails, WriteSyncLog
<1>5. ASSUME NEW p \in Proc, ChooseRebuild(p) PROVE JobShape'
  BY <1>5 DEF ChooseRebuild
<1>6. ASSUME NEW p \in Proc, ChooseWatermark(p) PROVE JobShape'
  BY <1>6 DEF ChooseWatermark, MustRebuild
<1>7. ASSUME NEW p \in Proc, DropView(p) PROVE JobShape'
  BY <1>7 DEF DropView
<1>8. ASSUME NEW p \in Proc, DropRaw(p) PROVE JobShape'
  BY <1>8 DEF DropRaw, OneSync
<1>9. ASSUME NEW p \in Proc, CreateRaw(p) PROVE JobShape'
  BY <1>9 DEF CreateRaw
<1>10. ASSUME NEW p \in Proc, CreateView(p) PROVE JobShape'
  BY <1>10 DEF CreateView, OneSync
<1>11. ASSUME NEW p \in Proc, ReadPage(p) PROVE JobShape'
  <2>1. mode'[p] \in {"incremental", "full"} /\ UNCHANGED <<mode, viewUp, rawUp>> /\ rawUp
    BY <1>11 DEF ReadPage
  <2>2. pc'[p] \in {"save", "insert"} /\ \A q \in Proc : q # p => pc'[q] = pc[q]
    BY <1>11 DEF ReadPage
  <2>3. \A q \in Proc : q # p => cursorKey'[q] = cursorKey[q] /\ cursorTs'[q] = cursorTs[q]
    BY <1>11 DEF ReadPage
  <2>4. QED
    BY <2>1, <2>2, <2>3
<1>12. ASSUME NEW p \in Proc, InsertPage(p) PROVE JobShape'
  BY <1>12 DEF InsertPage
<1>13. ASSUME NEW p \in Proc, SaveWatermark(p) PROVE JobShape'
  BY <1>13 DEF SaveWatermark
<1>14. CASE Restart
  BY <1>14 DEF Restart
<1>15. QED
  BY <1>1, <1>2, <1>3, <1>4, <1>5, <1>6, <1>7, <1>8, <1>9, <1>10, <1>11, <1>12, <1>13, <1>14
     DEF Next, SyncStep

(* The table is dropped after the view and created before it.              *)
LEMMA ViewStep == TypeOK /\ JobShape /\ ViewOverTable /\ [Next]_vars => ViewOverTable'
<1> SUFFICES ASSUME TypeOK, JobShape, ViewOverTable, [Next]_vars PROVE ViewOverTable'
  OBVIOUS
<1> USE DEF TypeOK, JobShape, ViewOverTable, copyVars
<1>1. CASE Source \/ UNCHANGED vars
  BY <1>1 DEF Source, Write, Delete, Alter, Tick, vars
<1>2. ASSUME NEW p \in Proc, SyncStep(p) PROVE ViewOverTable'
  BY <1>2 DEF SyncStep, ReadSchema, ChooseRebuild, ChooseWatermark, DropView, DropRaw,
              CreateRaw, CreateView, ReadPage, InsertPage, SaveWatermark, WriteSyncLog
<1>3. ASSUME NEW p \in Proc, SchemaFails(p) \/ SyncFails(p) PROVE ViewOverTable'
  BY <1>3 DEF SchemaFails, SyncFails
<1>4. ASSUME NEW p \in Proc, NEW request \in Request, Acquire(p, request) PROVE ViewOverTable'
  BY <1>4 DEF Acquire
<1>5. CASE Restart
  BY <1>5 DEF Restart
<1>6. QED
  BY <1>1, <1>2, <1>3, <1>4, <1>5 DEF Next

(* Rows go in and out of <t>__raw only while it exists.                     *)
LEMMA EmptyWhenDownStep == TypeOK /\ JobShape /\ EmptyWhenDown /\ [Next]_vars => EmptyWhenDown'
<1> SUFFICES ASSUME TypeOK, JobShape, EmptyWhenDown, [Next]_vars PROVE EmptyWhenDown'
  OBVIOUS
<1> USE DEF TypeOK, EmptyWhenDown, copyVars
<1>1. CASE Source \/ UNCHANGED vars
  BY <1>1 DEF Source, Write, Delete, Alter, Tick, vars
<1>2. ASSUME NEW p \in Proc, InsertPage(p) PROVE EmptyWhenDown'
  BY <1>2 DEF InsertPage, JobShape, Stream
<1>3. ASSUME NEW p \in Proc, DropRaw(p) PROVE EmptyWhenDown'
  BY <1>3 DEF DropRaw
<1>4. ASSUME NEW p \in Proc,
             \/ ReadSchema(p) \/ ChooseRebuild(p) \/ ChooseWatermark(p) \/ DropView(p)
             \/ CreateRaw(p) \/ CreateView(p) \/ ReadPage(p) \/ SaveWatermark(p)
             \/ WriteSyncLog(p) \/ SchemaFails(p) \/ SyncFails(p)
             \/ \E request \in Request : Acquire(p, request)
      PROVE  EmptyWhenDown'
  BY <1>4 DEF ReadSchema, ChooseRebuild, ChooseWatermark, DropView, CreateRaw, CreateView,
              ReadPage, SaveWatermark, WriteSyncLog, SchemaFails, SyncFails, Acquire
<1>5. CASE Restart
  BY <1>5 DEF Restart
<1>6. QED
  BY <1>1, <1>2, <1>3, <1>4, <1>5 DEF Next, SyncStep

(***************************************************************************)
(* Reading a page.                                                         *)
(***************************************************************************)

(* What a page read leaves in the locals of the sync: the rows it chose     *)
(* (S), and the last of them under the cursor.                             *)
LEMMA PageRead ==
  ASSUME TypeOK, NEW p \in Proc, ReadPage(p)
  PROVE  \E S \in SUBSET Pending(p) :
           /\ IsPage(p, S)
           /\ \A k \in Key : page'[p][k] = IF k \in S THEN mysql[k] ELSE NoRow
           /\ more'[p] = (Cardinality(S) = Limit(p))
           /\ \/ /\ S = {} /\ pc'[p] = "save"
                 /\ cursorKey'[p] = cursorKey[p] /\ cursorTs'[p] = cursorTs[p]
              \/ \E last \in S :
                   /\ \A k \in S : k = last \/ Before(p, k, last)
                   /\ pc'[p] = "insert"
                   /\ cursorKey'[p] = last /\ cursorTs'[p] = mysql[last].ts
<1>1. PICK S \in SUBSET Pending(p) :
        /\ IsPage(p, S)
        /\ page' = [page EXCEPT ![p] = [k \in Key |-> IF k \in S THEN mysql[k] ELSE NoRow]]
        /\ more' = [more EXCEPT ![p] = (Cardinality(S) = Limit(p))]
        /\ \/ S = {} /\ Goto(p, "save") /\ UNCHANGED cursorVars
           \/ \E last \in S :
                /\ \A k \in S : k = last \/ Before(p, k, last)
                /\ cursorKey' = [cursorKey EXCEPT ![p] = last]
                /\ cursorTs' = [cursorTs EXCEPT ![p] = mysql[last].ts]
                /\ Goto(p, "insert")
  BY DEF ReadPage
<1>2. \A k \in Key : page'[p][k] = IF k \in S THEN mysql[k] ELSE NoRow
  BY <1>1 DEF TypeOK
<1>3. more'[p] = (Cardinality(S) = Limit(p))
  BY <1>1 DEF TypeOK
<1>4. CASE S = {} /\ Goto(p, "save") /\ UNCHANGED cursorVars
  <2>1. pc'[p] = "save" /\ cursorKey'[p] = cursorKey[p] /\ cursorTs'[p] = cursorTs[p]
    BY <1>4 DEF TypeOK, Goto, cursorVars
  <2>2. QED
    BY <1>1, <1>2, <1>3, <1>4, <2>1
<1>5. ASSUME NEW last \in S,
             \A k \in S : k = last \/ Before(p, k, last),
             cursorKey' = [cursorKey EXCEPT ![p] = last],
             cursorTs' = [cursorTs EXCEPT ![p] = mysql[last].ts],
             Goto(p, "insert")
      PROVE  /\ pc'[p] = "insert"
             /\ cursorKey'[p] = last /\ cursorTs'[p] = mysql[last].ts
  BY <1>5 DEF TypeOK, Goto
<1>6. QED
  BY <1>1, <1>2, <1>3, <1>4, <1>5

(* It touches no other sync, and nothing outside the sync.                 *)
LEMMA PageReadFrame ==
  ASSUME TypeOK, NEW p \in Proc, ReadPage(p)
  PROVE  /\ UNCHANGED <<mysql, clock, nextVer, schema, viewUp, rawUp, rawSchema, raw,
                        watermark, lock, mode, jobSchema, rebuildFaults, otherFaults>>
         /\ \A q \in Proc \ {p} :
              /\ pc'[q] = pc[q] /\ page'[q] = page[q] /\ more'[q] = more[q]
              /\ cursorKey'[q] = cursorKey[q] /\ cursorTs'[q] = cursorTs[q]
<1>1. UNCHANGED <<mysql, clock, nextVer, schema, viewUp, rawUp, rawSchema, raw,
                  watermark, lock, mode, jobSchema, rebuildFaults, otherFaults>>
  BY DEF ReadPage, sourceVars, copyVars, faultVars
<1>2. \A q \in Proc \ {p} : /\ pc'[q] = pc[q] /\ page'[q] = page[q] /\ more'[q] = more[q]
  BY DEF ReadPage, TypeOK, Goto
<1>3. \A q \in Proc \ {p} : cursorKey'[q] = cursorKey[q] /\ cursorTs'[q] = cursorTs[q]
  BY DEF ReadPage, TypeOK, cursorVars
<1>4. QED
  BY <1>1, <1>2, <1>3

(***************************************************************************)
(* Timestamps.                                                             *)
(***************************************************************************)

(* No timestamp is ever ahead of the clock of the source.                  *)
LEMMA NotAheadStep == TypeOK /\ NotAhead /\ [Next]_vars => NotAhead'
<1> SUFFICES ASSUME TypeOK, NotAhead, [Next]_vars PROVE NotAhead'
  OBVIOUS
<1>0. \A k \in Key : mysql[k].ts \in Nat
  BY DEF TypeOK, Row
<1> USE <1>0 DEF TypeOK, NotAhead, sourceVars, copyVars, cursorVars, jobVars, NoTime
<1>1. ASSUME NEW k \in Key, Write(k) PROVE NotAhead'
  <2>1. clock' \in Nat /\ clock <= clock'
    BY <1>1, FlagAssumption DEF Write
  <2>2. \A j \in Key : mysql'[j].ts <= clock'
    BY <1>1, <2>1 DEF Write
  <2>3. \A p \in Proc : cursorTs'[p] <= clock'
    BY <1>1, <2>1 DEF Write
  <2>4. watermark' <= clock'
    BY <1>1, <2>1 DEF Write
  <2>5. QED
    BY <2>2, <2>3, <2>4
<1>2. ASSUME NEW k \in Key, Delete(k) PROVE NotAhead'
  BY <1>2 DEF Delete, NoRow
<1>3. CASE Tick \/ Alter
  BY <1>3 DEF Tick, Alter
<1>4. ASSUME NEW p \in Proc, ReadPage(p) PROVE NotAhead'
  <2>1. cursorTs'[p] <= clock
    BY <1>4, PageRead DEF Pending
  <2>2. QED
    BY <1>4, <2>1, PageReadFrame
<1>5. ASSUME NEW p \in Proc, ChooseWatermark(p) PROVE NotAhead'
  BY <1>5 DEF ChooseWatermark
<1>6. ASSUME NEW p \in Proc, SaveWatermark(p) PROVE NotAhead'
  BY <1>6 DEF SaveWatermark
<1>7. ASSUME NEW p \in Proc,
             \/ ReadSchema(p) \/ ChooseRebuild(p) \/ DropView(p) \/ DropRaw(p)
             \/ CreateRaw(p) \/ CreateView(p) \/ InsertPage(p)
      PROVE  NotAhead'
  BY <1>7 DEF ReadSchema, ChooseRebuild, DropView, DropRaw, CreateRaw, CreateView, InsertPage
<1>8. ASSUME NEW p \in Proc, SchemaFails(p) \/ SyncFails(p) \/ WriteSyncLog(p) PROVE NotAhead'
  BY <1>8 DEF SchemaFails, SyncFails, WriteSyncLog, EndJob
<1>9. ASSUME NEW p \in Proc, NEW request \in Request, Acquire(p, request) PROVE NotAhead'
  BY <1>9 DEF Acquire
<1>10. CASE Restart
  BY <1>10 DEF Restart
<1>11. CASE UNCHANGED vars
  BY <1>11 DEF vars
<1>12. QED
  BY <1>1, <1>2, <1>3, <1>4, <1>5, <1>6, <1>7, <1>8, <1>9, <1>10, <1>11
     DEF Next, Source, SyncStep

(***************************************************************************)
(* Versions.                                                               *)
(***************************************************************************)

(* No step takes a key of <t>__raw past MySQL, or a page behind <t>__raw.  *)
LEMMA VersionOrderStep == TypeOK /\ OneSync /\ VersionOrder /\ [Next]_vars => VersionOrder'
<1> SUFFICES ASSUME TypeOK, OneSync, VersionOrder, [Next]_vars PROVE VersionOrder'
  OBVIOUS
<1>0. /\ nextVer \in Nat \ {0} /\ NoRow.ver = 0
      /\ \A k \in Key : mysql[k].ver \in Nat /\ raw[k].ver \in Nat
      /\ \A p \in Proc, k \in Key : page[p][k].ver \in Nat
  BY DEF TypeOK, Row, Entry, NoRow
<1> USE <1>0 DEF VersionOrder, Present, sourceVars, copyVars, cursorVars, jobVars
<1>1. ASSUME NEW k \in Key, Write(k) PROVE VersionOrder'
  <2>1. /\ \A j \in Key : mysql'[j] = IF j = k THEN [ver |-> nextVer, ts |-> clock'] ELSE mysql[j]
        /\ nextVer' = nextVer + 1
    BY <1>1 DEF Write, TypeOK
  <2>2. UNCHANGED <<raw, pc, page>>
    BY <1>1 DEF Write
  <2>3. QED
    BY <2>1, <2>2
<1>2. ASSUME NEW k \in Key, Delete(k) PROVE VersionOrder'
  <2>1. /\ \A j \in Key : mysql'[j] = IF j = k THEN NoRow ELSE mysql[j]
        /\ nextVer' = nextVer + 1
    BY <1>2 DEF Delete, TypeOK
  <2>2. UNCHANGED <<raw, pc, page>>
    BY <1>2 DEF Delete
  <2>3. QED
    BY <2>1, <2>2
<1>3. CASE Tick \/ Alter \/ UNCHANGED vars
  BY <1>3 DEF Tick, Alter, vars
<1>4. ASSUME NEW p \in Proc, ReadPage(p) PROVE VersionOrder'
  <2>1. PICK S \in SUBSET Pending(p) :
          \A k \in Key : page'[p][k] = IF k \in S THEN mysql[k] ELSE NoRow
    BY <1>4, PageRead
  <2>2. UNCHANGED <<mysql, raw, nextVer>>
    BY <1>4, PageReadFrame
  <2>3. \A q \in Proc \ {p} : pc'[q] = pc[q] /\ page'[q] = page[q]
    BY <1>4, PageReadFrame
  <2>4. \A k \in Key : page'[p][k] # NoRow => Present(k) /\ page'[p][k] = mysql[k]
    BY <2>1 DEF Pending
  <2>5. QED
    BY <2>2, <2>3, <2>4
<1>5. ASSUME NEW p \in Proc, InsertPage(p) PROVE VersionOrder'
  <2>1. /\ \A k \in Key : raw'[k] = IF page[p][k] # NoRow
                                      THEN [ver |-> page[p][k].ver, dead |-> FALSE]
                                      ELSE raw[k]
        /\ UNCHANGED <<mysql, nextVer>> /\ pc[p] = "insert"
    BY <1>5 DEF InsertPage
  <2>2. \A q \in Proc : pc'[q] # "insert"
    BY <1>5 DEF InsertPage, Goto, TypeOK, OneSync
  <2>3. ASSUME NEW k \in Key
        PROVE  raw'[k].ver < nextVer /\ (Present(k) => raw'[k].ver <= mysql[k].ver)
    <3>1. CASE page[p][k] = NoRow
      BY <2>1, <3>1
    <3>2. CASE page[p][k] # NoRow
      <4>1. raw'[k] = [ver |-> page[p][k].ver, dead |-> FALSE]
        BY <2>1, <3>2
      <4>2. raw'[k].ver = page[p][k].ver
        BY <4>1
      <4>3. QED
        BY <2>1, <3>2, <4>2
    <3>3. QED
      BY <3>1, <3>2
  <2>4. QED
    BY <2>1, <2>2, <2>3
<1>6. ASSUME NEW p \in Proc, DropRaw(p) PROVE VersionOrder'
  <2>1. /\ \A k \in Key : raw'[k].ver = 0
        /\ UNCHANGED <<mysql, nextVer>>
    BY <1>6 DEF DropRaw, NoEntry
  <2>2. \A q \in Proc : pc'[q] # "insert"
    BY <1>6 DEF DropRaw, Goto, TypeOK, OneSync
  <2>3. QED
    BY <2>1, <2>2
<1>7. ASSUME NEW p \in Proc,
             \/ ReadSchema(p) \/ ChooseRebuild(p) \/ ChooseWatermark(p) \/ DropView(p)
             \/ CreateRaw(p) \/ CreateView(p) \/ SaveWatermark(p)
      PROVE  VersionOrder'
  <2>1. UNCHANGED <<mysql, raw, nextVer, page>>
    BY <1>7 DEF ReadSchema, ChooseRebuild, ChooseWatermark, DropView, CreateRaw,
                CreateView, SaveWatermark
  <2>2. \A q \in Proc : pc'[q] = "insert" => pc[q] = "insert"
    BY <1>7 DEF ReadSchema, ChooseRebuild, ChooseWatermark, DropView, CreateRaw,
                CreateView, SaveWatermark, Goto, TypeOK
  <2>3. QED
    BY <2>1, <2>2
<1>8. ASSUME NEW p \in Proc, SchemaFails(p) \/ SyncFails(p) \/ WriteSyncLog(p)
      PROVE  VersionOrder'
  <2>1. UNCHANGED <<mysql, raw, nextVer>>
    BY <1>8 DEF SchemaFails, SyncFails, WriteSyncLog
  <2>2. \A q \in Proc : pc'[q] # "insert"
    BY <1>8 DEF SchemaFails, SyncFails, WriteSyncLog, EndJob, Goto, TypeOK, OneSync
  <2>3. QED
    BY <2>1, <2>2
<1>9. ASSUME NEW p \in Proc, NEW request \in Request, Acquire(p, request)
      PROVE  VersionOrder'
  BY <1>9 DEF Acquire, Goto, TypeOK
<1>10. CASE Restart
  BY <1>10 DEF Restart
<1>11. QED
  BY <1>1, <1>2, <1>3, <1>4, <1>5, <1>6, <1>7, <1>8, <1>9, <1>10
     DEF Next, Source, SyncStep

(***************************************************************************)
(* Pages.                                                                  *)
(***************************************************************************)

(* A page read earlier never holds an old version that the watermark hides. *)
LEMMA PageFreshStep ==
  TypeOK /\ OneSync /\ JobShape /\ NotAhead /\ PageFresh /\ [Next]_vars => PageFresh'
<1> SUFFICES ASSUME TypeOK, OneSync, JobShape, NotAhead, PageFresh, [Next]_vars
             PROVE  PageFresh'
  OBVIOUS
<1>0. /\ clock \in Nat /\ watermark \in Nat
      /\ \A k \in Key : mysql[k].ts \in Nat
  BY DEF TypeOK, Row
<1> USE <1>0 DEF PageFresh, Present, sourceVars, copyVars, cursorVars, jobVars
<1>1. ASSUME NEW k \in Key, Write(k) PROVE PageFresh'
  <2>1. /\ \A j \in Key : mysql'[j] = IF j = k THEN [ver |-> nextVer, ts |-> clock'] ELSE mysql[j]
        /\ clock <= clock'
    BY <1>1, FlagAssumption DEF Write, TypeOK
  <2>2. UNCHANGED <<pc, page, mode, watermark>>
    BY <1>1 DEF Write
  <2>3. watermark <= clock' /\ clock' \in Nat
    BY <1>1, <2>1, FlagAssumption DEF Write, NotAhead
  <2>4. QED
    BY <2>1, <2>2, <2>3
<1>2. ASSUME NEW k \in Key, Delete(k) PROVE PageFresh'
  <2>1. /\ \A j \in Key : mysql'[j] = IF j = k THEN NoRow ELSE mysql[j]
        /\ UNCHANGED <<pc, page, mode, watermark>>
    BY <1>2 DEF Delete, TypeOK
  <2>2. QED
    BY <2>1
<1>3. CASE Tick \/ Alter \/ UNCHANGED vars
  BY <1>3 DEF Tick, Alter, vars
<1>4. ASSUME NEW p \in Proc, ReadPage(p) PROVE PageFresh'
  <2>1. PICK S \in SUBSET Pending(p) :
          \A k \in Key : page'[p][k] = IF k \in S THEN mysql[k] ELSE NoRow
    BY <1>4, PageRead
  <2>2. UNCHANGED <<mysql, watermark, mode>>
    BY <1>4, PageReadFrame
  <2>3. \A q \in Proc \ {p} : pc'[q] = pc[q] /\ page'[q] = page[q]
    BY <1>4, PageReadFrame
  <2>4. QED
    BY <2>1, <2>2, <2>3
<1>5. ASSUME NEW p \in Proc,
             \/ ReadSchema(p) \/ ChooseRebuild(p) \/ ChooseWatermark(p) \/ DropView(p)
             \/ DropRaw(p) \/ CreateRaw(p) \/ CreateView(p) \/ InsertPage(p)
      PROVE  PageFresh'
  <2>1. UNCHANGED <<mysql, watermark>>
    BY <1>5 DEF ReadSchema, ChooseRebuild, ChooseWatermark, DropView, DropRaw, CreateRaw,
                CreateView, InsertPage
  <2>2. \A q \in Proc : pc'[q] # "insert"
    BY <1>5 DEF ReadSchema, ChooseRebuild, ChooseWatermark, DropView, DropRaw, CreateRaw,
                CreateView, InsertPage, Goto, TypeOK, OneSync
  <2>3. QED
    BY <2>1, <2>2
<1>6. ASSUME NEW p \in Proc,
             SaveWatermark(p) \/ SchemaFails(p) \/ SyncFails(p) \/ WriteSyncLog(p)
      PROVE  PageFresh'
  <2>1. \A q \in Proc : pc'[q] # "insert"
    BY <1>6 DEF SaveWatermark, SchemaFails, SyncFails, WriteSyncLog, EndJob, Goto, TypeOK, OneSync
  <2>2. QED
    BY <2>1
<1>7. ASSUME NEW p \in Proc, NEW request \in Request, Acquire(p, request) PROVE PageFresh'
  <2>1. \A q \in Proc : pc'[q] # "insert"
    BY <1>7 DEF Acquire, Goto, TypeOK, OneSync
  <2>2. QED
    BY <2>1
<1>8. CASE Restart
  BY <1>8 DEF Restart
<1>9. QED
  BY <1>1, <1>2, <1>3, <1>4, <1>5, <1>6, <1>7, <1>8 DEF Next, Source, SyncStep

(* A page of a table that fits in one page holds every row asked for, and   *)
(* no other is asked for.                                                  *)
LEMMA WholePage ==
  ASSUME TypeOK, NEW p \in Proc, NEW S \in SUBSET Pending(p), IsPage(p, S),
         Cardinality(Key) < Limit(p)
  PROVE  S = Pending(p) /\ Cardinality(S) # Limit(p)
<1>1. S \in SUBSET Key
  BY DEF Pending
<1>2. IsFiniteSet(S) /\ Cardinality(S) <= Cardinality(Key)
  BY <1>1, KeyAssumption, FS_Subset
<1>3. Cardinality(S) \in Nat /\ Cardinality(Key) \in Nat
  BY <1>2, KeyAssumption, FS_CardinalityType
<1>4. Limit(p) \in Nat
  BY BatchAssumption DEF Limit
<1>5. QED
  BY <1>2, <1>3, <1>4 DEF IsPage

(***************************************************************************)
(* What writers can do to a running sync.                                  *)
(***************************************************************************)

(* A writer leaves the sync alone; a row it changed is gone, or carries a   *)
(* timestamp no cursor and no watermark has gone past.                     *)
LEMMA SourceEffect ==
  ASSUME TypeOK, NotAhead, Source
  PROVE  /\ UNCHANGED <<viewUp, rawUp, rawSchema, raw, watermark, lock, pc, mode,
                        cursorKey, cursorTs, page, more, rebuildFaults, otherFaults>>
         /\ \A k \in Key :
              \/ mysql'[k] = mysql[k]
              \/ mysql'[k] = NoRow
              \/ /\ mysql'[k].ts \in Nat
                 /\ watermark <= mysql'[k].ts
                 /\ \A p \in Proc : /\ cursorTs[p] <= mysql'[k].ts
                                    /\ ~SharedTimes => cursorTs[p] < mysql'[k].ts
<1> USE DEF sourceVars, copyVars, cursorVars, jobVars, faultVars
<1>1. ASSUME NEW j \in Key, Write(j), NEW k \in Key, mysql'[k] # mysql[k]
      PROVE  /\ mysql'[k].ts \in Nat
             /\ watermark <= mysql'[k].ts
             /\ \A p \in Proc : /\ cursorTs[p] <= mysql'[k].ts
                                /\ ~SharedTimes => cursorTs[p] < mysql'[k].ts
  <2>1. mysql'[k] = [ver |-> nextVer, ts |-> clock']
    BY <1>1 DEF Write, TypeOK
  <2>2. mysql'[k].ts = clock'
    BY <2>1
  <2>3. clock' = (IF SharedTimes THEN clock ELSE clock + 1)
    BY <1>1 DEF Write
  <2>4. QED
    BY <2>2, <2>3, FlagAssumption DEF NotAhead, TypeOK
<1>2. ASSUME NEW j \in Key, Delete(j), NEW k \in Key, mysql'[k] # mysql[k]
      PROVE  mysql'[k] = NoRow
  BY <1>2 DEF Delete, TypeOK
<1>3. CASE Alter \/ Tick
  BY <1>3 DEF Alter, Tick
<1>4. ASSUME NEW j \in Key, Write(j) \/ Delete(j)
      PROVE  UNCHANGED <<viewUp, rawUp, rawSchema, raw, watermark, lock, pc, mode,
                         cursorKey, cursorTs, page, more, rebuildFaults, otherFaults>>
  BY <1>4 DEF Write, Delete
<1>5. QED
  BY <1>1, <1>2, <1>3, <1>4 DEF Source

(***************************************************************************)
(* Progress of an incremental sync.                                        *)
(***************************************************************************)

(* Reading an incremental page keeps everything behind the cursor in        *)
(* <t>__raw or in the page.                                                *)
LEMMA IncrementalRead ==
  ASSUME TypeOK, IncrementalProgress, SafeIncremental,
         NEW p \in Proc, ReadPage(p), mode[p] = "incremental"
  PROVE  /\ pc'[p] = "insert" /\ SharedTimes => ~more'[p]
         /\ pc'[p] = "save" => \A k \in Key : Passed(p, k)' => Copied(k)
         /\ pc'[p] = "insert" =>
              \A k \in Key : Passed(p, k)' => \/ page'[p][k] = mysql[k]
                                              \/ page'[p][k] = NoRow /\ Copied(k)
<1>0. /\ clock \in Nat /\ watermark \in Nat /\ cursorTs[p] \in Nat /\ cursorKey[p] \in Nat
      /\ \A k \in Key : k \in Nat \ {0} /\ mysql[k].ts \in Nat
  BY KeyAssumption DEF TypeOK, Row
<1>1. PICK S \in SUBSET Pending(p) :
        /\ IsPage(p, S)
        /\ \A k \in Key : page'[p][k] = IF k \in S THEN mysql[k] ELSE NoRow
        /\ more'[p] = (Cardinality(S) = Limit(p))
        /\ \/ /\ S = {} /\ pc'[p] = "save"
              /\ cursorKey'[p] = cursorKey[p] /\ cursorTs'[p] = cursorTs[p]
           \/ \E last \in S :
                /\ \A k \in S : k = last \/ Before(p, k, last)
                /\ pc'[p] = "insert"
                /\ cursorKey'[p] = last /\ cursorTs'[p] = mysql[last].ts
  BY PageRead
<1>2. UNCHANGED <<mysql, watermark, raw>> /\ pc[p] = "read"
  BY PageReadFrame DEF ReadPage
<1>3. SharedTimes => ~more'[p]
  <2>1. SUFFICES ASSUME SharedTimes PROVE Cardinality(Key) < Limit(p)
    BY <1>1, WholePage
  <2>2. QED
    BY <2>1 DEF SafeIncremental, OnePageIncr, Limit
<1>4. \A k \in Key : Passed(p, k) => Copied(k)
  BY <1>2 DEF IncrementalProgress
<1>5. CASE S = {} /\ pc'[p] = "save" /\ cursorKey'[p] = cursorKey[p] /\ cursorTs'[p] = cursorTs[p]
  BY <1>2, <1>4, <1>5 DEF Passed, Present
<1>6. ASSUME NEW last \in S, \A k \in S : k = last \/ Before(p, k, last),
             pc'[p] = "insert", cursorKey'[p] = last, cursorTs'[p] = mysql[last].ts,
             NEW k \in Key, Passed(p, k)'
      PROVE  \/ page'[p][k] = mysql[k]
             \/ page'[p][k] = NoRow /\ Copied(k)
  <2>1. CASE Passed(p, k)
    BY <1>1, <1>4, <2>1
  <2>2. CASE ~Passed(p, k)
    <3>1. Present(k) /\ watermark <= mysql[k].ts
      BY <1>2, <1>6 DEF Passed, Present
    <3>2. k = last \/ Before(p, k, last)
      BY <1>0, <1>1, <1>2, <1>6 DEF Passed, Before, Present, Pending
    <3>3. After(p, k)
      <4>1. CASE SharedTimes
        BY <1>0, <1>2, <3>1, <4>1 DEF After, IncrementalProgress
      <4>2. CASE ~SharedTimes
        BY <1>0, <2>2, <3>1, <4>2 DEF After, Passed
      <4>3. QED
        BY <4>1, <4>2
    <3>4. k \in S
      BY <1>1, <1>6, <3>1, <3>2, <3>3 DEF IsPage, Pending
    <3>5. page'[p][k] = IF k \in S THEN mysql[k] ELSE NoRow
      BY <1>1
    <3>6. QED
      BY <3>4, <3>5
  <2>3. QED
    BY <2>1, <2>2
<1>7. QED
  BY <1>1, <1>3, <1>5, <1>6

(* So does every other step.                                               *)
LEMMA IncrementalProgressStep ==
  ASSUME TypeOK, OneSync, JobShape, NotAhead, SafeIncremental, IncrementalProgress, [Next]_vars
  PROVE  IncrementalProgress'
<1>0. /\ clock \in Nat /\ watermark \in Nat
      /\ \A k \in Key : k \in Nat \ {0} /\ mysql[k].ts \in Nat
      /\ \A p \in Proc : cursorTs[p] \in Nat /\ cursorKey[p] \in Nat
  BY KeyAssumption DEF TypeOK, Row
<1> USE DEF sourceVars, copyVars, cursorVars, jobVars, faultVars
<1>1. CASE Source
  <2>1. UNCHANGED <<raw, watermark, pc, mode, cursorKey, cursorTs, page, more>>
    BY <1>1, SourceEffect
  <2>2. ASSUME NEW p \in Proc, NEW k \in Key, Passed(p, k)'
        PROVE  Passed(p, k) /\ mysql'[k] = mysql[k]
    <3>1. mysql'[k] = mysql[k]
      BY <1>0, <1>1, <2>1, <2>2, SourceEffect, FlagAssumption DEF Passed, Present
    <3>2. QED
      BY <2>1, <2>2, <3>1 DEF Passed, Present
  <2>3. QED
    BY <2>1, <2>2 DEF IncrementalProgress, Copied
<1>2. ASSUME NEW p \in Proc, ReadPage(p) PROVE IncrementalProgress'
  <2>1. UNCHANGED <<mysql, raw, watermark, mode>>
    BY <1>2, PageReadFrame
  <2>2. \A q \in Proc \ {p} : pc'[q] = "idle"
    BY <1>2, PageReadFrame DEF ReadPage, OneSync
  <2>3. pc'[p] \in {"insert", "save"}
    BY <1>2, PageRead
  <2>4. QED
    BY <1>2, <2>1, <2>2, <2>3, IncrementalRead DEF IncrementalProgress, Copied
<1>3. ASSUME NEW p \in Proc, InsertPage(p) PROVE IncrementalProgress'
  <2>1. /\ UNCHANGED <<mysql, watermark, mode, cursorKey, cursorTs, more>>
        /\ pc[p] = "insert" /\ pc'[p] = (IF more[p] THEN "read" ELSE "save")
    BY <1>3 DEF InsertPage, Goto, TypeOK
  <2>2. \A q \in Proc \ {p} : pc'[q] = "idle"
    BY <1>3 DEF InsertPage, Goto, TypeOK, OneSync
  <2>3. ASSUME mode[p] = "incremental", NEW k \in Key, Passed(p, k) PROVE Copied(k)'
    <3>1. Present(k)
      BY <2>3 DEF Passed
    <3>2. \/ page[p][k] = mysql[k]
          \/ page[p][k] = NoRow /\ Copied(k)
      BY <2>1, <2>3 DEF IncrementalProgress
    <3>3. raw'[k] = IF page[p][k] # NoRow
                      THEN [ver |-> page[p][k].ver, dead |-> FALSE] ELSE raw[k]
      BY <1>3 DEF InsertPage
    <3>4. CASE page[p][k] = mysql[k]
      <4>1. raw'[k] = [ver |-> mysql[k].ver, dead |-> FALSE]
        BY <3>1, <3>3, <3>4 DEF Present
      <4>2. QED
        BY <2>1, <4>1 DEF Copied
    <3>5. CASE page[p][k] = NoRow /\ Copied(k)
      BY <2>1, <3>3, <3>5 DEF Copied
    <3>6. QED
      BY <3>2, <3>4, <3>5
  <2>4. \A k \in Key : Passed(p, k)' => Passed(p, k)
    BY <2>1 DEF Passed, Present
  <2>5. mode[p] = "incremental" /\ SharedTimes => ~more[p]
    BY <2>1 DEF IncrementalProgress
  <2>6. QED
    BY <2>1, <2>2, <2>3, <2>4, <2>5 DEF IncrementalProgress
<1>4. ASSUME NEW p \in Proc, ChooseWatermark(p) PROVE IncrementalProgress'
  <2>1. /\ UNCHANGED <<mysql, raw, watermark, mode>>
        /\ pc'[p] = "read" /\ cursorKey'[p] = 0 /\ cursorTs'[p] = watermark
    BY <1>4 DEF ChooseWatermark, Goto, TypeOK
  <2>2. \A q \in Proc \ {p} : pc'[q] = "idle"
    BY <1>4 DEF ChooseWatermark, Goto, TypeOK, OneSync
  <2>3. \A k \in Key : ~Passed(p, k)'
    BY <1>0, <2>1 DEF Passed, Present
  <2>4. QED
    BY <2>1, <2>2, <2>3 DEF IncrementalProgress
<1>5. ASSUME NEW p \in Proc, CreateView(p) PROVE IncrementalProgress'
  <2>1. mode'[p] = "full"
    BY <1>5 DEF CreateView, JobShape, Rebuild
  <2>2. \A q \in Proc \ {p} : pc'[q] = "idle"
    BY <1>5 DEF CreateView, Goto, TypeOK, OneSync
  <2>3. QED
    BY <2>1, <2>2 DEF IncrementalProgress
<1>6. ASSUME NEW p \in Proc,
             \/ ReadSchema(p) \/ ChooseRebuild(p) \/ DropView(p) \/ DropRaw(p)
             \/ CreateRaw(p) \/ SaveWatermark(p) \/ WriteSyncLog(p)
             \/ SchemaFails(p) \/ SyncFails(p)
             \/ \E request \in Request : Acquire(p, request)
      PROVE  IncrementalProgress'
  <2>1. \A q \in Proc : pc'[q] \notin {"read", "insert", "save"}
    BY <1>6 DEF ReadSchema, ChooseRebuild, DropView, DropRaw, CreateRaw, SaveWatermark,
                WriteSyncLog, SchemaFails, SyncFails, Acquire, EndJob, Goto, TypeOK, OneSync
  <2>2. QED
    BY <2>1 DEF IncrementalProgress
<1>7. CASE Restart
  BY <1>7 DEF Restart, IncrementalProgress
<1>8. CASE UNCHANGED vars
  BY <1>8 DEF vars, IncrementalProgress, Passed, Copied, Present
<1>9. QED
  BY <1>1, <1>2, <1>3, <1>4, <1>5, <1>6, <1>7, <1>8 DEF Next, SyncStep

(***************************************************************************)
(* Progress of a full sync.                                                *)
(***************************************************************************)

(* A full sync that streams the table in one page keeps every row older     *)
(* than its cursor in the page, then in <t>__raw.                          *)
LEMMA FullProgressStep ==
  ASSUME TypeOK, OneSync, JobShape, NotAhead, OnePageFull, FullProgress, [Next]_vars
  PROVE  FullProgress'
<1>0. \A k \in Key : k \in Nat \ {0} /\ mysql[k].ts \in Nat
  BY KeyAssumption DEF TypeOK, Row
<1> USE DEF sourceVars, copyVars, cursorVars, jobVars, faultVars
<1>1. CASE Source
  <2>1. UNCHANGED <<raw, pc, mode, cursorKey, cursorTs, page, more>>
    BY <1>1, SourceEffect
  <2>2. ASSUME NEW p \in Proc, NEW k \in Key, Present(k)', mysql'[k].ts < cursorTs[p]
        PROVE  Present(k) /\ mysql'[k] = mysql[k]
    <3>1. cursorTs[p] \in Nat
      BY DEF TypeOK
    <3>2. mysql'[k] = mysql[k]
      BY <1>1, <2>2, <3>1, SourceEffect DEF Present
    <3>3. QED
      BY <2>2, <3>2 DEF Present
  <2>3. QED
    BY <2>1, <2>2 DEF FullProgress, Copied
<1>2. ASSUME NEW p \in Proc, ReadPage(p) PROVE FullProgress'
  <2>1. UNCHANGED <<mysql, raw, mode>>
    BY <1>2, PageReadFrame
  <2>2. \A q \in Proc \ {p} : pc'[q] = "idle"
    BY <1>2, PageReadFrame DEF ReadPage, OneSync
  <2>3. SUFFICES ASSUME mode[p] = "full"
                 PROVE  /\ pc'[p] \in {"insert", "save"}
                        /\ pc'[p] = "insert" => ~more'[p]
                        /\ pc'[p] = "insert" =>
                             \A k \in Key : Present(k) => page'[p][k] = mysql[k]
                        /\ pc'[p] = "save" => cursorTs'[p] = NoTime
    BY <1>0, <2>1, <2>2, <2>3 DEF FullProgress, Copied, Present, NoTime
  <2>4. pc[p] = "read" /\ cursorKey[p] = 0 /\ cursorTs[p] = NoTime
    BY <1>2, <2>3 DEF FullProgress, ReadPage
  <2>5. PICK S \in SUBSET Pending(p) :
          /\ IsPage(p, S)
          /\ \A k \in Key : page'[p][k] = IF k \in S THEN mysql[k] ELSE NoRow
          /\ more'[p] = (Cardinality(S) = Limit(p))
          /\ \/ /\ S = {} /\ pc'[p] = "save"
                /\ cursorKey'[p] = cursorKey[p] /\ cursorTs'[p] = cursorTs[p]
             \/ \E last \in S :
                  /\ \A k \in S : k = last \/ Before(p, k, last)
                  /\ pc'[p] = "insert"
                  /\ cursorKey'[p] = last /\ cursorTs'[p] = mysql[last].ts
    BY <1>2, PageRead
  <2>6. Cardinality(Key) < Limit(p)
    BY <2>3 DEF OnePageFull, Limit
  <2>7. S = Pending(p) /\ Cardinality(S) # Limit(p)
    BY <2>5, <2>6, <1>2, WholePage
  <2>8. \A k \in Key : Present(k) => k \in S
    BY <1>0, <2>3, <2>4, <2>7 DEF Pending, After
  <2>9. \A k \in Key : Present(k) => page'[p][k] = mysql[k]
    BY <2>5, <2>8
  <2>10. ~more'[p]
    BY <2>5, <2>7
  <2>11. pc'[p] \in {"insert", "save"} /\ (pc'[p] = "save" => cursorTs'[p] = NoTime)
    BY <2>4, <2>5
  <2>12. QED
    BY <2>9, <2>10, <2>11
<1>3. ASSUME NEW p \in Proc, InsertPage(p) PROVE FullProgress'
  <2>1. /\ UNCHANGED <<mysql, mode, cursorTs>>
        /\ pc[p] = "insert" /\ pc'[p] = (IF more[p] THEN "read" ELSE "save")
    BY <1>3 DEF InsertPage, Goto, TypeOK
  <2>2. \A q \in Proc \ {p} : pc'[q] = "idle"
    BY <1>3 DEF InsertPage, Goto, TypeOK, OneSync
  <2>3. ASSUME mode[p] = "full", NEW k \in Key, Present(k), mysql[k].ts < cursorTs[p]
        PROVE  Copied(k)'
    <3>1. page[p][k] = mysql[k]
      BY <2>1, <2>3 DEF FullProgress
    <3>2. raw'[k] = IF page[p][k] # NoRow
                      THEN [ver |-> page[p][k].ver, dead |-> FALSE] ELSE raw[k]
      BY <1>3 DEF InsertPage
    <3>3. raw'[k] = [ver |-> mysql[k].ver, dead |-> FALSE]
      BY <2>3, <3>1, <3>2 DEF Present
    <3>4. QED
      BY <2>1, <3>3 DEF Copied
  <2>4. mode[p] = "full" => ~more[p]
    BY <2>1 DEF FullProgress
  <2>5. \A k \in Key : Present(k)' => Present(k)
    BY <2>1 DEF Present
  <2>6. QED
    BY <2>1, <2>2, <2>3, <2>4, <2>5 DEF FullProgress
<1>4. ASSUME NEW p \in Proc, ChooseWatermark(p) PROVE FullProgress'
  <2>1. mode'[p] = "incremental"
    BY <1>4 DEF ChooseWatermark, JobShape
  <2>2. \A q \in Proc \ {p} : pc'[q] = "idle"
    BY <1>4 DEF ChooseWatermark, Goto, TypeOK, OneSync
  <2>3. QED
    BY <2>1, <2>2 DEF FullProgress
<1>5. ASSUME NEW p \in Proc, CreateView(p) PROVE FullProgress'
  <2>1. pc'[p] = "read" /\ cursorKey'[p] = 0 /\ cursorTs'[p] = NoTime
    BY <1>5 DEF CreateView, JobShape, Rebuild, Goto, TypeOK
  <2>2. \A q \in Proc \ {p} : pc'[q] = "idle"
    BY <1>5 DEF CreateView, Goto, TypeOK, OneSync
  <2>3. QED
    BY <2>1, <2>2 DEF FullProgress
<1>6. ASSUME NEW p \in Proc,
             \/ ReadSchema(p) \/ ChooseRebuild(p) \/ DropView(p) \/ DropRaw(p)
             \/ CreateRaw(p) \/ SaveWatermark(p) \/ WriteSyncLog(p)
             \/ SchemaFails(p) \/ SyncFails(p)
             \/ \E request \in Request : Acquire(p, request)
      PROVE  FullProgress'
  <2>1. \A q \in Proc : pc'[q] \notin {"read", "insert", "save"}
    BY <1>6 DEF ReadSchema, ChooseRebuild, DropView, DropRaw, CreateRaw, SaveWatermark,
                WriteSyncLog, SchemaFails, SyncFails, Acquire, EndJob, Goto, TypeOK, OneSync
  <2>2. QED
    BY <2>1 DEF FullProgress
<1>7. CASE Restart
  BY <1>7 DEF Restart, FullProgress
<1>8. CASE UNCHANGED vars
  BY <1>8 DEF vars, FullProgress, Copied, Present
<1>9. QED
  BY <1>1, <1>2, <1>3, <1>4, <1>5, <1>6, <1>7, <1>8 DEF Next, SyncStep

(***************************************************************************)
(* Coverage.                                                               *)
(***************************************************************************)

(* Coverage survives every step but dropping <t>__raw and storing the       *)
(* watermark of a full sync.                                               *)
LEMMA CoverageStep ==
  ASSUME TypeOK, JobShape, NotAhead, PageFresh, EmptyWhenDown, IncrementalProgress,
         Covered, [Next]_vars,
         rawUp => rawUp', ~ \E p \in Proc : mode[p] = "full" /\ pc[p] = "save"
  PROVE  Covered'
<1>0. /\ watermark \in Nat /\ \A k \in Key : mysql[k].ts \in Nat
      /\ \A p \in Proc : cursorTs[p] \in Nat
  BY DEF TypeOK, Row
<1> USE DEF sourceVars, copyVars, cursorVars, jobVars, faultVars
<1>1. CASE Source
  BY <1>0, <1>1, SourceEffect DEF Covered, Present
<1>2. ASSUME NEW p \in Proc, InsertPage(p) PROVE Covered'
  <2>1. UNCHANGED <<mysql, watermark>> /\ pc[p] = "insert"
    BY <1>2 DEF InsertPage
  <2>2. ASSUME NEW k \in Key, Present(k), mysql[k].ts < watermark
        PROVE  raw'[k] = [ver |-> mysql[k].ver, dead |-> FALSE]
    <3>1. raw'[k] = IF page[p][k] # NoRow
                      THEN [ver |-> page[p][k].ver, dead |-> FALSE] ELSE raw[k]
      BY <1>2 DEF InsertPage
    <3>2. page[p][k] = NoRow \/ page[p][k] = mysql[k]
      BY <1>0, <2>1, <2>2 DEF PageFresh
    <3>3. CASE page[p][k] = NoRow
      BY <2>2, <3>1, <3>3 DEF Covered
    <3>4. CASE page[p][k] = mysql[k]
      BY <2>2, <3>1, <3>4 DEF Present
    <3>5. QED
      BY <3>2, <3>3, <3>4
  <2>3. QED
    BY <2>1, <2>2 DEF Covered, Present
<1>3. ASSUME NEW p \in Proc, DropRaw(p) PROVE Covered'
  <2>1. ~rawUp /\ UNCHANGED <<mysql, watermark>> /\ \A k \in Key : raw'[k] = NoEntry
    BY <1>3 DEF DropRaw
  <2>2. QED
    BY <2>1 DEF Covered, EmptyWhenDown, Present
<1>4. ASSUME NEW p \in Proc, SaveWatermark(p) PROVE Covered'
  <2>1. /\ UNCHANGED <<mysql, raw>> /\ pc[p] = "save"
        /\ watermark' = IF Timestamped THEN cursorTs[p] ELSE NoTime
    BY <1>4 DEF SaveWatermark
  <2>2. mode[p] = "incremental"
    BY <2>1 DEF JobShape, Stream
  <2>3. ASSUME NEW k \in Key, Present(k), mysql[k].ts < watermark'
        PROVE  raw[k] = [ver |-> mysql[k].ver, dead |-> FALSE]
    <3>1. mysql[k].ts < cursorTs[p]
      BY <1>0, <2>1, <2>3 DEF NoTime
    <3>2. CASE mysql[k].ts < watermark
      BY <2>3, <3>2 DEF Covered
    <3>3. CASE watermark <= mysql[k].ts
      <4>1. Passed(p, k)
        BY <2>3, <3>1, <3>3 DEF Passed
      <4>2. QED
        BY <2>1, <2>2, <4>1 DEF IncrementalProgress, Copied
    <3>4. QED
      BY <1>0, <3>2, <3>3
  <2>4. QED
    BY <2>1, <2>3 DEF Covered, Present
<1>5. ASSUME NEW p \in Proc,
             \/ ReadSchema(p) \/ ChooseRebuild(p) \/ ChooseWatermark(p) \/ DropView(p)
             \/ CreateRaw(p) \/ CreateView(p) \/ ReadPage(p) \/ WriteSyncLog(p)
             \/ SchemaFails(p) \/ SyncFails(p)
             \/ \E request \in Request : Acquire(p, request)
      PROVE  Covered'
  <2>1. UNCHANGED <<mysql, raw, watermark>>
    BY <1>5 DEF ReadSchema, ChooseRebuild, ChooseWatermark, DropView, CreateRaw, CreateView,
                ReadPage, WriteSyncLog, SchemaFails, SyncFails, Acquire
  <2>2. QED
    BY <2>1 DEF Covered, Present
<1>6. CASE Restart
  BY <1>6 DEF Restart, Covered, Present
<1>7. CASE UNCHANGED vars
  BY <1>7 DEF vars, Covered, Present
<1>8. QED
  BY <1>1, <1>2, <1>3, <1>4, <1>5, <1>6, <1>7 DEF Next, SyncStep

(* Unless a full sync has just stored its watermark, a state with a view    *)
(* and no rebuild comes from one with a view and no rebuild.               *)
LEMMA QuietBefore ==
  ASSUME TypeOK, OneSync, JobShape, MaxRebuildFaults = 0, [Next]_vars,
         viewUp', \A q \in Proc : ~Rebuilding(q)',
         ~ \E p \in Proc : mode[p] = "full" /\ pc[p] = "save" /\ SaveWatermark(p)
  PROVE  viewUp /\ (rawUp => rawUp') /\ \A q \in Proc : ~Rebuilding(q)
<1> USE DEF sourceVars, copyVars, cursorVars, jobVars, faultVars, Rebuilding, Streaming
<1>1. CASE Source \/ UNCHANGED vars
  <2>1. UNCHANGED <<viewUp, rawUp, pc, mode>>
    BY <1>1 DEF Source, Write, Delete, Alter, Tick, vars
  <2>2. QED
    BY <2>1
<1>2. ASSUME NEW p \in Proc,
             \/ ReadSchema(p) \/ ChooseRebuild(p) \/ ChooseWatermark(p)
             \/ WriteSyncLog(p) \/ SchemaFails(p)
             \/ \E request \in Request : Acquire(p, request)
      PROVE  viewUp /\ (rawUp => rawUp') /\ \A q \in Proc : ~Rebuilding(q)
  <2>1. UNCHANGED <<viewUp, rawUp>>
    BY <1>2 DEF ReadSchema, ChooseRebuild, ChooseWatermark, WriteSyncLog, SchemaFails, Acquire
  <2>2. pc[p] \in {"idle", "schema", "choose", "log"}
    BY <1>2 DEF ReadSchema, ChooseRebuild, ChooseWatermark, WriteSyncLog, SchemaFails, Acquire
  <2>3. \A q \in Proc \ {p} : pc'[q] = pc[q] /\ mode'[q] = mode[q]
    BY <1>2 DEF ReadSchema, ChooseRebuild, ChooseWatermark, WriteSyncLog, SchemaFails, Acquire,
                EndJob, Goto, TypeOK
  <2>4. QED
    BY <2>1, <2>2, <2>3
<1>3. ASSUME NEW p \in Proc, DropView(p) \/ DropRaw(p) \/ CreateRaw(p) \/ CreateView(p)
      PROVE  FALSE
  BY <1>3 DEF DropView, DropRaw, CreateRaw, CreateView, Goto, TypeOK, JobShape, Rebuild
<1>4. ASSUME NEW p \in Proc, ReadPage(p)
      PROVE  viewUp /\ (rawUp => rawUp') /\ \A q \in Proc : ~Rebuilding(q)
  <2>1. UNCHANGED <<viewUp, rawUp, mode>> /\ pc[p] = "read" /\ pc'[p] \in {"insert", "save"}
    BY <1>4, PageRead, PageReadFrame DEF ReadPage
  <2>2. \A q \in Proc \ {p} : pc'[q] = pc[q]
    BY <1>4, PageReadFrame
  <2>3. QED
    BY <2>1, <2>2
<1>5. ASSUME NEW p \in Proc, InsertPage(p)
      PROVE  viewUp /\ (rawUp => rawUp') /\ \A q \in Proc : ~Rebuilding(q)
  BY <1>5 DEF InsertPage, Goto, TypeOK
<1>6. ASSUME NEW p \in Proc, SaveWatermark(p)
      PROVE  viewUp /\ (rawUp => rawUp') /\ \A q \in Proc : ~Rebuilding(q)
  <2>1. mode[p] # "full" /\ pc[p] = "save" /\ UNCHANGED <<viewUp, rawUp, mode>>
    BY <1>6 DEF SaveWatermark
  <2>2. \A q \in Proc \ {p} : pc'[q] = pc[q]
    BY <1>6 DEF SaveWatermark, Goto, TypeOK
  <2>3. QED
    BY <2>1, <2>2
<1>7. ASSUME NEW p \in Proc, SyncFails(p)
      PROVE  viewUp /\ (rawUp => rawUp') /\ \A q \in Proc : ~Rebuilding(q)
  <2>1. UNCHANGED <<viewUp, rawUp>> /\ pc[p] # "idle"
    BY <1>7 DEF SyncFails
  <2>2. ~Streaming(p)
    BY <1>7 DEF SyncFails, CountFault, TypeOK
  <2>3. ~Rebuilding(p)
    BY <2>1, <2>2 DEF JobShape
  <2>4. QED
    BY <2>1, <2>3 DEF OneSync
<1>8. ASSUME Restart
      PROVE  viewUp /\ (rawUp => rawUp') /\ \A q \in Proc : ~Rebuilding(q)
  <2>1. UNCHANGED <<viewUp, rawUp>>
    BY <1>8 DEF Restart
  <2>2. \A q \in Proc : ~Streaming(q)
    BY <1>8 DEF Restart, CountFault, TypeOK
  <2>3. QED
    BY <2>1, <2>2 DEF JobShape
<1>9. QED
  BY <1>1, <1>2, <1>3, <1>4, <1>5, <1>6, <1>7, <1>8 DEF Next, SyncStep

(* No row is lost by a step, when a page holds the table and no rebuild     *)
(* fails half-way.                                                         *)
LEMMA NoLostRowsStep ==
  ASSUME TypeOK, OneSync, JobShape, NotAhead, PageFresh, EmptyWhenDown,
         IncrementalProgress, FullProgress, MaxRebuildFaults = 0, NoLostRows, [Next]_vars
  PROVE  NoLostRows'
<1> SUFFICES ASSUME viewUp', \A q \in Proc : ~Rebuilding(q)' PROVE Covered'
  BY DEF NoLostRows
<1> USE DEF sourceVars, copyVars, cursorVars, jobVars, faultVars
<1>1. CASE \E p \in Proc : mode[p] = "full" /\ pc[p] = "save" /\ SaveWatermark(p)
  <2>1. PICK p \in Proc : mode[p] = "full" /\ pc[p] = "save" /\ SaveWatermark(p)
    BY <1>1
  <2>2. UNCHANGED <<mysql, raw>> /\ watermark' = IF Timestamped THEN cursorTs[p] ELSE NoTime
    BY <2>1 DEF SaveWatermark
  <2>3. \A k \in Key : mysql[k].ts \in Nat /\ cursorTs[p] \in Nat
    BY DEF TypeOK, Row
  <2>4. \A k \in Key : mysql[k].ts < watermark' => mysql[k].ts < cursorTs[p]
    BY <2>2, <2>3 DEF NoTime
  <2>5. \A k \in Key : Present(k) /\ mysql[k].ts < cursorTs[p] => Copied(k)
    BY <2>1 DEF FullProgress
  <2>6. QED
    BY <2>2, <2>4, <2>5 DEF Covered, Copied, Present
<1>2. CASE ~ \E p \in Proc : mode[p] = "full" /\ pc[p] = "save" /\ SaveWatermark(p)
  <2>1. viewUp /\ (rawUp => rawUp') /\ \A q \in Proc : ~Rebuilding(q)
    BY <1>2, QuietBefore
  <2>2. ~ \E p \in Proc : mode[p] = "full" /\ pc[p] = "save"
    BY <2>1 DEF Rebuilding, Streaming
  <2>3. Covered
    BY <2>1 DEF NoLostRows
  <2>4. QED
    BY <2>1, <2>2, <2>3, CoverageStep
<1>3. QED
  BY <1>1, <1>2

(***************************************************************************)
(* The theorems.                                                           *)
(***************************************************************************)

(* The inductive invariant holds when the service starts.                  *)
LEMMA IInvInit == Init => IInv
<1> SUFFICES ASSUME Init PROVE IInv
  OBVIOUS
<1>1. TypeOK
  BY InitType
<1>2. OneSync /\ JobShape /\ ViewOverTable /\ EmptyWhenDown
  BY DEF Init, OneSync, JobShape, Rebuild, Stream, NoTime, ViewOverTable, EmptyWhenDown
<1>3. NotAhead
  BY DEF Init, NotAhead, NoRow, NoTime
<1>4. VersionOrder
  BY DEF Init, VersionOrder, Present, NoRow, NoEntry
<1>5. PageFresh /\ IncrementalProgress /\ FullProgress
  BY DEF Init, PageFresh, IncrementalProgress, FullProgress
<1>6. NoLostRows
  BY DEF Init, NoLostRows
<1>7. QED
  BY <1>1, <1>2, <1>3, <1>4, <1>5, <1>6 DEF IInv

(* It holds ever after.                                                    *)
THEOREM Invariance == Spec => []IInv
<1>1. IInv /\ [Next]_vars => IInv'
  <2> SUFFICES ASSUME IInv, [Next]_vars PROVE IInv'
    OBVIOUS
  <2> USE DEF IInv
  <2>1. TypeOK' /\ OneSync' /\ JobShape' /\ NotAhead'
    BY TypeStep, OneSyncStep, JobShapeStep, NotAheadStep
  <2>2. VersionOrder' /\ ViewOverTable' /\ EmptyWhenDown' /\ PageFresh'
    BY VersionOrderStep, ViewStep, EmptyWhenDownStep, PageFreshStep
  <2>3. SafeIncremental => IncrementalProgress'
    BY IncrementalProgressStep
  <2>4. OnePageFull => FullProgress'
    BY FullProgressStep
  <2>5. SafeIncremental /\ OnePageFull /\ MaxRebuildFaults = 0 => NoLostRows'
    BY NoLostRowsStep
  <2>6. QED
    BY <2>1, <2>2, <2>3, <2>4, <2>5 DEF SafeIncremental, OnePageIncr, OnePageFull
<1>2. QED
  BY IInvInit, <1>1, PTL DEF Spec

(* No row of a table with a timestamp column is lost for good, as long as   *)
(* one page takes the whole table and no full sync fails while it streams:  *)
(* runSync, syncSingleTable and the writers may interleave in any way.      *)
THEOREM RowsKept ==
  SafeIncremental /\ OnePageFull /\ MaxRebuildFaults = 0 => (Spec => []NoLostRows)
<1> SUFFICES ASSUME SafeIncremental, OnePageFull, MaxRebuildFaults = 0
             PROVE  Spec => []NoLostRows
  OBVIOUS
<1>1. IInv => NoLostRows
  BY DEF IInv
<1>2. QED
  BY <1>1, Invariance, PTL

(* With incremental paging that is safe, only a full sync loses rows,       *)
(* whatever fails and restarts.                                            *)
THEOREM OnlyFullSyncLoses == SafeIncremental => (Spec => IncrementalKeepsCoverage)
<1> SUFFICES ASSUME SafeIncremental PROVE Spec => IncrementalKeepsCoverage
  OBVIOUS
<1>1. IInv /\ [Next]_vars =>
        [/\ Covered
         /\ rawUp => rawUp'
         /\ ~ \E p \in Proc : mode[p] = "full" /\ pc[p] = "save"
         => Covered']_vars
  BY CoverageStep DEF IInv
<1>2. QED
  BY <1>1, Invariance, PTL DEF Spec, IncrementalKeepsCoverage

(* Readers never find the projection view without its table: rebuildTable   *)
(* drops and creates them in the right order, wherever it is interrupted.   *)
THEOREM ViewAlwaysOverTable == Spec => []ViewOverTable
<1>1. IInv => ViewOverTable
  BY DEF IInv
<1>2. QED
  BY <1>1, Invariance, PTL

(* An existing copy never goes back to an older version of a row: the table *)
(* lock keeps every page that is inserted newer than what is there.        *)
THEOREM NeverBack == Spec => NoRegression
<1>1. IInv /\ [Next]_vars => [rawUp /\ rawUp' => \A k \in Key : raw'[k].ver >= raw[k].ver]_vars
  <2> SUFFICES ASSUME IInv, [Next]_vars, rawUp, rawUp', NEW k \in Key
               PROVE  raw'[k].ver >= raw[k].ver
    OBVIOUS
  <2>0. \A j \in Key : raw[j].ver \in Nat
    BY DEF IInv, TypeOK, Entry
  <2> USE DEF sourceVars, copyVars
  <2>1. ASSUME NEW p \in Proc, InsertPage(p) PROVE raw'[k].ver >= raw[k].ver
    <3>1. raw'[k] = IF page[p][k] # NoRow
                      THEN [ver |-> page[p][k].ver, dead |-> FALSE] ELSE raw[k]
      BY <2>1 DEF InsertPage
    <3>2. CASE page[p][k] = NoRow
      BY <2>0, <3>1, <3>2
    <3>3. CASE page[p][k] # NoRow
      <4>1. raw[k].ver <= page[p][k].ver /\ page[p][k].ver \in Nat
        BY <2>1, <3>3 DEF InsertPage, IInv, VersionOrder, TypeOK, Row
      <4>2. raw'[k] = [ver |-> page[p][k].ver, dead |-> FALSE]
        BY <3>1, <3>3
      <4>3. raw'[k].ver = page[p][k].ver
        BY <4>2
      <4>4. QED
        BY <2>0, <4>1, <4>3
    <3>4. QED
      BY <3>2, <3>3
  <2>2. ASSUME NEW p \in Proc, DropRaw(p) PROVE FALSE
    BY <2>2 DEF DropRaw
  <2>3. CASE raw' = raw
    BY <2>0, <2>3
  <2>4. ASSUME NEW p \in Proc,
               \/ ReadSchema(p) \/ ChooseRebuild(p) \/ ChooseWatermark(p) \/ DropView(p)
               \/ CreateRaw(p) \/ CreateView(p) \/ ReadPage(p) \/ SaveWatermark(p)
               \/ WriteSyncLog(p) \/ SchemaFails(p) \/ SyncFails(p)
               \/ \E request \in Request : Acquire(p, request)
        PROVE  raw' = raw
    BY <2>4 DEF ReadSchema, ChooseRebuild, ChooseWatermark, DropView, CreateRaw, CreateView,
                ReadPage, SaveWatermark, WriteSyncLog, SchemaFails, SyncFails, Acquire
  <2>5. CASE Source \/ Restart \/ UNCHANGED vars
    <3>1. raw' = raw
      BY <2>5 DEF Source, Write, Delete, Alter, Tick, Restart, vars
    <3>2. QED
      BY <2>3, <3>1
  <2>6. QED
    BY <2>1, <2>2, <2>3, <2>4, <2>5 DEF Next, SyncStep
<1>2. QED
  BY <1>1, Invariance, PTL DEF Spec, NoRegression

(***************************************************************************)
(* The columns of <t>__raw keep in step with those of the pages inserted:  *)
(* the invariant.                                                          *)
(***************************************************************************)

(* Some row, of whichever version, is in <t>__raw: the fingerprint query    *)
(* has something to return.                                                *)
Stored == \E k \in Key : raw[k].ver # 0

(* Rows have a version, and a page to insert has a row.                    *)
RowsReal ==
  /\ \A k \in Key : Present(k) => mysql[k].ver # 0
  /\ \A p \in Proc, k \in Key : page[p][k] # NoRow => page[p][k].ver # 0
  /\ \A p \in Proc : pc[p] = "insert" => \E k \in Key : page[p][k] # NoRow

(* Only the tailer writes tombstones.                                      *)
NoTombstone == \A k \in Key : ~raw[k].dead

(* An incremental sync runs over stored rows; so does a full one that has   *)
(* inserted a page.                                                        *)
StreamBacked ==
  \A p \in Proc :
    /\ pc[p] \in Stream
    /\ \/ mode[p] = "incremental"
       \/ pc[p] # "insert" /\ cursorTs[p] # NoTime
    => Stored

(* A watermark stands for stored rows, unless the table is being rebuilt or *)
(* its view is gone.  This is what makes the fingerprint of an empty table  *)
(* harmless: without a watermark the next sync rebuilds.                   *)
WatermarkBacked ==
  watermark # NoTime /\ viewUp /\ (\A p \in Proc : ~Rebuilding(p)) => Stored

(* From the create or the check of the table on, it has the job's columns.  *)
ColumnsMatch ==
  \A p \in Proc :
    /\ pc[p] \in {"createView", "read", "insert"}
    => rawSchema = jobSchema[p]

SchemaInv ==
  /\ RowsReal
  /\ NoTombstone
  /\ StreamBacked
  /\ WatermarkBacked
  /\ ColumnsMatch

(***************************************************************************)
(* One lemma for each part of the invariant.                               *)
(***************************************************************************)

(* Writers and page reads only produce rows with a version.                *)
LEMMA RowsRealStep == TypeOK /\ RowsReal /\ [Next]_vars => RowsReal'
<1> SUFFICES ASSUME TypeOK, RowsReal, [Next]_vars PROVE RowsReal'
  OBVIOUS
<1> USE DEF sourceVars, copyVars, cursorVars, jobVars
<1>1. ASSUME NEW k \in Key, Write(k) PROVE RowsReal'
  BY <1>1 DEF Write, RowsReal, TypeOK, Present
<1>2. ASSUME NEW k \in Key, Delete(k) PROVE RowsReal'
  BY <1>2 DEF Delete, RowsReal, TypeOK, Present
<1>3. CASE Alter \/ Tick \/ UNCHANGED vars
  BY <1>3 DEF Alter, Tick, vars, RowsReal, Present
<1>4. ASSUME NEW p \in Proc, ReadPage(p) PROVE RowsReal'
  <2>1. PICK S \in SUBSET Pending(p) :
          /\ \A k \in Key : page'[p][k] = IF k \in S THEN mysql[k] ELSE NoRow
          /\ (S = {} /\ pc'[p] = "save") \/ (S # {} /\ pc'[p] = "insert")
    BY <1>4, PageRead
  <2>2. S \subseteq Key /\ \A k \in S : mysql[k] # NoRow
    BY DEF Pending, Present
  <2>3. \A q \in Proc \ {p} : pc'[q] = pc[q] /\ page'[q] = page[q]
    BY <1>4, PageReadFrame
  <2>4. mysql' = mysql
    BY <1>4, PageReadFrame
  <2>5. \A q \in Proc, k \in Key : page'[q][k] # NoRow => page'[q][k].ver # 0
    BY <2>1, <2>2, <2>3 DEF RowsReal, Present
  <2>6. \A q \in Proc : pc'[q] = "insert" => \E k \in Key : page'[q][k] # NoRow
    BY <2>1, <2>2, <2>3 DEF RowsReal
  <2>7. QED
    BY <2>4, <2>5, <2>6 DEF RowsReal, Present
<1>5. ASSUME NEW p \in Proc,
             \/ InsertPage(p) \/ WriteSyncLog(p) \/ SchemaFails(p) \/ SyncFails(p)
      PROVE  RowsReal'
  <2>1. /\ mysql' = mysql /\ pc'[p] # "insert"
        /\ \A k \in Key : page'[p][k] = NoRow
        /\ \A q \in Proc \ {p} : pc'[q] = pc[q] /\ page'[q] = page[q]
    BY <1>5 DEF InsertPage, WriteSyncLog, SchemaFails, SyncFails, EndJob, Goto, EmptyPage, TypeOK
  <2>2. QED
    BY <2>1 DEF RowsReal, Present
<1>6. ASSUME NEW p \in Proc,
             \/ ReadSchema(p) \/ ChooseRebuild(p) \/ ChooseWatermark(p)
             \/ DropView(p) \/ DropRaw(p) \/ CreateRaw(p) \/ CreateView(p)
             \/ SaveWatermark(p) \/ \E request \in Request : Acquire(p, request)
      PROVE  RowsReal'
  <2>1. mysql' = mysql /\ page' = page
    BY <1>6 DEF ReadSchema, ChooseRebuild, ChooseWatermark, DropView, DropRaw, CreateRaw,
                CreateView, SaveWatermark, Acquire
  <2>2. pc'[p] # "insert" /\ \A q \in Proc \ {p} : pc'[q] = pc[q]
    BY <1>6 DEF ReadSchema, ChooseRebuild, ChooseWatermark, DropView, DropRaw, CreateRaw,
                CreateView, SaveWatermark, Acquire, Goto, TypeOK
  <2>3. QED
    BY <2>1, <2>2 DEF RowsReal, Present
<1>7. CASE Restart
  BY <1>7 DEF Restart, RowsReal, Present, EmptyPage
<1>8. QED
  BY <1>1, <1>2, <1>3, <1>4, <1>5, <1>6, <1>7 DEF Next, Source, SyncStep

(* <t>__raw changes only when a page is inserted or the table dropped.      *)
LEMMA RawSteps ==
  ASSUME [Next]_vars
  PROVE  raw' = raw \/ \E p \in Proc : InsertPage(p) \/ DropRaw(p)
<1> USE DEF copyVars
<1>1. CASE Source \/ Restart \/ UNCHANGED vars
  BY <1>1 DEF Source, Write, Delete, Alter, Tick, Restart, vars
<1>2. ASSUME NEW p \in Proc,
             \/ ReadSchema(p) \/ ChooseRebuild(p) \/ ChooseWatermark(p) \/ DropView(p)
             \/ CreateRaw(p) \/ CreateView(p) \/ ReadPage(p) \/ SaveWatermark(p)
             \/ WriteSyncLog(p) \/ SchemaFails(p) \/ SyncFails(p)
             \/ \E request \in Request : Acquire(p, request)
      PROVE  raw' = raw
  BY <1>2 DEF ReadSchema, ChooseRebuild, ChooseWatermark, DropView, CreateRaw, CreateView,
              ReadPage, SaveWatermark, WriteSyncLog, SchemaFails, SyncFails, Acquire
<1>3. QED
  BY <1>1, <1>2 DEF Next, SyncStep

(* No step of the sync writes a tombstone.                                 *)
LEMMA NoTombstoneStep == NoTombstone /\ [Next]_vars => NoTombstone'
<1> SUFFICES ASSUME NoTombstone, [Next]_vars PROVE NoTombstone'
  OBVIOUS
<1>1. ASSUME NEW p \in Proc, InsertPage(p) PROVE NoTombstone'
  BY <1>1 DEF InsertPage, NoTombstone
<1>2. ASSUME NEW p \in Proc, DropRaw(p) PROVE NoTombstone'
  BY <1>2 DEF DropRaw, NoTombstone, NoEntry
<1>3. CASE raw' = raw
  BY <1>3 DEF NoTombstone
<1>4. QED
  BY <1>1, <1>2, <1>3, RawSteps

(* An inserted page stores a row.                                          *)
LEMMA InsertStores == ASSUME TypeOK, RowsReal, NEW p \in Proc, InsertPage(p) PROVE Stored'
<1>1. PICK k \in Key : page[p][k] # NoRow /\ page[p][k].ver # 0
  BY DEF InsertPage, RowsReal
<1>2. raw'[k] = [ver |-> page[p][k].ver, dead |-> FALSE]
  BY <1>1 DEF InsertPage
<1>3. QED
  BY <1>1, <1>2 DEF Stored

(* Only a drop takes stored rows away.                                     *)
LEMMA StoredStays ==
  ASSUME TypeOK, RowsReal, [Next]_vars, Stored, \A p \in Proc : ~DropRaw(p)
  PROVE  Stored'
  BY RawSteps, InsertStores DEF Stored

(* The sync that streams has rows behind it.                               *)
LEMMA StreamBackedStep ==
  ASSUME TypeOK, OneSync, JobShape, SchemaInv, [Next]_vars
  PROVE  StreamBacked'
<1> USE DEF sourceVars, copyVars, cursorVars, jobVars
<1> SUFFICES ASSUME NEW q \in Proc, pc'[q] \in Stream,
                    \/ mode'[q] = "incremental"
                    \/ pc'[q] # "insert" /\ cursorTs'[q] # NoTime
             PROVE  Stored'
  BY DEF StreamBacked
<1> DEFINE Backed == /\ pc[q] \in Stream
                     /\ \/ mode[q] = "incremental"
                        \/ pc[q] # "insert" /\ cursorTs[q] # NoTime
<1>1. CASE Backed
  <2>1. Stored
    BY <1>1 DEF SchemaInv, StreamBacked
  <2>2. \A p \in Proc : ~DropRaw(p)
    <3>1. SUFFICES ASSUME NEW p \in Proc, DropRaw(p) PROVE FALSE
      OBVIOUS
    <3>2. pc[p] = "dropRaw" /\ p # q
      BY <1>1, <3>1 DEF DropRaw, Stream
    <3>3. QED
      BY <1>1, <3>2 DEF OneSync, Stream
  <2>3. QED
    BY <2>1, <2>2, StoredStays DEF SchemaInv
<1>2. ASSUME ~Backed, NEW p \in Proc, ReadPage(p) PROVE Stored'
  <2>1. /\ pc[p] = "read" /\ mode' = mode
        /\ \/ pc'[p] = "save" /\ cursorTs'[p] = cursorTs[p]
           \/ pc'[p] = "insert"
    BY <1>2, PageRead, PageReadFrame DEF ReadPage
  <2>2. q # p => pc'[q] = pc[q] /\ cursorTs'[q] = cursorTs[q]
    BY <1>2, PageReadFrame
  <2>3. QED
    BY <1>2, <2>1, <2>2 DEF Stream
<1>3. ASSUME NEW p \in Proc, InsertPage(p) PROVE Stored'
  BY <1>3, InsertStores DEF SchemaInv
<1>4. ASSUME NEW p \in Proc, ChooseWatermark(p) PROVE Stored'
  <2>1. pc[p] = "choose" /\ watermark # NoTime /\ viewUp /\ raw' = raw
    BY <1>4 DEF ChooseWatermark, MustRebuild
  <2>2. \A r \in Proc : ~Rebuilding(r)
    BY <2>1 DEF OneSync, Rebuilding, Streaming
  <2>3. QED
    BY <2>1, <2>2 DEF SchemaInv, WatermarkBacked, Stored
<1>5. ASSUME ~Backed, NEW p \in Proc, CreateView(p) PROVE Stored'
  <2>1. pc[p] = "createView" /\ mode' = mode /\ cursorTs' = cursorTs
    BY <1>5 DEF CreateView
  <2>2. q # p => pc'[q] = pc[q]
    BY <1>5 DEF CreateView, Goto, TypeOK
  <2>3. mode[p] = "full" /\ cursorTs[p] = NoTime
    BY <2>1 DEF JobShape, Rebuild
  <2>4. QED
    BY <1>5, <2>1, <2>2, <2>3
<1>6. ASSUME ~Backed, NEW p \in Proc,
             \/ ReadSchema(p) \/ ChooseRebuild(p) \/ DropView(p) \/ DropRaw(p)
             \/ CreateRaw(p) \/ SaveWatermark(p) \/ WriteSyncLog(p)
             \/ SchemaFails(p) \/ SyncFails(p)
             \/ \E request \in Request : Acquire(p, request)
      PROVE  Stored'
  <2>1. pc'[p] \notin Stream
    BY <1>6 DEF ReadSchema, ChooseRebuild, DropView, DropRaw, CreateRaw, SaveWatermark,
                WriteSyncLog, SchemaFails, SyncFails, Acquire, EndJob, Goto, TypeOK, Stream
  <2>2. q # p => pc'[q] = pc[q] /\ mode'[q] = mode[q] /\ cursorTs'[q] = cursorTs[q]
    BY <1>6 DEF ReadSchema, ChooseRebuild, DropView, DropRaw, CreateRaw, SaveWatermark,
                WriteSyncLog, SchemaFails, SyncFails, Acquire, EndJob, Goto, TypeOK
  <2>3. QED
    BY <1>6, <2>1, <2>2
<1>7. CASE ~Backed /\ (Source \/ UNCHANGED vars)
  BY <1>7 DEF Source, Write, Delete, Alter, Tick, vars
<1>8. CASE Restart
  BY <1>8 DEF Restart, Stream
<1> HIDE DEF Backed
<1>9. QED
  BY <1>1, <1>2, <1>3, <1>4, <1>5, <1>6, <1>7, <1>8 DEF Next, SyncStep

(* A watermark stands for stored rows.                                     *)
LEMMA WatermarkBackedStep ==
  ASSUME TypeOK, OneSync, JobShape, SchemaInv, MaxRebuildFaults = 0, [Next]_vars
  PROVE  WatermarkBacked'
<1> SUFFICES ASSUME watermark' # NoTime, viewUp', \A q \in Proc : ~Rebuilding(q)' PROVE Stored'
  BY DEF WatermarkBacked
<1>1. ASSUME NEW p \in Proc, SaveWatermark(p) PROVE Stored'
  <2>1. pc[p] = "save" /\ cursorTs[p] # NoTime /\ raw' = raw
    BY <1>1 DEF SaveWatermark
  <2>2. QED
    BY <2>1 DEF SchemaInv, StreamBacked, Stream, Stored
<1>2. CASE \A p \in Proc : ~SaveWatermark(p)
  <2>1. viewUp /\ \A q \in Proc : ~Rebuilding(q)
    BY <1>2, QuietBefore
  <2>2. watermark' = watermark
    BY <1>2 DEF Next, Source, SyncStep, Write, Delete, Alter, Tick, Acquire, ReadSchema,
                ChooseRebuild, ChooseWatermark, DropView, DropRaw, CreateRaw, CreateView,
                ReadPage, InsertPage, WriteSyncLog, SchemaFails, SyncFails, Restart,
                copyVars, vars
  <2>3. \A p \in Proc : ~DropRaw(p)
    BY <2>1 DEF DropRaw, JobShape
  <2>4. QED
    BY <2>1, <2>2, <2>3, StoredStays DEF SchemaInv, WatermarkBacked
<1>3. QED
  BY <1>1, <1>2

(* The columns of <t>__raw are those of the job that inserts into it.       *)
LEMMA ColumnsMatchStep ==
  ASSUME TypeOK, OneSync, JobShape, SchemaInv, [Next]_vars
  PROVE  ColumnsMatch'
<1> USE DEF sourceVars, copyVars, cursorVars, jobVars
<1> DEFINE Inserting == {"createView", "read", "insert"}
<1> SUFFICES ASSUME NEW q \in Proc, pc'[q] \in Inserting PROVE rawSchema' = jobSchema'[q]
  BY DEF ColumnsMatch
<1>0. pc[q] \in Inserting => rawSchema = jobSchema[q]
  BY DEF SchemaInv, ColumnsMatch
<1>1. ASSUME NEW p \in Proc, CreateRaw(p) PROVE rawSchema' = jobSchema'[q]
  <2>1. rawSchema' = jobSchema[p] /\ jobSchema' = jobSchema /\ pc[p] = "createRaw"
    BY <1>1 DEF CreateRaw
  <2>2. q # p => pc'[q] = pc[q]
    BY <1>1 DEF CreateRaw, Goto, TypeOK
  <2>3. q = p
    BY <2>1, <2>2 DEF OneSync
  <2>4. QED
    BY <2>1, <2>3
<1>2. ASSUME NEW p \in Proc, ChooseWatermark(p) PROVE rawSchema' = jobSchema'[q]
  <2>1. /\ pc[p] = "choose" /\ watermark # NoTime /\ viewUp
        /\ FingerprintDiffers(p) => TombstonePresent
        /\ rawSchema' = rawSchema /\ jobSchema' = jobSchema
    BY <1>2 DEF ChooseWatermark, MustRebuild
  <2>2. \A r \in Proc : ~Rebuilding(r)
    BY <2>1 DEF OneSync, Rebuilding, Streaming
  <2>3. Stored /\ ~TombstonePresent
    BY <2>1, <2>2 DEF SchemaInv, WatermarkBacked, NoTombstone, TombstonePresent
  <2>4. rawSchema = jobSchema[p]
    BY <2>1, <2>3 DEF FingerprintDiffers, Stored
  <2>5. q # p => pc'[q] = pc[q]
    BY <1>2 DEF ChooseWatermark, Goto, TypeOK
  <2>6. QED
    BY <1>0, <2>1, <2>4, <2>5
<1>3. ASSUME NEW p \in Proc, CreateView(p) \/ InsertPage(p) PROVE rawSchema' = jobSchema'[q]
  <2>1. /\ pc[p] \in Inserting /\ rawSchema' = rawSchema /\ jobSchema' = jobSchema
        /\ q # p => pc'[q] = pc[q]
    BY <1>3 DEF CreateView, InsertPage, Goto, TypeOK
  <2>2. QED
    BY <1>0, <2>1
<1>4. ASSUME NEW p \in Proc, ReadPage(p) PROVE rawSchema' = jobSchema'[q]
  <2>1. pc[p] = "read" /\ rawSchema' = rawSchema /\ jobSchema' = jobSchema
    BY <1>4, PageReadFrame DEF ReadPage
  <2>2. q # p => pc'[q] = pc[q]
    BY <1>4, PageReadFrame
  <2>3. QED
    BY <1>0, <2>1, <2>2
<1>5. ASSUME NEW p \in Proc,
             \/ ReadSchema(p) \/ ChooseRebuild(p) \/ DropView(p) \/ DropRaw(p)
             \/ SaveWatermark(p) \/ WriteSyncLog(p) \/ SchemaFails(p) \/ SyncFails(p)
             \/ \E request \in Request : Acquire(p, request)
      PROVE  rawSchema' = jobSchema'[q]
  <2>1. pc'[p] \notin Inserting /\ rawSchema' = rawSchema
    BY <1>5 DEF ReadSchema, ChooseRebuild, DropView, DropRaw, SaveWatermark,
                WriteSyncLog, SchemaFails, SyncFails, Acquire, EndJob, Goto, TypeOK
  <2>2. q # p => pc'[q] = pc[q] /\ jobSchema'[q] = jobSchema[q]
    BY <1>5 DEF ReadSchema, ChooseRebuild, DropView, DropRaw, SaveWatermark,
                WriteSyncLog, SchemaFails, SyncFails, Acquire, EndJob, Goto, TypeOK
  <2>3. QED
    BY <1>0, <2>1, <2>2
<1>6. CASE Source \/ UNCHANGED vars
  BY <1>0, <1>6 DEF Source, Write, Delete, Alter, Tick, vars
<1>7. CASE Restart
  BY <1>7 DEF Restart
<1>8. QED
  BY <1>1, <1>2, <1>3, <1>4, <1>5, <1>6, <1>7 DEF Next, SyncStep

(***************************************************************************)
(* The theorem.                                                            *)
(***************************************************************************)

(* The invariant holds when the service starts.                            *)
LEMMA SchemaInvInit == Init => SchemaInv
  BY DEF Init, SchemaInv, RowsReal, NoTombstone, StreamBacked, WatermarkBacked, ColumnsMatch,
         Present, NoRow, NoEntry, EmptyPage, Stream

(* As long as no full sync fails while it streams, every page inserted has  *)
(* the columns of <t>__raw: a change of the MySQL schema leads to a rebuild *)
(* before the next insert, whoever runs the syncs and whenever it happens.  *)
THEOREM SchemaFollowed == MaxRebuildFaults = 0 => (Spec => []PagesFit)
<1> SUFFICES ASSUME MaxRebuildFaults = 0 PROVE Spec => []PagesFit
  OBVIOUS
<1>1. IInv /\ SchemaInv /\ [Next]_vars => SchemaInv'
  <2> SUFFICES ASSUME IInv, SchemaInv, [Next]_vars PROVE SchemaInv'
    OBVIOUS
  <2>1. TypeOK /\ OneSync /\ JobShape
    BY DEF IInv
  <2>2. RowsReal' /\ NoTombstone'
    BY <2>1, RowsRealStep, NoTombstoneStep DEF SchemaInv
  <2>3. StreamBacked' /\ WatermarkBacked' /\ ColumnsMatch'
    BY <2>1, StreamBackedStep, WatermarkBackedStep, ColumnsMatchStep
  <2>4. QED
    BY <2>2, <2>3 DEF SchemaInv
<1>2. SchemaInv => PagesFit
  BY DEF SchemaInv, ColumnsMatch, PagesFit
<1>3. QED
  BY <1>1, <1>2, SchemaInvInit, Invariance, PTL DEF Spec
=============================================================================
