----------------------- MODULE PolledReplicationProofs -----------------------
(***************************************************************************)
(* While no row is inserted, the poller notices every deleted row that is  *)
(* still shown, for every table, page size and number of callers: proved   *)
(* from a bound on the keys that can ever be shown again.                  *)
(*                                                                         *)
(* Shrinking is PolledReplication with changes and failures of its own, so *)
(* its steps are first shown to be steps of PolledReplication, but for     *)
(* those of the writers.                                                   *)
(***************************************************************************)
EXTENDS MCPolledReplication, TableReplicationProofs

-----------------------------------------------------------------------------
(* The steps under both loads                                              *)
-----------------------------------------------------------------------------

\* What an instance of a module counts is what the module counts.
LEMMA SameCount == ASSUME NEW S PROVE Shrinking!Cardinality(S) = Cardinality(S)
BY DEF Shrinking!Cardinality, Cardinality

\* A sync takes the same steps under both loads, ...
LEMMA SameSync == ASSUME NEW p, Shrinking!SyncStep(p) PROVE SyncStep(p)
<1> USE DEF Shrinking!sourceVars, Shrinking!copyVars, Shrinking!cursorVars, Shrinking!faultVars,
            Shrinking!Goto, sourceVars, copyVars, cursorVars, faultVars, Goto
<1>1. CASE Shrinking!ReadSchema(p)
    BY <1>1 DEF Shrinking!ReadSchema, ReadSchema, SyncStep
<1>2. CASE Shrinking!ChooseRebuild(p)
    BY <1>2 DEF Shrinking!ChooseRebuild, ChooseRebuild, Shrinking!MustRebuild, MustRebuild,
                Shrinking!FingerprintDiffers, FingerprintDiffers, Shrinking!NoTime, NoTime, SyncStep
<1>3. CASE Shrinking!ChooseWatermark(p)
    BY <1>3 DEF Shrinking!ChooseWatermark, ChooseWatermark, Shrinking!MustRebuild, MustRebuild,
                Shrinking!FingerprintDiffers, FingerprintDiffers, Shrinking!TombstonePresent,
                TombstonePresent, Shrinking!NoTime, NoTime, SyncStep
<1>4. CASE Shrinking!DropView(p)
    BY <1>4 DEF Shrinking!DropView, DropView, SyncStep
<1>5. CASE Shrinking!DropRaw(p)
    BY <1>5 DEF Shrinking!DropRaw, DropRaw, Shrinking!NoEntry, NoEntry, SyncStep
<1>6. CASE Shrinking!CreateRaw(p)
    BY <1>6 DEF Shrinking!CreateRaw, CreateRaw, SyncStep
<1>7. CASE Shrinking!CreateView(p)
    BY <1>7 DEF Shrinking!CreateView, CreateView, SyncStep
<1>8. CASE Shrinking!ReadPage(p)
  <2>1. Shrinking!Pending(p) = Pending(p) /\ Shrinking!Limit(p) = Limit(p)
      BY DEF Shrinking!Pending, Pending, Shrinking!After, After, Shrinking!Limit, Limit,
             Shrinking!Present, Present, Shrinking!NoRow, NoRow, Shrinking!NoTime, NoTime
  <2>2. \A j, k : Shrinking!Before(p, j, k) = Before(p, j, k)
      BY DEF Shrinking!Before, Before
  <2>3. \A S : Shrinking!IsPage(p, S) = IsPage(p, S)
      BY <2>1, <2>2, SameCount DEF Shrinking!IsPage, IsPage
  <2>4. Shrinking!NoRow = NoRow
      BY DEF Shrinking!NoRow, NoRow, Shrinking!NoTime, NoTime
  <2>5. pc[p] = "read" /\ UNCHANGED <<sourceVars, copyVars, lock, mode, jobSchema, faultVars>>
      BY <1>8 DEF Shrinking!ReadPage
  <2>6. PICK S \in SUBSET Shrinking!Pending(p) :
          /\ Shrinking!IsPage(p, S)
          /\ page' = [page EXCEPT ![p] = [k \in Key |-> IF k \in S THEN mysql[k]
                                                              ELSE Shrinking!NoRow]]
          /\ more' = [more EXCEPT ![p] = (Shrinking!Cardinality(S) = Shrinking!Limit(p))]
          /\ \/ S = {} /\ Goto(p, "save") /\ UNCHANGED cursorVars
             \/ \E last \in S :
                  /\ \A k \in S : k = last \/ Shrinking!Before(p, k, last)
                  /\ cursorKey' = [cursorKey EXCEPT ![p] = last]
                  /\ cursorTs' = [cursorTs EXCEPT ![p] = mysql[last].ts]
                  /\ Goto(p, "insert")
      BY <1>8 DEF Shrinking!ReadPage
  <2>7. /\ S \in SUBSET Pending(p) /\ IsPage(p, S)
        /\ page' = [page EXCEPT ![p] = [k \in Key |-> IF k \in S THEN mysql[k] ELSE NoRow]]
        /\ more' = [more EXCEPT ![p] = (Cardinality(S) = Limit(p))]
      BY <2>1, <2>3, <2>4, <2>6, SameCount
  <2>8. \/ S = {} /\ Goto(p, "save") /\ UNCHANGED cursorVars
        \/ \E last \in S :
             /\ \A k \in S : k = last \/ Before(p, k, last)
             /\ cursorKey' = [cursorKey EXCEPT ![p] = last]
             /\ cursorTs' = [cursorTs EXCEPT ![p] = mysql[last].ts]
             /\ Goto(p, "insert")
      BY <2>2, <2>6
  <2> QED
      BY <2>5, <2>7, <2>8 DEF ReadPage, SyncStep
<1>9. CASE Shrinking!InsertPage(p)
    BY <1>9 DEF Shrinking!InsertPage, InsertPage, Shrinking!EmptyPage, EmptyPage,
                Shrinking!NoRow, NoRow, Shrinking!NoTime, NoTime, SyncStep
<1>10. CASE Shrinking!SaveWatermark(p)
    BY <1>10 DEF Shrinking!SaveWatermark, SaveWatermark, Shrinking!NoTime, NoTime, SyncStep
<1>11. CASE Shrinking!WriteSyncLog(p)
    BY <1>11 DEF Shrinking!WriteSyncLog, WriteSyncLog, Shrinking!EndJob, EndJob,
                 Shrinking!EmptyPage, EmptyPage, Shrinking!NoRow, NoRow, Shrinking!NoTime, NoTime,
                 SyncStep
<1> QED  BY <1>1, <1>2, <1>3, <1>4, <1>5, <1>6, <1>7, <1>8, <1>9, <1>10, <1>11
            DEF Shrinking!SyncStep

\* ... a request is the same, ...
LEMMA SameRequest ==
    ASSUME NEW p, NEW request, Shrinking!Acquire(p, request) PROVE Acquire(p, request)
BY DEF Shrinking!Acquire, Acquire, Shrinking!sourceVars, Shrinking!copyVars, Shrinking!cursorVars,
       Shrinking!faultVars, Shrinking!Goto, sourceVars, copyVars, cursorVars, faultVars, Goto

\* ... and a sync fails in the same way, but under the shrinking load only where
\* nothing is left half rebuilt.
LEMMA SameFailure ==
    ASSUME NEW p, Shrinking!MayFail(p)
    PROVE  \/ SchemaFails(p) /\ mode[p] # "single"
           \/ SyncFails(p) /\ mode[p] # "full"
BY DEF Shrinking!MayFail, Shrinking!SchemaFails, SchemaFails, Shrinking!SyncFails, SyncFails,
       Shrinking!EndJob, EndJob, Shrinking!CountFault, CountFault, Shrinking!Streaming, Streaming,
       Shrinking!EmptyPage, EmptyPage, Shrinking!NoRow, NoRow, Shrinking!NoTime, NoTime,
       Shrinking!sourceVars, Shrinking!copyVars, Shrinking!Goto, sourceVars, copyVars, Goto

\* A step of a caller of the sync service that changes no count.
Called(p) == \E request \in Request : Acquire(p, request)
Failed(p) == SchemaFails(p) \/ SyncFails(p)

\* The steps of the shrinking load: those of the writers, the poller's, the failures
\* of its sync and of its cycle, and those of the others.
PollerFails ==
    /\ \/ SchemaFails(poller) /\ mode[poller] # "single"
       \/ SyncFails(poller) /\ mode[poller] # "full"
    /\ cycle' = "waiting"
    /\ UNCHANGED <<listed, counted, snapshot, tracked>>
CycleEnds ==
    /\ tracked
    /\ cycle' = "waiting"
    /\ otherFaults' = otherFaults + 1
    /\ UNCHANGED <<sourceVars, copyVars, lock, jobVars, rebuildFaults,
                   listed, counted, snapshot, tracked>>
    /\ cycle \in {"listing", "counting", "committing"}
OthersMove(p) ==
    /\ (tracked /\ Called(p)) \/ SyncStep(p) \/ Failed(p)
    /\ UNCHANGED pollVars

\* Every step of the shrinking load is one of these.
LEMMA ShrinkingSteps ==
    ASSUME Shrinking!PollNext
    PROVE  \/ Shrinking!Source /\ UNCHANGED pollVars
           \/ PollStep
           \/ PollerFails
           \/ CycleEnds
           \/ \E p \in Proc \ {poller} : OthersMove(p)
<1>1. CASE Shrinking!Source /\ UNCHANGED Shrinking!pollVars
    BY <1>1 DEF Shrinking!pollVars, pollVars
<1>2. CASE Shrinking!PollStep
  <2>1. Shrinking!Wanted = Wanted
      BY DEF Shrinking!Wanted, Wanted, Shrinking!FirstCycle, FirstCycle, Shrinking!NoCount, NoCount
  <2>2. Shrinking!Rows = Rows
      BY DEF Shrinking!Rows, Rows, Shrinking!Present, Present, Shrinking!NoRow, NoRow,
             Shrinking!NoTime, NoTime
  <2>3. UNCHANGED Shrinking!vars <=> UNCHANGED vars
      BY DEF Shrinking!vars, vars
  <2>4. CASE Shrinking!StartCycle
      BY <2>3, <2>4 DEF Shrinking!StartCycle, StartCycle, PollStep
  <2>5. CASE Shrinking!ListTables
      BY <2>3, <2>5 DEF Shrinking!ListTables, ListTables, PollStep
  <2>6. CASE Shrinking!CountRows
      BY <2>2, <2>3, <2>6, SameCount DEF Shrinking!CountRows, CountRows, PollStep
  <2>7. CASE Shrinking!SkipTable
      BY <2>1, <2>3, <2>7 DEF Shrinking!SkipTable, SkipTable, PollStep
  <2>8. CASE Shrinking!RequestSync
      BY <2>1, <2>8, SameRequest DEF Shrinking!RequestSync, RequestSync, PollStep
  <2>9. CASE Shrinking!TableLocked
      BY <2>1, <2>3, <2>9 DEF Shrinking!TableLocked, TableLocked, PollStep
  <2>10. CASE Shrinking!PollerSyncs
      BY <2>10, SameSync DEF Shrinking!PollerSyncs, PollerSyncs, PollStep
  <2>11. CASE Shrinking!Commit
      BY <2>3, <2>11 DEF Shrinking!Commit, Commit, PollStep
  <2> QED  BY <1>2, <2>4, <2>5, <2>6, <2>7, <2>8, <2>9, <2>10, <2>11 DEF Shrinking!PollStep
<1>3. CASE Shrinking!PollerSyncFails
    BY <1>3, SameFailure DEF Shrinking!PollerSyncFails, PollerFails
<1>4. CASE Shrinking!CycleFails
    BY <1>4 DEF Shrinking!CycleFails, CycleEnds, Shrinking!sourceVars, Shrinking!copyVars,
                Shrinking!jobVars, sourceVars, copyVars, jobVars
<1>5. ~Shrinking!PollRestart
    BY DEF Shrinking!PollRestart
<1>6. ASSUME NEW p \in Proc \ {poller}, Shrinking!OtherSyncs(p)
      PROVE  OthersMove(p)
    BY <1>6, SameSync, SameRequest, SameFailure
       DEF Shrinking!OtherSyncs, Shrinking!pollVars, Shrinking!Request, Request, pollVars, OthersMove,
           Called, Failed
<1> QED  BY <1>1, <1>2, <1>3, <1>4, <1>5, <1>6 DEF Shrinking!PollNext

-----------------------------------------------------------------------------
(* Types                                                                   *)
-----------------------------------------------------------------------------

\* What the poller keeps.
PollerTyped ==
    /\ cycle \in {"waiting", "listing", "counting", "deciding", "syncing", "committing"}
    /\ listed \in BOOLEAN /\ tracked \in BOOLEAN
    /\ counted \in 0..Cardinality(Key)
    /\ snapshot \in {NoCount} \cup 0..Cardinality(Key)

\* The rows are as many as there are keys at most.
LEMMA RowCount ==
    /\ IsFiniteSet(Rows) /\ Cardinality(Rows) \in Nat
    /\ Cardinality(Key) \in Nat /\ Cardinality(Rows) <= Cardinality(Key)
    /\ Cardinality(Rows) \in 0..Cardinality(Key) /\ 0 \in 0..Cardinality(Key)
<1>1. Rows \in SUBSET Key /\ IsFiniteSet(Key)
    BY KeyAssumption DEF Rows
<1>2. IsFiniteSet(Rows) /\ Cardinality(Rows) <= Cardinality(Key)
    BY <1>1, FS_Subset
<1>3. Cardinality(Rows) \in Nat /\ Cardinality(Key) \in Nat
    BY <1>1, <1>2, FS_CardinalityType
<1> QED  BY <1>2, <1>3

\* Writers and a cycle that ends leave types as they are, under both loads.
LEMMA ShrinkingWriterTypes ==
    ASSUME TypeOK, Shrinking!Source
    PROVE  TypeOK' /\ UNCHANGED <<schema, viewUp, rawUp, rawSchema, raw, watermark, lock,
                                  pc, mode, page>>
<1> USE DEF Shrinking!copyVars, Shrinking!jobVars, Shrinking!faultVars
<1>1. ASSUME NEW k \in Key, Shrinking!Write(k)
      PROVE  /\ mysql' \in [Key -> Row] /\ clock' \in Nat \ {0} /\ nextVer' \in Nat \ {0}
             /\ UNCHANGED <<schema, copyVars, lock, jobVars, faultVars>>
  <2>1. clock' \in Nat \ {0} /\ nextVer' = nextVer + 1 /\ nextVer \in Nat \ {0}
      BY <1>1 DEF Shrinking!Write, TypeOK
  <2>2. [ver |-> nextVer, ts |-> clock'] \in Row
      BY <2>1 DEF Row
  <2>3. mysql' \in [Key -> Row]
      BY <1>1, <2>2 DEF Shrinking!Write, TypeOK
  <2> QED  BY <1>1, <2>1, <2>3 DEF Shrinking!Write, copyVars, jobVars, faultVars
<1>2. ASSUME NEW k \in Key, Shrinking!Delete(k)
      PROVE  /\ mysql' \in [Key -> Row] /\ clock' \in Nat \ {0} /\ nextVer' \in Nat \ {0}
             /\ UNCHANGED <<schema, copyVars, lock, jobVars, faultVars>>
  <2>1. Shrinking!NoRow \in Row
      BY DEF Shrinking!NoRow, Shrinking!NoTime, Row
  <2> QED  BY <1>2, <2>1 DEF Shrinking!Delete, TypeOK, copyVars, jobVars, faultVars
<1>3. CASE Shrinking!Tick
    BY <1>3, BoundAssumption DEF Shrinking!Tick, TypeOK
<1>4. ~Shrinking!Alter
    BY DEF Shrinking!Alter
<1>5. ASSUME /\ mysql' \in [Key -> Row] /\ clock' \in Nat \ {0} /\ nextVer' \in Nat \ {0}
             /\ UNCHANGED <<schema, copyVars, lock, jobVars, faultVars>>
      PROVE  TypeOK' /\ UNCHANGED <<schema, viewUp, rawUp, rawSchema, raw, watermark, lock,
                                    pc, mode, page>>
    BY <1>5 DEF TypeOK, copyVars, jobVars, faultVars
<1> QED  BY <1>1, <1>2, <1>3, <1>4, <1>5 DEF Shrinking!Source

\* What a cycle does to the poller's variables, and what its syncs do to the others.
LEMMA PollStepTypes ==
    ASSUME TypeOK, PollerTyped, PollStep
    PROVE  [Next]_vars /\ PollerTyped'
<1> USE RowCount, PollerAssumption DEF PollerTyped
<1>1. CASE StartCycle   BY <1>1 DEF StartCycle
<1>2. CASE ListTables   BY <1>2 DEF ListTables, TypeOK
<1>3. CASE CountRows    BY <1>3 DEF CountRows
<1>4. CASE SkipTable    BY <1>4 DEF SkipTable
<1>5. CASE RequestSync
  <2>1. Wanted \in Request
      BY <1>5 DEF RequestSync, Wanted, Request
  <2> QED  BY <1>5, <2>1 DEF RequestSync, Next
<1>6. CASE TableLocked  BY <1>6 DEF TableLocked
<1>7. CASE PollerSyncs  BY <1>7 DEF PollerSyncs, Next
<1>8. CASE Commit       BY <1>8 DEF Commit
<1> QED  BY <1>1, <1>2, <1>3, <1>4, <1>5, <1>6, <1>7, <1>8 DEF PollStep

\* A cycle that ends for another reason only counts the failure.
LEMMA CycleEndTypes ==
    ASSUME TypeOK, otherFaults' = otherFaults + 1,
           UNCHANGED <<sourceVars, copyVars, lock, jobVars, rebuildFaults>>
    PROVE  TypeOK'
BY DEF TypeOK, sourceVars, copyVars, jobVars

\* Types are kept under the mixed load, ...
LEMMA MixedTypes == ASSUME TypeOK, PollerTyped, PollNext PROVE TypeOK' /\ PollerTyped'
<1> USE PollerAssumption
<1>1. CASE Source /\ UNCHANGED pollVars
    BY <1>1, TypeStep DEF Next, pollVars, PollerTyped
<1>2. CASE PollStep
    BY <1>2, PollStepTypes, TypeStep
<1>3. CASE PollerSyncFails
    BY <1>3, TypeStep DEF PollerSyncFails, MayFail, Next, PollerTyped
<1>4. CASE CycleFails
    BY <1>4, CycleEndTypes DEF CycleFails, PollerTyped
<1>5. CASE PollRestart
    BY <1>5, TypeStep, RowCount DEF PollRestart, Next, PollerTyped
<1>6. ASSUME NEW p \in Proc \ {poller}, OtherSyncs(p) PROVE TypeOK' /\ PollerTyped'
    BY <1>6, TypeStep DEF OtherSyncs, MayFail, Next, pollVars, PollerTyped
<1> QED  BY <1>1, <1>2, <1>3, <1>4, <1>5, <1>6 DEF PollNext

\* ... and under the shrinking one.
LEMMA ShrinkingTypes ==
    ASSUME TypeOK, PollerTyped, Shrinking!PollNext PROVE TypeOK' /\ PollerTyped'
<1> USE PollerAssumption
<1>1. CASE Shrinking!Source /\ UNCHANGED pollVars
    BY <1>1, ShrinkingWriterTypes DEF pollVars, PollerTyped
<1>2. CASE PollStep
    BY <1>2, PollStepTypes, TypeStep
<1>3. CASE PollerFails
    BY <1>3, TypeStep DEF PollerFails, Next, PollerTyped
<1>4. CASE CycleEnds
    BY <1>4, CycleEndTypes DEF CycleEnds, PollerTyped
<1>5. ASSUME NEW p \in Proc \ {poller}, OthersMove(p) PROVE TypeOK' /\ PollerTyped'
    BY <1>5, TypeStep DEF OthersMove, Called, Failed, Next, pollVars, PollerTyped
<1> QED  BY <1>1, <1>2, <1>3, <1>4, <1>5, ShrinkingSteps

-----------------------------------------------------------------------------
(* The inductive invariant of the shrinking load                           *)
-----------------------------------------------------------------------------

\* Whoever may be shown again: keys that MySQL holds, <t>__raw stores or a page carries.
\* Without inserts there are never more of them.
Copies == {k \in Key : \/ Present(k)
                       \/ raw[k].ver # 0
                       \/ \E p \in Proc : page[p][k] # NoRow}

\* Only a sync that is about to insert has a page.
OnlyInserters == \A p \in Proc : pc[p] # "insert" => page[p] = EmptyPage

\* The poller rebuilds the table, and has not dropped it yet.
Unbuilt == mode[poller] = "full" /\ pc[poller] \in {"schema", "dropView", "dropRaw"}

\* What a count of the poller bounds, from then on.
CountsBound ==
    /\ tracked <=> snapshot # NoCount
    /\ tracked => Cardinality(Copies) <= snapshot
    /\ cycle \in {"deciding", "syncing", "committing"} => Cardinality(Rows) <= counted
    /\ cycle = "syncing" /\ ~Unbuilt => Cardinality(Copies) <= counted
    /\ cycle = "committing" => Cardinality(Copies) <= counted

\* The poller syncs in its cycle only.
PollerSyncing == pc[poller] # "idle" <=> cycle = "syncing"

\* Until a cycle has completed the table is the poller's, which creates it and then
\* commits (QuietStart).
FirstIsRebuild ==
    ~tracked =>
        /\ \A p \in Proc \ {poller} : pc[p] = "idle"
        /\ cycle = "syncing" => mode[poller] = "full"
        /\ cycle = "syncing" /\ pc[poller] = "schema" => ~viewUp
        /\ cycle \notin {"syncing", "committing"} => ~viewUp
        /\ cycle \in {"counting", "deciding"} => ~listed

ShrinkInv == OneSync /\ OnlyInserters /\ CountsBound /\ PollerSyncing /\ FirstIsRebuild

PolledInv ==
    /\ load \in {"mixed", "shrinking"}
    /\ TypeOK /\ PollerTyped
    /\ load = "shrinking" => ShrinkInv

\* There are finitely many copies.
LEMMA CopyCount ==
    IsFiniteSet(Copies) /\ Cardinality(Copies) \in Nat /\ Rows \subseteq Copies
<1>1. Copies \in SUBSET Key /\ IsFiniteSet(Key)
    BY KeyAssumption DEF Copies
<1>2. IsFiniteSet(Copies)
    BY <1>1, FS_Subset
<1> QED  BY <1>2, FS_CardinalityType DEF Rows, Copies

\* Fewer copies, or rows, do not break a bound.
LEMMA Fewer ==
    /\ Copies' \subseteq Copies => Cardinality(Copies') <= Cardinality(Copies)
    /\ Rows' \subseteq Rows => Cardinality(Rows') <= Cardinality(Rows)
    /\ Cardinality(Copies') \in Nat /\ Cardinality(Rows') \in Nat
<1>1. /\ Copies' \in SUBSET Key /\ Rows' \in SUBSET Key /\ IsFiniteSet(Key)
    BY KeyAssumption DEF Copies, Rows
<1>2. IsFiniteSet(Copies') /\ IsFiniteSet(Rows')
    BY <1>1, FS_Subset
<1>3. Cardinality(Copies') \in Nat /\ Cardinality(Rows') \in Nat
    BY <1>2, FS_CardinalityType
<1>4. Copies' \subseteq Copies => Cardinality(Copies') <= Cardinality(Copies)
    BY CopyCount, FS_Subset
<1>5. Rows' \subseteq Rows => Cardinality(Rows') <= Cardinality(Rows)
    BY RowCount, FS_Subset
<1> QED  BY <1>3, <1>4, <1>5

\* A ghost is a copy that is no row, so the last count is above the next one.
LEMMA BoundNotices == ShrinkInv /\ PollerTyped => GhostsNoticed
<1> SUFFICES ASSUME ShrinkInv, PollerTyped, tracked, NEW k \in Key, Ghost(k)
             PROVE  snapshot > Cardinality(Rows)
    BY DEF GhostsNoticed
<1>1. k \in Copies /\ k \notin Rows
    BY DEF Ghost, Visible, Copies, Rows
<1>2. Cardinality(Rows) <= Cardinality(Copies) /\ Cardinality(Rows) # Cardinality(Copies)
    BY <1>1, CopyCount, FS_Subset
<1>3. Cardinality(Copies) <= snapshot /\ snapshot \in Nat
    BY DEF ShrinkInv, CountsBound, PollerTyped, NoCount
<1> QED  BY <1>2, <1>3, CopyCount, RowCount

-----------------------------------------------------------------------------
(* Copies                                                                  *)
-----------------------------------------------------------------------------

\* A write without inserts removes rows at most.
LEMMA WriterCopies ==
    ASSUME TypeOK, Shrinking!Source
    PROVE  Rows' \subseteq Rows /\ Copies' \subseteq Copies
<1>1. UNCHANGED <<raw, page>>
    BY ShrinkingWriterTypes
<1>2. \A k \in Key : Present(k)' => Present(k)
  <2>1. ASSUME NEW j \in Key, Shrinking!Write(j) PROVE \A k \in Key : Present(k)' => Present(k)
      BY <2>1 DEF Shrinking!Write, Shrinking!Present, Shrinking!NoRow, Shrinking!NoTime,
                  Present, NoRow, NoTime, TypeOK
  <2>2. ASSUME NEW j \in Key, Shrinking!Delete(j) PROVE \A k \in Key : Present(k)' => Present(k)
      BY <2>2 DEF Shrinking!Delete, Shrinking!Present, Shrinking!NoRow, Shrinking!NoTime,
                  Present, NoRow, NoTime, TypeOK
  <2>3. CASE Shrinking!Tick
      BY <2>3 DEF Shrinking!Tick, Present, NoRow, NoTime
  <2> QED  BY <2>1, <2>2, <2>3 DEF Shrinking!Source, Shrinking!Alter
<1> QED  BY <1>1, <1>2 DEF Rows, Copies, NoRow, NoTime

\* A sync copies what MySQL holds and stores what its page carries: nothing else.
LEMMA SyncCopies ==
    ASSUME TypeOK, OnlyInserters, NEW p \in Proc, SyncStep(p) \/ Called(p) \/ Failed(p)
    PROVE  Rows' = Rows /\ Copies' \subseteq Copies /\ OnlyInserters'
<1>0. EmptyPage \in [Key -> Row] /\ \A k \in Key : EmptyPage[k] = NoRow
    BY EmptyPageType DEF EmptyPage
<1>1. mysql' = mysql /\ Rows' = Rows
    BY DEF SyncStep, Called, Failed, ReadSchema, ChooseRebuild, ChooseWatermark, DropView, DropRaw,
           CreateRaw, CreateView, ReadPage, InsertPage, SaveWatermark, WriteSyncLog, Acquire,
           SchemaFails, SyncFails, sourceVars, Rows, Present, NoRow, NoTime
<1>2. CASE ReadPage(p)
  <2>1. PICK S \in SUBSET Pending(p) :
          page' = [page EXCEPT ![p] = [k \in Key |-> IF k \in S THEN mysql[k] ELSE NoRow]]
      BY <1>2 DEF ReadPage
  <2>2. raw' = raw /\ pc' \in [Proc -> PC] /\ pc'[p] \in {"save", "insert"}
        /\ \A q \in Proc \ {p} : pc'[q] = pc[q]
      BY <1>2 DEF ReadPage, copyVars, Goto, TypeOK, PC
  <2>3. \A q \in Proc \ {p} : page'[q] = page[q]
      BY <2>1 DEF TypeOK
  <2>4. \A k \in Key : page'[p][k] # NoRow => Present(k)
      BY <2>1 DEF TypeOK, Pending
  <2>5. pc'[p] = "save" => page'[p] = EmptyPage
    <3>1. pc'[p] = "save" => page' = [page EXCEPT ![p] = [k \in Key |-> NoRow]]
        BY <1>2 DEF ReadPage, Goto, TypeOK
    <3> QED  BY <3>1 DEF EmptyPage, TypeOK
  <2>6. Copies' \subseteq Copies
      BY <1>1, <2>2, <2>3, <2>4 DEF Copies, Present, NoRow, NoTime
  <2> QED  BY <1>1, <2>2, <2>3, <2>5, <2>6 DEF OnlyInserters, EmptyPage, NoRow, NoTime
<1>3. CASE InsertPage(p)
  <2>1. \A k \in Key : raw'[k].ver # 0 => raw[k].ver # 0 \/ page[p][k] # NoRow
      BY <1>3 DEF InsertPage
  <2>2. page' = [page EXCEPT ![p] = EmptyPage]
        /\ \A q \in Proc \ {p} : pc'[q] = pc[q]
      BY <1>3 DEF InsertPage, Goto, TypeOK
  <2>3. \A k \in Key, q \in Proc : page'[q][k] # NoRow => page[q][k] # NoRow
      BY <1>0, <2>2 DEF TypeOK
  <2>4. Copies' \subseteq Copies
      BY <1>1, <2>1, <2>3 DEF Copies, Present, NoRow, NoTime
  <2>5. OnlyInserters'
      BY <2>2 DEF OnlyInserters, EmptyPage, NoRow, NoTime, TypeOK
  <2> QED  BY <1>1, <2>4, <2>5
<1>4. CASE DropRaw(p)
  <2>1. page' = page /\ (\A k \in Key : raw'[k].ver = 0) /\ pc' = [pc EXCEPT ![p] = "createRaw"]
        /\ pc[p] = "dropRaw"
      BY <1>4 DEF DropRaw, NoEntry, Goto
  <2>2. Copies' \subseteq Copies
      BY <1>1, <2>1 DEF Copies, Present, NoRow, NoTime
  <2>3. OnlyInserters'
      BY <2>1 DEF OnlyInserters, EmptyPage, NoRow, NoTime, TypeOK
  <2> QED  BY <1>1, <2>2, <2>3
<1>5. CASE WriteSyncLog(p) \/ Failed(p)
  <2>1. raw' = raw /\ page' = [page EXCEPT ![p] = EmptyPage] /\ \A q \in Proc \ {p} : pc'[q] = pc[q]
      BY <1>5 DEF WriteSyncLog, Failed, SchemaFails, SyncFails, EndJob, Goto, copyVars, TypeOK
  <2>2. \A k \in Key, q \in Proc : page'[q][k] # NoRow => page[q][k] # NoRow
      BY <1>0, <2>1 DEF TypeOK
  <2>3. Copies' \subseteq Copies
      BY <1>1, <2>1, <2>2 DEF Copies, Present, NoRow, NoTime
  <2>4. OnlyInserters'
      BY <2>1 DEF OnlyInserters, EmptyPage, NoRow, NoTime, TypeOK
  <2> QED  BY <1>1, <2>3, <2>4
<1>6. CASE \/ Called(p) \/ ReadSchema(p) \/ ChooseRebuild(p) \/ ChooseWatermark(p) \/ DropView(p)
           \/ CreateRaw(p) \/ CreateView(p) \/ SaveWatermark(p)
  <2>1. raw' = raw /\ page' = page /\ pc[p] # "insert" /\ \A q \in Proc \ {p} : pc'[q] = pc[q]
      BY <1>6 DEF Called, Acquire, ReadSchema, ChooseRebuild, ChooseWatermark, DropView, CreateRaw,
                  CreateView, SaveWatermark, Goto, copyVars, TypeOK
  <2>2. Copies' = Copies
      BY <1>1, <2>1 DEF Copies, Present, NoRow, NoTime
  <2>3. OnlyInserters'
      BY <2>1 DEF OnlyInserters, EmptyPage, NoRow, NoTime
  <2> QED  BY <1>1, <2>2, <2>3
<1> QED  BY <1>2, <1>3, <1>4, <1>5, <1>6 DEF SyncStep

\* Once the table is dropped only MySQL's rows are left.
LEMMA DropLeavesRows ==
    ASSUME TypeOK, OneSync, OnlyInserters, NEW p \in Proc, DropRaw(p)
    PROVE  Copies' = Rows
<1>1. (\A k \in Key : raw'[k].ver = 0) /\ page' = page /\ mysql' = mysql /\ pc[p] = "dropRaw"
    BY DEF DropRaw, NoEntry, sourceVars
<1>2. \A q \in Proc : page[q] = EmptyPage
    BY <1>1 DEF OneSync, OnlyInserters
<1>3. \A q \in Proc, k \in Key : page'[q][k] = NoRow
    BY <1>1, <1>2 DEF EmptyPage
<1> QED  BY <1>1, <1>3 DEF Copies, Rows, Present, NoRow, NoTime

-----------------------------------------------------------------------------
(* The steps of the shrinking load                                         *)
-----------------------------------------------------------------------------

\* A request takes the lock and touches no other sync.
LEMMA CallFrame ==
    ASSUME TypeOK, NEW p \in Proc, NEW request, Acquire(p, request)
    PROVE  /\ \A q \in Proc \ {p} : pc'[q] = pc[q] /\ mode'[q] = mode[q]
           /\ pc[p] = "idle" /\ pc'[p] = "schema" /\ mode'[p] = request
           /\ UNCHANGED viewUp
BY DEF Acquire, Goto, TypeOK, copyVars

\* A failure ends a sync and touches no other.
LEMMA FailFrame ==
    ASSUME TypeOK, NEW p \in Proc, Failed(p)
    PROVE  /\ \A q \in Proc \ {p} : pc'[q] = pc[q] /\ mode'[q] = mode[q]
           /\ pc[p] # "idle" /\ pc'[p] = "idle"
           /\ UNCHANGED viewUp
BY DEF Failed, SchemaFails, SyncFails, EndJob, Goto, TypeOK, copyVars

\* A sync goes on or ends, and touches no other; a rebuild stays one.
LEMMA SyncFrame ==
    ASSUME TypeOK, NEW p \in Proc, SyncStep(p)
    PROVE  /\ \A q \in Proc \ {p} : pc'[q] = pc[q] /\ mode'[q] = mode[q]
           /\ pc[p] # "idle"
           /\ pc'[p] = "idle" <=> pc[p] = "log"
           /\ pc'[p] # "schema"
           /\ mode[p] = "full" /\ pc[p] # "log" => mode'[p] = "full"
<1> USE DEF TypeOK, Goto
<1>1. CASE ReadSchema(p)       BY <1>1 DEF ReadSchema
<1>2. CASE ChooseRebuild(p)    BY <1>2 DEF ChooseRebuild
<1>3. CASE ChooseWatermark(p)  BY <1>3 DEF ChooseWatermark
<1>4. CASE DropView(p)         BY <1>4 DEF DropView
<1>5. CASE DropRaw(p)          BY <1>5 DEF DropRaw
<1>6. CASE CreateRaw(p)        BY <1>6 DEF CreateRaw
<1>7. CASE CreateView(p)       BY <1>7 DEF CreateView
<1>8. CASE ReadPage(p)
  <2>1. /\ pc[p] = "read" /\ mode' = mode
        /\ pc' = [pc EXCEPT ![p] = "save"] \/ pc' = [pc EXCEPT ![p] = "insert"]
      BY <1>8 DEF ReadPage
  <2> QED  BY <2>1
<1>9. CASE InsertPage(p)       BY <1>9 DEF InsertPage
<1>10. CASE SaveWatermark(p)   BY <1>10 DEF SaveWatermark
<1>11. CASE WriteSyncLog(p)    BY <1>11 DEF WriteSyncLog, EndJob
<1> QED  BY <1>1, <1>2, <1>3, <1>4, <1>5, <1>6, <1>7, <1>8, <1>9, <1>10, <1>11 DEF SyncStep

\* A sync of the poller that has not dropped the table yet has not begun to, or drops it
\* now: what it copies is then within the last count.
LEMMA BuildStep ==
    ASSUME TypeOK, OneSync, OnlyInserters, NEW n \in Nat, SyncStep(poller),
           Cardinality(Rows) <= n, ~Unbuilt => Cardinality(Copies) <= n, ~Unbuilt'
    PROVE  Cardinality(Copies') <= n
<1> USE PollerAssumption
<1>1. Copies' \subseteq Copies
    BY SyncCopies
<1>2. CASE ~Unbuilt
    BY <1>1, <1>2, Fewer, CopyCount
<1>3. CASE Unbuilt /\ DropRaw(poller)
    BY <1>3, DropLeavesRows
<1>4. ASSUME Unbuilt, ~DropRaw(poller) PROVE FALSE
  <2>1. ReadSchema(poller) \/ DropView(poller)
      BY <1>4 DEF Unbuilt, SyncStep, ChooseRebuild, ChooseWatermark, CreateRaw, CreateView, ReadPage,
                  InsertPage, SaveWatermark, WriteSyncLog
  <2>2. Unbuilt'
      BY <1>4, <2>1 DEF Unbuilt, ReadSchema, DropView, Goto, TypeOK
  <2> QED  BY <2>2
<1> QED  BY <1>2, <1>3, <1>4

\* Nobody takes a step of a sync: all that is kept is kept.
LEMMA QuietStep ==
    ASSUME OneSync, OnlyInserters, PollerSyncing,
           UNCHANGED <<viewUp, lock, pc, mode, page>>
    PROVE  /\ OneSync' /\ OnlyInserters' /\ Unbuilt' = Unbuilt
           /\ cycle' = "syncing" <=> cycle = "syncing" => PollerSyncing'
BY DEF OneSync, OnlyInserters, PollerSyncing, Unbuilt, EmptyPage, NoRow, NoTime

\* The writers of the shrinking load.
LEMMA WriterShrinks ==
    ASSUME TypeOK, PollerTyped, ShrinkInv, Shrinking!Source, UNCHANGED pollVars
    PROVE  ShrinkInv'
<1>1. /\ Rows' \subseteq Rows /\ Copies' \subseteq Copies
      /\ UNCHANGED <<viewUp, lock, pc, mode, page>>
    BY WriterCopies, ShrinkingWriterTypes
<1>2. UNCHANGED <<cycle, listed, counted, snapshot, tracked>>
    BY DEF pollVars
<1>3. OneSync' /\ OnlyInserters' /\ PollerSyncing' /\ Unbuilt' = Unbuilt
    BY <1>1, <1>2, QuietStep DEF ShrinkInv
<1>4. FirstIsRebuild'
    BY <1>1, <1>2 DEF ShrinkInv, FirstIsRebuild
<1>5. /\ Cardinality(Copies') <= Cardinality(Copies) /\ Cardinality(Rows') <= Cardinality(Rows)
      /\ {Cardinality(Copies), Cardinality(Copies'), Cardinality(Rows), Cardinality(Rows')} \subseteq Nat
      /\ counted \in Nat /\ (snapshot # NoCount => snapshot \in Nat)
    BY <1>1, Fewer, CopyCount, RowCount DEF PollerTyped
<1>6. CountsBound'
    BY <1>2, <1>3, <1>5 DEF ShrinkInv, CountsBound
<1> QED  BY <1>3, <1>4, <1>6 DEF ShrinkInv

\* The poller, between its syncs.
LEMMA CycleShrinks ==
    ASSUME TypeOK, PollerTyped, ShrinkInv,
           \/ StartCycle \/ ListTables \/ CountRows \/ SkipTable \/ TableLocked \/ Commit
           \/ CycleEnds
    PROVE  ShrinkInv'
<1>0. OneSync /\ OnlyInserters /\ CountsBound /\ PollerSyncing /\ FirstIsRebuild
    BY DEF ShrinkInv
<1>1. UNCHANGED <<mysql, raw, viewUp, lock, pc, mode, page>>
    BY DEF StartCycle, ListTables, CountRows, SkipTable, TableLocked, Commit, CycleEnds, vars,
           sourceVars, copyVars, jobVars
<1>2. Rows' = Rows /\ Copies' = Copies
    BY <1>1 DEF Rows, Copies, Present, NoRow, NoTime
<1>3. cycle # "syncing" /\ cycle' # "syncing"
    BY DEF StartCycle, ListTables, CountRows, SkipTable, TableLocked, Commit, CycleEnds
<1>4. OneSync' /\ OnlyInserters' /\ PollerSyncing'
    BY <1>0, <1>1, <1>3, QuietStep
<1>5. FirstIsRebuild'
    BY <1>0, <1>1, <1>3
       DEF FirstIsRebuild, CountsBound, StartCycle, ListTables, CountRows, SkipTable, TableLocked,
           Commit, CycleEnds, Wanted, FirstCycle
<1>6. /\ Cardinality(Copies) \in Nat /\ Cardinality(Rows) \in Nat
      /\ counted \in Nat /\ (snapshot # NoCount => snapshot \in Nat) /\ NoCount \notin Nat
    BY CopyCount, RowCount DEF PollerTyped, NoCount
<1>7. CountsBound'
  <2>1. CASE SkipTable
    <3>1. snapshot = NoCount /\ listed /\ cycle = "deciding"
        BY <2>1 DEF SkipTable, Wanted, FirstCycle
    <3> QED  BY <1>0, <3>1 DEF CountsBound, FirstIsRebuild
  <2>2. CASE Commit
      BY <1>0, <1>2, <1>6, <2>2 DEF CountsBound, Commit
  <2>3. CASE CountRows
      BY <1>0, <1>2, <1>6, <2>3 DEF CountsBound, CountRows
  <2>4. CASE StartCycle \/ ListTables \/ TableLocked \/ CycleEnds
      BY <1>0, <1>2, <1>3, <2>4
         DEF CountsBound, StartCycle, ListTables, TableLocked, CycleEnds
  <2> QED  BY <2>1, <2>2, <2>3, <2>4
<1> QED  BY <1>4, <1>5, <1>7 DEF ShrinkInv

\* The poller's syncs: what is asked for is a rebuild unless the last count bounds the
\* copies already.
LEMMA PollerSyncShrinks ==
    ASSUME TypeOK, PollerTyped, ShrinkInv, RequestSync \/ PollerSyncs \/ PollerFails
    PROVE  ShrinkInv'
<1> USE PollerAssumption
<1>0. OneSync /\ OnlyInserters /\ CountsBound /\ PollerSyncing /\ FirstIsRebuild
    BY DEF ShrinkInv
<1>1. SyncStep(poller) \/ Called(poller) \/ Failed(poller)
  <2>1. RequestSync => Called(poller)
      BY DEF RequestSync, Called, Wanted, Request
  <2> QED  BY <2>1 DEF PollerSyncs, PollerFails, Failed
<1>2. Rows' = Rows /\ Copies' \subseteq Copies /\ OnlyInserters'
    BY <1>0, <1>1, SyncCopies
<1>3. OneSync'
    BY <1>0, <1>1, OneSyncStep DEF Next, Called, Failed
<1>4. /\ Cardinality(Copies') <= Cardinality(Copies) /\ Cardinality(Rows') = Cardinality(Rows)
      /\ {Cardinality(Copies), Cardinality(Copies'), Cardinality(Rows)} \subseteq Nat
      /\ counted \in Nat /\ (snapshot # NoCount => snapshot \in Nat) /\ NoCount \notin Nat
    BY <1>2, Fewer, CopyCount, RowCount DEF PollerTyped, NoCount
<1>5. CASE RequestSync
  <2>1. /\ cycle = "deciding" /\ cycle' = "syncing" /\ Acquire(poller, Wanted)
        /\ UNCHANGED <<listed, counted, snapshot, tracked>>
      BY <1>5 DEF RequestSync
  <2>2. /\ \A q \in Proc \ {poller} : pc'[q] = pc[q] /\ mode'[q] = mode[q]
        /\ pc'[poller] = "schema" /\ mode'[poller] = Wanted /\ UNCHANGED viewUp
      BY <2>1, CallFrame
  <2>3. PollerSyncing'
      BY <2>1, <2>2 DEF PollerSyncing
  <2>4. ~tracked => Wanted = "full"
      BY <1>0, <1>5, <2>1 DEF CountsBound, FirstIsRebuild, Wanted, FirstCycle, RequestSync
  <2>5. FirstIsRebuild'
      BY <1>0, <2>1, <2>2, <2>4 DEF FirstIsRebuild
  <2>6. Unbuilt' \/ (tracked /\ snapshot <= counted)
      BY <1>0, <1>4, <2>2, <2>4 DEF CountsBound, Unbuilt, Wanted, FirstCycle
  <2>7. CountsBound'
      BY <1>0, <1>4, <2>1, <2>6 DEF CountsBound
  <2> QED  BY <1>2, <1>3, <2>3, <2>5, <2>7 DEF ShrinkInv
<1>6. CASE PollerSyncs
  <2>1. /\ SyncStep(poller) /\ UNCHANGED <<listed, counted, snapshot, tracked>>
        /\ cycle' = IF pc[poller] = "log" THEN "committing" ELSE cycle
      BY <1>6 DEF PollerSyncs
  <2>2. /\ \A q \in Proc \ {poller} : pc'[q] = pc[q]
        /\ pc[poller] # "idle" /\ pc'[poller] # "schema"
        /\ pc'[poller] = "idle" <=> pc[poller] = "log"
        /\ mode[poller] = "full" /\ pc[poller] # "log" => mode'[poller] = "full"
      BY <2>1, SyncFrame
  <2>3. cycle = "syncing" /\ PollerSyncing'
      BY <1>0, <2>1, <2>2 DEF PollerSyncing
  <2>4. FirstIsRebuild'
      BY <1>0, <2>1, <2>2, <2>3 DEF FirstIsRebuild
  <2>5. Cardinality(Rows) <= counted /\ (~Unbuilt => Cardinality(Copies) <= counted)
      BY <1>0, <2>3 DEF CountsBound
  <2>6. ~Unbuilt' => Cardinality(Copies') <= counted
      BY <1>0, <1>4, <2>1, <2>5, BuildStep
  <2>7. pc[poller] = "log" => ~Unbuilt'
      BY <2>2 DEF Unbuilt
  <2>8. CountsBound'
      BY <1>0, <1>4, <2>1, <2>3, <2>5, <2>6, <2>7 DEF CountsBound
  <2> QED  BY <1>2, <1>3, <2>3, <2>4, <2>8 DEF ShrinkInv
<1>7. CASE PollerFails
  <2>1. /\ Failed(poller) /\ cycle' = "waiting" /\ UNCHANGED <<listed, counted, snapshot, tracked>>
        /\ mode[poller] # "full" \/ pc[poller] = "schema"
      BY <1>7 DEF PollerFails, Failed, SchemaFails
  <2>2. /\ \A q \in Proc \ {poller} : pc'[q] = pc[q]
        /\ pc[poller] # "idle" /\ pc'[poller] = "idle" /\ UNCHANGED viewUp
      BY <2>1, FailFrame
  <2>3. cycle = "syncing" /\ PollerSyncing'
      BY <1>0, <2>1, <2>2 DEF PollerSyncing
  <2>4. FirstIsRebuild'
      BY <1>0, <2>1, <2>2, <2>3 DEF FirstIsRebuild
  <2>5. CountsBound'
      BY <1>0, <1>4, <2>1 DEF CountsBound
  <2> QED  BY <1>2, <1>3, <2>3, <2>4, <2>5 DEF ShrinkInv
<1> QED  BY <1>5, <1>6, <1>7

\* The other callers of the sync service.
LEMMA OthersShrink ==
    ASSUME TypeOK, PollerTyped, ShrinkInv, NEW p \in Proc \ {poller}, OthersMove(p)
    PROVE  ShrinkInv'
<1>0. OneSync /\ OnlyInserters /\ CountsBound /\ PollerSyncing /\ FirstIsRebuild
    BY DEF ShrinkInv
<1>1. /\ SyncStep(p) \/ Called(p) \/ Failed(p)
      /\ Called(p) => tracked
      /\ UNCHANGED <<cycle, listed, counted, snapshot, tracked>>
  <2>1. Called(p) => pc[p] = "idle"
      BY DEF Called, Acquire
  <2>2. SyncStep(p) => pc[p] # "idle"
      BY SyncFrame
  <2>3. Failed(p) => pc[p] # "idle"
      BY FailFrame
  <2> QED  BY <2>1, <2>2, <2>3 DEF OthersMove, pollVars
<1>2. Rows' = Rows /\ Copies' \subseteq Copies /\ OnlyInserters'
    BY <1>0, <1>1, SyncCopies
<1>3. OneSync'
    BY <1>0, <1>1, OneSyncStep DEF Next, Called, Failed
<1>4. pc'[poller] = pc[poller] /\ mode'[poller] = mode[poller] /\ (pc[p] # "idle" \/ tracked)
    BY <1>1, PollerAssumption, CallFrame, SyncFrame, FailFrame DEF Called
<1>5. tracked
    BY <1>0, <1>4 DEF FirstIsRebuild
<1>6. /\ Cardinality(Copies') <= Cardinality(Copies) /\ Cardinality(Rows') = Cardinality(Rows)
      /\ {Cardinality(Copies), Cardinality(Copies'), Cardinality(Rows)} \subseteq Nat
      /\ counted \in Nat /\ (snapshot # NoCount => snapshot \in Nat)
    BY <1>2, Fewer, CopyCount, RowCount DEF PollerTyped
<1>7. CountsBound'
  <2>1. Unbuilt' = Unbuilt
      BY <1>4 DEF Unbuilt
  <2> QED  BY <1>0, <1>1, <1>6, <2>1 DEF CountsBound
<1>8. PollerSyncing' /\ FirstIsRebuild'
    BY <1>0, <1>1, <1>4, <1>5 DEF PollerSyncing, FirstIsRebuild
<1> QED  BY <1>2, <1>3, <1>7, <1>8 DEF ShrinkInv

-----------------------------------------------------------------------------
(* Both loads                                                              *)
-----------------------------------------------------------------------------

\* At first nothing is copied, counted or under way.
LEMMA PolledInitially == LoadInit => PolledInv
<1> SUFFICES ASSUME LoadInit PROVE PolledInv
    OBVIOUS
<1>1. /\ load \in {"mixed", "shrinking"} /\ Init
      /\ cycle = "waiting" /\ listed = FALSE /\ counted = 0 /\ snapshot = NoCount /\ tracked = FALSE
    BY DEF LoadInit, PollInit
<1>2. TypeOK /\ PollerTyped
    BY <1>1, InitType, RowCount DEF PollerTyped
<1>3. OneSync /\ OnlyInserters /\ PollerSyncing /\ FirstIsRebuild
    BY <1>1, PollerAssumption DEF Init, OneSync, OnlyInserters, PollerSyncing, FirstIsRebuild
<1>4. CountsBound
    BY <1>1 DEF CountsBound
<1> QED  BY <1>1, <1>2, <1>3, <1>4 DEF PolledInv, ShrinkInv

\* Every step keeps the order of its load.
LEMMA PolledStep == PolledInv /\ [LoadNext]_<<allVars, load>> => PolledInv'
<1> SUFFICES ASSUME PolledInv, [LoadNext]_<<allVars, load>> PROVE PolledInv'
    OBVIOUS
<1>0. load \in {"mixed", "shrinking"} /\ TypeOK /\ PollerTyped /\ (load = "shrinking" => ShrinkInv)
    BY DEF PolledInv
<1>1. CASE UNCHANGED <<allVars, load>>
  <2>1. UNCHANGED vars /\ UNCHANGED <<cycle, listed, counted, snapshot, tracked, load>>
      BY <1>1 DEF allVars, pollVars
  <2>2. UNCHANGED <<mysql, raw, viewUp, lock, pc, mode, page>>
      BY <2>1 DEF vars
  <2>3. TypeOK' /\ PollerTyped'
      BY <1>0, <2>1, TypeStep DEF PollerTyped
  <2>4. ShrinkInv => ShrinkInv'
      BY <2>1, <2>2 DEF ShrinkInv, OneSync, OnlyInserters, CountsBound, PollerSyncing, FirstIsRebuild,
                        Unbuilt, Copies, Rows, Present, EmptyPage, NoRow, NoTime, NoCount
  <2> QED  BY <1>0, <2>1, <2>3, <2>4 DEF PolledInv
<1>2. CASE load = "mixed" /\ PollNext /\ UNCHANGED load
    BY <1>0, <1>2, MixedTypes DEF PolledInv
<1>3. CASE load = "shrinking" /\ Shrinking!PollNext /\ UNCHANGED load
  <2>1. TypeOK' /\ PollerTyped'
      BY <1>0, <1>3, ShrinkingTypes
  <2>2. ShrinkInv'
      BY <1>0, <1>3, ShrinkingSteps, WriterShrinks, CycleShrinks, PollerSyncShrinks, OthersShrink
         DEF PollStep
  <2> QED  BY <1>3, <2>1, <2>2 DEF PolledInv
<1> QED  BY <1>1, <1>2, <1>3 DEF LoadNext

\* Types and bounds hold always.
THEOREM PolledInvariance == LoadSpec => []PolledInv
<1> QED  BY PolledInitially, PolledStep, PTL DEF LoadSpec

\* For every table, page size, number of callers and of failures: under the shrinking
\* load a deleted row that the view still shows is one the poller's next comparison of
\* counts finds missing (runCycle of cdcCompatibilityService.ts).
THEOREM NoGhostUnnoticed == LoadSpec => []GhostsAreNoticed
<1>1. TypeOK /\ PollerTyped => PollTypeOK
    BY DEF PollerTyped, PollTypeOK
<1>2. PollTypeOK => Shrinking!PollTypeOK
    BY SameCount
       DEF PollTypeOK, TypeOK, Row, Entry, PC, Request, NoCount, Shrinking!PollTypeOK,
           Shrinking!TypeOK, Shrinking!Row, Shrinking!Entry, Shrinking!PC, Shrinking!Request,
           Shrinking!NoCount
<1>3. GhostsNoticed => Shrinking!GhostsNoticed
  <2>1. Shrinking!Rows = Rows /\ \A k : Shrinking!Ghost(k) <=> Ghost(k)
      BY DEF Rows, Ghost, Visible, Present, NoRow, NoTime, Shrinking!Rows, Shrinking!Ghost,
             Shrinking!Visible, Shrinking!Present, Shrinking!NoRow, Shrinking!NoTime
  <2> QED  BY <2>1, SameCount DEF GhostsNoticed, Shrinking!GhostsNoticed
<1>4. PolledInv => GhostsAreNoticed
    BY <1>1, <1>2, <1>3, BoundNotices DEF PolledInv, GhostsAreNoticed
<1> QED  BY <1>4, PolledInvariance, PTL
=============================================================================
