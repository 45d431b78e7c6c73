--------------------------- MODULE QueryPathProofs --------------------------
(***************************************************************************)
(* What holds of the path of a query for every number of callers, queries, *)
(* streams, slots, threads and requests, for every window, limit and cost: *)
(* the governor, the slots of queries and of streams, the pool, the window,*)
(* and all of them side by side as MCQueryPath runs them.                  *)
(***************************************************************************)
EXTENDS MCQueryPath, FiniteSetTheorems, SequenceTheorems, WellFoundedInduction, TLAPS

(* The governor.                                                           *)

(* The inductive invariant.  NoIdleSlot counts resolved entries: it is kept*)
(* by Release because the entry released was waiting and not woken already.*)
GovInv ==
  /\ GovTypeOK
  /\ WaitingIsQueued
  /\ CounterExact
  /\ NoIdleSlot

(* A sequence without its i-th element.                                    *)
LEMMA RemoveAtFacts ==
  ASSUME NEW S, NEW s \in Seq(S), NEW i \in 1 .. Len(s)
  PROVE  /\ RemoveAt(s, i) \in Seq(S)
         /\ Len(RemoveAt(s, i)) = Len(s) - 1
         /\ \A j \in 1 .. Len(s) - 1 :
              RemoveAt(s, i)[j] = IF j < i THEN s[j] ELSE s[j + 1]
<1> DEFINE front == SubSeq(s, 1, i - 1)
           back  == SubSeq(s, i + 1, Len(s))
<1>1. /\ front \in Seq(S) /\ Len(front) = i - 1
      /\ \A j \in 1 .. i - 1 : front[j] = s[j]
  BY SubSeqProperties, ElementOfSeq
<1>2. /\ back \in Seq(S) /\ Len(back) = Len(s) - i
      /\ \A j \in 1 .. Len(s) - i : back[j] = s[i + j]
  BY SubSeqProperties, ElementOfSeq
<1>3. RemoveAt(s, i) = front \o back
  BY DEF RemoveAt
<1> HIDE DEF front, back
<1>4. /\ front \o back \in Seq(S)
      /\ Len(front \o back) = Len(front) + Len(back)
      /\ \A j \in 1 .. Len(front) + Len(back) :
           (front \o back)[j] = IF j <= Len(front) THEN front[j] ELSE back[j - Len(front)]
  BY <1>1, <1>2, ConcatProperties
<1>5. QED
  BY <1>1, <1>2, <1>3, <1>4

(* The sets of callers are finite.                                         *)
LEMMA FiniteStates ==
  /\ IsFiniteSet(Running) /\ Cardinality(Running) \in Nat
  /\ IsFiniteSet(Woken) /\ Cardinality(Woken) \in Nat
  BY CallerAssumption, FS_Subset, FS_CardinalityType DEF Running, Woken

(* The governor starts empty.                                              *)
LEMMA GovInvInit == GovInit => GovInv
<1> SUFFICES ASSUME GovInit PROVE GovInv
  OBVIOUS
<1>1. Running = {} /\ Waiting = {}
  BY DEF GovInit, Running, Waiting
<1>2. GovTypeOK
  BY LimitAssumption, EmptySeq DEF GovInit, GovTypeOK, Lanes
<1>3. QED
  BY <1>1, <1>2, FS_EmptySet DEF GovInit, GovInv, WaitingIsQueued, CounterExact, NoIdleSlot

(* A query that finds a slot adds one to what is run.                      *)
LEMMA StartStep ==
  ASSUME GovInv, NEW c \in Caller, NEW priority \in Lanes, Start(c, priority)
  PROVE  GovInv'
<1> USE DEF Start
<1>1. GovTypeOK'
  BY DEF GovInv, GovTypeOK
<1>2. Running' = Running \cup {c} /\ c \notin Running
  BY DEF GovInv, GovTypeOK, Running
<1>3. Woken' = Woken /\ Waiting' = Waiting
  BY DEF GovInv, GovTypeOK, Woken, Waiting
<1>4. Cardinality(Running') = Cardinality(Running) + 1
  BY <1>2, FiniteStates, FS_AddElement
<1>5. WaitingIsQueued'
  BY <1>3 DEF GovInv, WaitingIsQueued
<1>6. CounterExact'
  BY <1>4 DEF GovInv, CounterExact
<1>7. NoIdleSlot'
  BY <1>3, FiniteStates, LimitAssumption DEF GovInv, GovTypeOK, NoIdleSlot
<1>8. QED
  BY <1>1, <1>5, <1>6, <1>7 DEF GovInv

(* A query that finds none waits, and every slot is taken.                 *)
LEMMA EnqueueStep ==
  ASSUME GovInv, NEW c \in Caller, NEW priority \in Lanes, Enqueue(c, priority)
  PROVE  GovInv'
<1> USE DEF Enqueue
<1>1. GovTypeOK'
  BY DEF GovInv, GovTypeOK
<1>2. Running' = Running /\ Woken' = Woken
  BY DEF GovInv, GovTypeOK, Running, Woken
<1>3. Waiting' = Waiting \cup {c} /\ c \notin Waiting
  BY DEF GovInv, GovTypeOK, Waiting
<1>4. /\ Len(queue') = Len(queue) + 1
      /\ \A i \in 1 .. Len(queue) : queue'[i] = queue[i]
      /\ queue'[Len(queue) + 1] = c
  BY DEF GovInv, GovTypeOK
<1>5. WaitingIsQueued'
  BY <1>3, <1>4 DEF GovInv, GovTypeOK, WaitingIsQueued
<1>6. NoIdleSlot' /\ CounterExact'
  BY <1>2, FiniteStates, LimitAssumption DEF GovInv, GovTypeOK, NoIdleSlot, CounterExact
<1>7. QED
  BY <1>1, <1>5, <1>6 DEF GovInv

(* A slot that is given back goes to whoever waits.                        *)
LEMMA FinishStep ==
  ASSUME GovInv, NEW c \in Caller, Finish(c)
  PROVE  GovInv'
<1>0. /\ GovTypeOK /\ WaitingIsQueued /\ CounterExact /\ NoIdleSlot
      /\ state[c] = "running" /\ running' = running - 1 /\ lane' = lane
  BY DEF GovInv, Finish
<1>1. running >= 1 /\ Cardinality(Running \ {c}) = running - 1
  <2>1. c \in Running
    BY <1>0 DEF Running
  <2>2. /\ Cardinality(Running \ {c}) = Cardinality(Running) - 1
        /\ IsFiniteSet(Running \ {c})
    BY <2>1, FiniteStates, FS_RemoveElement
  <2>3. Cardinality(Running \ {c}) \in Nat
    BY <2>2, FS_CardinalityType
  <2>4. QED
    BY <1>0, <2>2, <2>3 DEF CounterExact, GovTypeOK
<1>2. CASE queue = <<>> /\ state' = [state EXCEPT ![c] = "idle"] /\ UNCHANGED <<queue, streak>>
  <2>1. GovTypeOK'
    BY <1>0, <1>1, <1>2 DEF GovTypeOK
  <2>2. Running' = Running \ {c} /\ Waiting' = Waiting
    BY <1>0, <1>2 DEF GovTypeOK, Running, Waiting
  <2>3. WaitingIsQueued'
    BY <1>0, <1>2, <2>2 DEF WaitingIsQueued
  <2>4. CounterExact' /\ NoIdleSlot'
    BY <1>0, <1>1, <1>2, <2>2 DEF CounterExact, NoIdleSlot
  <2>5. QED
    BY <2>1, <2>3, <2>4 DEF GovInv
<1>3. ASSUME NEW i \in 1 .. Len(queue), Release(c, i) PROVE GovInv'
  <2> DEFINE d == queue[i]
  <2>1. d \in Caller /\ state[d] = "queued" /\ d # c
    BY <1>0 DEF GovTypeOK, WaitingIsQueued, Waiting
  <2>2. /\ queue' \in Seq(Caller)
        /\ Len(queue') = Len(queue) - 1
        /\ \A j \in 1 .. Len(queue) - 1 : queue'[j] = IF j < i THEN queue[j] ELSE queue[j + 1]
    BY <1>0, <1>3, RemoveAtFacts DEF Release, GovTypeOK
  <2>3. state' = [state EXCEPT ![c] = "idle", ![d] = "woken"]
    BY <1>3 DEF Release
  <2> HIDE DEF d
  <2>4. GovTypeOK'
    <3>1. state' \in [Caller -> {"idle", "queued", "woken", "running"}]
      BY <1>0, <2>1, <2>3 DEF GovTypeOK
    <3>2. streak' \in 0 .. MaxHigh
      BY <1>0, <1>3, LimitAssumption DEF GovTypeOK, Release, CountStreak
    <3>3. running' \in Nat
      BY <1>0, <1>1 DEF GovTypeOK
    <3>4. QED
      BY <1>0, <2>2, <3>1, <3>2, <3>3 DEF GovTypeOK
  <2>5. /\ Running' = Running \ {c}
        /\ Woken' = Woken \cup {d} /\ d \notin Woken
        /\ Waiting' = Waiting \ {d}
    BY <1>0, <2>1, <2>3 DEF GovTypeOK, Running, Woken, Waiting
  <2>6. WaitingIsQueued'
    <3>0. Len(queue) \in Nat
      BY <1>0 DEF GovTypeOK
    <3>1. ASSUME NEW j \in 1 .. Len(queue'), NEW k \in 1 .. Len(queue'), queue'[j] = queue'[k]
          PROVE  j = k
      <4> DEFINE old(n) == IF n < i THEN n ELSE n + 1
      <4>1. old(j) \in 1 .. Len(queue) /\ old(k) \in 1 .. Len(queue)
        BY <2>2, <3>0
      <4>2. queue'[j] = queue[old(j)] /\ queue'[k] = queue[old(k)]
        BY <2>2, <3>0
      <4>3. old(j) = old(k)
        <5> HIDE DEF old
        <5>1. QED
          BY <1>0, <3>1, <4>1, <4>2 DEF WaitingIsQueued
      <4>4. QED
        BY <3>0, <4>3
    <3>2. {queue'[j] : j \in 1 .. Len(queue')} \subseteq Waiting \ {d}
      BY <1>0, <2>2 DEF WaitingIsQueued, GovTypeOK, d
    <3>3. ASSUME NEW x \in Waiting \ {d} PROVE \E j \in 1 .. Len(queue') : queue'[j] = x
      <4>1. PICK j \in 1 .. Len(queue) : queue[j] = x /\ j # i
        BY <1>0 DEF WaitingIsQueued, d
      <4>2. CASE j < i
        BY <1>0, <2>2, <4>1, <4>2 DEF GovTypeOK
      <4>3. CASE j > i
        <5>1. j - 1 \in 1 .. Len(queue') /\ queue'[j - 1] = x
          BY <1>0, <2>2, <4>1, <4>3 DEF GovTypeOK
        <5>2. QED
          BY <5>1
      <4>4. QED
        BY <1>0, <4>1, <4>2, <4>3 DEF GovTypeOK
    <3>4. QED
      BY <2>5, <3>1, <3>2, <3>3 DEF WaitingIsQueued
  <2>7. CounterExact'
    BY <1>0, <1>1, <2>5 DEF CounterExact
  <2>8. NoIdleSlot'
    <3>1. running + Cardinality(Woken) >= MaxConcurrent
      BY <1>0, <1>3 DEF NoIdleSlot, GovTypeOK
    <3>2. Cardinality(Woken') = Cardinality(Woken) + 1
      BY <2>5, FiniteStates, FS_AddElement
    <3>3. QED
      BY <1>0, <3>1, <3>2, FiniteStates, LimitAssumption DEF NoIdleSlot, GovTypeOK
  <2>9. QED
    BY <2>4, <2>6, <2>7, <2>8 DEF GovInv
<1>4. QED
  BY <1>2, <1>3 DEF Finish

(* A resolved entry turns from a promised slot into a taken one.           *)
LEMMA ResumeStep ==
  ASSUME GovInv, NEW c \in Caller, Resume(c)
  PROVE  GovInv'
<1> USE DEF Resume
<1>1. GovTypeOK'
  BY DEF GovInv, GovTypeOK
<1>2. /\ Running' = Running \cup {c} /\ c \notin Running
      /\ Woken' = Woken \ {c} /\ c \in Woken
      /\ Waiting' = Waiting
  BY DEF GovInv, GovTypeOK, Running, Woken, Waiting
<1>3. WaitingIsQueued' /\ CounterExact'
  <2>1. Cardinality(Running') = Cardinality(Running) + 1
    BY <1>2, FiniteStates, FS_AddElement
  <2>2. WaitingIsQueued'
    BY <1>2 DEF GovInv, WaitingIsQueued
  <2>3. QED
    BY <2>1, <2>2 DEF GovInv, CounterExact
<1>4. Cardinality(Woken') = Cardinality(Woken) - 1
  BY <1>2, FiniteStates, FS_RemoveElement
<1>5. NoIdleSlot'
  BY <1>4, FiniteStates, LimitAssumption DEF GovInv, GovTypeOK, NoIdleSlot
<1>6. QED
  BY <1>1, <1>3, <1>5 DEF GovInv

(* Every step of the governor keeps its invariant.                         *)
LEMMA GovInvStep == GovInv /\ [GovNext]_govVars => GovInv'
<1>1. CASE UNCHANGED govVars
  BY <1>1 DEF GovInv, GovTypeOK, WaitingIsQueued, CounterExact, NoIdleSlot,
              Running, Woken, Waiting, govVars
<1>2. QED
  BY <1>1, StartStep, EnqueueStep, FinishStep, ResumeStep DEF GovNext

(* The invariant holds in every reachable state.                           *)
THEOREM GovInvariance == GovSpec => []GovInv
  BY GovInvInit, GovInvStep, PTL DEF GovSpec

(* No slot is left idle while queries wait: execute and dequeue lose no    *)
(* wake-up, however arrivals, releases and resumptions interleave.         *)
THEOREM NoLostWakeup == GovSpec => []NoIdleSlot
<1>1. GovInv => NoIdleSlot
  BY DEF GovInv
<1>2. QED
  BY <1>1, GovInvariance, PTL

(* Every waiting caller has exactly one entry in the queue.                *)
THEOREM OneEntryEach == GovSpec => []WaitingIsQueued
<1>1. GovInv => WaitingIsQueued
  BY DEF GovInv
<1>2. QED
  BY <1>1, GovInvariance, PTL

-----------------------------------------------------------------------------
(* Slots of queries.                                                       *)

(* The entry is as young as the youngest query it counts, so that one it   *)
(* does not count is older than StaleTtl.                                  *)
Renewed ==
  /\ entry.updatedAt <= now
  /\ \A q \in Counted : since[q] <= entry.updatedAt
  /\ \A q \in InFlight : since[q] <= now

YoungCounted == Young \subseteq Counted

(* The inductive invariant.                                                *)
SlotInv ==
  /\ SlotTypeOK
  /\ CountExact
  /\ entry.count <= MaxInFlight
  /\ Renewed
  /\ YoungCounted

(* The sets of queries are finite.                                         *)
LEMMA FiniteQueries ==
  /\ IsFiniteSet(Counted) /\ Cardinality(Counted) \in Nat
  /\ IsFiniteSet(Young) /\ Cardinality(Young) \in Nat
  BY QueryAssumption, FS_Subset, FS_CardinalityType DEF Counted, Young, InFlight

(* Nobody is counted under an absent entry.                                *)
LEMMA NobodyUnderNoEntry ==
  ASSUME entry.generation = 0
  PROVE  Counted = {}
  BY DEF Counted, InFlight

(* Nobody young is left when there is no entry or a stale one.             *)
LEMMA EvictedAreOld ==
  ASSUME SlotInv, entry = NoEntry \/ Stale
  PROVE  Young = {}
<1>1. CASE entry = NoEntry
  BY <1>1, NobodyUnderNoEntry DEF SlotInv, YoungCounted, NoEntry
<1>2. CASE Stale
  <2>1. ASSUME NEW q \in Young PROVE FALSE
    <3>1. q \in Counted /\ since[q] <= entry.updatedAt
      BY <2>1 DEF SlotInv, YoungCounted, Renewed
    <3>2. /\ now \in Nat /\ since[q] \in Nat /\ entry.updatedAt \in Nat
          /\ now - since[q] <= StaleTtl
      BY <2>1 DEF SlotInv, SlotTypeOK, Entry, Young, InFlight
    <3>3. QED
      BY <1>2, <3>1, <3>2, SlotAssumption DEF Stale
  <2>2. QED
    BY <2>1
<1>3. QED
  BY <1>1, <1>2

(* The types of the fields, where only those matter.                       *)
LEMMA FieldTypes ==
  ASSUME SlotTypeOK
  PROVE  /\ now \in Nat /\ generations \in Nat
         /\ entry.count \in Nat /\ entry.updatedAt \in Nat /\ entry.generation \in Nat
  BY DEF SlotTypeOK, Entry

(* A client starts without an entry.                                       *)
LEMMA SlotInvInit == SlotInit => SlotInv
<1> SUFFICES ASSUME SlotInit PROVE SlotInv
  OBVIOUS
<1>1. InFlight = {} /\ Counted = {} /\ Young = {}
  BY DEF SlotInit, InFlight, Counted, Young
<1>2. SlotTypeOK
  BY DEF SlotInit, SlotTypeOK, NoEntry, Entry
<1>3. QED
  BY <1>1, <1>2, FS_EmptySet, SlotAssumption
     DEF SlotInit, SlotInv, CountExact, Renewed, YoungCounted, NoEntry

(* A query that joins a fresh entry is counted and renews it.              *)
LEMMA JoinStep ==
  ASSUME SlotInv, NEW q \in Query, Acquire(q), Join(q)
  PROVE  SlotInv'
<1>1. /\ entry' \in Entry /\ entry'.count = entry.count + 1 /\ entry'.count # 0
      /\ entry'.updatedAt = now /\ entry'.generation = entry.generation
  <2>1. entry' = [entry EXCEPT !.count = entry.count + 1, !.updatedAt = now]
    BY DEF Join
  <2>2. entry.count + 1 \in Nat /\ entry.count + 1 # 0 /\ now \in Nat
    BY FieldTypes DEF SlotInv
  <2>3. QED
    BY <2>1, <2>2 DEF SlotInv, SlotTypeOK, Entry
<1>0. /\ held' = [held EXCEPT ![q] = entry.generation] /\ held[q] = 0
      /\ since' = [since EXCEPT ![q] = now]
      /\ entry.count < MaxInFlight /\ now' = now /\ generations' = generations
  BY DEF Acquire, Join
<1>2. entry.generation # 0
  <2>1. entry.count # 0
    BY DEF Acquire, Join, SlotInv, SlotTypeOK, CountExact, NoEntry
  <2>2. QED
    BY <2>1, NobodyUnderNoEntry, FS_EmptySet DEF SlotInv, CountExact
<1>3. SlotTypeOK'
  BY <1>0, <1>1 DEF SlotInv, SlotTypeOK
<1>4. /\ Counted' = Counted \cup {q} /\ q \notin Counted
      /\ InFlight' = InFlight \cup {q}
      /\ Young' \subseteq Young \cup {q}
  BY <1>0, <1>1, <1>2 DEF SlotInv, SlotTypeOK, Counted, InFlight, Young
<1>5. CountExact'
  <2>1. Cardinality(Counted \cup {q}) = Cardinality(Counted) + 1
    BY <1>4, FiniteQueries, FS_AddElement
  <2>2. QED
    BY <1>1, <1>4, <2>1 DEF SlotInv, CountExact
<1>6. entry'.count <= MaxInFlight
  BY <1>0, <1>1, SlotAssumption DEF SlotInv, SlotTypeOK, Entry
<1>7. Renewed'
  BY <1>0, <1>1, <1>4 DEF SlotInv, SlotTypeOK, Renewed, Counted, InFlight
<1>8. YoungCounted'
  BY <1>4 DEF SlotInv, YoungCounted
<1>9. QED
  BY <1>3, <1>5, <1>6, <1>7, <1>8 DEF SlotInv

(* A query that begins an entry is alone under it: every other is old.     *)
LEMMA BeginStep ==
  ASSUME SlotInv, NEW q \in Query, Acquire(q), Begin(q)
  PROVE  SlotInv'
<1> USE DEF Acquire, Begin
<1>1. /\ entry' \in Entry /\ entry'.count = 1
      /\ entry'.updatedAt = now /\ entry'.generation = generations + 1
  BY DEF SlotInv, SlotTypeOK, Entry
<1>2. SlotTypeOK'
  BY <1>1 DEF SlotInv, SlotTypeOK
<1>3. Young = {}
  BY EvictedAreOld
<1>4. /\ Counted' = {q}
      /\ InFlight' = InFlight \cup {q}
      /\ Young' \subseteq Young \cup {q}
  BY <1>1 DEF SlotInv, SlotTypeOK, Counted, InFlight, Young
<1>5. CountExact'
  BY <1>1, <1>4, FS_Singleton DEF CountExact
<1>6. Renewed'
  BY <1>1, <1>4 DEF SlotInv, SlotTypeOK, Renewed, InFlight
<1>7. QED
  BY <1>1, <1>2, <1>3, <1>4, <1>5, <1>6, SlotAssumption DEF SlotInv, YoungCounted

(* A release frees a slot of its own generation and no other.              *)
LEMMA ReleaseStep ==
  ASSUME SlotInv, NEW q \in Query, ReleaseSlot(q)
  PROVE  SlotInv'
<1>1. /\ held' = [held EXCEPT ![q] = 0] /\ held[q] # 0
      /\ now' = now /\ generations' = generations /\ since' = since
  BY DEF ReleaseSlot
<1>2. InFlight' = InFlight \ {q} /\ Young' = Young \ {q}
  BY <1>1 DEF SlotInv, SlotTypeOK, InFlight, Young
<1>3. held' \in [Query -> 0 .. generations'] /\ since' \in [Query -> Nat]
  BY <1>1 DEF SlotInv, SlotTypeOK
<1>4. CASE entry.generation # held[q]
  <2>1. entry' = entry
    BY <1>4 DEF ReleaseSlot
  <2>2. Counted' = Counted
    BY <1>1, <1>4, <2>1 DEF SlotInv, SlotTypeOK, Counted, InFlight
  <2>3. SlotTypeOK'
    BY <1>1, <1>3, <2>1 DEF SlotInv, SlotTypeOK
  <2>4. Renewed'
    BY <1>1, <1>2, <2>1, <2>2 DEF SlotInv, Renewed
  <2>5. QED
    BY <1>2, <2>1, <2>2, <2>3, <2>4 DEF SlotInv, CountExact, YoungCounted
<1>5. CASE entry.generation = held[q] /\ entry.count = 1
  <2>1. q \in Counted
    BY <1>1, <1>5 DEF Counted, InFlight
  <2>2. entry' = NoEntry
    BY <1>5 DEF ReleaseSlot
  <2>3. Counted = {q}
    <3>1. Cardinality(Counted) = 1
      BY <1>5 DEF SlotInv, CountExact
    <3>2. IsFiniteSet(Counted \ {q}) /\ Cardinality(Counted \ {q}) = 0
      BY <2>1, <3>1, FiniteQueries, FS_RemoveElement
    <3>3. Counted \ {q} = {}
      BY <3>2, FS_EmptySet
    <3>4. QED
      BY <2>1, <3>3
  <2>4. SlotTypeOK'
    BY <1>1, <1>3, <2>2 DEF SlotInv, SlotTypeOK, NoEntry, Entry
  <2>5. Young' = {}
    BY <1>2, <2>3 DEF SlotInv, YoungCounted
  <2>6. Counted' = {}
    BY <2>2 DEF Counted, InFlight, NoEntry
  <2>7. Renewed'
    BY <1>1, <1>2, <2>2, <2>6, FieldTypes DEF SlotInv, Renewed, NoEntry
  <2>8. QED
    BY <2>2, <2>4, <2>5, <2>6, <2>7, FS_EmptySet, SlotAssumption
       DEF SlotInv, CountExact, YoungCounted, NoEntry
<1>6. CASE entry.generation = held[q] /\ entry.count # 1
  <2>1. q \in Counted
    BY <1>1, <1>6 DEF Counted, InFlight
  <2>2. Cardinality(Counted \ {q}) = entry.count - 1 /\ entry.count # 0
    BY <2>1, FiniteQueries, FS_RemoveElement, FS_EmptySet DEF SlotInv, CountExact
  <2>3. entry.count - 1 \in Nat /\ entry.count - 1 # 0
    BY <1>6, <2>2, FieldTypes DEF SlotInv
  <2>4. entry' = [entry EXCEPT !.count = entry.count - 1, !.updatedAt = now]
    BY <1>6 DEF ReleaseSlot
  <2>5. /\ entry' \in Entry
        /\ entry'.count = entry.count - 1 /\ entry'.updatedAt = now
        /\ entry'.generation = entry.generation
    BY <2>3, <2>4 DEF SlotInv, SlotTypeOK, Entry
  <2>6. Counted' = Counted \ {q}
    BY <1>1, <1>6, <2>5 DEF SlotInv, SlotTypeOK, Counted, InFlight
  <2>7. SlotTypeOK'
    BY <1>1, <1>3, <2>3, <2>5 DEF SlotInv, SlotTypeOK
  <2>8. Renewed'
    BY <1>1, <1>2, <2>5, <2>6, FieldTypes DEF SlotInv, Renewed, Counted
  <2>9. entry'.count <= MaxInFlight
    BY <2>5, FieldTypes, SlotAssumption DEF SlotInv
  <2>10. QED
    BY <1>2, <2>2, <2>5, <2>6, <2>7, <2>8, <2>9 DEF SlotInv, CountExact, YoungCounted
<1>7. QED
  BY <1>4, <1>5, <1>6

(* The sweep removes an entry under which nobody young runs.               *)
LEMMA SweepStep ==
  ASSUME SlotInv, Sweep
  PROVE  SlotInv'
<1> USE DEF Sweep
<1>1. Young = {}
  BY EvictedAreOld
<1>2. InFlight' = InFlight /\ Young' = Young /\ Counted' = {}
  BY DEF InFlight, Young, Counted, NoEntry
<1>3. SlotTypeOK'
  BY DEF SlotInv, SlotTypeOK, NoEntry, Entry
<1>4. QED
  BY <1>1, <1>2, <1>3, FS_EmptySet, SlotAssumption
     DEF SlotInv, SlotTypeOK, CountExact, Renewed, YoungCounted, NoEntry

(* Time makes queries older.                                               *)
LEMMA TickStep ==
  ASSUME SlotInv, Tick
  PROVE  SlotInv'
<1> USE DEF Tick
<1>1. Counted' = Counted /\ InFlight' = InFlight
  BY DEF Counted, InFlight
<1>2. Young' \subseteq Young
  BY SlotAssumption DEF SlotInv, SlotTypeOK, Young, InFlight
<1>3. SlotTypeOK' /\ Renewed'
  BY <1>1 DEF SlotInv, SlotTypeOK, Entry, Renewed, InFlight
<1>4. QED
  BY <1>1, <1>2, <1>3 DEF SlotInv, CountExact, YoungCounted

(* Every step of the query slots keeps their invariant.                    *)
LEMMA SlotInvStep == SlotInv /\ [SlotNext]_slotVars => SlotInv'
<1> SUFFICES ASSUME SlotInv, [SlotNext]_slotVars PROVE SlotInv'
  OBVIOUS
<1>1. ASSUME NEW q \in Query, Acquire(q) PROVE SlotInv'
  BY <1>1, JoinStep, BeginStep DEF Acquire
<1>2. ASSUME NEW q \in Query, ReleaseSlot(q) PROVE SlotInv'
  BY <1>2, ReleaseStep
<1>3. CASE UNCHANGED slotVars
  BY <1>3 DEF slotVars, SlotInv, SlotTypeOK, CountExact, Renewed, YoungCounted,
              Counted, InFlight, Young
<1>4. QED
  BY <1>1, <1>2, <1>3, SweepStep, TickStep DEF SlotNext

(* The entry counts its queries and no young query goes uncounted, in every*)
(* reachable state.                                                        *)
THEOREM SlotInvariance == SlotSpec => []SlotInv
  BY SlotInvInit, SlotInvStep, PTL DEF SlotSpec

(* A late release leaves the entry of its successors alone.                *)
THEOREM SlotsCounted == SlotSpec => []CountExact
<1>1. SlotInv => CountExact
  BY DEF SlotInv
<1>2. QED
  BY <1>1, SlotInvariance, PTL

(* No eviction lets more than MaxInFlight young queries run.               *)
THEOREM YoungLimited == SlotSpec => []YoungQueriesLimited
<1>1. SlotInv => YoungQueriesLimited
  <2> SUFFICES ASSUME SlotInv PROVE YoungQueriesLimited
    OBVIOUS
  <2>1. Cardinality(Young) <= Cardinality(Counted)
    BY FiniteQueries, FS_Subset DEF SlotInv, YoungCounted
  <2>2. QED
    BY <2>1, FiniteQueries, SlotAssumption
       DEF SlotInv, SlotTypeOK, Entry, CountExact, YoungQueriesLimited
<1>2. QED
  BY <1>1, SlotInvariance, PTL

-----------------------------------------------------------------------------
(* Slots of event streams.                                                 *)

(* The inductive invariant of the streams. A slot is given back only by the*)
(* close handler of a stream that holds one.                               *)
StreamInv == StreamTypeOK /\ SlotsAddUp /\ active <= MaxStreams

(* The streams that hold a slot are finitely many.                         *)
LEMMA FiniteStreams ==
  /\ IsFiniteSet(Holding) /\ Cardinality(Holding) \in Nat
  /\ MaxStreams \in Nat /\ MaxStreams > 0
  BY StreamAssumption, FS_Subset, FS_CardinalityType DEF StreamAssumption, Holding

(* Nobody holds a slot at first.                                           *)
LEMMA StreamInvInit == StreamInit => StreamInv
<1> SUFFICES ASSUME StreamInit PROVE StreamInv
  OBVIOUS
<1>1. Holding = {}
  BY DEF StreamInit, Holding
<1>2. StreamTypeOK
  BY DEF StreamInit, StreamTypeOK
<1>3. QED
  BY <1>1, <1>2, FS_EmptySet, FiniteStreams DEF StreamInit, StreamInv, SlotsAddUp

(* A slot is taken and counted.                                            *)
LEMMA OpenStep ==
  ASSUME StreamInv, NEW s \in Stream, Open(s)
  PROVE  StreamInv'
<1>1. /\ StreamTypeOK /\ SlotsAddUp /\ stage[s] = "closed" /\ active < MaxStreams
      /\ active' = active + 1 /\ stage' = [stage EXCEPT ![s] = "starting"]
      /\ connected' = connected \cup {s}
  BY DEF StreamInv, Open
<1>2. Holding' = Holding \cup {s} /\ s \notin Holding
  BY <1>1 DEF StreamTypeOK, Holding
<1>3. StreamTypeOK'
  BY <1>1, <1>2 DEF StreamTypeOK
<1>4. Cardinality(Holding') = Cardinality(Holding) + 1
  BY <1>2, FiniteStreams, FS_AddElement
<1>5. QED
  BY <1>1, <1>3, <1>4, FiniteStreams DEF StreamInv, SlotsAddUp

(* Neither gives a slot back: the stream is there or has failed.           *)
LEMMA SettledStep ==
  ASSUME StreamInv, NEW s \in Stream, Attach(s) \/ Fail(s)
  PROVE  StreamInv'
<1>1. PICK after \in {"open", "failed"} : stage' = [stage EXCEPT ![s] = after]
  BY DEF Attach, Fail
<1>2. stage[s] = "starting" /\ active' = active /\ connected' = connected
  BY DEF Attach, Fail
<1>3. Holding' = Holding
  BY <1>1, <1>2 DEF StreamInv, StreamTypeOK, Holding
<1>4. StreamTypeOK'
  BY <1>1, <1>2, <1>3 DEF StreamInv, StreamTypeOK
<1>5. QED
  BY <1>2, <1>3, <1>4 DEF StreamInv, SlotsAddUp

(* A client that leaves gives its slot back once, or keeps it counted.     *)
LEMMA LeaveStep ==
  ASSUME StreamInv, NEW s \in Stream, Leave(s)
  PROVE  StreamInv'
<1>1. /\ StreamTypeOK /\ SlotsAddUp /\ active <= MaxStreams
      /\ s \in connected /\ connected' = connected \ {s}
  BY DEF StreamInv, Leave
<1>2. CASE stage[s] = "open"
  <2>1. active' = active - 1 /\ stage' = [stage EXCEPT ![s] = "closed"]
    BY <1>2 DEF Leave
  <2>2. Holding' = Holding \ {s} /\ s \in Holding
    BY <1>1, <1>2, <2>1 DEF StreamTypeOK, Holding
  <2>3. Cardinality(Holding') = Cardinality(Holding) - 1
    BY <2>2, FiniteStreams, FS_RemoveElement
  <2>4. Cardinality(Holding') \in Nat
    BY <2>2, FiniteStreams, FS_RemoveElement, FS_CardinalityType
  <2>5. StreamTypeOK'
    BY <1>1, <2>1, <2>2, <2>3, <2>4 DEF StreamTypeOK, SlotsAddUp
  <2>6. QED
    BY <1>1, <2>1, <2>3, <2>5, FiniteStreams DEF StreamInv, StreamTypeOK, SlotsAddUp
<1>3. CASE stage[s] # "open"
  <2>1. active' = active /\ stage' = stage
    BY <1>3 DEF Leave
  <2>2. QED
    BY <1>1, <2>1 DEF StreamInv, StreamTypeOK, SlotsAddUp, Holding
<1>4. QED
  BY <1>2, <1>3

(* Every step of the streams keeps their invariant.                        *)
LEMMA StreamInvStep == StreamInv /\ [StreamNext]_streamVars => StreamInv'
<1>1. CASE UNCHANGED streamVars
  BY <1>1 DEF StreamInv, StreamTypeOK, SlotsAddUp, Holding, streamVars
<1>2. QED
  BY <1>1, OpenStep, SettledStep, LeaveStep DEF StreamNext

(* Every stream whose client is there holds one of the slots.              *)
LEMMA StreamShares == StreamInv => StreamsLimited
<1>1. ASSUME StreamInv PROVE Cardinality(connected) <= Cardinality(Holding)
  BY <1>1, FiniteStreams, FS_Subset DEF StreamInv, StreamTypeOK
<1>2. ASSUME StreamInv PROVE Cardinality(connected) \in Nat
  BY <1>2, FiniteStreams, FS_Subset, FS_CardinalityType DEF StreamInv, StreamTypeOK
<1>3. QED
  BY <1>1, <1>2, FiniteStreams DEF StreamInv, SlotsAddUp, StreamsLimited, StreamTypeOK

-----------------------------------------------------------------------------
(* The pool.                                                               *)

(* Threads are numbered without a gap, and there are numbers left for the  *)
(* replacements of those that die.                                         *)
Numbered ==
  /\ \E n \in 0 .. MaxThread : Spawned = 1 .. n
  /\ Cardinality(Spawned) + Cardinality(Dying) <= MaxThread

(* A thread of the array stands at its place and has not gone; until the   *)
(* pool is down, so does every thread that has not.                        *)
Stands ==
  /\ \A i \in Index : workers[i] # None =>
       workers[i] \in Alive \cup Dying /\ place[workers[i]] = i
  /\ phase # "down" =>
       /\ \A i \in Index : workers[i] # None
       /\ \A t \in Alive \cup Dying : workers[place[t]] = t

(* The inductive invariant of the pool.                                    *)
PoolInv == PoolTypeOK /\ Numbered /\ Stands /\ NobodyForgotten

(* The bounds of the pool.                                                 *)
LEMMA PoolLimits ==
  /\ PoolSize \in Nat /\ PoolSize > 0 /\ MaxThread \in Nat /\ PoolSize <= MaxThread
  /\ None \notin Thread /\ Thread \subseteq Nat
  BY PoolAssumption DEF PoolAssumption, Thread, None

(* The sets of threads are finite.                                         *)
LEMMA FiniteThreads ==
  /\ IsFiniteSet(Thread)
  /\ IsFiniteSet(Spawned) /\ Cardinality(Spawned) \in Nat
  /\ IsFiniteSet(Dying) /\ Cardinality(Dying) \in Nat
<1>1. IsFiniteSet(Thread)
  BY PoolLimits, FS_Interval DEF Thread
<1>2. Spawned \in SUBSET Thread /\ Dying \in SUBSET Thread
  BY DEF Spawned, Dying
<1>3. QED
  BY <1>1, <1>2, FS_Subset, FS_CardinalityType

(* The pool starts with a thread at every place.                           *)
LEMMA PoolInvInit == PoolInit => PoolInv
<1> SUFFICES ASSUME PoolInit PROVE PoolInv
  OBVIOUS
<1>1. PoolTypeOK
  <2>1. \A t \in Thread : t <= PoolSize => t - 1 \in Index
    BY PoolLimits DEF Thread, Index
  <2>2. 0 \in Index
    BY PoolLimits DEF Index
  <2>3. \A i \in Index : i + 1 \in Thread
    BY PoolLimits DEF Thread, Index
  <2>4. workers \in [Index -> Thread \cup {None}] /\ place \in [Thread -> Index]
    BY <2>1, <2>2, <2>3 DEF PoolInit
  <2>5. QED
    BY <2>2, <2>4 DEF PoolInit, PoolTypeOK
<1>2. Spawned = 1 .. PoolSize /\ Dying = {} /\ Alive = 1 .. PoolSize
  BY PoolLimits DEF PoolInit, Spawned, Dying, Alive, Thread
<1>3. Numbered
  <2>1. Cardinality(1 .. PoolSize) = PoolSize
    BY PoolLimits, FS_Interval
  <2>2. QED
    BY <1>2, <2>1, PoolLimits, FS_EmptySet DEF Numbered
<1>4. Stands
  <2>1. ASSUME NEW i \in Index
        PROVE  workers[i] = i + 1 /\ i + 1 \in Thread /\ i + 1 <= PoolSize /\ place[i + 1] = i
    BY PoolLimits DEF PoolInit, Index, Thread
  <2>2. ASSUME NEW t \in Alive \cup Dying
        PROVE  t \in Thread /\ t <= PoolSize /\ t - 1 \in Index /\ workers[t - 1] = t /\ place[t] = t - 1
    BY <1>2, PoolLimits DEF PoolInit, Index, Thread
  <2>3. \A i \in Index : workers[i] # None /\ workers[i] \in Alive \cup Dying
    BY <1>2, <2>1, PoolLimits DEF Index, None
  <2>4. QED
    BY <2>1, <2>2, <2>3 DEF Stands
<1>5. NobodyForgotten
  BY DEF PoolInit, NobodyForgotten
<1>6. QED
  BY <1>1, <1>3, <1>4, <1>5 DEF PoolInv

(* Steps that change no thread.                                            *)
LEMMA NextIndex ==
  ASSUME next \in Index
  PROVE  (next + 1) % PoolSize \in Index
  BY PoolLimits DEF Index

(* What is said of threads outlives a step that touches none.              *)
LEMMA ThreadsStay ==
  ASSUME PoolInv, UNCHANGED threadVars
  PROVE  Numbered' /\ Stands' /\ Alive' = Alive /\ Dying' = Dying
  BY DEF PoolInv, Numbered, Stands, Spawned, Dying, Alive, threadVars

(* A request goes to a thread that is alive or dying.                      *)
LEMMA SendStep ==
  ASSUME PoolInv, NEW r \in Request, Send(r) \/ SendRefused(r)
  PROVE  PoolInv'
<1>1. Numbered' /\ Stands' /\ Alive' = Alive /\ Dying' = Dying
  BY ThreadsStay DEF Send, SendRefused
<1>2. PoolTypeOK /\ Stands /\ NobodyForgotten /\ next \in Index
  BY DEF PoolInv, PoolTypeOK
<1>3. CASE Send(r)
  <2>1. PoolTypeOK'
    BY <1>2, <1>3, NextIndex DEF Send, PoolTypeOK, threadVars
  <2>2. workers[next] \in Alive \cup Dying
    BY <1>2, <1>3 DEF Send, Stands
  <2>3. NobodyForgotten'
    BY <1>1, <1>2, <1>3, <2>2 DEF Send, PoolTypeOK, NobodyForgotten
  <2>4. QED
    BY <1>1, <2>1, <2>3 DEF PoolInv
<1>4. CASE SendRefused(r)
  <2>1. next' \in Index
    BY <1>2, <1>4, NextIndex DEF SendRefused
  <2>2. PoolTypeOK'
    BY <1>2, <1>4, <2>1 DEF SendRefused, PoolTypeOK, threadVars
  <2>3. NobodyForgotten'
    BY <1>1, <1>2, <1>4 DEF SendRefused, PoolTypeOK, NobodyForgotten
  <2>4. QED
    BY <1>1, <2>2, <2>3 DEF PoolInv
<1>5. QED
  BY <1>3, <1>4

(* Answers are posted and received.                                        *)
LEMMA AnswerStep ==
  ASSUME PoolInv, NEW r \in Request,
         Answer(r) \/ \E outcome \in {"resolved", "rejected"} : Receive(r, outcome)
  PROVE  PoolInv'
<1>1. Numbered' /\ Stands' /\ Alive' = Alive /\ Dying' = Dying
  BY ThreadsStay DEF Answer, Receive
<1>2. PoolTypeOK'
  BY DEF PoolInv, PoolTypeOK, Answer, Receive, threadVars
<1>3. NobodyForgotten'
  BY <1>1 DEF PoolInv, PoolTypeOK, NobodyForgotten, Answer, Receive
<1>4. QED
  BY <1>1, <1>2, <1>3 DEF PoolInv

(* Dying takes a replacement's number.                                     *)
LEMMA ThrowStep ==
  ASSUME PoolInv, NEW t \in Thread, Throw(t)
  PROVE  PoolInv'
<1>1. /\ PoolTypeOK /\ Numbered /\ Stands /\ NobodyForgotten /\ thread[t] = "alive"
      /\ thread' = [thread EXCEPT ![t] = "failed"]
      /\ UNCHANGED <<next, request, owner, message, workers, place, phase, awaited>>
  BY DEF PoolInv, Throw
<1>2. PoolTypeOK'
  BY <1>1 DEF PoolTypeOK
<1>3. /\ Spawned' = Spawned /\ Dying' = Dying \cup {t}
      /\ Alive' = Alive \ {t} /\ t \in Alive
  BY <1>1 DEF PoolTypeOK, Spawned, Dying, Alive
<1>4. Numbered'
  BY <1>1, <1>3 DEF Numbered, Throw, CanReplace
<1>5. Alive' \cup Dying' = Alive \cup Dying
  BY <1>3
<1>6. Stands' /\ NobodyForgotten'
  BY <1>1, <1>5 DEF Stands, NobodyForgotten
<1>7. QED
  BY <1>2, <1>4, <1>6 DEF PoolInv

(* The "error" event settles the requests of its own thread.               *)
LEMMA ErrorStep ==
  ASSUME PoolInv, NEW t \in Thread, ErrorEvent(t)
  PROVE  PoolInv'
<1>1. /\ PoolTypeOK /\ Numbered /\ Stands /\ NobodyForgotten /\ thread[t] = "failed"
      /\ thread' = [thread EXCEPT ![t] = "exiting"] /\ request' = Rejected(t)
      /\ UNCHANGED <<next, owner, message, workers, place, phase, awaited>>
  BY DEF PoolInv, ErrorEvent
<1>2. PoolTypeOK'
  BY <1>1 DEF PoolTypeOK, Rejected
<1>3. Spawned' = Spawned /\ Dying' = Dying /\ Alive' = Alive
  BY <1>1 DEF PoolTypeOK, Spawned, Dying, Alive
<1>4. Numbered' /\ Stands'
  BY <1>1, <1>3 DEF Numbered, Stands
<1>5. NobodyForgotten'
  BY <1>1, <1>3 DEF PoolTypeOK, NobodyForgotten, Rejected
<1>6. QED
  BY <1>2, <1>4, <1>5 DEF PoolInv

(* A thread that exits is replaced under the next number.                  *)
LEMMA ExitStep ==
  ASSUME PoolInv, NEW t \in Thread, ExitEvent(t)
  PROVE  PoolInv'
<1>1. PICK n \in 0 .. MaxThread : Spawned = 1 .. n
  BY DEF PoolInv, Numbered
<1> DEFINE new == n + 1
<1>2. /\ PoolTypeOK /\ Stands /\ NobodyForgotten /\ thread[t] = "exiting"
      /\ request' = Rejected(t) /\ message' = Lost(t)
      /\ UNCHANGED <<next, owner, phase, awaited>>
  BY DEF PoolInv, ExitEvent
<1>3. n \in Nat /\ Cardinality(Spawned) = n
  BY <1>1, FS_Interval, PoolLimits
<1>4. /\ thread' = [thread EXCEPT ![t] = "gone", ![new] = "alive"]
      /\ place' = [place EXCEPT ![new] = place[t]]
      /\ workers' = [workers EXCEPT ![place[t]] = new]
  BY <1>3 DEF ExitEvent, Replace
<1>5. t \in Dying /\ t \in Spawned
  BY <1>2 DEF Dying, Spawned
<1>6. new \in Thread /\ new # t /\ new \notin Spawned
  <2>1. Cardinality(Dying) # 0
    BY <1>5, FiniteThreads, FS_EmptySet
  <2>2. n + 1 <= MaxThread
    BY <1>3, <2>1, FiniteThreads, PoolLimits DEF PoolInv, Numbered
  <2>3. QED
    BY <1>1, <1>3, <1>5, <2>2 DEF Thread
<1> HIDE DEF new
<1>7. thread[new] = "unborn" /\ place[t] \in Index
  BY <1>2, <1>6 DEF Spawned, PoolTypeOK
<1>8. /\ thread'[t] = "gone" /\ thread'[new] = "alive"
      /\ \A u \in Thread \ {t, new} : thread'[u] = thread[u]
      /\ place'[new] = place[t] /\ \A u \in Thread \ {new} : place'[u] = place[u]
      /\ workers'[place[t]] = new /\ \A i \in Index \ {place[t]} : workers'[i] = workers[i]
  BY <1>2, <1>4, <1>6, <1>7 DEF PoolTypeOK
<1>9. PoolTypeOK'
  <2>1. thread' \in [Thread -> {"unborn", "alive", "failed", "exiting", "gone"}]
    BY <1>2, <1>4 DEF PoolTypeOK
  <2>2. place' \in [Thread -> Index] /\ workers' \in [Index -> Thread \cup {None}]
    BY <1>2, <1>4, <1>6, <1>7 DEF PoolTypeOK
  <2>3. /\ request' \in [Request -> {"new", "pending", "resolved", "rejected"}]
        /\ message' \in [Request -> {"none", "sent", "answered"}]
    BY <1>2 DEF PoolTypeOK, Rejected, Lost
  <2>4. QED
    BY <1>2, <2>1, <2>2, <2>3 DEF PoolTypeOK
<1>10. /\ Spawned' = Spawned \cup {new} /\ Dying' = Dying \ {t}
       /\ Alive' = Alive \cup {new} /\ t \notin Alive /\ new \notin Alive \cup Dying
  BY <1>2, <1>5, <1>6, <1>7, <1>8 DEF Spawned, Dying, Alive
<1>11. Numbered'
  <2>1. Spawned' = 1 .. new /\ new \in 0 .. MaxThread
    BY <1>1, <1>3, <1>6, <1>10, PoolLimits DEF new, Thread
  <2>2. Cardinality(Spawned') = Cardinality(Spawned) + 1
    BY <1>6, <1>10, FiniteThreads, FS_AddElement
  <2>3. Cardinality(Dying') = Cardinality(Dying) - 1
    BY <1>5, <1>10, FiniteThreads, FS_RemoveElement
  <2>4. QED
    BY <2>1, <2>2, <2>3, FiniteThreads, PoolLimits DEF PoolInv, Numbered
<1>12. Alive' \cup Dying' = ((Alive \cup Dying) \ {t}) \cup {new}
  BY <1>10
<1>13. Stands'
  <2>1. ASSUME NEW i \in Index, workers'[i] # None
        PROVE  workers'[i] \in Alive' \cup Dying' /\ place'[workers'[i]] = i
    <3>1. CASE i = place[t]
      BY <1>8, <1>12, <3>1
    <3>2. CASE i # place[t]
      <4>1. workers'[i] = workers[i] /\ workers[i] \in Alive \cup Dying /\ place[workers[i]] = i
        BY <1>2, <1>8, <2>1, <3>2 DEF Stands
      <4>2. workers[i] # t /\ workers[i] # new /\ workers[i] \in Thread
        BY <1>10, <3>2, <4>1 DEF Alive, Dying
      <4>3. QED
        BY <1>8, <1>12, <4>1, <4>2
    <3>3. QED
      BY <3>1, <3>2
  <2>2. ASSUME phase # "down", NEW i \in Index PROVE workers'[i] # None
    BY <1>2, <1>6, <1>8, <2>2, PoolLimits DEF Stands
  <2>3. ASSUME phase # "down", NEW u \in Alive' \cup Dying' PROVE workers'[place'[u]] = u
    <3>1. CASE u = new
      BY <1>8, <3>1
    <3>2. CASE u # new
      <4>1. u \in Alive \cup Dying /\ u # t /\ u \in Thread
        BY <1>12, <2>3, <3>2 DEF Alive, Dying
      <4>2. workers[place[u]] = u /\ place'[u] = place[u] /\ place[u] \in Index
        BY <1>2, <1>8, <2>3, <3>2, <4>1 DEF Stands, PoolTypeOK
      <4>3. workers[place[t]] = t
        BY <1>2, <1>5, <2>3 DEF Stands
      <4>4. QED
        BY <1>8, <4>1, <4>2, <4>3
    <3>3. QED
      BY <3>1, <3>2
  <2>4. phase' = phase
    BY <1>2
  <2>5. QED
    BY <2>1, <2>2, <2>3, <2>4 DEF Stands
<1>14. NobodyForgotten'
  <2>1. ASSUME NEW r \in Request, request'[r] = "pending"
        PROVE  owner[r] \in Alive' \cup Dying'
    <3>1. request[r] = "pending" /\ owner[r] # t
      BY <1>2, <2>1 DEF Rejected, PendingOf
    <3>2. owner[r] \in Alive \cup Dying
      BY <1>2, <3>1 DEF NobodyForgotten
    <3>3. QED
      BY <1>12, <3>1, <3>2
  <2>2. QED
    BY <1>2, <2>1 DEF NobodyForgotten
<1>15. QED
  BY <1>9, <1>11, <1>13, <1>14 DEF PoolInv

(* Every thread that is alive is terminated.                               *)
LEMMA ShutdownStep ==
  ASSUME PoolInv, Shutdown
  PROVE  PoolInv'
<1>1. /\ PoolTypeOK /\ Numbered /\ Stands /\ NobodyForgotten /\ phase = "up"
      /\ phase' = "stopping" /\ awaited' = {workers[i] : i \in Index}
      /\ thread' = [t \in Thread |-> IF t \in Alive THEN "exiting" ELSE thread[t]]
      /\ UNCHANGED <<next, request, owner, message, workers, place>>
  BY DEF PoolInv, Shutdown
<1>2. /\ Spawned' = Spawned /\ Dying' = Dying \cup Alive /\ Alive' = {}
  BY <1>1 DEF Spawned, Dying, Alive
<1>3. awaited' \in SUBSET Thread
  BY <1>1 DEF Stands, Alive, Dying
<1>4. PoolTypeOK'
  BY <1>1, <1>3 DEF PoolTypeOK
<1>5. Numbered'
  BY <1>1, <1>2 DEF Numbered, Shutdown, CanReplace
<1>6. Alive' \cup Dying' = Alive \cup Dying
  BY <1>2
<1>7. Stands' /\ NobodyForgotten'
  BY <1>1, <1>6 DEF Stands, NobodyForgotten
<1>8. QED
  BY <1>4, <1>5, <1>7 DEF PoolInv

(* The array is emptied.                                                   *)
LEMMA ShutDownStep ==
  ASSUME PoolInv, ShutDown
  PROVE  PoolInv'
<1>1. /\ phase' = "down" /\ workers' = [i \in Index |-> None]
      /\ UNCHANGED <<next, request, owner, message, thread, place, awaited>>
  BY DEF ShutDown
<1>2. Spawned' = Spawned /\ Dying' = Dying /\ Alive' = Alive
  BY <1>1 DEF Spawned, Dying, Alive
<1>3. PoolTypeOK'
  BY <1>1 DEF PoolInv, PoolTypeOK
<1>4. Numbered' /\ Stands' /\ NobodyForgotten'
  BY <1>1, <1>2 DEF PoolInv, Numbered, Stands, NobodyForgotten
<1>5. QED
  BY <1>3, <1>4 DEF PoolInv

(* Every step of the pool keeps its invariant.                             *)
LEMMA PoolInvStep == PoolInv /\ [PoolNext]_poolVars => PoolInv'
<1>1. CASE UNCHANGED poolVars
  BY <1>1 DEF PoolInv, PoolTypeOK, Numbered, Stands, NobodyForgotten,
              Spawned, Dying, Alive, poolVars, threadVars
<1>2. QED
  BY <1>1, SendStep, AnswerStep, ThrowStep, ErrorStep, ExitStep, ShutdownStep, ShutDownStep
     DEF PoolNext, Settle

(* The array and the threads that have not gone are the same, one to one.  *)
LEMMA PlacesManned == PoolInv => EveryPlaceManned
<1> SUFFICES ASSUME PoolInv, phase # "down"
             PROVE  /\ {workers[i] : i \in Index} = Alive \cup Dying
                    /\ \A i, j \in Index : workers[i] = workers[j] => i = j
  BY DEF EveryPlaceManned
<1>1. \A i \in Index : workers[i] \in Alive \cup Dying /\ place[workers[i]] = i
  BY DEF PoolInv, Stands
<1>2. \A t \in Alive \cup Dying : place[t] \in Index /\ workers[place[t]] = t
  BY DEF PoolInv, PoolTypeOK, Stands, Alive, Dying
<1>3. QED
  BY <1>1, <1>2

(* Whose requests a step of the pool rejects.                              *)
LEMMA RejectionsAreOwn ==
  ASSUME PoolTypeOK, [PoolNext]_poolVars,
         NEW r \in Request, request[r] = "pending", request'[r] = "rejected"
  PROVE  message[r] = "answered" \/ thread[owner[r]] \in {"failed", "exiting"}
<1>1. CASE \E q \in Request : Send(q) \/ SendRefused(q)
  BY <1>1 DEF Send, SendRefused, PoolTypeOK
<1>2. CASE \E q \in Request : Answer(q)
  BY <1>2 DEF Answer, PoolTypeOK
<1>3. CASE \E q \in Request : \E outcome \in {"resolved", "rejected"} : Receive(q, outcome)
  BY <1>3 DEF Receive, PoolTypeOK
<1>4. CASE \E t \in Thread : ErrorEvent(t) \/ ExitEvent(t)
  BY <1>4 DEF ErrorEvent, ExitEvent, Rejected, PendingOf
<1>5. CASE (\E t \in Thread : Throw(t)) \/ Shutdown \/ ShutDown \/ UNCHANGED poolVars
  BY <1>5 DEF Throw, Shutdown, ShutDown, poolVars
<1>6. QED
  BY <1>1, <1>2, <1>3, <1>4, <1>5 DEF PoolNext, Settle

-----------------------------------------------------------------------------
(* Sums. FoldFunctionOnSet is a recursive function over sets: what it computes*)
(* is shown by induction, with the least element of a set of numbers.      *)

(* Induction on numbers: a set of numbers that is not empty has a least one.*)
LEMMA LeastNumber ==
  ASSUME NEW T \in SUBSET Nat, T # {}
  PROVE  \E n \in T : \A m \in T : n <= m
<1> DEFINE Less == OpToRel(<, Nat)
<1>1. IsWellFoundedOn(Less, Nat)
  BY NatLessThanWellFounded
<1>2. \A m, n \in Nat : m < n => <<m, n>> \in Less
  BY DEF OpToRel
<1> HIDE DEF Less
<1>3. PICK n \in T : \A m \in T : ~(<<m, n>> \in Less)
  BY <1>1, WFMin
<1>4. ASSUME NEW m \in T PROVE n <= m
  <2>1. n \in Nat /\ m \in Nat /\ ~(m < n)
    BY <1>2, <1>3
  <2>2. QED
    BY <2>1
<1>5. QED
  BY <1>4

(* G sums f over every subset of S.                                        *)
Sums(G, f, S) ==
  /\ G \in [SUBSET S -> Int]
  /\ G[{}] = 0
  /\ \A s \in SUBSET S : \A x \in s : G[s] = f[x] + G[s \ {x}]

(* There is such a function for the numbers from 0 to n, by induction on n.*)
LEMMA SumToExists ==
  ASSUME NEW f \in [Nat -> Nat], NEW n \in Nat
  PROVE  \E G \in [SUBSET (0 .. n) -> Nat] : Sums(G, f, 0 .. n)
<1> DEFINE Bad == {m \in Nat : ~\E G \in [SUBSET (0 .. m) -> Nat] : Sums(G, f, 0 .. m)}
<1>1. SUFFICES Bad = {}
  OBVIOUS
<1>2. SUFFICES ASSUME Bad # {} PROVE FALSE
  OBVIOUS
<1>3. PICK m \in Bad : m \in Nat /\ \A k \in Bad : m <= k
  <2>1. Bad \in SUBSET Nat
    OBVIOUS
  <2> HIDE DEF Bad
  <2>2. QED
    BY <1>2, <2>1, LeastNumber
<1>4. CASE m = 0
  <2> DEFINE G == [s \in SUBSET (0 .. 0) |-> IF 0 \in s THEN f[0] ELSE 0]
  <2>1. G \in [SUBSET (0 .. 0) -> Nat] /\ Sums(G, f, 0 .. 0)
    BY DEF Sums
  <2>2. QED
    BY <1>3, <1>4, <2>1
<1>5. CASE m # 0
  <2>1. m - 1 \in Nat /\ m - 1 \notin Bad
    <3> HIDE DEF Bad
    <3>1. QED
      BY <1>3, <1>5
  <2>2. PICK H \in [SUBSET (0 .. (m - 1)) -> Nat] : Sums(H, f, 0 .. (m - 1))
    BY <2>1
  <2> DEFINE G == [s \in SUBSET (0 .. m) |-> H[s \ {m}] + (IF m \in s THEN f[m] ELSE 0)]
  <2>3. \A s \in SUBSET (0 .. m) : s \ {m} \in SUBSET (0 .. (m - 1))
    OBVIOUS
  <2>4. G \in [SUBSET (0 .. m) -> Nat]
    BY <2>2, <2>3 DEF Sums
  <2>5. G[{}] = 0
    BY <2>2 DEF Sums
  <2>6. ASSUME NEW s \in SUBSET (0 .. m), NEW x \in s
        PROVE  G[s] = f[x] + G[s \ {x}]
    <3>1. CASE x = m
      <4>1. (s \ {m}) \ {m} = s \ {m} /\ m \in s /\ m \notin s \ {m}
        BY <3>1
      <4>2. H[s \ {m}] \in Nat /\ f[m] \in Nat
        BY <2>2, <2>3 DEF Sums
      <4>3. G[s] = H[s \ {m}] + f[m] /\ G[s \ {m}] = H[s \ {m}] + 0
        BY <4>1
      <4> DEFINE rest == H[s \ {m}]
      <4>4. rest \in Nat /\ f[m] \in Nat
        BY <4>2
      <4>5. G[s] = rest + f[m] /\ G[s \ {x}] = rest + 0
        BY <3>1, <4>3
      <4> HIDE DEF G, rest
      <4>6. QED
        BY <3>1, <4>4, <4>5
    <3>2. CASE x # m
      <4>1. /\ (s \ {m}) \ {x} = (s \ {x}) \ {m}
            /\ x \in s \ {m} /\ (m \in s \ {x} <=> m \in s)
        BY <3>2
      <4>2. H[s \ {m}] = f[x] + H[(s \ {m}) \ {x}]
        BY <2>2, <2>3, <4>1 DEF Sums
      <4>3. (s \ {x}) \ {m} \in SUBSET (0 .. (m - 1)) /\ s \ {m} \in SUBSET (0 .. (m - 1))
        BY <2>3
      <4>4. H[(s \ {x}) \ {m}] \in Nat /\ f[m] \in Nat /\ f[x] \in Nat
        BY <2>2, <4>3 DEF Sums
      <4> DEFINE last == IF m \in s THEN f[m] ELSE 0
      <4>5. /\ G[s] = H[s \ {m}] + last
            /\ G[s \ {x}] = H[(s \ {x}) \ {m}] + last
        BY <4>1
      <4>6. last \in Nat
        BY <4>4
      <4> HIDE DEF last, G
      <4>7. H[s \ {m}] = f[x] + H[(s \ {x}) \ {m}]
        BY <4>1, <4>2
      <4> DEFINE rest  == H[(s \ {x}) \ {m}]
                 whole == G[s]
                 part  == G[s \ {x}]
                 own   == f[x]
      <4>8. rest \in Nat /\ own \in Nat
        BY <4>4
      <4>9. whole = (own + rest) + last /\ part = rest + last
        BY <4>5, <4>7
      <4> HIDE DEF rest, whole, part, own
      <4>10. whole = own + part
        BY <4>6, <4>8, <4>9
      <4>11. QED
        BY <4>10 DEF whole, part, own
    <3>3. QED
      BY <3>1, <3>2
  <2> HIDE DEF G
  <2>7. Sums(G, f, 0 .. m)
    BY <2>4, <2>5, <2>6 DEF Sums
  <2>8. QED
    BY <1>3, <2>4, <2>7
<1>6. QED
  BY <1>4, <1>5

(* The fold computes the sum.                                              *)
LEMMA FoldIsSum ==
  ASSUME NEW S, NEW f, NEW G, Sums(G, f, S), NEW I \in SUBSET S, IsFiniteSet(I)
  PROVE  FoldFunctionOnSet(+, 0, f, I) = G[I]
<1> DEFINE Step(g) == [s \in SUBSET I |->
                         IF s = {} THEN 0
                         ELSE f[CHOOSE x \in s : TRUE] + g[s \ {CHOOSE x \in s : TRUE}]]
           Iter == CHOOSE g : g = Step(g)
           Part == [s \in SUBSET I |-> G[s]]
<1>1. FoldFunctionOnSet(+, 0, f, I) = Iter[I]
  BY Zenon DEF FoldFunctionOnSet, MapThenFoldSet
<1>2. Part = Step(Part)
  <2>1. ASSUME NEW s \in SUBSET I
        PROVE  Part[s] = IF s = {} THEN 0
                         ELSE f[CHOOSE x \in s : TRUE] + Part[s \ {CHOOSE x \in s : TRUE}]
    <3>1. CASE s = {}
      BY <3>1 DEF Sums
    <3>2. CASE s # {}
      <4> DEFINE x == CHOOSE x \in s : TRUE
      <4>1. x \in s
        BY <3>2
      <4> HIDE DEF x
      <4>2. G[s] = f[x] + G[s \ {x}]
        BY <4>1 DEF Sums
      <4>3. Part[s \ {x}] = G[s \ {x}]
        OBVIOUS
      <4>4. QED
        BY <3>2, <4>2, <4>3 DEF x
    <3>3. QED
      BY <3>1, <3>2
  <2>2. QED
    BY <2>1
<1>3. Iter = Step(Iter)
  BY <1>2, Zenon
<1>4. Iter[I] = G[I]
  <2> DEFINE Bad == {n \in Nat : \E s \in SUBSET I : Cardinality(s) = n /\ Iter[s] # G[s]}
  <2>1. SUFFICES ASSUME Bad # {} PROVE FALSE
    BY FS_CardinalityType
  <2>2. PICK n \in Bad : \A m \in Bad : n <= m
    BY <2>1, LeastNumber
  <2>3. PICK s \in SUBSET I : Cardinality(s) = n /\ Iter[s] # G[s]
    BY <2>2
  <2>4. IsFiniteSet(s)
    BY FS_Subset
  <2> HIDE DEF Iter
  <2>5. Iter[s] = Step(Iter)[s]
    BY <1>3
  <2>6. s # {}
    BY <2>3, <2>5 DEF Sums
  <2> DEFINE x == CHOOSE x \in s : TRUE
  <2>7. x \in s
    BY <2>6
  <2>8. Iter[s] = f[x] + Iter[s \ {x}]
    BY <2>5, <2>6
  <2> HIDE DEF x
  <2>9. Cardinality(s \ {x}) = n - 1 /\ n - 1 \in Nat
    <3>1. IsFiniteSet(s \ {x}) /\ Cardinality(s \ {x}) = Cardinality(s) - 1
      BY <2>4, <2>7, FS_RemoveElement
    <3>2. QED
      BY <2>3, <3>1, FS_CardinalityType
  <2>10. Iter[s \ {x}] = G[s \ {x}]
    <3>1. n - 1 \notin Bad
      BY <2>2, <2>9
    <3>2. QED
      BY <2>9, <3>1
  <2>11. QED
    BY <2>3, <2>7, <2>8, <2>10 DEF Sums
<1>5. QED
  BY <1>1, <1>4

(* The sums of the numbers accepted at some times.                         *)
Sum(f, I) == FoldFunctionOnSet(+, 0, f, I)

(* Sets of times are finite.                                               *)
LEMMA FiniteTimes ==
  ASSUME NEW I \in SUBSET Time
  PROVE  IsFiniteSet(I)
<1>1. IsFiniteSet(0 .. MaxMoment)
  BY WindowAssumption, FS_Interval DEF WindowAssumption
<1>2. QED
  BY <1>1, FS_Subset DEF Time

(* The sum is the value of any function that sums.                         *)
LEMMA SumGiven ==
  ASSUME NEW S, NEW f, NEW G, Sums(G, f, S), NEW I \in SUBSET S, IsFiniteSet(I)
  PROVE  Sum(f, I) = G[I]
  BY FoldIsSum DEF Sum

(* There is one for every history.                                         *)
LEMMA SumExists ==
  ASSUME NEW f \in [Time -> Nat]
  PROVE  \E G \in [SUBSET Time -> Nat] :
           /\ Sums(G, f, Time)
           /\ \A I \in SUBSET Time : IsFiniteSet(I) /\ Sum(f, I) = G[I]
<1> DEFINE h == [i \in Nat |-> IF i \in Time THEN f[i] ELSE 0]
<1>1. h \in [Nat -> Nat]
  OBVIOUS
<1>2. PICK G \in [SUBSET Time -> Nat] : Sums(G, h, Time)
  <2> HIDE DEF h
  <2>1. MaxMoment \in Nat
    BY WindowAssumption DEF WindowAssumption
  <2>2. QED
    BY <1>1, <2>1, SumToExists DEF Time
<1>3. Sums(G, f, Time)
  <2>1. \A i \in Time : h[i] = f[i]
    BY WindowAssumption DEF WindowAssumption, Time
  <2> HIDE DEF h
  <2>2. QED
    BY <1>2, <2>1 DEF Sums
<1> HIDE DEF h
<1>4. ASSUME NEW I \in SUBSET Time
      PROVE  IsFiniteSet(I) /\ Sum(f, I) = G[I]
  <2>1. IsFiniteSet(I)
    BY FiniteTimes
  <2>2. Sum(f, I) = G[I]
    BY <1>3, <2>1, SumGiven
  <2>3. QED
    BY <2>1, <2>2
<1>5. QED
  BY <1>3, <1>4

(* Sums are natural numbers.                                               *)
LEMMA SumType ==
  ASSUME NEW f \in [Time -> Nat], NEW I \in SUBSET Time
  PROVE  Sum(f, I) \in Nat
<1>1. PICK G \in [SUBSET Time -> Nat] : \A K \in SUBSET Time : Sum(f, K) = G[K]
  BY SumExists
<1>2. QED
  BY <1>1

(* The sum of nothing accepted is 0.                                       *)
LEMMA SumZero ==
  ASSUME NEW f \in [Time -> Nat], NEW I \in SUBSET Time,
         \A t \in I : f[t] = 0
  PROVE  Sum(f, I) = 0
<1> DEFINE G == [s \in SUBSET I |-> 0]
<1>1. Sums(G, f, I)
  BY DEF Sums
<1>2. IsFiniteSet(I)
  BY FiniteTimes
<1>3. Sum(f, I) = G[I]
  <2> HIDE DEF G
  <2>1. QED
    BY <1>1, <1>2, SumGiven
<1>4. QED
  BY <1>3

(* Histories that agree on some times have the same sum there.             *)
LEMMA SumSame ==
  ASSUME NEW f \in [Time -> Nat], NEW g \in [Time -> Nat],
         NEW I \in SUBSET Time, \A t \in I : f[t] = g[t]
  PROVE  Sum(f, I) = Sum(g, I)
<1>1. PICK G \in [SUBSET Time -> Nat] : Sums(G, f, Time)
  BY SumExists
<1> DEFINE H == [s \in SUBSET I |-> G[s]]
<1>2. Sums(H, f, I) /\ Sums(H, g, I)
  BY <1>1 DEF Sums
<1>3. IsFiniteSet(I)
  BY FiniteTimes
<1> HIDE DEF H
<1>4. QED
  BY <1>2, <1>3, SumGiven

(* Sums over disjoint sets of times add up.                                *)
LEMMA SumSplit ==
  ASSUME NEW f \in [Time -> Nat],
         NEW I \in SUBSET Time, NEW J \in SUBSET Time, I \cap J = {}
  PROVE  Sum(f, I \cup J) = Sum(f, I) + Sum(f, J)
<1>1. PICK G \in [SUBSET Time -> Nat] :
        Sums(G, f, Time) /\ \A K \in SUBSET Time : Sum(f, K) = G[K]
  BY SumExists
<1> DEFINE H == [s \in SUBSET J |-> G[I \cup s] - G[I]]
<1>2. \A s \in SUBSET J : I \cup s \in SUBSET Time
  OBVIOUS
<1>3. H \in [SUBSET J -> Int] /\ H[{}] = 0
  BY <1>1, <1>2
<1>4. ASSUME NEW s \in SUBSET J, NEW x \in s
      PROVE  H[s] = f[x] + H[s \ {x}]
  <2>1. (I \cup s) \ {x} = I \cup (s \ {x}) /\ x \in I \cup s
    OBVIOUS
  <2>2. G[I \cup s] = f[x] + G[I \cup (s \ {x})]
    BY <1>1, <1>2, <2>1 DEF Sums
  <2>3. H[s] = G[I \cup s] - G[I] /\ H[s \ {x}] = G[I \cup (s \ {x})] - G[I]
    OBVIOUS
  <2>4. f[x] \in Nat /\ G[I] \in Nat /\ G[I \cup (s \ {x})] \in Nat
    BY <1>1, <1>2
  <2> HIDE DEF H
  <2>5. QED
    BY <2>2, <2>3, <2>4
<1>5. Sum(f, J) = H[J]
  <2>1. IsFiniteSet(J)
    BY FiniteTimes
  <2>2. Sums(H, f, J)
    <3> HIDE DEF H
    <3>1. QED
      BY <1>3, <1>4 DEF Sums
  <2> HIDE DEF H
  <2>3. QED
    BY <2>1, <2>2, SumGiven
<1>6. QED
  BY <1>1, <1>2, <1>5

(* The sum over one time is what was accepted then.                        *)
LEMMA SumOne ==
  ASSUME NEW f \in [Time -> Nat], NEW t \in Time
  PROVE  Sum(f, {t}) = f[t]
<1>1. PICK G \in [SUBSET Time -> Nat] :
        Sums(G, f, Time) /\ \A K \in SUBSET Time : Sum(f, K) = G[K]
  BY SumExists
<1>2. {t} \ {t} = {} /\ {t} \in SUBSET Time /\ t \in {t}
  OBVIOUS
<1>3. G[{t}] = f[t] + G[{t} \ {t}] /\ G[{}] = 0
  BY <1>1, <1>2 DEF Sums
<1>4. G[{t}] = f[t] + 0 /\ f[t] \in Nat
  BY <1>2, <1>3
<1>5. Sum(f, {t}) = G[{t}]
  BY <1>1, <1>2
<1>6. QED
  BY <1>4, <1>5

(* What is accepted at one time adds to the sums over it.                  *)
LEMMA SumAdds ==
  ASSUME NEW f \in [Time -> Nat], NEW g \in [Time -> Nat],
         NEW I \in SUBSET Time, NEW t \in I, NEW c \in Nat,
         g[t] = f[t] + c, \A u \in I \ {t} : g[u] = f[u]
  PROVE  Sum(g, I) = Sum(f, I) + c
<1> DEFINE R == I \ {t}
<1>1. /\ R \cup {t} = I /\ R \cap {t} = {} /\ \A u \in R : f[u] = g[u]
      /\ R \in SUBSET Time /\ {t} \in SUBSET Time
  OBVIOUS
<1> HIDE DEF R
<1>2. /\ Sum(f, R \cup {t}) = Sum(f, R) + Sum(f, {t})
      /\ Sum(g, R \cup {t}) = Sum(g, R) + Sum(g, {t})
  <2> DEFINE T == {t}
  <2>1. R \in SUBSET Time /\ T \in SUBSET Time /\ R \cap T = {}
    BY <1>1
  <2> HIDE DEF T
  <2>2. Sum(f, R \cup T) = Sum(f, R) + Sum(f, T)
    BY <2>1, SumSplit
  <2>3. Sum(g, R \cup T) = Sum(g, R) + Sum(g, T)
    BY <2>1, SumSplit
  <2>4. QED
    BY <2>2, <2>3 DEF T
<1>3. /\ Sum(f, I) = Sum(f, R) + Sum(f, {t})
      /\ Sum(g, I) = Sum(g, R) + Sum(g, {t})
  BY <1>1, <1>2
<1>4. Sum(f, R) = Sum(g, R)
  <2>1. R \in SUBSET Time /\ \A u \in R : f[u] = g[u]
    BY <1>1
  <2>2. QED
    BY <2>1, SumSame
<1>5. Sum(f, {t}) = f[t] /\ Sum(g, {t}) = g[t]
  BY SumOne
<1>6. Sum(f, R) \in Nat /\ f[t] \in Nat
  BY <1>1, SumType
<1>7. QED
  BY <1>3, <1>4, <1>5, <1>6

-----------------------------------------------------------------------------
(* The window.                                                             *)

(* What was accepted from time a to before time b.                         *)
Between(a, b) == Sum(accepted, {t \in Time : a <= t /\ t < b})

(* A bucket says what was accepted in its window and in the one before.  If*)
(* its own count is not 0, the last request accepted in it fitted beside at*)
(* least one second of the window before.                                  *)
CountsWindow(b) ==
  /\ b.windowStart <= moment
  /\ b.currentCost = Between(b.windowStart, b.windowStart + Window)
  /\ b.previousCost = Between(b.windowStart - Window, b.windowStart)
  /\ \A t \in Time : b.windowStart + Window <= t => accepted[t] = 0
  /\ b.currentCost = 0 \/ b.currentCost * Window + b.previousCost <= Limit * Window

BucketCounts ==
  IF bucket = NoBucket
    THEN \A t \in Time : moment - Window <= t => accepted[t] = 0
    ELSE CountsWindow(bucket)

(* Nothing is accepted in the future.                                      *)
FutureOpen == \A t \in Time : moment < t => accepted[t] = 0

(* The inductive invariant of the window.                                  *)
WindowInv == WindowTypeOK /\ FutureOpen /\ BucketCounts

(* The bounds of the window.                                               *)
LEMMA WindowLimits == Window \in Nat /\ Window > 0 /\ Limit \in Nat /\ Limit > 0 /\ MaxMoment \in Nat
  BY WindowAssumption DEF WindowAssumption

(* The fields of a bucket.                                                 *)
LEMMA BucketFields ==
  ASSUME NEW b \in Bucket
  PROVE  /\ b.currentCost \in Nat /\ b.currentCost <= Limit
         /\ b.previousCost \in Nat /\ b.previousCost <= Limit
         /\ b.windowStart \in Nat /\ b.windowStart \in Time
  BY WindowLimits DEF Bucket, Time

(* NoBucket is no bucket.                                                  *)
LEMMA NoBucketIsNone == NoBucket \notin Bucket
  BY BucketFields DEF NoBucket

(* Intervals of time.                                                      *)
LEMMA BetweenZero ==
  ASSUME WindowTypeOK, NEW a \in Int, NEW b \in Int,
         \A t \in Time : a <= t /\ t < b => accepted[t] = 0
  PROVE  Between(a, b) = 0
<1> DEFINE I == {t \in Time : a <= t /\ t < b}
<1>1. I \in SUBSET Time /\ \A t \in I : accepted[t] = 0
  OBVIOUS
<1>2. accepted \in [Time -> Nat]
  BY DEF WindowTypeOK
<1>3. Sum(accepted, I) = 0
  <2> HIDE DEF I
  <2>1. QED
    BY <1>1, <1>2, SumZero
<1>4. QED
  BY <1>3 DEF Between

(* What was accepted in an interval is a number.                           *)
LEMMA BetweenType ==
  ASSUME WindowTypeOK, NEW a \in Int, NEW b \in Int
  PROVE  Between(a, b) \in Nat
<1> DEFINE I == {t \in Time : a <= t /\ t < b}
<1>1. I \in SUBSET Time /\ accepted \in [Time -> Nat]
  BY DEF WindowTypeOK
<1>2. Sum(accepted, I) \in Nat
  <2> HIDE DEF I
  <2>1. QED
    BY <1>1, SumType
<1>3. QED
  BY <1>2 DEF Between

(* Times are integers.                                                     *)
LEMMA TimeIsInt == Time \subseteq Int
  BY WindowLimits DEF Time

(* Two intervals that meet.                                                *)
LEMMA BetweenMeets ==
  ASSUME WindowTypeOK, NEW a \in Int, NEW b \in Int, NEW c \in Int, a <= b, b <= c
  PROVE  Between(a, c) = Between(a, b) + Between(b, c)
<1> DEFINE I == {t \in Time : a <= t /\ t < b}
           J == {t \in Time : b <= t /\ t < c}
<1>1. I \in SUBSET Time /\ J \in SUBSET Time /\ accepted \in [Time -> Nat]
  BY DEF WindowTypeOK
<1>2. I \cap J = {} /\ {t \in Time : a <= t /\ t < c} = I \cup J
  <2>1. \A t \in Time : t \in Int
    BY TimeIsInt
  <2>2. I \cap J = {}
    BY <2>1
  <2>3. {t \in Time : a <= t /\ t < c} = I \cup J
    BY <2>1
  <2>4. QED
    BY <2>2, <2>3
<1>3. Sum(accepted, I \cup J) = Sum(accepted, I) + Sum(accepted, J)
  <2> HIDE DEF I, J
  <2>1. QED
    BY <1>1, <1>2, SumSplit
<1>4. QED
  BY <1>2, <1>3 DEF Between

(* The bucket a request finds counts its window, which is now.             *)
LEMMA RolledCounts ==
  ASSUME WindowInv
  PROVE  /\ Rolled \in Bucket /\ CountsWindow(Rolled)
         /\ moment < Rolled.windowStart + Window
<1>0. moment \in Time /\ moment \in Nat /\ moment <= MaxMoment
  BY WindowLimits DEF WindowInv, WindowTypeOK, Time
<1>1. CASE bucket # NoBucket /\ Elapsed < Window
  <2>1. Rolled = bucket /\ bucket \in Bucket
    <3>1. bucket \in Bucket
      BY <1>1 DEF WindowInv, WindowTypeOK
    <3>2. ~(Elapsed >= 2 * Window) /\ ~(Elapsed >= Window)
      BY <1>0, <1>1, <3>1, BucketFields, WindowLimits DEF Elapsed
    <3>3. QED
      BY <1>1, <3>1, <3>2 DEF Rolled
  <2>2. moment < bucket.windowStart + Window
    BY <1>0, <1>1, <2>1, BucketFields, WindowLimits DEF Elapsed
  <2>3. QED
    BY <1>1, <2>1, <2>2 DEF WindowInv, BucketCounts
<1>2. CASE bucket # NoBucket /\ Elapsed >= Window /\ Elapsed < 2 * Window
  <2> DEFINE ws == bucket.windowStart
             r == [currentCost |-> 0, previousCost |-> bucket.currentCost, windowStart |-> ws + Window]
  <2>1. bucket \in Bucket /\ CountsWindow(bucket)
    BY <1>2 DEF WindowInv, WindowTypeOK, BucketCounts
  <2>2. /\ ws \in Nat /\ bucket.currentCost \in 0 .. Limit
        /\ ws + Window <= moment /\ moment < ws + 2 * Window
    BY <1>0, <1>2, <2>1, BucketFields, WindowLimits DEF Elapsed
  <2>3. Rolled = r
    <3>1. ~(Elapsed >= 2 * Window)
      BY <1>0, <1>2, <2>2, WindowLimits DEF Elapsed
    <3>2. QED
      BY <1>2, <3>1 DEF Rolled
  <2>4. ws + Window \in Time
    BY <1>0, <2>2, WindowLimits DEF Time
  <2>5. r \in Bucket
    BY <2>2, <2>4, WindowLimits DEF Bucket
  <2>6. /\ r.windowStart = ws + Window /\ r.currentCost = 0
        /\ r.previousCost = bucket.currentCost
    OBVIOUS
  <2>7. \A t \in Time : ws + Window <= t => accepted[t] = 0
    BY <2>1 DEF CountsWindow
  <2>8. Between(ws + Window, (ws + Window) + Window) = 0
    BY <2>2, <2>7, BetweenZero, WindowLimits DEF WindowInv
  <2>9. Between((ws + Window) - Window, ws + Window) = bucket.currentCost
    <3>1. (ws + Window) - Window = ws
      BY <2>2, WindowLimits
    <3>2. QED
      BY <2>1, <3>1 DEF CountsWindow
  <2>10. \A t \in Time : (ws + Window) + Window <= t => accepted[t] = 0
    BY <2>2, <2>7, TimeIsInt, WindowLimits
  <2> HIDE DEF ws, r
  <2>11. CountsWindow(r)
    BY <2>2, <2>6, <2>8, <2>9, <2>10 DEF CountsWindow
  <2>12. moment < r.windowStart + Window
    BY <1>0, <2>2, <2>6, WindowLimits
  <2>13. QED
    BY <2>3, <2>5, <2>11, <2>12
<1>3. CASE bucket = NoBucket \/ Elapsed >= 2 * Window
  <2>1. Rolled = FreshBucket
    BY <1>3 DEF Rolled
  <2>2. /\ FreshBucket.windowStart = moment /\ FreshBucket.currentCost = 0
        /\ FreshBucket.previousCost = 0 /\ FreshBucket \in Bucket
    BY <1>0, WindowLimits DEF FreshBucket, Bucket
  <2>3. \A t \in Time : moment - Window <= t => accepted[t] = 0
    <3>1. CASE bucket = NoBucket
      BY <3>1 DEF WindowInv, BucketCounts
    <3>2. CASE bucket # NoBucket
      <4>1. bucket \in Bucket /\ CountsWindow(bucket)
        BY <3>2 DEF WindowInv, WindowTypeOK, BucketCounts
      <4>2. bucket.windowStart \in Nat /\ bucket.windowStart + Window <= moment - Window
        BY <1>0, <1>3, <3>2, <4>1, BucketFields, WindowLimits DEF Elapsed
      <4>3. QED
        BY <1>0, <4>1, <4>2, TimeIsInt, WindowLimits DEF CountsWindow
    <3>3. QED
      BY <3>1, <3>2
  <2>4. Between(moment - Window, moment) = 0
    BY <1>0, <2>3, BetweenZero, WindowLimits DEF WindowInv
  <2>5. Between(moment, moment + Window) = 0
    <3>1. \A t \in Time : moment <= t /\ t < moment + Window => accepted[t] = 0
      BY <1>0, <2>3, TimeIsInt, WindowLimits
    <3>2. QED
      BY <1>0, <3>1, BetweenZero, WindowLimits DEF WindowInv
  <2>6. \A t \in Time : moment + Window <= t => accepted[t] = 0
    BY <1>0, <2>3, TimeIsInt, WindowLimits
  <2>7. CountsWindow(FreshBucket)
    BY <1>0, <2>2, <2>4, <2>5, <2>6 DEF CountsWindow
  <2>8. QED
    BY <1>0, <2>1, <2>2, <2>7, WindowLimits
<1>4. QED
  <2>1. bucket # NoBucket => Elapsed \in Int
    BY <1>0, BucketFields DEF WindowInv, WindowTypeOK, Elapsed
  <2>2. QED
    BY <1>1, <1>2, <1>3, <2>1, WindowLimits

(* Nothing is accepted at first.                                           *)
LEMMA WindowInvInit == WindowInit => WindowInv
<1> SUFFICES ASSUME WindowInit PROVE WindowInv
  OBVIOUS
<1>1. accepted \in [Time -> Nat] /\ \A t \in Time : accepted[t] = 0
  BY DEF WindowInit
<1>2. WindowTypeOK
  BY <1>1, WindowLimits DEF WindowInit, WindowTypeOK, Time
<1>3. QED
  BY <1>1, <1>2 DEF WindowInit, WindowInv, FutureOpen, BucketCounts

(* A product is at least its factor; a factor may be dropped.              *)
LEMMA Products ==
  /\ \A a, k \in Nat : a * k \in Nat
  /\ \A a, k \in Nat : k > 0 => a <= a * k
  /\ \A a, b, k \in Nat : a <= b => a * k <= b * k /\ k * a <= k * b
  /\ \A a, b, k \in Nat : k > 0 /\ a * k <= b * k => a <= b
<1>1. ASSUME NEW a \in Nat, NEW k \in Nat PROVE a * k \in Nat
  BY <1>1
<1>2. ASSUME NEW a \in Nat, NEW k \in Nat, k > 0 PROVE a <= a * k
  BY <1>2
<1>3. ASSUME NEW a \in Nat, NEW b \in Nat, NEW k \in Nat, a <= b
      PROVE  a * k <= b * k /\ k * a <= k * b
  BY <1>3
<1>4. ASSUME NEW a \in Nat, NEW b \in Nat, NEW k \in Nat, k > 0, a * k <= b * k
      PROVE  a <= b
  BY <1>4
<1>5. QED
  BY <1>1, <1>2, <1>3, <1>4

(* What the estimate says of the counts, in whole numbers.                 *)
LEMMA Fits ==
  ASSUME NEW p \in Nat, NEW c \in Nat, NEW left \in Nat, left > 0,
         p * left + c * Window <= Limit * Window
  PROVE  c <= Limit /\ c * Window + p <= Limit * Window
<1>1. p <= p * left /\ p * left \in Nat /\ c * Window \in Nat /\ Limit * Window \in Nat
  BY Products, WindowLimits
<1>2. c * Window <= Limit * Window
  BY <1>1
<1>3. c <= Limit
  BY <1>2, Products, WindowLimits
<1>4. QED
  BY <1>1, <1>3

(* Now is within the window of the bucket a request finds.                 *)
LEMMA RolledTimes ==
  ASSUME WindowInv
  PROVE  /\ moment \in Time /\ moment \in Nat
         /\ moment - Rolled.windowStart \in Nat
         /\ Window - (moment - Rolled.windowStart) \in Nat
         /\ Window - (moment - Rolled.windowStart) > 0
<1>1. moment \in Time /\ moment \in Nat
  BY WindowLimits DEF WindowInv, WindowTypeOK, Time
<1>2. /\ Rolled.windowStart \in Nat /\ Rolled.windowStart <= moment
      /\ moment < Rolled.windowStart + Window
  BY RolledCounts, BucketFields DEF CountsWindow
<1>3. QED
  BY <1>1, <1>2, WindowLimits

(* An accepted cost is counted in the window of its time, and fits.        *)
LEMMA AcceptStep ==
  ASSUME WindowInv, NEW cost \in Cost, Accept(cost)
  PROVE  WindowInv'
<1>0. PICK r \in Bucket : r = Rolled
  BY RolledCounts
<1> DEFINE ws == r.windowStart
           left == Window - (moment - ws)
<1>1. /\ r \in Bucket /\ CountsWindow(r) /\ moment < ws + Window /\ ws <= moment
      /\ ws \in Nat /\ ws \in Time /\ r.currentCost \in Nat /\ r.previousCost \in Nat
      /\ r.previousCost <= Limit
  BY <1>0, RolledCounts, BucketFields DEF CountsWindow
<1>2. /\ moment \in Time /\ moment \in Nat /\ left \in Nat /\ left > 0
      /\ cost \in Nat /\ accepted \in [Time -> Nat]
  BY <1>0, RolledTimes, WindowAssumption DEF WindowAssumption, WindowInv, WindowTypeOK
<1>3. r.previousCost * left + (r.currentCost + cost) * Window <= Limit * Window
  <2>1. ~(r.previousCost * left + (r.currentCost + cost) * Window > Limit * Window)
    BY <1>0 DEF Accept, WouldLimit
  <2>2. /\ r.previousCost * left \in Nat /\ (r.currentCost + cost) * Window \in Nat
        /\ Limit * Window \in Nat
    BY <1>1, <1>2, Products, WindowLimits
  <2>3. QED
    BY <2>1, <2>2
<1>4. /\ bucket' = [r EXCEPT !.currentCost = r.currentCost + cost]
      /\ accepted' = [accepted EXCEPT ![moment] = @ + cost]
      /\ refusal' = NoRefusal /\ moment' = moment
  BY <1>0 DEF Accept
<1> HIDE DEF ws
<1>5. /\ r.currentCost + cost <= Limit
      /\ (r.currentCost + cost) * Window + r.previousCost <= Limit * Window
  BY <1>1, <1>2, <1>3, Fits
<1>6. /\ bucket' \in Bucket /\ bucket'.windowStart = ws
      /\ bucket'.currentCost = r.currentCost + cost /\ bucket'.previousCost = r.previousCost
  BY <1>1, <1>2, <1>4, <1>5, WindowLimits DEF Bucket, ws
<1>7. /\ accepted' \in [Time -> Nat] /\ accepted'[moment] = accepted[moment] + cost
      /\ \A t \in Time \ {moment} : accepted'[t] = accepted[t]
  BY <1>2, <1>4
<1>8. WindowTypeOK'
  BY <1>2, <1>4, <1>6, <1>7 DEF WindowTypeOK
<1>9. FutureOpen'
  BY <1>2, <1>4, <1>7, TimeIsInt DEF WindowInv, FutureOpen
<1>10. Between(ws, ws + Window)' = Between(ws, ws + Window) + cost
  <2> DEFINE I == {t \in Time : ws <= t /\ t < ws + Window}
  <2>1. I \in SUBSET Time /\ moment \in I
    BY <1>1, <1>2
  <2>2. Sum(accepted', I) = Sum(accepted, I) + cost
    <3> HIDE DEF I
    <3>1. \A u \in I \ {moment} : accepted'[u] = accepted[u]
      BY <1>7, <2>1
    <3>2. QED
      BY <1>2, <1>7, <2>1, <3>1, SumAdds
  <2>3. QED
    BY <2>2 DEF Between
<1>11. Between(ws - Window, ws)' = Between(ws - Window, ws)
  <2> DEFINE I == {t \in Time : ws - Window <= t /\ t < ws}
  <2>1. I \in SUBSET Time /\ moment \notin I
    BY <1>1, <1>2
  <2>2. Sum(accepted', I) = Sum(accepted, I)
    <3> HIDE DEF I
    <3>1. \A u \in I : accepted'[u] = accepted[u]
      BY <1>7, <2>1
    <3>2. QED
      BY <1>2, <1>7, <2>1, <3>1, SumSame
  <2>3. QED
    BY <2>2 DEF Between
<1>12. \A t \in Time : ws + Window <= t => accepted'[t] = 0
  BY <1>1, <1>2, <1>7, TimeIsInt, WindowLimits DEF CountsWindow, ws
<1>13. CountsWindow(bucket)'
  BY <1>1, <1>4, <1>5, <1>6, <1>10, <1>11, <1>12 DEF CountsWindow, ws
<1>14. BucketCounts'
  BY <1>6, <1>13, NoBucketIsNone DEF BucketCounts
<1>15. QED
  BY <1>8, <1>9, <1>14 DEF WindowInv

(* A refused request leaves a bucket that counts its window.               *)
LEMMA RefuseStep ==
  ASSUME WindowInv, NEW cost \in Cost, Refuse(cost)
  PROVE  WindowInv'
<1>1. /\ Rolled \in Bucket /\ CountsWindow(Rolled) /\ Rolled.windowStart \in Nat
  BY RolledCounts, BucketFields
<1>2. /\ bucket' = Rolled /\ moment' = moment /\ accepted' = accepted
      /\ refusal' = [cost |-> cost, retryAt |-> Rolled.windowStart + Window]
  BY DEF Refuse
<1>3. WindowTypeOK'
  BY <1>1, <1>2, WindowLimits DEF WindowInv, WindowTypeOK
<1>4. FutureOpen'
  BY <1>2 DEF WindowInv, FutureOpen
<1>5. CountsWindow(bucket)'
  BY <1>1, <1>2 DEF CountsWindow, Between
<1>6. BucketCounts'
  BY <1>1, <1>2, <1>5, NoBucketIsNone DEF BucketCounts
<1>7. QED
  BY <1>3, <1>4, <1>6 DEF WindowInv

(* The bucket that is swept counted nothing a request could still ask for. *)
LEMMA DropBucketStep ==
  ASSUME WindowInv, DropBucket
  PROVE  WindowInv'
<1>1. bucket \in Bucket /\ CountsWindow(bucket) /\ moment \in Nat
  BY WindowLimits DEF DropBucket, WindowInv, WindowTypeOK, BucketCounts, Time
<1>2. bucket.windowStart \in Nat /\ bucket.windowStart + Window <= moment - Window
  BY <1>1, BucketFields, WindowLimits DEF DropBucket, Elapsed
<1>3. \A t \in Time : moment - Window <= t => accepted[t] = 0
  BY <1>1, <1>2, TimeIsInt, WindowLimits DEF CountsWindow
<1>4. QED
  BY <1>3 DEF DropBucket, WindowInv, WindowTypeOK, FutureOpen, BucketCounts

(* Time passes.                                                            *)
LEMMA PassStep ==
  ASSUME WindowInv, Pass
  PROVE  WindowInv'
<1>1. /\ moment \in Nat /\ moment' = moment + 1 /\ moment' \in Time
      /\ bucket' = bucket /\ accepted' = accepted /\ refusal' = refusal
  BY WindowLimits DEF Pass, WindowInv, WindowTypeOK, Time
<1>2. WindowTypeOK'
  BY <1>1 DEF WindowInv, WindowTypeOK
<1>3. FutureOpen'
  BY <1>1, TimeIsInt DEF WindowInv, FutureOpen
<1>4. CASE bucket = NoBucket
  <2>1. \A t \in Time : moment' - Window <= t => accepted[t] = 0
    BY <1>1, <1>4, TimeIsInt, WindowLimits DEF WindowInv, BucketCounts
  <2>2. QED
    BY <1>1, <1>2, <1>3, <1>4, <2>1 DEF WindowInv, BucketCounts
<1>5. CASE bucket # NoBucket
  <2>1. bucket.windowStart <= moment'
    BY <1>1, <1>5, BucketFields DEF WindowInv, WindowTypeOK, BucketCounts, CountsWindow
  <2>2. CountsWindow(bucket)'
    BY <1>1, <1>5, <2>1 DEF WindowInv, BucketCounts, CountsWindow, Between
  <2>3. QED
    BY <1>1, <1>2, <1>3, <1>5, <2>2 DEF WindowInv, BucketCounts
<1>6. QED
  BY <1>4, <1>5

(* Every step of the window keeps its invariant.                           *)
LEMMA WindowInvStep == WindowInv /\ [WindowNext]_windowVars => WindowInv'
<1>1. CASE UNCHANGED windowVars
  <2>1. UNCHANGED <<moment, bucket, refusal, accepted>>
    BY <1>1 DEF windowVars
  <2>2. WindowInv => CountsWindow(bucket)' = CountsWindow(bucket)
    BY <2>1 DEF CountsWindow, Between
  <2>3. QED
    BY <2>1, <2>2 DEF WindowInv, WindowTypeOK, FutureOpen, BucketCounts
<1>2. QED
  BY <1>1, AcceptStep, RefuseStep, DropBucketStep, PassStep DEF WindowNext

(* What the last d seconds accepted is what an interval accepted.          *)
LEMMA AcceptedBetween ==
  ASSUME WindowInv, NEW d \in Nat
  PROVE  AcceptedIn(d) = Between(moment - d + 1, moment + 1)
<1>1. moment \in Int
  BY WindowLimits DEF WindowInv, WindowTypeOK, Time
<1>2. {t \in Time : moment - d < t /\ t <= moment}
        = {t \in Time : moment - d + 1 <= t /\ t < moment + 1}
  <2>1. \A t \in Time : t \in Int
    BY TimeIsInt
  <2>2. \A t \in Time : moment - d < t /\ t <= moment
                        <=> moment - d + 1 <= t /\ t < moment + 1
    BY <1>1, <2>1
  <2>3. QED
    BY <2>2
<1>3. QED
  BY <1>2, Zenon DEF AcceptedIn, Between, Sum

(* The bucket of a request and the last two windows.                       *)
LEMMA LastWindows ==
  ASSUME WindowInv
  PROVE  /\ AcceptedIn(Window) \in Nat
         /\ AcceptedIn(Window) <= Rolled.previousCost + Rolled.currentCost
         /\ AcceptedIn(2 * Window) \in Nat
         /\ Rolled.previousCost + Rolled.currentCost <= AcceptedIn(2 * Window)
<1>1. PICK r \in Bucket : r = Rolled
  BY RolledCounts
<1> DEFINE ws == r.windowStart
           m == moment
<1>2. /\ WindowTypeOK /\ m \in Nat /\ ws \in Nat /\ Window \in Nat /\ Window > 0
      /\ ws <= m /\ m < ws + Window
      /\ r.currentCost = Between(ws, ws + Window)
      /\ r.previousCost = Between(ws - Window, ws)
  BY <1>1, RolledCounts, RolledTimes, BucketFields, WindowLimits DEF CountsWindow, WindowInv
<1> HIDE DEF ws, m
<1>3. /\ m - Window + 1 \in Int /\ m + 1 \in Int /\ ws - Window \in Int /\ ws + Window \in Int
      /\ m - (2 * Window) + 1 \in Int
  BY <1>2
<1>4. Between(m + 1, ws + Window) = 0
  <2>1. \A t \in Time : m + 1 <= t => accepted[t] = 0
    BY <1>2, TimeIsInt DEF WindowInv, FutureOpen, m
  <2>2. QED
    BY <1>2, <1>3, <2>1, BetweenZero
<1>5. Between(ws, ws + Window) = Between(ws, m + 1) + Between(m + 1, ws + Window)
  BY <1>2, <1>3, BetweenMeets
<1>6. Between(ws - Window, ws)
        = Between(ws - Window, m - Window + 1) + Between(m - Window + 1, ws)
  BY <1>2, <1>3, BetweenMeets
<1>7. Between(m - Window + 1, m + 1) = Between(m - Window + 1, ws) + Between(ws, m + 1)
  BY <1>2, <1>3, BetweenMeets
<1>8. Between(m - (2 * Window) + 1, m + 1)
        = Between(m - (2 * Window) + 1, ws - Window) + Between(ws - Window, m + 1)
  BY <1>2, <1>3, BetweenMeets
<1>9. Between(ws - Window, m + 1) = Between(ws - Window, ws) + Between(ws, m + 1)
  BY <1>2, <1>3, BetweenMeets
<1>10. /\ Between(ws, m + 1) \in Nat /\ Between(ws - Window, m - Window + 1) \in Nat
       /\ Between(m - Window + 1, ws) \in Nat /\ Between(ws - Window, ws) \in Nat
       /\ Between(m - (2 * Window) + 1, ws - Window) \in Nat
  <2>1. \A a, b \in Int : Between(a, b) \in Nat
    BY <1>2, BetweenType
  <2>2. ws \in Int
    BY <1>2
  <2>3. QED
    BY <1>3, <2>1, <2>2
<1>11. /\ AcceptedIn(Window) = Between(m - Window + 1, m + 1)
       /\ AcceptedIn(2 * Window) = Between(m - (2 * Window) + 1, m + 1)
  <2>1. 2 * Window \in Nat
    BY <1>2
  <2>2. QED
    BY <1>2, <2>1, AcceptedBetween DEF m
<1>12. QED
  BY <1>1, <1>2, <1>4, <1>5, <1>6, <1>7, <1>8, <1>9, <1>10, <1>11

(* The bound of the estimate in whole numbers.                             *)
LEMMA BoundArithmetic ==
  ASSUME NEW w \in Nat, w > 0, NEW l \in Nat, NEW p \in Nat, p <= l, NEW c \in Nat,
         NEW a \in Nat, a <= p + c, c = 0 \/ c * w + p <= l * w
  PROVE  w * a <= l * (2 * w - 1)
<1>1. w * a <= w * (p + c)
  BY Products
<1>2. w * (p + c) = (w - 1) * p + p + c * w
  OBVIOUS
<1>3. (w - 1) * p <= (w - 1) * l
  BY Products
<1>4. l * (2 * w - 1) = (w - 1) * l + l * w
  OBVIOUS
<1>5. p + c * w <= l * w
  OBVIOUS
<1>6. /\ w * a \in Nat /\ c * w \in Nat /\ l * w \in Nat
      /\ (w - 1) * p \in Nat /\ (w - 1) * l \in Nat
  BY Products
<1>7. QED
  BY <1>1, <1>2, <1>3, <1>4, <1>5, <1>6

(* In no window, wherever it begins, is as much as twice the limit accepted.*)
LEMMA BoundHolds == WindowInv => SlidingBound
<1> SUFFICES ASSUME WindowInv PROVE SlidingBound
  OBVIOUS
<1>1. PICK r \in Bucket : r = Rolled
  BY RolledCounts
<1>2. /\ r.previousCost \in Nat /\ r.previousCost <= Limit /\ r.currentCost \in Nat
      /\ r.currentCost = 0 \/ r.currentCost * Window + r.previousCost <= Limit * Window
  BY <1>1, RolledCounts, BucketFields DEF CountsWindow
<1>3. AcceptedIn(Window) \in Nat /\ AcceptedIn(Window) <= r.previousCost + r.currentCost
  BY <1>1, LastWindows
<1>4. Window * AcceptedIn(Window) <= Limit * (2 * Window - 1)
  BY <1>2, <1>3, BoundArithmetic, WindowLimits
<1>5. QED
  BY <1>4 DEF SlidingBound

(* A refused request and what the last two windows accepted exceed the limit.*)
LEMMA RefusalHolds == WindowInv => NoFalseRefusal
<1> SUFFICES ASSUME WindowInv, NEW cost \in Cost, WouldLimit(cost)
             PROVE  AcceptedIn(2 * Window) + cost > Limit
  BY DEF NoFalseRefusal
<1>1. PICK r \in Bucket : r = Rolled
  BY RolledCounts
<1> DEFINE left == Window - (moment - r.windowStart)
           p == r.previousCost
           c == r.currentCost + cost
<1>2. /\ p \in Nat /\ r.currentCost \in Nat /\ cost \in Nat /\ c \in Nat
      /\ left \in Nat /\ left <= Window
  BY <1>1, RolledTimes, BucketFields, WindowAssumption, WindowLimits DEF WindowAssumption
<1>3. p * left + c * Window > Limit * Window
  BY <1>1 DEF WouldLimit
<1>4. p + r.currentCost <= AcceptedIn(2 * Window) /\ AcceptedIn(2 * Window) \in Nat
  BY <1>1, LastWindows
<1>5. c = r.currentCost + cost
  OBVIOUS
<1> HIDE DEF left, p, c
<1>6. p * left <= p * Window
  BY <1>2, Products, WindowLimits
<1>7. /\ p * left \in Nat /\ p * Window \in Nat /\ c * Window \in Nat /\ Limit * Window \in Nat
  BY <1>2, Products, WindowLimits
<1>8. (p + c) * Window > Limit * Window
  <2>1. (p + c) * Window = p * Window + c * Window
    BY <1>2, WindowLimits
  <2>2. QED
    BY <1>3, <1>6, <1>7, <2>1
<1>9. p + c > Limit
  <2>1. SUFFICES ASSUME p + c <= Limit PROVE FALSE
    BY <1>2, WindowLimits
  <2>2. (p + c) * Window <= Limit * Window
    BY <1>2, <2>1, Products, WindowLimits
  <2>3. p + c \in Nat /\ (p + c) * Window \in Nat
    BY <1>2, Products, WindowLimits
  <2>4. QED
    BY <1>7, <1>8, <2>2, <2>3
<1>10. QED
  BY <1>2, <1>4, <1>5, <1>9, WindowLimits

-----------------------------------------------------------------------------
(* The path of a query.                                                    *)

(* The components move one at a time, each under its own invariant.        *)
QueryPathInv == GovInv /\ SlotInv /\ StreamInv /\ WindowInv /\ PoolInv

(* A component that does not move keeps its invariant.                     *)
LEMMA OthersRest ==
  /\ GovInv /\ UNCHANGED govVars => GovInv'
  /\ SlotInv /\ UNCHANGED slotVars => SlotInv'
  /\ StreamInv /\ UNCHANGED streamVars => StreamInv'
  /\ WindowInv /\ UNCHANGED windowVars => WindowInv'
  /\ PoolInv /\ UNCHANGED poolVars => PoolInv'
  BY GovInvStep, SlotInvStep, StreamInvStep, WindowInvStep, PoolInvStep

(* Every step is one of the component that moves.                          *)
LEMMA QueryPathInvStep == QueryPathInv /\ [QueryPathNext]_queryPath => QueryPathInv'
<1> SUFFICES ASSUME QueryPathInv, [QueryPathNext]_queryPath PROVE QueryPathInv'
  OBVIOUS
<1>1. GovInv'
  BY GovInvStep, OthersRest DEF QueryPathInv, QueryPathNext, queryPath
<1>2. SlotInv'
  BY SlotInvStep, OthersRest DEF QueryPathInv, QueryPathNext, queryPath
<1>3. StreamInv'
  BY StreamInvStep, OthersRest DEF QueryPathInv, QueryPathNext, queryPath
<1>4. WindowInv'
  BY WindowInvStep, OthersRest DEF QueryPathInv, QueryPathNext, queryPath
<1>5. PoolInv'
  BY PoolInvStep, OthersRest DEF QueryPathInv, QueryPathNext, queryPath
<1>6. QED
  BY <1>1, <1>2, <1>3, <1>4, <1>5 DEF QueryPathInv

(* The invariants hold side by side in every reachable state.              *)
THEOREM QueryPathInvariance == QueryPathSpec => []QueryPathInv
<1>1. QueryPathInit => QueryPathInv
  BY GovInvInit, SlotInvInit, StreamInvInit, WindowInvInit, PoolInvInit
     DEF QueryPathInit, QueryPathInv
<1>2. QED
  BY <1>1, QueryPathInvStep, PTL DEF QueryPathSpec

(* Counters and queues say what is so: no release, eviction, failed start  *)
(* or crash makes one of them drift.                                       *)
THEOREM BooksStayExact == QueryPathSpec => []BooksExact
<1>1. QueryPathInv => BooksExact
  BY DEF QueryPathInv, GovInv, SlotInv, StreamInv, WindowInv, PoolInv, BooksExact
<1>2. QED
  BY <1>1, QueryPathInvariance, PTL

(* checkRateLimit lets less than twice the limit through in any window and *)
(* refuses nothing that the last two windows leave room for; no client has *)
(* more streams than its slots.                                            *)
THEOREM SharesStayKept == QueryPathSpec => []SharesKept
<1>1. QueryPathInv => SharesKept
  BY StreamShares, BoundHolds, RefusalHolds DEF QueryPathInv, SharesKept
<1>2. QED
  BY <1>1, QueryPathInvariance, PTL

(* However threads crash and requests are sent in the middle of a crash,   *)
(* every pending request has a thread or an event that will settle it, and *)
(* every place of the pool its own thread.                                 *)
THEOREM PoolStaysManned == QueryPathSpec => []PoolManned
<1>1. QueryPathInv => PoolManned
  BY PlacesManned DEF QueryPathInv, PoolInv, PoolManned
<1>2. QED
  BY <1>1, QueryPathInvariance, PTL

(* rejectPendingRequestsForWorker: a crash costs the requests of its own   *)
(* thread only.                                                            *)
THEOREM CrashesStayLocal == QueryPathSpec => OthersUnharmed
<1> DEFINE Own(r) == request[r] = "pending" /\ request'[r] = "rejected"
                       => message[r] = "answered" \/ thread[owner[r]] \in {"failed", "exiting"}
<1>1. QueryPathInv /\ [QueryPathNext]_queryPath => [\A r \in Request : Own(r)]_poolVars
  <2> SUFFICES ASSUME QueryPathInv, [QueryPathNext]_queryPath, NEW r \in Request
               PROVE  Own(r) \/ UNCHANGED poolVars
    OBVIOUS
  <2>1. [PoolNext]_poolVars /\ PoolTypeOK
    BY DEF QueryPathInv, PoolInv, QueryPathNext, queryPath
  <2>2. QED
    BY <2>1, RejectionsAreOwn
<1>2. QED
  BY <1>1, QueryPathInvariance, PTL DEF QueryPathSpec, OthersUnharmed
=============================================================================
