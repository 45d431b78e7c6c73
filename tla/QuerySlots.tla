----------------------------- MODULE QuerySlots -----------------------------
(***************************************************************************)
(* The in-flight slots of one client's queries (middleware/rateLimit.ts).   *)
(*                                                                         *)
(* queryInFlightStore maps a client to one entry that counts its queries.   *)
(* An entry nobody has touched for StaleTtl is taken for a leak and evicted, *)
(* although its queries may only be slow; each acquisition is tagged with    *)
(* the generation of its entry, so that their releases come to nothing.     *)
(*                                                                         *)
(* Everything between two events runs without an await, so each operation   *)
(* is one action.  now is Date.now(), taken to be monotonic.  The mode is   *)
(* "enforce"; in shadow mode nobody is refused.  Clients share nothing but  *)
(* the counter of generations, so one is enough.                            *)
(***************************************************************************)
EXTENDS Integers, FiniteSets

CONSTANTS
  Query,         (* requests of the client that may run at the same time     *)
  MaxInFlight,   (* queryConcurrency.*MaxInFlight, at least 1                *)
  StaleTtl,      (* queryConcurrency.staleEntryTtlMs                         *)
  MaxTime,       (* bound of the clock                                       *)
  MaxGeneration  (* bound of queryGenerationCounter                          *)

ASSUME QueryAssumption == IsFiniteSet(Query)
ASSUME SlotAssumption ==
  /\ MaxInFlight \in Nat \ {0}
  /\ {StaleTtl, MaxTime, MaxGeneration} \subseteq Nat

VARIABLES
  now,          (* the time                                                  *)
  entry,        (* the client's QueryInFlightEntry                           *)
  generations,  (* queryGenerationCounter                                    *)
  held,         (* the generation a query's release is tagged with, or 0     *)
  since         (* when the query was let in: history, read by no action     *)

slotVars == <<now, entry, generations, held, since>>

Entry == [count : Nat, updatedAt : Nat, generation : Nat]

(* Generations start at 1 and an entry is deleted when its count drops to 0.*)
NoEntry == [count |-> 0, updatedAt |-> 0, generation |-> 0]

InFlight == {q \in Query : held[q] # 0}
Counted  == {q \in InFlight : held[q] = entry.generation}
Young    == {q \in InFlight : now - since[q] <= StaleTtl}

SlotTypeOK ==
  /\ now \in Nat
  /\ entry \in Entry
  /\ entry.count = 0 => entry = NoEntry
  /\ generations \in Nat
  /\ entry.generation \in 0 .. generations
  /\ held \in [Query -> 0 .. generations]
  /\ since \in [Query -> Nat]

SlotInit ==
  /\ now = 0
  /\ entry = NoEntry
  /\ generations = 0
  /\ held = [q \in Query |-> 0]
  /\ since = [q \in Query |-> 0]

-----------------------------------------------------------------------------
(* acquireQueryConcurrencySlot.  A request that is refused meets a fresh,   *)
(* full entry and changes nothing.                                         *)

Stale == now - entry.updatedAt > StaleTtl

(* Mutant of Acquire: a slot added to an entry does not renew it.           *)
AcquireUntouched(q) ==
  /\ held[q] = 0
  /\ \/ /\ entry # NoEntry /\ ~Stale
        /\ entry.count < MaxInFlight
        /\ entry' = [entry EXCEPT !.count = @ + 1]
        /\ held' = [held EXCEPT ![q] = entry.generation]
        /\ UNCHANGED generations
     \/ /\ entry = NoEntry \/ Stale
        /\ generations < MaxGeneration
        /\ generations' = generations + 1
        /\ entry' = [count |-> 1, updatedAt |-> now, generation |-> generations']
        /\ held' = [held EXCEPT ![q] = generations']
  /\ since' = [since EXCEPT ![q] = now]
  /\ UNCHANGED now

Join(q) ==
  /\ entry # NoEntry /\ ~Stale
  /\ entry.count < MaxInFlight
  /\ entry' = [entry EXCEPT !.count = @ + 1, !.updatedAt = now]
  /\ held' = [held EXCEPT ![q] = entry.generation]
  /\ UNCHANGED generations

(* The first query, or the first since the entry became stale.              *)
Begin(q) ==
  /\ entry = NoEntry \/ Stale
  /\ generations < MaxGeneration
  /\ generations' = generations + 1
  /\ entry' = [count |-> 1, updatedAt |-> now, generation |-> generations']
  /\ held' = [held EXCEPT ![q] = generations']

Acquire(q) ==
  /\ held[q] = 0
  /\ Join(q) \/ Begin(q)
  /\ since' = [since EXCEPT ![q] = now]
  /\ UNCHANGED now

-----------------------------------------------------------------------------
(* Mutant of ReleaseSlot: the generation is not compared.                  *)
ReleaseUntagged(q) ==
  /\ held[q] # 0
  /\ held' = [held EXCEPT ![q] = 0]
  /\ entry' = IF entry.count <= 1 THEN NoEntry
              ELSE [entry EXCEPT !.count = @ - 1, !.updatedAt = now]
  /\ UNCHANGED <<now, generations, since>>
(* The response ends ("finish" or "close", the first of them).  A query     *)
(* whose entry was evicted leaves the present one alone.                    *)
ReleaseSlot(q) ==
  /\ held[q] # 0
  /\ held' = [held EXCEPT ![q] = 0]
  /\ entry' = IF entry.generation # held[q] THEN entry
              ELSE IF entry.count = 1 THEN NoEntry
              ELSE [entry EXCEPT !.count = @ - 1, !.updatedAt = now]
  /\ UNCHANGED <<now, generations, since>>

(* The timer of startRateLimitCleanup.                                      *)
Sweep ==
  /\ entry # NoEntry /\ Stale
  /\ entry' = NoEntry
  /\ UNCHANGED <<now, generations, held, since>>

Tick ==
  /\ now < MaxTime
  /\ now' = now + 1
  /\ UNCHANGED <<entry, generations, held, since>>

SlotNext ==
  \/ \E q \in Query : Acquire(q) \/ ReleaseSlot(q)
  \/ Sweep
  \/ Tick

SlotSpec == SlotInit /\ [][SlotNext]_slotVars

-----------------------------------------------------------------------------
(* Properties.                                                             *)

(* The entry counts exactly the queries that were let in under it and still *)
(* run: a release that comes after its entry was evicted, or after another  *)
(* took its place, neither frees nor takes a slot.                         *)
CountExact == entry.count = Cardinality(Counted)

(* Eviction forgives only slow queries: of those that have run for no       *)
(* longer than StaleTtl there are never more than MaxInFlight, whichever    *)
(* entries came and went in between.                                       *)
YoungQueriesLimited == Cardinality(Young) <= MaxInFlight
=============================================================================
