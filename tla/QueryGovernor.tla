---------------------------- MODULE QueryGovernor ----------------------------
(***************************************************************************)
(* QueryGovernor: a semaphore of MaxConcurrent slots in front of            *)
(* ClickHouse, with a bounded queue of two priority lanes.                  *)
(*                                                                         *)
(* A caller runs one query at a time.  A step is the code between two       *)
(* awaits of execute: a queued entry that dequeue resolves goes on in a     *)
(* microtask of its own, and other code may run before it.                 *)
(***************************************************************************)
EXTENDS Integers, FiniteSets, SequencesExt

CONSTANTS
  Caller,         (* code that awaits execute, one query at a time            *)
  MaxConcurrent,  (* MAX_CONCURRENT_QUERIES                                   *)
  MaxQueue,       (* QUERY_QUEUE_MAX                                          *)
  MaxHigh         (* maxConsecutiveHighPriority                               *)

ASSUME CallerAssumption == IsFiniteSet(Caller)
ASSUME LimitAssumption == {MaxConcurrent, MaxQueue, MaxHigh} \subseteq Nat

VARIABLES
  state,    (* where the caller's query is                                    *)
  lane,     (* the priority of the caller's query                             *)
  queue,    (* callers whose entries wait, in order of arrival                *)
  running,  (* the counter the limit is compared with                         *)
  streak    (* consecutiveHighPriority, which matters up to MaxHigh           *)

govVars == <<state, lane, queue, running, streak>>

Lanes == {"high", "normal"}

Running == {c \in Caller : state[c] = "running"}
Woken   == {c \in Caller : state[c] = "woken"}
Waiting == {c \in Caller : state[c] = "queued"}

GovTypeOK ==
  /\ state \in [Caller -> {"idle", "queued", "woken", "running"}]
  /\ lane \in [Caller -> Lanes]
  /\ queue \in Seq(Caller)
  /\ running \in Nat
  /\ streak \in 0 .. MaxHigh

GovInit ==
  /\ state = [c \in Caller |-> "idle"]
  /\ lane = [c \in Caller |-> "normal"]
  /\ queue = <<>>
  /\ running = 0
  /\ streak = 0

-----------------------------------------------------------------------------
(* execute, up to its first await.  A query that finds every slot taken and *)
(* the queue full is refused with a 503, which changes nothing.            *)

Start(c, priority) ==
  /\ state[c] = "idle"
  /\ running < MaxConcurrent
  /\ running' = running + 1
  /\ state' = [state EXCEPT ![c] = "running"]
  /\ lane' = [lane EXCEPT ![c] = priority]
  /\ UNCHANGED <<queue, streak>>

Enqueue(c, priority) ==
  /\ state[c] = "idle"
  /\ running >= MaxConcurrent
  /\ Len(queue) < MaxQueue
  /\ queue' = Append(queue, c)
  /\ state' = [state EXCEPT ![c] = "queued"]
  /\ lane' = [lane EXCEPT ![c] = priority]
  /\ UNCHANGED <<running, streak>>

-----------------------------------------------------------------------------
(* dequeue.                                                                *)

Entries(priority) == {i \in 1 .. Len(queue) : lane[queue[i]] = priority}

(* Mutant of NextLane: the high lane always goes first.                    *)
NextLaneHigh == IF Entries("high") # {} THEN "high" ELSE "normal"

(* The high lane goes first unless it has had MaxHigh turns in a row and    *)
(* somebody waits in the other.                                            *)
NextLane ==
  IF \/ Entries("high") = {}
     \/ streak >= MaxHigh /\ Entries("normal") # {}
    THEN "normal"
    ELSE "high"

CountStreak ==
  streak' = IF NextLane = "normal" THEN 0
            ELSE IF streak < MaxHigh THEN streak + 1 ELSE MaxHigh

(* The oldest entry of that lane.                                          *)
Oldest(i) ==
  /\ i \in Entries(NextLane)
  /\ \A j \in Entries(NextLane) : i <= j

(* The i-th entry leaves the queue and is resolved, as c's query ends.      *)
Release(c, i) ==
  /\ Oldest(i)
  /\ state' = [state EXCEPT ![c] = "idle", ![queue[i]] = "woken"]
  /\ queue' = RemoveAt(queue, i)
  /\ CountStreak

-----------------------------------------------------------------------------
(* Mutant of Finish: nobody is resolved.                                   *)
FinishSilently(c) ==
  /\ state[c] = "running"
  /\ running' = running - 1
  /\ state' = [state EXCEPT ![c] = "idle"]
  /\ UNCHANGED <<lane, queue, streak>>
(* The query settles or times out: the finally block gives its slot back    *)
(* and resolves the next entry, if there is one.                           *)
Finish(c) ==
  /\ state[c] = "running"
  /\ running' = running - 1
  /\ \/ /\ queue = <<>>
        /\ state' = [state EXCEPT ![c] = "idle"]
        /\ UNCHANGED <<queue, streak>>
     \/ \E i \in 1 .. Len(queue) : Release(c, i)
  /\ UNCHANGED lane

(* A resolved entry takes its slot.                                        *)
Resume(c) ==
  /\ state[c] = "woken"
  /\ running' = running + 1
  /\ state' = [state EXCEPT ![c] = "running"]
  /\ UNCHANGED <<lane, queue, streak>>

GovNext ==
  \E c \in Caller :
    \/ \E priority \in Lanes : Start(c, priority) \/ Enqueue(c, priority)
    \/ Finish(c)
    \/ Resume(c)

(* A query settles or its timeout fires, and microtasks run.                *)
GovFairness == \A c \in Caller : WF_govVars(Finish(c)) /\ WF_govVars(Resume(c))

GovSpec == GovInit /\ [][GovNext]_govVars /\ GovFairness

-----------------------------------------------------------------------------
(* Properties.                                                             *)

(* No slot is left idle while queries wait: whenever somebody is queued,    *)
(* every slot is taken or promised to an entry that dequeue has resolved.   *)
NoIdleSlot == queue # <<>> => running + Cardinality(Woken) >= MaxConcurrent

(* Nobody waits without an entry, or twice: a lost entry would be a promise *)
(* that never settles, a second one a slot released for nobody.            *)
WaitingIsQueued ==
  /\ Waiting = {queue[i] : i \in 1 .. Len(queue)}
  /\ \A i, j \in 1 .. Len(queue) : queue[i] = queue[j] => i = j

(* The counter execute compares with the limit is the number of queries     *)
(* being run, however releases, resumptions and newcomers interleave.      *)
CounterExact == running = Cardinality(Running)

(* No query waits for ever, whatever its priority: dequeue lets the normal  *)
(* lane in after MaxHigh turns and is FIFO within a lane.                   *)
NoStarvation ==
  \A c \in Caller : state[c] = "queued" ~> state[c] = "running"

(* The header's promise: never more than MAX_CONCURRENT_QUERIES at once.    *)
ConcurrencyLimited == running <= MaxConcurrent
=============================================================================
