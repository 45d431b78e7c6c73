----------------------------- MODULE WorkerPool -----------------------------
(***************************************************************************)
(* workers/workerPool.ts: sanitizing requests sent round-robin to worker    *)
(* threads, which are replaced when they crash.                             *)
(*                                                                         *)
(* Threads are numbered in the order they are spawned and never come back.   *)
(* The main thread learns of a crash by two events, "error" and "exit", and *)
(* may send requests to the thread before, between and after them.          *)
(***************************************************************************)
EXTENDS Integers, FiniteSets

CONSTANTS
  Request,    (* calls of sanitizeBatch with rows, each with an id of its own *)
  PoolSize,   (* WORKER_THREADS, above 0: the pool is enabled                *)
  MaxThread   (* bound of the threads ever spawned                           *)

ASSUME PoolAssumption ==
  /\ PoolSize \in Nat \ {0}
  /\ MaxThread \in Nat /\ MaxThread >= PoolSize

Index  == 0 .. PoolSize - 1
Thread == 1 .. MaxThread
None   == 0

VARIABLES
  workers,   (* the array of the pool: a thread at each index, or None       *)
  next,      (* nextWorker                                                   *)
  thread,    (* what has become of a thread                                  *)
  place,     (* the index a thread was spawned for                           *)
  request,   (* whether a request's promise is pending                       *)
  owner,     (* PendingRequest.worker                                        *)
  message,   (* where the request's message, or its answer, is               *)
  phase,     (* whether shutdown was called                                  *)
  awaited    (* the threads whose termination shutdown awaits                *)

threadVars == <<workers, thread, place, phase, awaited>>
poolVars == <<next, request, owner, message, threadVars>>

(* A thread is "failed" from its uncaught exception to the "error" event,   *)
(* "exiting" until the "exit" event with a code other than 0, "gone" then.  *)
Spawned  == {t \in Thread : thread[t] # "unborn"}
Dying    == {t \in Thread : thread[t] \in {"failed", "exiting"}}
Alive    == {t \in Thread : thread[t] = "alive"}
PendingOf(t) == {r \in Request : request[r] = "pending" /\ owner[r] = t}

PoolTypeOK ==
  /\ workers \in [Index -> Thread \cup {None}]
  /\ next \in Index
  /\ thread \in [Thread -> {"unborn", "alive", "failed", "exiting", "gone"}]
  /\ place \in [Thread -> Index]
  /\ request \in [Request -> {"new", "pending", "resolved", "rejected"}]
  /\ owner \in [Request -> Thread \cup {None}]
  /\ message \in [Request -> {"none", "sent", "answered"}]
  /\ phase \in {"up", "stopping", "down"}
  /\ awaited \in SUBSET Thread

PoolInit ==
  /\ workers = [i \in Index |-> i + 1]
  /\ next = 0
  /\ thread = [t \in Thread |-> IF t <= PoolSize THEN "alive" ELSE "unborn"]
  /\ request = [r \in Request |-> "new"]
  /\ owner = [r \in Request |-> None]
  /\ message = [r \in Request |-> "none"]
  /\ place = [t \in Thread |-> IF t <= PoolSize THEN t - 1 ELSE 0]
  /\ phase = "up"
  /\ awaited = {}

-----------------------------------------------------------------------------
(* sanitizeBatch.  A message to a thread that is dying is never read.       *)
Send(r) ==
  /\ request[r] = "new"
  /\ workers[next] # None
  /\ request' = [request EXCEPT ![r] = "pending"]
  /\ owner' = [owner EXCEPT ![r] = workers[next]]
  /\ message' = [message EXCEPT ![r] = "sent"]
  /\ next' = (next + 1) % PoolSize
  /\ UNCHANGED threadVars

(* After a shutdown the array is empty, or has holes when a thread spawned  *)
(* since was replaced: posting to a hole throws, which rejects the promise. *)
SendRefused(r) ==
  /\ request[r] = "new"
  /\ workers[next] = None
  /\ request' = [request EXCEPT ![r] = "rejected"]
  /\ next' = IF \A i \in Index : workers[i] = None THEN next ELSE (next + 1) % PoolSize
  /\ UNCHANGED <<owner, message, threadVars>>

(* The worker sanitizes the rows and posts the answer, rows or an error.    *)
Answer(r) ==
  /\ message[r] = "sent"
  /\ thread[owner[r]] = "alive"
  /\ message' = [message EXCEPT ![r] = "answered"]
  /\ UNCHANGED <<next, request, owner, threadVars>>

(* Mutant of Receive: an error in answer to a request is not passed on.     *)
ReceiveSwallows(r, outcome) ==
  /\ message[r] = "answered"
  /\ message' = [message EXCEPT ![r] = "none"]
  /\ request' = IF request[r] = "pending" /\ outcome = "resolved"
                  THEN [request EXCEPT ![r] = outcome] ELSE request
  /\ UNCHANGED <<next, owner, threadVars>>

(* The "message" event: an answer to a request that is not pending any more *)
(* is dropped.                                                             *)
Receive(r, outcome) ==
  /\ message[r] = "answered"
  /\ message' = [message EXCEPT ![r] = "none"]
  /\ request' = IF request[r] = "pending" THEN [request EXCEPT ![r] = outcome] ELSE request
  /\ UNCHANGED <<next, owner, threadVars>>

-----------------------------------------------------------------------------
(* Crashes and shutdown.  There must be a number left for the replacement   *)
(* of every thread that dies.                                              *)
CanReplace(dying) == Cardinality(Spawned) + Cardinality(Dying \cup dying) <= MaxThread

(* An uncaught exception.                                                  *)
Throw(t) ==
  /\ thread[t] = "alive" /\ CanReplace({t})
  /\ thread' = [thread EXCEPT ![t] = "failed"]
  /\ UNCHANGED <<next, request, owner, message, workers, place, phase, awaited>>

(* Mutant of Rejected: a crash rejects the requests of all workers.         *)
RejectedAll(t) ==
  [r \in Request |-> IF request[r] = "pending" THEN "rejected" ELSE request[r]]

(* rejectPendingRequestsForWorker.                                         *)
Rejected(t) ==
  [r \in Request |-> IF r \in PendingOf(t) THEN "rejected" ELSE request[r]]

(* The "error" event.                                                      *)
ErrorEvent(t) ==
  /\ thread[t] = "failed"
  /\ request' = Rejected(t)
  /\ thread' = [thread EXCEPT ![t] = "exiting"]
  /\ UNCHANGED <<next, owner, message, workers, place, phase, awaited>>

(* spawnWorker in the place of t.                                          *)
Replace(t) ==
  LET new == Cardinality(Spawned) + 1 IN
  /\ thread' = [thread EXCEPT ![t] = "gone", ![new] = "alive"]
  /\ place' = [place EXCEPT ![new] = place[t]]
  /\ workers' = [workers EXCEPT ![place[t]] = new]

(* Messages to the thread and answers that have not arrived are lost.       *)
Lost(t) == [r \in Request |-> IF owner[r] = t THEN "none" ELSE message[r]]

(* Mutant of ExitEvent: what was sent after the error is not rejected.      *)
ExitEventSilent(t) ==
  /\ thread[t] = "exiting"
  /\ message' = Lost(t)
  /\ Replace(t)
  /\ UNCHANGED <<next, request, owner, phase, awaited>>
(* The "exit" event; a terminated thread exits with code 1, like a crashed  *)
(* one.                                                                    *)
ExitEvent(t) ==
  /\ thread[t] = "exiting"
  /\ request' = Rejected(t)
  /\ message' = Lost(t)
  /\ Replace(t)
  /\ UNCHANGED <<next, owner, phase, awaited>>

(* shutdown, up to its await.                                              *)
Shutdown ==
  /\ phase = "up" /\ CanReplace(Alive)
  /\ phase' = "stopping"
  /\ awaited' = {workers[i] : i \in Index}
  /\ thread' = [t \in Thread |-> IF t \in Alive THEN "exiting" ELSE thread[t]]
  /\ UNCHANGED <<next, request, owner, message, workers, place>>

(* Every terminate() has settled.                                          *)
ShutDown ==
  /\ phase = "stopping"
  /\ \A t \in awaited : thread[t] = "gone"
  /\ phase' = "down"
  /\ workers' = [i \in Index |-> None]
  /\ UNCHANGED <<next, request, owner, message, thread, place, awaited>>

Settle ==
  \/ \E r \in Request : Answer(r) \/ \E outcome \in {"resolved", "rejected"} : Receive(r, outcome)
  \/ \E t \in Thread : ErrorEvent(t) \/ ExitEvent(t)

PoolNext ==
  \/ \E r \in Request : Send(r) \/ SendRefused(r)
  \/ \E t \in Thread : Throw(t)
  \/ Shutdown \/ ShutDown
  \/ Settle

(* A worker that does not die reads its messages, and events are delivered. *)
PoolFairness == WF_poolVars(Settle)

PoolSpec == PoolInit /\ [][PoolNext]_poolVars /\ PoolFairness

-----------------------------------------------------------------------------
(* Properties.                                                             *)

(* Somebody can still settle every pending promise: its thread lives, or an *)
(* event of its death is still to come.  A request sent between the "error" *)
(* and the "exit" event of its thread is the hard case.                    *)
NobodyForgotten ==
  \A r \in Request :
    request[r] = "pending" => owner[r] \in Alive \cup Dying

(* Crashes never shrink the pool or leave a thread in two places: until it  *)
(* is shut down every place has a thread of its own, alive or about to be   *)
(* replaced, and there is no other.                                        *)
EveryPlaceManned ==
  phase # "down" =>
    /\ {workers[i] : i \in Index} = Alive \cup Dying
    /\ \A i, j \in Index : workers[i] = workers[j] => i = j

(* A crash costs the requests of the crashed thread and of no other: a      *)
(* request is rejected by its own answer or by the death of its own thread. *)
OthersUnharmed ==
  [][\A r \in Request :
       request[r] = "pending" /\ request'[r] = "rejected"
         => message[r] = "answered" \/ thread[owner[r]] \in {"failed", "exiting"}]_poolVars

(* Every request is answered or rejected, so that its caller can fall back. *)
EverythingSettles ==
  \A r \in Request : request[r] = "pending" ~> request[r] # "pending"

(* "Shut down all workers": when shutdown is over, no thread runs.          *)
NobodyLeftRunning == phase = "down" => Alive = {}
=============================================================================
