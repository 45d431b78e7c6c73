---------------------------- MODULE StreamSlots ----------------------------
(***************************************************************************)
(* The slots of one client's event streams: acquireStreamSlot of            *)
(* middleware/rateLimit.ts as syncEvents of server.ts uses it.              *)
(*                                                                         *)
(* syncEvents takes a slot, awaits the first full state and only then        *)
(* registers the handler of "close" that gives the slot back.  The client    *)
(* may leave, and the await may be rejected, in between.                    *)
(***************************************************************************)
EXTENDS Integers, FiniteSets

CONSTANTS
  Stream,      (* requests for /sync/events of the client                    *)
  MaxStreams   (* streamConcurrency.*MaxInFlight, at least 1                 *)

ASSUME StreamAssumption == IsFiniteSet(Stream) /\ MaxStreams \in Nat \ {0}

VARIABLES
  active,     (* the client's number in streamInFlightStore                  *)
  stage,      (* where syncEvents is                                         *)
  connected   (* streams whose client is there                               *)

streamVars == <<active, stage, connected>>

(* Streams that took a slot and have not given it back.                    *)
Holding == {s \in Stream : stage[s] # "closed"}

StreamTypeOK ==
  /\ active \in Nat
  /\ stage \in [Stream -> {"closed", "starting", "open", "failed"}]
  /\ connected \in SUBSET Holding

StreamInit ==
  /\ active = 0
  /\ stage = [s \in Stream |-> "closed"]
  /\ connected = {}

-----------------------------------------------------------------------------
(* The slot is taken and sendFullState awaited.  A refused request, 429,    *)
(* changes nothing.                                                        *)
Open(s) ==
  /\ stage[s] = "closed"
  /\ active < MaxStreams
  /\ active' = active + 1
  /\ stage' = [stage EXCEPT ![s] = "starting"]
  /\ connected' = connected \cup {s}

(* The state is sent: the listener, the heartbeat and the close handler are *)
(* installed, whether the client is still there or not.                    *)
Attach(s) ==
  /\ stage[s] = "starting"
  /\ stage' = [stage EXCEPT ![s] = "open"]
  /\ UNCHANGED <<active, connected>>

(* getSyncStatus is rejected: the headers are sent, so the catch block only *)
(* logs, and the response stays open.                                      *)
Fail(s) ==
  /\ stage[s] = "starting"
  /\ stage' = [stage EXCEPT ![s] = "failed"]
  /\ UNCHANGED <<active, connected>>

(* The client leaves: the close handler, if there is one by now, gives the  *)
(* slot back.                                                              *)
Leave(s) ==
  /\ s \in connected
  /\ connected' = connected \ {s}
  /\ IF stage[s] = "open"
       THEN /\ active' = active - 1
            /\ stage' = [stage EXCEPT ![s] = "closed"]
       ELSE UNCHANGED <<active, stage>>

StreamNext == \E s \in Stream : Open(s) \/ Attach(s) \/ Fail(s) \/ Leave(s)

(* An await that is not rejected settles.                                  *)
StreamFairness == \A s \in Stream : WF_streamVars(Attach(s))

StreamSpec == StreamInit /\ [][StreamNext]_streamVars /\ StreamFairness

-----------------------------------------------------------------------------
(* Properties.                                                             *)

(* The number in the store is that of the streams that owe a slot, however  *)
(* they ended: no slot is counted twice or given back twice.               *)
SlotsAddUp == active = Cardinality(Holding)

(* No client has more live streams than its limit.                         *)
StreamsLimited == Cardinality(connected) <= MaxStreams

(* What the message of a refusal promises, "Close an existing stream and    *)
(* retry": a stream whose client is gone gives its slot back.              *)
SlotsComeBack == \A s \in Stream : s \notin connected ~> stage[s] = "closed"
=============================================================================
