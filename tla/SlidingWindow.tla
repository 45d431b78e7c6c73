--------------------------- MODULE SlidingWindow ---------------------------
(***************************************************************************)
(* checkRateLimit of middleware/rateLimit.ts for one client and category:   *)
(* a sliding window of weighted costs, estimated from two counters.         *)
(*                                                                         *)
(* Time is counted in whole seconds, in which Retry-After is given.  The     *)
(* estimate is compared in fractions of Window, exactly: the rounding of     *)
(* floating-point numbers is left out.  In shadow mode the counters are the *)
(* same and a refused request is served all the same.                      *)
(***************************************************************************)
EXTENDS Integers, Functions

CONSTANTS
  Window,   (* windowMs of the category                                      *)
  Limit,    (* maxRequests times the multiplier of the client's tier         *)
  Cost,     (* the costs of requests                                         *)
  MaxMoment   (* bound of the clock                                            *)

ASSUME WindowAssumption ==
  /\ {Window, Limit} \subseteq Nat \ {0}
  /\ MaxMoment \in Nat
  /\ Cost \subseteq Nat \ {0}

VARIABLES
  moment,     (* the time                                                       *)
  bucket,   (* the RateLimitBucket, or NoBucket                              *)
  refusal,  (* the last refusal, until something is accepted                 *)
  accepted  (* the cost accepted at each time: history                       *)

windowVars == <<moment, bucket, refusal, accepted>>

Time   == 0 .. MaxMoment
Bucket == [currentCost : 0 .. Limit, previousCost : 0 .. Limit, windowStart : Time]

NoBucket  == [currentCost |-> 0, previousCost |-> 0, windowStart |-> -1]
NoRefusal == [cost |-> 0, retryAt |-> 0]

WindowTypeOK ==
  /\ moment \in Time
  /\ bucket \in Bucket \cup {NoBucket}
  /\ refusal \in [cost : Cost, retryAt : Nat] \cup {NoRefusal}
  /\ accepted \in [Time -> Nat]

WindowInit ==
  /\ moment = 0
  /\ bucket = NoBucket
  /\ refusal = NoRefusal
  /\ accepted = [t \in Time |-> 0]

-----------------------------------------------------------------------------
FreshBucket == [currentCost |-> 0, previousCost |-> 0, windowStart |-> moment]
Elapsed == moment - bucket.windowStart

(* Mutant of Rolled: the window before is forgotten.                       *)
RolledForgetful ==
  IF bucket = NoBucket \/ Elapsed >= 2 * Window THEN FreshBucket
  ELSE IF Elapsed >= Window THEN
    [FreshBucket EXCEPT !.windowStart = bucket.windowStart + Window]
  ELSE bucket

(* The bucket as a request finds it.                                       *)
Rolled ==
  IF bucket = NoBucket \/ Elapsed >= 2 * Window THEN FreshBucket
  ELSE IF Elapsed >= Window THEN
    [currentCost  |-> 0,
     previousCost |-> bucket.currentCost,
     windowStart  |-> bucket.windowStart + Window]
  ELSE bucket

(* The part of the previous window that the last Window seconds still cover *)
(* is estimated, the current one is known.                                 *)
WouldLimit(cost) ==
  LET inWindow == moment - Rolled.windowStart IN
  Rolled.previousCost * (Window - inWindow) + (Rolled.currentCost + cost) * Window
    > Limit * Window

Accept(cost) ==
  /\ ~WouldLimit(cost)
  /\ bucket' = [Rolled EXCEPT !.currentCost = @ + cost]
  /\ accepted' = [accepted EXCEPT ![moment] = @ + cost]
  /\ refusal' = NoRefusal
  /\ UNCHANGED moment

(* A refused request moves the window and is told when that one ends.       *)
Refuse(cost) ==
  /\ WouldLimit(cost)
  /\ bucket' = Rolled
  /\ refusal' = [cost |-> cost, retryAt |-> Rolled.windowStart + Window]
  /\ UNCHANGED <<moment, accepted>>

(* The timer of startRateLimitCleanup.                                      *)
DropBucket ==
  /\ bucket # NoBucket /\ Elapsed > 2 * Window
  /\ bucket' = NoBucket
  /\ UNCHANGED <<moment, refusal, accepted>>

Pass ==
  /\ moment < MaxMoment
  /\ moment' = moment + 1
  /\ UNCHANGED <<bucket, refusal, accepted>>

WindowNext ==
  \/ \E cost \in Cost : Accept(cost) \/ Refuse(cost)
  \/ DropBucket
  \/ Pass

WindowSpec == WindowInit /\ [][WindowNext]_windowVars

-----------------------------------------------------------------------------
(* Properties.                                                             *)

(* What was accepted in the last d seconds.                                *)
AcceptedIn(d) ==
  FoldFunctionOnSet(+, 0, accepted, {t \in Time : moment - d < t /\ t <= moment})

(* The estimate errs by less than one limit: in no Window seconds, wherever *)
(* they begin, is as much as twice the limit accepted.                     *)
SlidingBound == Window * AcceptedIn(Window) <= Limit * (2 * Window - 1)

(* Only recent traffic counts: a request is refused only if it and what was *)
(* accepted in the last two windows are together more than the limit,      *)
(* whatever was refused in between and whether the bucket was swept.       *)
NoFalseRefusal ==
  \A cost \in Cost : WouldLimit(cost) => AcceptedIn(2 * Window) + cost > Limit

(* The message of a refusal, "Try again in ... seconds": when that time has *)
(* passed and nothing was accepted since, the same request is served.       *)
RetryHonoured ==
  refusal # NoRefusal /\ refusal.cost <= Limit /\ moment >= refusal.retryAt
    => ~WouldLimit(refusal.cost)
=============================================================================
