------------------------------ MODULE MCQueryPath ------------------------------
(***************************************************************************)
(* What guards the queries of the server, side by side: the governor, the  *)
(* slots of a client's queries and of its event streams, the sliding       *)
(* window, and the pool of sanitizing workers. They share no state, so     *)
(* every behaviour moves one of them and leaves the others as they start.  *)
(***************************************************************************)
EXTENDS QueryGovernor, QuerySlots, StreamSlots, SlidingWindow, WorkerPool

VARIABLE moving             \* the component that moves

queryPath == <<govVars, slotVars, streamVars, windowVars, poolVars, moving>>

QueryPathInit ==
    /\ moving \in {"governor", "slots", "streams", "window", "pool"}
    /\ GovInit /\ SlotInit /\ StreamInit /\ WindowInit /\ PoolInit

QueryPathNext ==
    \/ moving = "governor" /\ GovNext
       /\ UNCHANGED <<slotVars, streamVars, windowVars, poolVars, moving>>
    \/ moving = "slots" /\ SlotNext
       /\ UNCHANGED <<govVars, streamVars, windowVars, poolVars, moving>>
    \/ moving = "streams" /\ StreamNext
       /\ UNCHANGED <<govVars, slotVars, windowVars, poolVars, moving>>
    \/ moving = "window" /\ WindowNext
       /\ UNCHANGED <<govVars, slotVars, streamVars, poolVars, moving>>
    \/ moving = "pool" /\ PoolNext
       /\ UNCHANGED <<govVars, slotVars, streamVars, windowVars, moving>>

\* The fairness of the components, for the one that moves.
QueryPathFairness ==
    /\ \A c \in Caller : /\ WF_govVars(moving = "governor" /\ Finish(c))
                         /\ WF_govVars(moving = "governor" /\ Resume(c))
    /\ \A s \in Stream : WF_streamVars(moving = "streams" /\ Attach(s))
    /\ WF_poolVars(moving = "pool" /\ Settle)

QueryPathSpec == QueryPathInit /\ [][QueryPathNext]_queryPath /\ QueryPathFairness

-----------------------------------------------------------------------------
\* Every count and every queue says what is so: the typing of the components, the
\* queue of the governor, its counter and those of the two kinds of slots.
BooksExact ==
    /\ GovTypeOK /\ SlotTypeOK /\ StreamTypeOK /\ WindowTypeOK /\ PoolTypeOK
    /\ WaitingIsQueued /\ CounterExact /\ CountExact /\ SlotsAddUp

\* No client has more than its share: of streams, and of requests within a window;
\* what the window refuses it would refuse by its own count.
SharesKept == StreamsLimited /\ SlidingBound /\ NoFalseRefusal

\* No request waits for a worker that will not answer and no place of the pool
\* is left without a thread.
PoolManned == NobodyForgotten /\ EveryPlaceManned
=============================================================================
