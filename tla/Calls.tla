-------------------------------- MODULE Calls --------------------------------
(***************************************************************************)
(* What DucklingClient.query promises its caller, whatever happens to the  *)
(* connection underneath: every call ends exactly once, the statement runs *)
(* at most once on the server, and a call that ends with rows ends with    *)
(* rows of its own statement.  A call that failed may still have run.      *)
(***************************************************************************)
EXTENDS Naturals

CONSTANT Call               \* calls of query(), each made at most once

VARIABLES
    outcome,                \* [Call -> {"idle", "asked", "rows", "failed"}]
    runs                    \* [Call -> Nat]: executions of its statement

calls == <<outcome, runs>>

CallsInit ==
    /\ outcome = [c \in Call |-> "idle"]
    /\ runs = [c \in Call |-> 0]

Ends(c, how) == outcome' = [outcome EXCEPT ![c] = how]

Asked(c) ==
    /\ outcome[c] = "idle"
    /\ Ends(c, "asked")
    /\ UNCHANGED runs

\* The statement runs: perhaps after its caller has given up.
Executed(c) ==
    /\ outcome[c] # "idle"
    /\ runs[c] = 0
    /\ runs' = [runs EXCEPT ![c] = 1]
    /\ UNCHANGED outcome

Answered(c) ==
    /\ outcome[c] = "asked"
    /\ runs[c] = 1
    /\ Ends(c, "rows")
    /\ UNCHANGED runs

\* One loss of the connection fails any number of calls; a call made without
\* a connection fails as it is made.
Failed ==
    /\ \E C \in SUBSET {c \in Call : outcome[c] \in {"idle", "asked"}} :
          /\ C # {}
          /\ outcome' = [c \in Call |-> IF c \in C THEN "failed" ELSE outcome[c]]
    /\ UNCHANGED runs

CallsNext ==
    \/ \E c \in Call : Asked(c) \/ Executed(c) \/ Answered(c)
    \/ Failed

\* No caller waits for ever.
EveryCallEnds == \A c \in Call : (outcome[c] = "asked") ~> (outcome[c] \in {"rows", "failed"})

CallsSpec == CallsInit /\ [][CallsNext]_calls /\ EveryCallEnds
=============================================================================
