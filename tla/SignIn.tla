-------------------------------- MODULE SignIn ---------------------------------
(***************************************************************************)
(* The tabs of one browser signed in to the dashboard: the JWT they share  *)
(* in localStorage (useAuth.ts), the route middleware that asks the server *)
(* about it, and the requests of the pages (useApi.ts), which carry the    *)
(* token stored when they are sent and drop whatever is stored when they   *)
(* are refused. The server keeps no sessions: a token is good until it     *)
(* expires. "page" stands for the pages that poll.                         *)
(***************************************************************************)
EXTENDS Naturals, FiniteSets

CONSTANTS
    Tab,
    MaxTokens               \* bound on the tokens issued

ASSUME SignInAssumption == MaxTokens \in Nat \ {0}

VARIABLES
    stored,                 \* the token in localStorage
    issued,                 \* tokens issued so far
    live,                   \* those that have not expired
    place,                  \* [Tab -> the route shown]
    asking,                 \* [Tab -> checkAuth on its way: for a route, or none]
    poll,                   \* [Tab -> the token of the request on its way]
    leaving                 \* [Tab -> its logout is on its way]

signIn == <<stored, issued, live, place, asking, poll, leaving>>

Token == 1..MaxTokens
NoToken == 0
NoPoll == MaxTokens + 1
NoCheck == [to |-> "none", token |-> NoToken]

SignInTypeOK ==
    /\ stored \in 0..issued /\ issued \in 0..MaxTokens /\ live \subseteq 1..issued
    /\ place \in [Tab -> {"login", "page"}]
    /\ asking \in [Tab -> {NoCheck} \cup [to : {"login", "page"}, token : Token]]
    /\ poll \in [Tab -> 0..NoPoll] /\ leaving \in [Tab -> BOOLEAN]

SignInInit ==
    /\ stored = NoToken /\ issued = 0 /\ live = {}
    /\ place = [t \in Tab |-> "login"] /\ asking = [t \in Tab |-> NoCheck]
    /\ poll = [t \in Tab |-> NoPoll] /\ leaving = [t \in Tab |-> FALSE]

-----------------------------------------------------------------------------
\* checkAuth asks the server about the token k; without one there is no need to.
\* The login page is shown at once and asks when it appears; the others wait
\* behind the middleware, the previous route staying in view.
GoTo(t, route, k) ==
    /\ place' = [place EXCEPT ![t] = IF route = "login" \/ k = NoToken THEN "login" ELSE @]
    /\ asking' = [asking EXCEPT ![t] = IF k = NoToken THEN NoCheck
                                     ELSE [to |-> route, token |-> k]]

\* The operator follows a link or opens an address.
Open(t) ==
    /\ asking[t] = NoCheck /\ GoTo(t, "page", stored)
    /\ UNCHANGED <<stored, issued, live, poll, leaving>>

\* Name and password are right: the token is stored and the overview is next.
Login(t) ==
    /\ place[t] = "login" /\ asking[t] = NoCheck /\ issued < MaxTokens
    /\ issued' = issued + 1 /\ stored' = issued' /\ live' = live \cup {issued'}
    /\ GoTo(t, "page", issued')
    /\ UNCHANGED <<poll, leaving>>

\* A good token shows the page, from the login page after asking again. A bad one
\* ends on the login page and stays stored. The login page that is in view
\* already does not appear, and ask, again.
CheckAnswered(t) ==
    /\ asking[t] # NoCheck
    /\ IF asking[t].token \in live
       THEN IF asking[t].to = "login" THEN GoTo(t, "page", stored)
            ELSE place' = [place EXCEPT ![t] = "page"]
                 /\ asking' = [asking EXCEPT ![t] = NoCheck]
       ELSE IF asking[t].to = "page" /\ place[t] = "page" THEN GoTo(t, "login", stored)
            ELSE place' = [place EXCEPT ![t] = "login"]
                 /\ asking' = [asking EXCEPT ![t] = NoCheck]
    /\ UNCHANGED <<stored, issued, live, poll, leaving>>

\* Whatever else goes wrong counts as a bad token, which is removed.
CheckFails(t) ==
    /\ asking[t] # NoCheck /\ stored' = NoToken /\ GoTo(t, "login", NoToken)
    /\ UNCHANGED <<issued, live, poll, leaving>>

-----------------------------------------------------------------------------
\* A request of a page, without the header when there is no token.
Poll(t) ==
    /\ place[t] = "page" /\ poll[t] = NoPoll /\ poll' = [poll EXCEPT ![t] = stored]
    /\ UNCHANGED <<stored, issued, live, place, asking, leaving>>

\* The page is loaded anew: what was on its way is aborted.
Reload(t) ==
    /\ GoTo(t, "login", NoToken)
    /\ poll' = [poll EXCEPT ![t] = NoPoll] /\ leaving' = [leaving EXCEPT ![t] = FALSE]

\* Mutant of TokenRefused: nothing to do when another tab has dropped the token.
TokenRefusedOnce(t) ==
    IF stored = NoToken
    THEN poll' = [poll EXCEPT ![t] = NoPoll] /\ UNCHANGED <<stored, place, asking, leaving>>
    ELSE stored' = NoToken /\ Reload(t)

\* 401: the stored token goes, and the tab to the login page unless it is there.
TokenRefused(t) ==
    /\ stored' = NoToken
    /\ IF place[t] = "page" THEN Reload(t)
       ELSE poll' = [poll EXCEPT ![t] = NoPoll] /\ UNCHANGED <<place, asking, leaving>>

PollAnswered(t) ==
    /\ poll[t] # NoPoll
    /\ IF poll[t] \in live
       THEN poll' = [poll EXCEPT ![t] = NoPoll] /\ UNCHANGED <<stored, place, asking, leaving>>
       ELSE TokenRefused(t)
    /\ UNCHANGED <<issued, live>>

PollFails(t) ==
    /\ poll[t] # NoPoll /\ poll' = [poll EXCEPT ![t] = NoPoll]
    /\ UNCHANGED <<stored, issued, live, place, asking, leaving>>

\* The operator signs out; the server is told if there is a token, and changes
\* nothing. When it has answered or not, the stored token is removed.
Logout(t) ==
    /\ place[t] = "page" /\ ~leaving[t] /\ leaving' = [leaving EXCEPT ![t] = TRUE]
    /\ UNCHANGED <<stored, issued, live, place, asking, poll>>

LogoutEnds(t) ==
    /\ leaving[t] /\ leaving' = [leaving EXCEPT ![t] = FALSE]
    /\ stored' = NoToken /\ GoTo(t, "login", NoToken)
    /\ UNCHANGED <<issued, live, poll>>

Expire ==
    /\ \E k \in live : live' = live \ {k}
    /\ UNCHANGED <<stored, issued, place, asking, poll, leaving>>

SignInNext ==
    \/ Expire
    \/ \E t \in Tab : \/ Open(t) \/ Login(t) \/ CheckAnswered(t) \/ CheckFails(t)
                      \/ Poll(t) \/ PollAnswered(t) \/ PollFails(t)
                      \/ Logout(t) \/ LogoutEnds(t)

\* Pages poll; requests are answered or fail, and of those that are repeated some
\* are answered.
SignInFairness ==
    \A t \in Tab : /\ WF_signIn(Poll(t)) /\ WF_signIn(PollAnswered(t) \/ PollFails(t))
                   /\ WF_signIn(CheckAnswered(t) \/ CheckFails(t))
                   /\ SF_signIn(PollAnswered(t)) /\ WF_signIn(LogoutEnds(t))

SignInSpec == SignInInit /\ [][SignInNext]_signIn /\ SignInFairness

-----------------------------------------------------------------------------
\* When the token is gone or has expired, every tab ends on the login page and
\* stays there: also those that did not sign out themselves and those whose
\* token another tab has removed already.
SignOutReachesAll ==
    <>[](stored \notin live) => \A t \in Tab : <>[](place[t] = "login")

\* A token that is good stays stored unless the operator signs out or a check
\* fails. A request that was sent with an older token and is refused late
\* removes the new one (useApi.ts:39).
GoodTokenStays ==
    [][\A t \in Tab : stored \in live /\ PollAnswered(t) => stored' = stored]_signIn
=============================================================================
