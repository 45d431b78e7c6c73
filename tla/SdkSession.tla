----------------------------- MODULE SdkSession -----------------------------
(***************************************************************************)
(* One DucklingClient of the SDK (packages/sdk/src/index.ts), the WebSocket*)
(* connection under it and the server's WebSocketService at the other end. *)
(*                                                                         *)
(* The client keeps one socket, replaces it when it is lost, and matches   *)
(* answers to calls by message id.  A socket that was torn down is never   *)
(* listened to again (tornDownSockets, removeAllListeners), so the state   *)
(* holds the current socket only; what an old socket still carries can     *)
(* reach the server but not the client.                                    *)
(*                                                                         *)
(* An action is one turn of the client's event loop (a network event, a    *)
(* timer) or one continuation of an awaited promise.  Continuations run    *)
(* before the next turn; the user's own calls may come in between, from    *)
(* the same synchronous block or from an event listener.  The options have *)
(* their defaults: autoConnect, autoReconnect and autoPing are on.  Timers *)
(* have no clock: each may fire whenever it is armed.                      *)
(***************************************************************************)
EXTENDS Naturals

CONSTANTS
    Call,                   \* calls of query(), each made at most once
    MaxReconnectAttempts    \* config.maxReconnectAttempts

ASSUME AttemptsAssumption == MaxReconnectAttempts \in Nat

VARIABLES
    ws,                     \* readyState of this.ws, "none" when it is null
    code,                   \* the close code on its way, while ws = "closing"
    cut,                    \* the connection died without a word to either side
    auth,                   \* the auth message: "none", "sent", "granted", "refused"
    isAuthenticated,
    connectPromise,         \* a connect() is under way
    manualClose,
    reconnectTimer,
    reconnectAttempts,
    shouldReconnect,        \* what the last teardown asked for
    autoPing,               \* the ping interval is armed
    ping,                   \* the ping in flight: "none" or "sent"
    pingFailed,             \* a ping came to false, its continuation is due
    call,                   \* [Call -> where each query() is]
    request,                \* [Call -> where its message is]
    runs                    \* [Call -> executions of its statement]

socketVars == <<ws, code, cut, auth>>
clientVars == <<isAuthenticated, connectPromise, manualClose, shouldReconnect>>
retryVars == <<reconnectTimer, reconnectAttempts>>
pingVars == <<autoPing, ping, pingFailed>>
callVars == <<call, request, runs>>
session == <<socketVars, clientVars, retryVars, pingVars, callVars>>

Outcomes == {"rows", "failed"}

SessionTypeOK ==
    /\ ws \in {"none", "connecting", "open", "closing"}
    /\ code \in {"none", "retry", "final"}
    /\ auth \in {"none", "sent", "granted", "refused"}
    /\ {cut, isAuthenticated, connectPromise, manualClose, shouldReconnect,
        reconnectTimer, autoPing, pingFailed} \subseteq BOOLEAN
    /\ reconnectAttempts \in 0..MaxReconnectAttempts
    /\ ping \in {"none", "sent"}
    /\ call \in [Call -> {"idle", "joined", "resumed", "sent"} \cup Outcomes]
    /\ request \in [Call -> {"none", "travelling", "running", "rows", "error"}]
    /\ runs \in [Call -> 0..1]
    \* What holds of the fields together.
    /\ isAuthenticated => ws \in {"open", "closing"} /\ ~connectPromise
    /\ connectPromise => ws # "none" /\ ~reconnectTimer
    /\ autoPing <=> isAuthenticated
    /\ \A c \in Call : /\ call[c] = "joined" => connectPromise
                       /\ call[c] = "sent" => isAuthenticated

SessionInit ==
    /\ ws = "none" /\ code = "none" /\ cut = FALSE /\ auth = "none"
    /\ isAuthenticated = FALSE /\ connectPromise = FALSE
    /\ manualClose = FALSE /\ shouldReconnect = FALSE
    /\ reconnectTimer = FALSE /\ reconnectAttempts = 0
    /\ autoPing = FALSE /\ ping = "none" /\ pingFailed = FALSE
    /\ call = [c \in Call |-> "idle"]
    /\ request = [c \in Call |-> "none"]
    /\ runs = [c \in Call |-> 0]

\* The event loop takes its next turn once every due continuation has run.
NextTurn == ~pingFailed /\ \A c \in Call : call[c] # "resumed"

-----------------------------------------------------------------------------
\* The pieces teardownSocket and _doConnect are made of

\* rejectPendingRequests and rejectConnectPromise: every call that waits for
\* an answer or for the connection fails; a call already resumed goes on.
Rejected == [c \in Call |-> IF call[c] \in {"joined", "sent"} THEN "failed" ELSE call[c]]

\* Mutant of ScheduleReconnect: one attempt short of the budget.
ScheduleFewer(attempts) ==
    IF ~manualClose /\ ~reconnectTimer /\ attempts + 1 < MaxReconnectAttempts
    THEN reconnectTimer' = TRUE /\ reconnectAttempts' = attempts + 1
    ELSE UNCHANGED reconnectTimer /\ reconnectAttempts' = attempts

\* scheduleReconnect.
ScheduleReconnect(attempts) ==
    IF ~manualClose /\ ~reconnectTimer /\ attempts < MaxReconnectAttempts
    THEN reconnectTimer' = TRUE /\ reconnectAttempts' = attempts + 1
    ELSE UNCHANGED reconnectTimer /\ reconnectAttempts' = attempts

\* What teardownSocket clears; the rejection of a ping in flight lets ping()
\* return false to the interval that sent it.
Cleared ==
    /\ isAuthenticated' = FALSE
    /\ autoPing' = FALSE
    /\ ping' = "none"
    /\ auth' = "none"
    /\ code' = "none"
    /\ cut' = FALSE

\* teardownSocket of the current socket, followed by forceTerminateSocket.
TeardownSocket(retry) ==
    /\ Cleared
    /\ ws' = "none"
    /\ connectPromise' = FALSE
    /\ call' = Rejected
    /\ shouldReconnect' = retry
    /\ IF retry THEN ScheduleReconnect(reconnectAttempts) ELSE UNCHANGED retryVars
    /\ UNCHANGED <<manualClose, request, runs>>

\* _doConnect: nothing if connected, join the attempt under way, or replace
\* whatever socket is left by a new one. The callers in asked wait for it.
\* (reconnectTimer is armed only while there is no socket.)
DoConnect(asked) ==
    LET waiting(calls) == [c \in Call |-> IF c \in asked THEN "joined" ELSE calls[c]]
    IN
    /\ reconnectTimer' = FALSE
    /\ \/ /\ (ws = "open" /\ isAuthenticated) \/ connectPromise
          /\ call' = waiting(call)
          /\ UNCHANGED <<socketVars, isAuthenticated, connectPromise, manualClose, pingVars>>
       \/ /\ ~(ws = "open" /\ isAuthenticated) /\ ~connectPromise
          /\ Cleared
          /\ call' = waiting(Rejected)
          /\ pingFailed' = (pingFailed \/ ping = "sent")
          /\ ws' = "connecting"
          /\ connectPromise' = TRUE
          /\ manualClose' = FALSE
    /\ UNCHANGED <<shouldReconnect, request, runs>>

\* sendMessage of a query: it fails at once on a socket that is not open.
SendQuery(c) ==
    IF isAuthenticated /\ ws = "open"
    THEN /\ call' = [call EXCEPT ![c] = "sent"]
         /\ request' = [request EXCEPT ![c] = "travelling"]
    ELSE /\ call' = [call EXCEPT ![c] = "failed"]
         /\ UNCHANGED request

-----------------------------------------------------------------------------
\* The user

\* connect(): a fresh budget of attempts.
Connect ==
    /\ reconnectAttempts' = 0
    /\ DoConnect({})

\* query(): connects first when there is no authenticated connection.
Query(c) ==
    /\ call[c] = "idle"
    /\ \/ /\ isAuthenticated
          /\ SendQuery(c)
          /\ UNCHANGED <<socketVars, clientVars, retryVars, pingVars, runs>>
       \/ /\ ~isAuthenticated
          /\ reconnectAttempts' = 0
          /\ DoConnect({c})

\* close().
Close ==
    /\ manualClose' = TRUE
    /\ reconnectTimer' = FALSE
    /\ Cleared
    /\ ws' = "none"
    /\ connectPromise' = FALSE
    /\ call' = IF ws = "none" THEN call ELSE Rejected
    /\ pingFailed' = (pingFailed \/ ping = "sent")
    /\ shouldReconnect' = (shouldReconnect /\ ws = "none")
    /\ UNCHANGED <<reconnectAttempts, request, runs>>

-----------------------------------------------------------------------------
\* Connecting and authenticating

\* The 'open' event: the auth message goes out and its answer is awaited.
Opened ==
    /\ NextTurn
    /\ ws = "connecting"
    /\ ws' = "open"
    /\ auth' = "sent"
    /\ UNCHANGED <<code, cut, clientVars, retryVars, pingVars, callVars>>

\* The server has the auth message: handleConnection knew the database, and
\* the key is the configured one or not.
Authenticate ==
    /\ auth = "sent" /\ ws = "open" /\ ~cut
    /\ auth' \in {"granted", "refused"}
    /\ UNCHANGED <<ws, code, cut, clientVars, retryVars, pingVars, callVars>>

\* authenticate() returns in the 'open' handler: connect() and the queries
\* that waited for it resume, and the pings begin.
Authenticated ==
    /\ NextTurn
    /\ auth = "granted" /\ ws = "open" /\ ~cut
    /\ auth' = "none"
    /\ isAuthenticated' = TRUE
    /\ connectPromise' = FALSE
    /\ reconnectAttempts' = 0
    /\ autoPing' = TRUE
    /\ call' = [c \in Call |-> IF call[c] = "joined" THEN "resumed" ELSE call[c]]
    /\ UNCHANGED <<ws, code, cut, manualClose, shouldReconnect, reconnectTimer,
                   ping, pingFailed, request, runs>>

\* The answer was "invalid key": nothing to try again.
Refused ==
    /\ NextTurn
    /\ auth = "refused" /\ ws = "open" /\ ~cut
    /\ TeardownSocket(FALSE)
    /\ pingFailed' = FALSE

\* A query that waited for the connection goes on, with whatever it finds.
Resume(c) ==
    /\ call[c] = "resumed"
    /\ SendQuery(c)
    /\ UNCHANGED <<socketVars, clientVars, retryVars, pingVars, runs>>

\* connectionTimeout, and the auth message's own timeout.
ConnectTimeout ==
    /\ NextTurn
    /\ connectPromise
    /\ TeardownSocket(TRUE)
    /\ pingFailed' = FALSE

-----------------------------------------------------------------------------
\* Losing the connection

\* The 'error' event, or a close without a close frame (code 1006).
SocketError ==
    /\ NextTurn
    /\ ws # "none" /\ ~cut
    /\ TeardownSocket(~manualClose)
    /\ pingFailed' = (ping = "sent")

\* A close frame arrived: readyState is CLOSING until the socket has ended.
\* An unknown database closes with 1011 before anything was authenticated.
CloseFrame ==
    /\ ws = "open" /\ ~cut /\ auth # "refused"
    /\ ws' = "closing"
    /\ code' \in IF auth = "sent" THEN {"retry", "final"} ELSE {"retry"}
    /\ UNCHANGED <<auth, cut, clientVars, retryVars, pingVars, callVars>>

\* The 'close' event.
Closed ==
    /\ NextTurn
    /\ ws = "closing"
    /\ TeardownSocket(~manualClose /\ code = "retry")
    /\ pingFailed' = (ping = "sent")

\* The peer vanishes, a router forgets the flow: nothing arrives any more.
Cut ==
    /\ ws = "open" /\ ~cut
    /\ cut' = TRUE
    /\ UNCHANGED <<ws, code, auth, clientVars, retryVars, pingVars, callVars>>

\* The reconnect timer.
Reconnect ==
    /\ NextTurn
    /\ reconnectTimer
    /\ DoConnect({})
    /\ UNCHANGED reconnectAttempts

-----------------------------------------------------------------------------
\* The ping interval

\* A tick sends a ping, one at a time; on a closing socket it fails at once.
PingTick ==
    /\ NextTurn
    /\ autoPing /\ isAuthenticated /\ ping = "none"
    /\ IF ws = "open" THEN ping' = "sent" /\ UNCHANGED pingFailed
                      ELSE pingFailed' = TRUE /\ UNCHANGED ping
    /\ UNCHANGED <<socketVars, clientVars, retryVars, autoPing, callVars>>

Pong ==
    /\ NextTurn
    /\ ping = "sent" /\ ws = "open" /\ ~cut
    /\ ping' = "none"
    /\ UNCHANGED <<socketVars, clientVars, retryVars, autoPing, pingFailed, callVars>>

\* The ping's requestTimeout.
PingTimeout ==
    /\ NextTurn
    /\ ping = "sent"
    /\ ping' = "none"
    /\ pingFailed' = TRUE
    /\ UNCHANGED <<socketVars, clientVars, retryVars, autoPing, callVars>>

\* Mutant of PingFails: the error is reported and nothing else.
PingFailsQuietly ==
    /\ pingFailed
    /\ pingFailed' = FALSE
    /\ UNCHANGED <<socketVars, clientVars, retryVars, autoPing, ping, callVars>>

\* ping() returned false: the interval's callback tears down this.ws, the
\* socket of this moment, if there is one.
PingFails ==
    /\ pingFailed
    /\ \/ /\ ws # "none"
          /\ TeardownSocket(TRUE)
          /\ pingFailed' = (ping = "sent")
       \/ /\ ws = "none"
          /\ pingFailed' = FALSE
          /\ UNCHANGED <<socketVars, clientVars, retryVars, autoPing, ping, callVars>>

-----------------------------------------------------------------------------
\* Queries on the wire

\* handleMessage of the server starts the statement on ClickHouse. The client
\* may be gone by now; messages that were sent still arrive.
Execute(c) ==
    /\ request[c] = "travelling"
    /\ request' = [request EXCEPT ![c] = "running"]
    /\ runs' = [runs EXCEPT ![c] = @ + 1]
    /\ UNCHANGED <<socketVars, clientVars, retryVars, pingVars, call>>

\* ... and answers when it has finished, in whatever order.
Answer(c) ==
    /\ request[c] = "running"
    /\ \E how \in {"rows", "error"} : request' = [request EXCEPT ![c] = how]
    /\ UNCHANGED <<socketVars, clientVars, retryVars, pingVars, call, runs>>

\* Mutant of HandleMessage: answers are taken in the order of the calls.
HandleInOrder(c) ==
    /\ NextTurn
    /\ request[c] \in {"rows", "error"}
    /\ \E d \in Call :
          /\ call[d] = "sent" /\ ws = "open" /\ ~cut
          /\ call' = [call EXCEPT ![d] = IF request[c] = "rows" THEN "rows" ELSE "failed"]
    /\ request' = [request EXCEPT ![c] = "none"]
    /\ UNCHANGED <<socketVars, clientVars, retryVars, pingVars, runs>>

\* handleMessage of the client finds the call by the answer's id.
HandleMessage(c) ==
    /\ NextTurn
    /\ request[c] \in {"rows", "error"}
    /\ call[c] = "sent" /\ ws = "open" /\ ~cut
    /\ call' = [call EXCEPT ![c] = IF request[c] = "rows" THEN "rows" ELSE "failed"]
    /\ request' = [request EXCEPT ![c] = "none"]
    /\ UNCHANGED <<socketVars, clientVars, retryVars, pingVars, runs>>

\* An answer to a call that has timed out is ignored, one to a socket that is
\* gone is not sent; a message may die with its connection.
Dropped(c) ==
    /\ \/ request[c] \in {"rows", "error"} /\ call[c] # "sent"
       \/ request[c] = "travelling" /\ (cut \/ call[c] # "sent")
    /\ request' = [request EXCEPT ![c] = "none"]
    /\ UNCHANGED <<socketVars, clientVars, retryVars, pingVars, call, runs>>

\* requestTimeout.
RequestTimeout(c) ==
    /\ NextTurn
    /\ call[c] = "sent"
    /\ call' = [call EXCEPT ![c] = "failed"]
    /\ UNCHANGED <<socketVars, clientVars, retryVars, pingVars, request, runs>>

-----------------------------------------------------------------------------
SessionNext ==
    \/ Connect \/ Close
    \/ Opened \/ Authenticate \/ Authenticated \/ Refused \/ ConnectTimeout
    \/ SocketError \/ CloseFrame \/ Closed \/ Cut \/ Reconnect
    \/ PingTick \/ Pong \/ PingTimeout \/ PingFails
    \/ \E c \in Call :
          \/ Query(c) \/ Resume(c) \/ Execute(c) \/ Answer(c)
          \/ HandleMessage(c) \/ Dropped(c) \/ RequestTimeout(c)

\* Timers fire and continuations run; the network and the server owe nothing.
SessionFairness ==
    /\ WF_session(ConnectTimeout)
    /\ WF_session(PingTick)
    /\ WF_session(PingTimeout)
    /\ WF_session(PingFails)
    /\ WF_session(Closed)
    /\ \A c \in Call : WF_session(Resume(c)) /\ WF_session(RequestTimeout(c))

SessionSpec == SessionInit /\ [][SessionNext]_session /\ SessionFairness

-----------------------------------------------------------------------------
\* Properties

\* The session implements what query() promises: each call ends exactly once,
\* with the answer to its own statement or an error, the statement runs at most
\* once whatever reconnections there are, and no caller is left waiting, under
\* late answers, lost messages, timeouts and close().
Promise == INSTANCE Calls WITH
    outcome <- [c \in Call |-> IF call[c] \in {"joined", "resumed", "sent"}
                               THEN "asked" ELSE call[c]]

CallsKept == Promise!CallsSpec

\* A connection lost for a reason that calls for another attempt is never
\* simply forgotten: there is a socket, a timer, or nothing left of the budget,
\* unless the user closed. (scheduleReconnect's early returns, and every path
\* that replaces or tears down a socket.)
NeverStranded ==
    shouldReconnect /\ ~manualClose =>
        ws # "none" \/ reconnectTimer \/ reconnectAttempts = MaxReconnectAttempts

\* After close() nothing of the client acts by itself: no socket, no timer, no
\* pending call, until the user asks for a connection again.
ClosedIsClosed ==
    manualClose => /\ ws = "none" /\ ~reconnectTimer /\ ~autoPing
                   /\ \A c \in Call : call[c] \notin {"joined", "sent"}

\* A connection that died silently is noticed: by the ping, or while it is
\* being set up by the connection timeout.
CutIsNoticed == cut ~> ~cut

=============================================================================
