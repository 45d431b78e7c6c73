----------------------------- MODULE ClientsProofs -----------------------------
(***************************************************************************)
(* That the clients of the server get what they are promised, proved for   *)
(* every number of calls, attempts, sockets, databases and statements: a   *)
(* call of the SDK ends once and its statement runs at most once, a        *)
(* session is never stranded and once closed stays closed, a socket of the *)
(* MySQL wire protocol holds a place exactly while it may, and no more     *)
(* places are taken than there are, unless two handshakes overlap.         *)
(*                                                                         *)
(* The components share no state, so each has an inductive invariant of    *)
(* its own and every step of the composition is a step or a stutter of     *)
(* each of them.                                                           *)
(***************************************************************************)
EXTENDS MCClients, FiniteSetTheorems, TLAPS

-----------------------------------------------------------------------------
(* The session of the SDK                                                  *)
-----------------------------------------------------------------------------

\* What each variable of the client holds.
Fields ==
    /\ ws \in {"none", "connecting", "open", "closing"}
    /\ code \in {"none", "retry", "final"}
    /\ auth \in {"none", "sent", "granted", "refused"}
    /\ cut \in BOOLEAN /\ isAuthenticated \in BOOLEAN /\ connectPromise \in BOOLEAN
    /\ manualClose \in BOOLEAN /\ shouldReconnect \in BOOLEAN
    /\ reconnectTimer \in BOOLEAN /\ autoPing \in BOOLEAN /\ pingFailed \in BOOLEAN
    /\ reconnectAttempts \in 0..MaxReconnectAttempts
    /\ ping \in {"none", "sent"}

\* What holds of them together.
Coherent ==
    /\ isAuthenticated => ws \in {"open", "closing"} /\ ~connectPromise
    /\ connectPromise => ws # "none" /\ ~reconnectTimer
    /\ autoPing <=> isAuthenticated
    /\ manualClose => ws = "none" /\ ~reconnectTimer
    /\ NeverStranded

\* Where a call and its message are, and how often its statement has run.
CallsTyped ==
    /\ call \in [Call -> {"idle", "joined", "resumed", "sent"} \cup Outcomes]
    /\ request \in [Call -> {"none", "travelling", "running", "rows", "error"}]
    /\ runs \in [Call -> 0..1]

\* A call waits only for something that is there.
Attended(c) ==
    /\ call[c] = "joined" => connectPromise
    /\ call[c] = "sent" => isAuthenticated

\* A call that was not sent yet has no message and did not run; a message that
\* travels was not executed yet, and one the server has was executed once.
Once(c) ==
    /\ call[c] \in {"idle", "joined", "resumed"} => request[c] = "none" /\ runs[c] = 0
    /\ request[c] = "travelling" => runs[c] = 0
    /\ request[c] \in {"running", "rows", "error"} => runs[c] = 1

SessionInv ==
    /\ Fields
    /\ Coherent
    /\ CallsTyped
    /\ \A c \in Call : Attended(c) /\ Once(c)

\* The invariant holds all the properties of the client's state.
LEMMA SessionInvImplies ==
    SessionInv => SessionTypeOK /\ NeverStranded /\ ClosedIsClosed
<1> SUFFICES ASSUME SessionInv PROVE SessionTypeOK /\ NeverStranded /\ ClosedIsClosed
    OBVIOUS
<1>1. /\ Fields /\ Coherent /\ CallsTyped
      /\ \A c \in Call : Attended(c)
    BY DEF SessionInv
<1>2. {cut, isAuthenticated, connectPromise, manualClose, shouldReconnect,
       reconnectTimer, autoPing, pingFailed} \subseteq BOOLEAN
    BY <1>1 DEF Fields
<1>3. SessionTypeOK
    BY <1>1, <1>2 DEF SessionTypeOK, Fields, Coherent, CallsTyped, Attended
<1>4. ClosedIsClosed
    BY <1>1 DEF ClosedIsClosed, Coherent, Attended
<1> QED  BY <1>1, <1>3, <1>4 DEF Coherent

\* The client starts without a socket and without calls.
LEMMA SessionInitially == SessionInit => SessionInv
<1> SUFFICES ASSUME SessionInit PROVE SessionInv
    OBVIOUS
<1>a. 0 \in 0..MaxReconnectAttempts
    BY AttemptsAssumption DEF AttemptsAssumption
<1>1. Fields
    BY <1>a DEF SessionInit, Fields
<1>3. Coherent
    BY DEF SessionInit, Coherent, NeverStranded
<1>2. CallsTyped /\ \A c \in Call : Attended(c) /\ Once(c)
    BY DEF SessionInit, CallsTyped, Outcomes, Attended, Once
<1> QED  BY <1>1, <1>3, <1>2 DEF SessionInv

\* A call that has failed, and whatever else the calls were, still waits for nothing:
\* a step that fails waiting calls and leaves the messages alone.
LEMMA RejectedCalls ==
    ASSUME CallsTyped, \A c \in Call : Once(c),
           call' = Rejected, UNCHANGED <<request, runs>>
    PROVE  /\ CallsTyped'
           /\ \A c \in Call : Attended(c)' /\ Once(c)'
<1>1. \A c \in Call : call'[c] = IF call[c] \in {"joined", "sent"} THEN "failed" ELSE call[c]
    BY DEF Rejected
<1>2. call' \in [Call -> {"idle", "joined", "resumed", "sent"} \cup Outcomes]
    BY DEF Rejected, CallsTyped, Outcomes
<1>3. CallsTyped'
    BY <1>2 DEF CallsTyped
<1>4. \A c \in Call : Attended(c)' /\ Once(c)'
    BY <1>1 DEF Attended, Once
<1> QED  BY <1>3, <1>4

\* scheduleReconnect leaves a timer, or has a reason not to.
LEMMA ScheduleStays ==
    ASSUME Fields, ScheduleReconnect(reconnectAttempts), UNCHANGED manualClose
    PROVE  /\ reconnectTimer' \in BOOLEAN /\ reconnectAttempts' \in 0..MaxReconnectAttempts
           /\ manualClose \/ reconnectTimer' \/ reconnectAttempts' = MaxReconnectAttempts
           /\ manualClose => reconnectTimer' = reconnectTimer
<1>0. /\ manualClose \in BOOLEAN /\ reconnectTimer \in BOOLEAN
      /\ reconnectAttempts \in 0..MaxReconnectAttempts
    BY DEF Fields
<1>1. CASE ~manualClose /\ ~reconnectTimer /\ reconnectAttempts < MaxReconnectAttempts
  <2>1. reconnectTimer' = TRUE /\ reconnectAttempts' = reconnectAttempts + 1
      BY <1>1 DEF ScheduleReconnect
  <2>2. reconnectAttempts' \in 0..MaxReconnectAttempts
      BY <1>0, <1>1, <2>1, AttemptsAssumption DEF AttemptsAssumption
  <2> QED  BY <1>1, <2>1, <2>2
<1>2. CASE ~(~manualClose /\ ~reconnectTimer /\ reconnectAttempts < MaxReconnectAttempts)
  <2>1. reconnectTimer' = reconnectTimer /\ reconnectAttempts' = reconnectAttempts
      BY <1>2 DEF ScheduleReconnect
  <2>2. ~(reconnectAttempts < MaxReconnectAttempts) => reconnectAttempts = MaxReconnectAttempts
      BY <1>0, AttemptsAssumption DEF AttemptsAssumption
  <2> QED  BY <1>0, <1>2, <2>1, <2>2
<1> QED  BY <1>1, <1>2

\* teardownSocket, in whatever state of the client.
LEMMA TeardownKeeps ==
    ASSUME SessionInv, NEW retry \in BOOLEAN, TeardownSocket(retry), ws # "none",
           pingFailed' \in BOOLEAN
    PROVE  SessionInv'
<1>0. /\ Fields /\ Coherent /\ CallsTyped
      /\ \A c \in Call : Once(c)
    BY DEF SessionInv
<1>1. CallsTyped' /\ \A c \in Call : Attended(c)' /\ Once(c)'
    BY <1>0, RejectedCalls DEF TeardownSocket
<1>2. /\ reconnectTimer' \in BOOLEAN /\ reconnectAttempts' \in 0..MaxReconnectAttempts
      /\ retry => manualClose \/ reconnectTimer' \/ reconnectAttempts' = MaxReconnectAttempts
      /\ manualClose => reconnectTimer' = reconnectTimer
  <2>1. CASE retry
      BY <1>0, <2>1, ScheduleStays DEF TeardownSocket
  <2>2. CASE ~retry
      BY <1>0, <2>2 DEF TeardownSocket, retryVars, Fields
  <2> QED  BY <2>1, <2>2
<1>3. Fields'
    BY <1>0, <1>2 DEF TeardownSocket, Cleared, Fields
<1>4. Coherent'
    BY <1>0, <1>2 DEF TeardownSocket, Cleared, Fields, Coherent, NeverStranded
<1> QED  BY <1>1, <1>3, <1>4 DEF SessionInv

\* _doConnect, asked by connect(), by a query or by the timer.
LEMMA DoConnectKeeps ==
    ASSUME SessionInv, NEW asked \in SUBSET Call, DoConnect(asked),
           \A c \in asked : call[c] = "idle",
           asked = {} \/ ~isAuthenticated,
           reconnectAttempts' \in 0..MaxReconnectAttempts
    PROVE  SessionInv'
<1>0. /\ Fields /\ Coherent /\ CallsTyped
      /\ \A c \in Call : Attended(c) /\ Once(c)
    BY DEF SessionInv
<1>1. CASE (ws = "open" /\ isAuthenticated) \/ connectPromise
  <2>1. /\ call' = [c \in Call |-> IF c \in asked THEN "joined" ELSE call[c]]
        /\ UNCHANGED <<socketVars, isAuthenticated, connectPromise, manualClose, pingVars,
                       shouldReconnect, request, runs>>
        /\ reconnectTimer' = FALSE
      BY <1>1 DEF DoConnect
  <2>2. Fields'
    <3>1. /\ UNCHANGED <<ws, code, cut, auth, isAuthenticated, connectPromise, manualClose>>
          /\ UNCHANGED <<autoPing, ping, pingFailed, shouldReconnect>>
        BY <2>1 DEF socketVars, pingVars
    <3>2. reconnectTimer' \in BOOLEAN
        BY <2>1
    <3> QED  BY <1>0, <3>1, <3>2 DEF Fields
  <2>3. Coherent'
      BY <1>0, <1>1, <2>1 DEF Fields, Coherent, NeverStranded, socketVars, pingVars
  <2>4. CallsTyped'
      BY <1>0, <2>1 DEF CallsTyped
  <2>5. \A c \in Call : Attended(c)' /\ Once(c)'
      BY <1>0, <1>1, <2>1 DEF Attended, Once, Coherent
  <2> QED  BY <2>2, <2>3, <2>4, <2>5 DEF SessionInv
<1>2. CASE ~(ws = "open" /\ isAuthenticated) /\ ~connectPromise
  <2>1. /\ Cleared
        /\ call' = [c \in Call |-> IF c \in asked THEN "joined" ELSE Rejected[c]]
        /\ pingFailed' = (pingFailed \/ ping = "sent")
        /\ ws' = "connecting" /\ connectPromise' = TRUE /\ manualClose' = FALSE
        /\ reconnectTimer' = FALSE
        /\ UNCHANGED <<shouldReconnect, request, runs>>
      BY <1>2 DEF DoConnect
  <2>2. Fields'
      BY <1>0, <2>1 DEF Fields, Cleared
  <2>3. Coherent'
      BY <1>0, <2>1 DEF Fields, Coherent, NeverStranded, Cleared
  <2>4. CallsTyped'
      BY <1>0, <2>1 DEF CallsTyped, Rejected, Outcomes
  <2>5. \A c \in Call : Attended(c)' /\ Once(c)'
      BY <1>0, <2>1 DEF Attended, Once, Rejected
  <2> QED  BY <2>2, <2>3, <2>4, <2>5 DEF SessionInv
<1> QED  BY <1>1, <1>2 DEF DoConnect

\* A query goes out, or fails on a socket that is closing.
LEMMA SendQueryKeeps ==
    ASSUME SessionInv, NEW c \in Call, SendQuery(c), call[c] \in {"idle", "resumed"},
           UNCHANGED <<socketVars, clientVars, retryVars, pingVars, runs>>
    PROVE  SessionInv'
<1>0. /\ Fields /\ Coherent /\ CallsTyped
      /\ \A d \in Call : Attended(d) /\ Once(d)
    BY DEF SessionInv
<1>1. Fields' /\ Coherent'
    BY <1>0 DEF Fields, Coherent, NeverStranded, socketVars, clientVars, retryVars, pingVars
<1>2. CallsTyped' /\ \A d \in Call : Attended(d)' /\ Once(d)'
  <2>1. CASE isAuthenticated /\ ws = "open"
    <3>1. /\ call' = [call EXCEPT ![c] = "sent"]
          /\ request' = [request EXCEPT ![c] = "travelling"]
        BY <2>1 DEF SendQuery
    <3> QED
        BY <1>0, <2>1, <3>1 DEF CallsTyped, Attended, Once, clientVars, Outcomes
  <2>2. CASE ~(isAuthenticated /\ ws = "open")
    <3>1. /\ call' = [call EXCEPT ![c] = "failed"]
          /\ request' = request
        BY <2>2 DEF SendQuery
    <3> QED
        BY <1>0, <3>1 DEF CallsTyped, Attended, Once, clientVars, Outcomes
  <2> QED  BY <2>1, <2>2
<1> QED  BY <1>1, <1>2 DEF SessionInv

\* A step that leaves the calls where they are.
LEMMA CallsStay ==
    ASSUME CallsTyped, \A c \in Call : Attended(c) /\ Once(c), UNCHANGED callVars,
           isAuthenticated => isAuthenticated', connectPromise => connectPromise'
    PROVE  /\ CallsTyped'
           /\ \A c \in Call : Attended(c)' /\ Once(c)'
BY DEF callVars, CallsTyped, Attended, Once

\* A step of one call or its message that leaves the client as it is.
LEMMA CallMoves ==
    ASSUME SessionInv, NEW c \in Call,
           UNCHANGED <<socketVars, clientVars, retryVars, pingVars>>,
           CallsTyped', Attended(c)', Once(c)',
           \A d \in Call \ {c} : UNCHANGED <<call[d], request[d], runs[d]>>
    PROVE  SessionInv'
<1>0. /\ Fields /\ Coherent
      /\ \A d \in Call : Attended(d) /\ Once(d)
    BY DEF SessionInv
<1>1. Fields' /\ Coherent'
    BY <1>0 DEF Fields, Coherent, NeverStranded, socketVars, clientVars, retryVars, pingVars
<1>2. \A d \in Call \ {c} : Attended(d)' /\ Once(d)'
    BY <1>0 DEF Attended, Once, clientVars
<1> QED  BY <1>1, <1>2 DEF SessionInv

\* Every step of the session, or none, keeps its invariant.
LEMMA SessionStep == SessionInv /\ [SessionNext]_session => SessionInv'
<1> SUFFICES ASSUME SessionInv, [SessionNext]_session PROVE SessionInv'
    OBVIOUS
<1>0. /\ Fields /\ Coherent /\ CallsTyped
      /\ \A c \in Call : Attended(c) /\ Once(c)
    BY DEF SessionInv
<1>z. 0 \in 0..MaxReconnectAttempts
    BY AttemptsAssumption DEF AttemptsAssumption
<1>1. CASE Connect
  <2>1. DoConnect({}) /\ reconnectAttempts' = 0
      BY <1>1 DEF Connect
  <2> QED  BY <2>1, <1>z, DoConnectKeeps
<1>2. CASE Close
  <2>1. /\ manualClose' = TRUE /\ reconnectTimer' = FALSE /\ ws' = "none"
        /\ connectPromise' = FALSE /\ Cleared
        /\ pingFailed' = (pingFailed \/ ping = "sent")
        /\ shouldReconnect' = (shouldReconnect /\ ws = "none")
        /\ UNCHANGED <<reconnectAttempts, request, runs>>
      BY <1>2 DEF Close
  <2>2. Fields'
      BY <1>0, <2>1 DEF Fields, Cleared
  <2>3. Coherent'
      BY <1>0, <2>1 DEF Fields, Coherent, NeverStranded, Cleared
  <2>4. CASE ws = "none"
    <3>1. call' = call
        BY <1>2, <2>4 DEF Close
    <3>2. CallsTyped'
        BY <1>0, <2>1, <3>1 DEF CallsTyped
    <3>3. \A c \in Call : Attended(c)' /\ Once(c)'
        BY <1>0, <2>1, <2>4, <3>1 DEF Attended, Once, Coherent
    <3> QED  BY <2>2, <2>3, <3>2, <3>3 DEF SessionInv
  <2>5. CASE ws # "none"
    <3>1. call' = Rejected
        BY <1>2, <2>5 DEF Close
    <3>2. CallsTyped' /\ \A c \in Call : Attended(c)' /\ Once(c)'
        BY <1>0, <2>1, <3>1, RejectedCalls
    <3> QED  BY <2>2, <2>3, <3>2 DEF SessionInv
  <2> QED  BY <2>4, <2>5
<1>3. CASE Opened
  <2>1. /\ ws = "connecting" /\ ws' = "open" /\ auth' = "sent"
        /\ UNCHANGED <<code, cut, clientVars, retryVars, pingVars, callVars>>
      BY <1>3 DEF Opened
  <2>2. Fields'
      BY <1>0, <2>1 DEF Fields, clientVars, retryVars, pingVars
  <2>3. Coherent'
      BY <1>0, <2>1 DEF Coherent, NeverStranded, clientVars, retryVars, pingVars
  <2>4. CallsTyped' /\ \A c \in Call : Attended(c)' /\ Once(c)'
      BY <1>0, <2>1, CallsStay DEF clientVars
  <2> QED  BY <2>2, <2>3, <2>4 DEF SessionInv
<1>4. CASE Authenticate
  <2>1. /\ auth' \in {"granted", "refused"}
        /\ UNCHANGED <<ws, code, cut, clientVars, retryVars, pingVars, callVars>>
      BY <1>4 DEF Authenticate
  <2>2. Fields' /\ Coherent'
      BY <1>0, <2>1 DEF Fields, Coherent, NeverStranded, clientVars, retryVars, pingVars
  <2>4. CallsTyped' /\ \A c \in Call : Attended(c)' /\ Once(c)'
      BY <1>0, <2>1, CallsStay DEF clientVars
  <2> QED  BY <2>2, <2>4 DEF SessionInv
<1>5. CASE Authenticated
  <2>1. /\ ws = "open" /\ auth' = "none" /\ isAuthenticated' = TRUE
        /\ connectPromise' = FALSE /\ reconnectAttempts' = 0 /\ autoPing' = TRUE
        /\ call' = [c \in Call |-> IF call[c] = "joined" THEN "resumed" ELSE call[c]]
        /\ UNCHANGED <<ws, code, cut, manualClose, shouldReconnect, reconnectTimer,
                       ping, pingFailed, request, runs>>
      BY <1>5 DEF Authenticated
  <2>2. Fields'
      BY <1>0, <1>z, <2>1 DEF Fields
  <2>3. Coherent'
      BY <1>0, <2>1 DEF Coherent, NeverStranded
  <2>4. CallsTyped'
      BY <1>0, <2>1 DEF CallsTyped
  <2>5. \A c \in Call : Attended(c)' /\ Once(c)'
      BY <1>0, <2>1 DEF Attended, Once
  <2> QED  BY <2>2, <2>3, <2>4, <2>5 DEF SessionInv
<1>6. CASE Refused
    BY <1>6, TeardownKeeps DEF Refused
<1>7. CASE ConnectTimeout
    BY <1>0, <1>7, TeardownKeeps DEF ConnectTimeout, Coherent
<1>8. CASE SocketError
  <2>1. (~manualClose) \in BOOLEAN /\ (ping = "sent") \in BOOLEAN
      OBVIOUS
  <2> QED  BY <1>8, <2>1, TeardownKeeps DEF SocketError
<1>9. CASE CloseFrame
  <2>1. /\ ws = "open" /\ ws' = "closing" /\ code' \in {"none", "retry", "final"}
        /\ UNCHANGED <<auth, cut, clientVars, retryVars, pingVars, callVars>>
      BY <1>9 DEF CloseFrame
  <2>2. Fields'
      BY <1>0, <2>1 DEF Fields, clientVars, retryVars, pingVars
  <2>3. Coherent'
      BY <1>0, <2>1 DEF Coherent, NeverStranded, clientVars, retryVars, pingVars
  <2>4. CallsTyped' /\ \A c \in Call : Attended(c)' /\ Once(c)'
      BY <1>0, <2>1, CallsStay DEF clientVars
  <2> QED  BY <2>2, <2>3, <2>4 DEF SessionInv
<1>10. CASE Closed
  <2>1. (~manualClose /\ code = "retry") \in BOOLEAN /\ (ping = "sent") \in BOOLEAN
      OBVIOUS
  <2> QED  BY <1>10, <2>1, TeardownKeeps DEF Closed
<1>11. CASE Cut
  <2>1. /\ cut' = TRUE
        /\ UNCHANGED <<ws, code, auth, clientVars, retryVars, pingVars, callVars>>
      BY <1>11 DEF Cut
  <2>2. Fields' /\ Coherent'
      BY <1>0, <2>1 DEF Fields, Coherent, NeverStranded, clientVars, retryVars, pingVars
  <2>4. CallsTyped' /\ \A c \in Call : Attended(c)' /\ Once(c)'
      BY <1>0, <2>1, CallsStay DEF clientVars
  <2> QED  BY <2>2, <2>4 DEF SessionInv
<1>12. CASE Reconnect
  <2>1. DoConnect({}) /\ reconnectAttempts' = reconnectAttempts
      BY <1>12 DEF Reconnect
  <2>2. reconnectAttempts' \in 0..MaxReconnectAttempts
      BY <1>0, <2>1 DEF Fields
  <2> QED  BY <2>1, <2>2, DoConnectKeeps
<1>13. CASE PingTick \/ Pong \/ PingTimeout
  <2>1. /\ UNCHANGED <<socketVars, clientVars, retryVars, autoPing, callVars>>
        /\ ping' \in {"none", "sent"} /\ pingFailed' \in BOOLEAN
      BY <1>0, <1>13 DEF PingTick, Pong, PingTimeout, Fields
  <2>2. Fields' /\ Coherent'
      BY <1>0, <2>1 DEF Fields, Coherent, NeverStranded, socketVars, clientVars, retryVars
  <2>4. CallsTyped' /\ \A c \in Call : Attended(c)' /\ Once(c)'
      BY <1>0, <2>1, CallsStay DEF clientVars
  <2> QED  BY <2>2, <2>4 DEF SessionInv
<1>14. CASE PingFails
  <2>1. CASE ws # "none"
    <3>1. TeardownSocket(TRUE) /\ pingFailed' = (ping = "sent")
        BY <1>14, <2>1 DEF PingFails
    <3>2. pingFailed' \in BOOLEAN
        BY <3>1
    <3> QED  BY <2>1, <3>1, <3>2, TeardownKeeps
  <2>2. CASE ws = "none"
    <3>1. /\ UNCHANGED <<socketVars, clientVars, retryVars, autoPing, ping, callVars>>
          /\ pingFailed' = FALSE
        BY <1>14, <2>2 DEF PingFails
    <3>2. Fields' /\ Coherent'
        BY <1>0, <3>1 DEF Fields, Coherent, NeverStranded, socketVars, clientVars, retryVars
    <3>4. CallsTyped' /\ \A c \in Call : Attended(c)' /\ Once(c)'
        BY <1>0, <3>1, CallsStay DEF clientVars
    <3> QED  BY <3>2, <3>4 DEF SessionInv
  <2> QED  BY <2>1, <2>2
<1>15. ASSUME NEW c \in Call, Query(c) PROVE SessionInv'
  <2>1. CASE isAuthenticated
    <3>1. /\ call[c] = "idle" /\ SendQuery(c)
          /\ UNCHANGED <<socketVars, clientVars, retryVars, pingVars, runs>>
        BY <1>15, <2>1 DEF Query
    <3> QED  BY <3>1, SendQueryKeeps
  <2>2. CASE ~isAuthenticated
    <3>1. call[c] = "idle" /\ DoConnect({c}) /\ reconnectAttempts' = 0
        BY <1>15, <2>2 DEF Query
    <3> QED  BY <2>2, <3>1, <1>z, DoConnectKeeps
  <2> QED  BY <2>1, <2>2
<1>16. ASSUME NEW c \in Call, Resume(c) PROVE SessionInv'
    BY <1>16, SendQueryKeeps DEF Resume
<1>17. ASSUME NEW c \in Call, Execute(c) PROVE SessionInv'
  <2>1. /\ request[c] = "travelling" /\ request' = [request EXCEPT ![c] = "running"]
        /\ runs' = [runs EXCEPT ![c] = @ + 1] /\ call' = call
        /\ UNCHANGED <<socketVars, clientVars, retryVars, pingVars>>
      BY <1>17 DEF Execute
  <2>2. runs[c] = 0
      BY <1>0, <2>1 DEF Once
  <2>3. runs' = [runs EXCEPT ![c] = 1]
      BY <1>0, <2>1, <2>2 DEF CallsTyped
  <2>4. CallsTyped'
      BY <1>0, <2>1, <2>3 DEF CallsTyped
  <2>5. Attended(c)' /\ Once(c)'
      BY <1>0, <2>1, <2>3 DEF Attended, Once, CallsTyped, clientVars
  <2>6. \A d \in Call \ {c} : UNCHANGED <<call[d], request[d], runs[d]>>
      BY <1>0, <2>1, <2>3 DEF CallsTyped
  <2> QED  BY <2>1, <2>4, <2>5, <2>6, CallMoves
<1>18. ASSUME NEW c \in Call, Answer(c) PROVE SessionInv'
  <2>1. PICK how \in {"rows", "error"} : request' = [request EXCEPT ![c] = how]
      BY <1>18 DEF Answer
  <2>2. /\ request[c] = "running" /\ UNCHANGED <<call, runs>>
        /\ UNCHANGED <<socketVars, clientVars, retryVars, pingVars>>
      BY <1>18 DEF Answer
  <2>3. CallsTyped'
      BY <1>0, <2>1, <2>2 DEF CallsTyped
  <2>4. Attended(c)' /\ Once(c)'
      BY <1>0, <2>1, <2>2 DEF Attended, Once, CallsTyped, clientVars
  <2>5. \A d \in Call \ {c} : UNCHANGED <<call[d], request[d], runs[d]>>
      BY <1>0, <2>1, <2>2 DEF CallsTyped
  <2> QED  BY <2>2, <2>3, <2>4, <2>5, CallMoves
<1>19. ASSUME NEW c \in Call, HandleMessage(c) \/ Dropped(c) \/ RequestTimeout(c)
       PROVE  SessionInv'
  <2>1. /\ request' = [request EXCEPT ![c] = "none"] \/ request' = request
        /\ \/ call' = call
           \/ call[c] = "sent" /\ \E how \in Outcomes : call' = [call EXCEPT ![c] = how]
        /\ UNCHANGED <<socketVars, clientVars, retryVars, pingVars, runs>>
      BY <1>0, <1>19 DEF HandleMessage, Dropped, RequestTimeout, Outcomes, CallsTyped
  <2>2. /\ call'[c] = call[c] \/ call'[c] \in Outcomes
        /\ request'[c] = request[c] \/ request'[c] = "none"
      BY <1>0, <2>1 DEF CallsTyped
  <2>3. CallsTyped'
      BY <1>0, <2>1 DEF CallsTyped
  <2>4. Attended(c)' /\ Once(c)'
      BY <1>0, <2>1, <2>2 DEF Attended, Once, Outcomes, clientVars
  <2>5. \A d \in Call \ {c} : UNCHANGED <<call[d], request[d], runs[d]>>
      BY <1>0, <2>1 DEF CallsTyped
  <2> QED  BY <2>1, <2>3, <2>4, <2>5, CallMoves
<1>20. CASE UNCHANGED session
  <2>1. UNCHANGED <<socketVars, clientVars, retryVars, pingVars, callVars>>
      BY <1>20 DEF session
  <2>2. Fields' /\ Coherent'
      BY <1>0, <2>1 DEF Fields, Coherent, NeverStranded, socketVars, clientVars, retryVars, pingVars
  <2>4. CallsTyped' /\ \A c \in Call : Attended(c)' /\ Once(c)'
      BY <1>0, <2>1, CallsStay DEF clientVars
  <2> QED  BY <2>2, <2>4 DEF SessionInv
<1> QED
    BY <1>1, <1>2, <1>3, <1>4, <1>5, <1>6, <1>7, <1>8, <1>9, <1>10, <1>11, <1>12, <1>13,
       <1>14, <1>15, <1>16, <1>17, <1>18, <1>19, <1>20 DEF SessionNext

-----------------------------------------------------------------------------
(* What the session promises the callers of query()                        *)
-----------------------------------------------------------------------------

\* How a caller sees its call.
Seen(c) == IF call[c] \in {"joined", "resumed", "sent"} THEN "asked" ELSE call[c]

\* A step of the promise, or none.
PromiseStep == [Promise!CallsNext]_(Promise!calls)

\* Callers see nothing of a step that leaves the calls as they saw them.
LEMMA SameIsStutter ==
    ASSUME UNCHANGED runs, \A c \in Call : UNCHANGED Seen(c)
    PROVE  PromiseStep
BY DEF PromiseStep, Promise!calls, Seen

\* Calls that were made or waited fail together, in one step of the promise.
LEMMA FailingIsFailed ==
    ASSUME UNCHANGED runs,
           \A c \in Call : \/ UNCHANGED Seen(c)
                           \/ Seen(c) \in {"idle", "asked"} /\ Seen(c)' = "failed"
    PROVE  PromiseStep
<1>1. CASE \A c \in Call : UNCHANGED Seen(c)
    BY <1>1, SameIsStutter
<1>2. CASE \E c \in Call : Seen(c)' # Seen(c)
  <2> DEFINE C == {c \in Call : Seen(c)' # Seen(c)}
             before == [c \in Call |-> Seen(c)]
             after == [c \in Call |-> Seen(c)']
  <2>1. C # {} /\ C \in SUBSET {c \in Call : before[c] \in {"idle", "asked"}}
      BY <1>2
  <2>2. after = [c \in Call |-> IF c \in C THEN "failed" ELSE before[c]]
      OBVIOUS
  <2>3. Promise!Failed
    <3>1. \E D \in SUBSET {c \in Call : before[c] \in {"idle", "asked"}} :
              /\ D # {}
              /\ after = [c \in Call |-> IF c \in D THEN "failed" ELSE before[c]]
        BY <2>1, <2>2
    <3> QED  BY <3>1 DEF Promise!Failed, Seen
  <2> QED  BY <2>3 DEF PromiseStep, Promise!CallsNext
<1> QED  BY <1>1, <1>2

\* The calls that wait fail, the others stay: what every loss of a socket does.
LEMMA RejectedIsFailed ==
    ASSUME CallsTyped, call' = Rejected, UNCHANGED runs
    PROVE  PromiseStep
<1>1. \A c \in Call : \/ UNCHANGED Seen(c)
                      \/ Seen(c) \in {"idle", "asked"} /\ Seen(c)' = "failed"
    BY DEF Rejected, Seen
<1> QED  BY <1>1, FailingIsFailed

\* A call that is made.
LEMMA AskedIsAsked ==
    ASSUME CallsTyped, NEW c \in Call, call[c] = "idle", UNCHANGED runs,
           \E how \in {"joined", "sent"} : call' = [call EXCEPT ![c] = how]
    PROVE  PromiseStep
<1> DEFINE before == [d \in Call |-> Seen(d)]
           after == [d \in Call |-> Seen(d)']
<1>1. before[c] = "idle"
    BY DEF Seen
<1>2. after = [before EXCEPT ![c] = "asked"]
    BY DEF Seen, CallsTyped
<1>3. Promise!Asked(c)
    BY <1>1, <1>2 DEF Promise!Asked, Promise!Ends, Seen
<1> QED  BY <1>3 DEF PromiseStep, Promise!CallsNext

\* One call that ends otherwise than with rows.
LEMMA OneFails ==
    ASSUME CallsTyped, NEW c \in Call, call[c] \in {"idle", "joined", "resumed", "sent"},
           UNCHANGED runs, call' = [call EXCEPT ![c] = "failed"]
    PROVE  PromiseStep
<1>1. \A d \in Call : \/ UNCHANGED Seen(d)
                      \/ Seen(d) \in {"idle", "asked"} /\ Seen(d)' = "failed"
    BY DEF Seen, CallsTyped
<1> QED  BY <1>1, FailingIsFailed

\* A query that goes out, or fails as it would, is a call that was just made or one
\* that has waited for its connection.
LEMMA SendQueryIsStep ==
    ASSUME CallsTyped, NEW c \in Call, SendQuery(c), call[c] \in {"idle", "resumed"},
           UNCHANGED runs
    PROVE  PromiseStep
<1>1. CASE call' = [call EXCEPT ![c] = "failed"]
    BY <1>1, OneFails
<1>2. CASE call' = [call EXCEPT ![c] = "sent"] /\ call[c] = "idle"
    BY <1>2, AskedIsAsked
<1>3. CASE call' = [call EXCEPT ![c] = "sent"] /\ call[c] = "resumed"
  <2>1. \A d \in Call : UNCHANGED Seen(d)
      BY <1>3 DEF Seen, CallsTyped
  <2> QED  BY <2>1, SameIsStutter
<1> QED  BY <1>1, <1>2, <1>3 DEF SendQuery

\* Every step of the session is one that the promise allows.
LEMMA SessionImplements == SessionInv /\ [SessionNext]_session => PromiseStep
<1> SUFFICES ASSUME SessionInv, [SessionNext]_session PROVE PromiseStep
    OBVIOUS
<1>0. /\ Fields /\ Coherent /\ CallsTyped
      /\ \A c \in Call : Attended(c) /\ Once(c)
    BY DEF SessionInv
<1>1. CASE call' = Rejected /\ runs' = runs
    BY <1>0, <1>1, RejectedIsFailed
<1>2. CASE call' = call /\ runs' = runs
  <2>1. \A c \in Call : UNCHANGED Seen(c)
      BY <1>2 DEF Seen
  <2> QED  BY <1>2, <2>1, SameIsStutter
<1>3. CASE Connect \/ Reconnect
  <2>1. DoConnect({}) /\ runs' = runs
      BY <1>3 DEF Connect, Reconnect, DoConnect
  <2>2. call' = call \/ call' = Rejected
      BY <1>0, <2>1 DEF DoConnect, CallsTyped, Rejected
  <2> QED  BY <1>1, <1>2, <2>1, <2>2
<1>4. CASE Authenticated
  <2>1. runs' = runs /\ \A c \in Call : UNCHANGED Seen(c)
      BY <1>4 DEF Authenticated, Seen
  <2> QED  BY <2>1, SameIsStutter
<1>5. CASE Refused \/ ConnectTimeout \/ SocketError \/ Closed
    BY <1>1, <1>5 DEF Refused, ConnectTimeout, SocketError, Closed, TeardownSocket
<1>6. CASE Close \/ PingFails
    BY <1>1, <1>2, <1>6 DEF Close, PingFails, TeardownSocket, callVars
<1>7. CASE Opened \/ Authenticate \/ CloseFrame \/ Cut \/ PingTick \/ Pong \/ PingTimeout
    BY <1>2, <1>7
       DEF Opened, Authenticate, CloseFrame, Cut, PingTick, Pong, PingTimeout, callVars
<1>8. ASSUME NEW c \in Call, Query(c) PROVE PromiseStep
  <2>1. CASE isAuthenticated
      BY <1>0, <1>8, <2>1, SendQueryIsStep DEF Query
  <2>2. CASE ~isAuthenticated
    <3>1. call[c] = "idle" /\ DoConnect({c}) /\ runs' = runs
        BY <1>8, <2>2 DEF Query, DoConnect
    <3>2. CASE call' = [d \in Call |-> IF d \in {c} THEN "joined" ELSE call[d]]
      <4>1. call' = [call EXCEPT ![c] = "joined"]
          BY <1>0, <3>2 DEF CallsTyped
      <4> QED  BY <1>0, <3>1, <4>1, AskedIsAsked
    <3>3. CASE /\ ~connectPromise
               /\ call' = [d \in Call |-> IF d \in {c} THEN "joined" ELSE Rejected[d]]
      <4>1. Rejected = call
          BY <1>0, <2>2, <3>3 DEF Rejected, Attended, CallsTyped
      <4>2. call' = [call EXCEPT ![c] = "joined"]
          BY <1>0, <3>3, <4>1 DEF CallsTyped
      <4> QED  BY <1>0, <3>1, <4>2, AskedIsAsked
    <3> QED  BY <3>1, <3>2, <3>3 DEF DoConnect
  <2> QED  BY <2>1, <2>2
<1>9. ASSUME NEW c \in Call, Resume(c) PROVE PromiseStep
    BY <1>0, <1>9, SendQueryIsStep DEF Resume
<1>10. ASSUME NEW c \in Call, Execute(c) PROVE PromiseStep
  <2>1. request[c] = "travelling" /\ runs' = [runs EXCEPT ![c] = @ + 1] /\ call' = call
      BY <1>10 DEF Execute
  <2>2. runs[c] = 0 /\ call[c] # "idle"
      BY <1>0, <2>1 DEF Once
  <2>3. runs' = [runs EXCEPT ![c] = 1]
      BY <1>0, <2>1, <2>2 DEF CallsTyped
  <2>4. Seen(c) # "idle" /\ \A d \in Call : UNCHANGED Seen(d)
      BY <2>1, <2>2 DEF Seen
  <2>5. Promise!Executed(c)
      BY <2>2, <2>3, <2>4 DEF Promise!Executed, Seen
  <2> QED  BY <2>5 DEF PromiseStep, Promise!CallsNext
<1>11. ASSUME NEW c \in Call, HandleMessage(c) PROVE PromiseStep
  <2>1. /\ request[c] \in {"rows", "error"} /\ call[c] = "sent" /\ runs' = runs
        /\ call' = [call EXCEPT ![c] = IF request[c] = "rows" THEN "rows" ELSE "failed"]
      BY <1>11 DEF HandleMessage
  <2>2. CASE request[c] = "rows"
    <3> DEFINE before == [d \in Call |-> Seen(d)]
               after == [d \in Call |-> Seen(d)']
    <3>1. runs[c] = 1
        BY <1>0, <2>2 DEF Once
    <3>2. before[c] = "asked" /\ after = [before EXCEPT ![c] = "rows"]
        BY <1>0, <2>1, <2>2 DEF Seen, CallsTyped
    <3>3. Promise!Answered(c)
        BY <2>1, <3>1, <3>2 DEF Promise!Answered, Promise!Ends, Seen
    <3> QED  BY <3>3 DEF PromiseStep, Promise!CallsNext
  <2>3. CASE request[c] # "rows"
      BY <1>0, <2>1, <2>3, OneFails
  <2> QED  BY <2>2, <2>3
<1>12. ASSUME NEW c \in Call, RequestTimeout(c) PROVE PromiseStep
    BY <1>0, <1>12, OneFails DEF RequestTimeout
<1>13. ASSUME NEW c \in Call, Answer(c) \/ Dropped(c) PROVE PromiseStep
    BY <1>2, <1>13 DEF Answer, Dropped
<1>14. CASE UNCHANGED session
    BY <1>2, <1>14 DEF session, callVars
<1> QED
    BY <1>3, <1>4, <1>5, <1>6, <1>7, <1>8, <1>9, <1>10, <1>11, <1>12, <1>13, <1>14
    DEF SessionNext

\* The session starts as the promise does.
LEMMA SessionImplementsInitially == SessionInit => Promise!CallsInit
BY DEF SessionInit, Promise!CallsInit

-----------------------------------------------------------------------------
(* The MySQL wire protocol                                                 *)
-----------------------------------------------------------------------------

\* What each variable of the sockets and places holds.
PlacesTyped ==
    /\ serving \in BOOLEAN /\ overlapped \in BOOLEAN
    /\ databases \subseteq Database
    /\ sock \in [Conn -> {"none", "detecting", "http", "greeted", "ready", "closed"}]
    /\ database \in [Conn -> Database]

\* A place is held by an open connection, and by each until the server stops.
PlacesHeld ==
    /\ connections = idleTimer
    /\ connections \subseteq {c \in Conn : sock[c] = "ready"}
    /\ serving => {c \in Conn : sock[c] = "ready"} \subseteq connections

\* What the commands hold.
CommandsTyped ==
    /\ command \in [Conn -> Commands \cup {NoCommand}]
    /\ running \in [Conn -> Database \cup {NotRunning}]
    /\ prepared \in Seq(Statement) /\ Len(prepared) <= MaxStatements

\* What runs on ClickHouse runs for a query, or for a prepared statement there is:
\* nothing else answers a command whose statement still runs.
RunsFor(c) ==
    running[c] # NotRunning =>
        \/ command[c].kind = "query"
        \/ command[c].kind = "execute" /\ command[c].id \in DOMAIN prepared

\* Every connection that has a place or is about to have one.
Candidates == connections \cup {c \in Conn : sock[c] = "greeted"}

\* A handshake that was let in takes the place it was let in for.
RoomForAll ==
    ~overlapped => IsFiniteSet(Candidates) /\ Cardinality(Candidates) <= MaxConnections

WireInv ==
    /\ PlacesTyped
    /\ PlacesHeld
    /\ CommandsTyped
    /\ \A c \in Conn : RunsFor(c)
    /\ RoomForAll

\* The bounds the wire protocol has.
LEMMA WireLimits == MaxConnections \in Nat \ {0} /\ MaxStatements \in Nat /\ Default \in Database
BY WireAssumption DEF WireAssumption

\* A command is something, and of one kind.
LEMMA CommandKinds ==
    /\ NoCommand \notin Commands
    /\ NoCommand.kind = "none"
    /\ \A m \in Commands :
          /\ m.kind \in {"query", "prepare", "execute", "init_db", "ping"}
          /\ m.kind \in {"query", "prepare"} => m.stmt \in Statement
          /\ m.kind = "init_db" => m.db \in Database
<1>1. \A m \in Commands :
          /\ m.kind \in {"query", "prepare", "execute", "init_db", "ping"}
          /\ m.kind \in {"query", "prepare"} => m.stmt \in Statement
          /\ m.kind = "init_db" => m.db \in Database
    BY DEF Commands
<1>2. NoCommand.kind = "none"
    BY DEF NoCommand
<1> QED  BY <1>1, <1>2

\* The invariant holds the properties of the wire protocol.
LEMMA WireInvImplies == WireInv => WireTypeOK /\ LimitUnlessRaced
<1> SUFFICES ASSUME WireInv PROVE WireTypeOK /\ LimitUnlessRaced
    OBVIOUS
<1>1. PlacesTyped /\ PlacesHeld /\ CommandsTyped /\ RoomForAll /\ \A c \in Conn : RunsFor(c)
    BY DEF WireInv
<1>2. \A c \in Conn : running[c] # NotRunning => command[c] # NoCommand
    BY <1>1, CommandKinds DEF RunsFor
<1>3. WireTypeOK
    BY <1>1, <1>2 DEF WireTypeOK, PlacesTyped, PlacesHeld, CommandsTyped
<1>4. ASSUME ~overlapped PROVE Cardinality(connections) <= MaxConnections
  <2>1. IsFiniteSet(Candidates) /\ Cardinality(Candidates) <= MaxConnections
      BY <1>1, <1>4 DEF RoomForAll
  <2>2. connections \in SUBSET Candidates
      BY DEF Candidates
  <2>3. Cardinality(connections) <= Cardinality(Candidates) /\ IsFiniteSet(connections)
      BY <2>1, <2>2, FS_Subset
  <2>4. Cardinality(connections) \in Nat /\ Cardinality(Candidates) \in Nat
      BY <2>1, <2>3, FS_CardinalityType
  <2> QED  BY <2>1, <2>3, <2>4, WireLimits
<1> QED  BY <1>3, <1>4 DEF LimitUnlessRaced

\* The server starts with nobody connected.
LEMMA WireInitially == WireInit => WireInv
<1> SUFFICES ASSUME WireInit PROVE WireInv
    OBVIOUS
<1>1. PlacesTyped /\ PlacesHeld
    BY WireLimits DEF WireInit, PlacesTyped, PlacesHeld
<1>2. CommandsTyped /\ \A c \in Conn : RunsFor(c)
    BY WireLimits DEF WireInit, CommandsTyped, RunsFor
<1>3. Candidates = {}
    BY DEF WireInit, Candidates
<1>4. RoomForAll
    BY <1>3, WireLimits, FS_EmptySet DEF RoomForAll
<1> QED  BY <1>1, <1>2, <1>4 DEF WireInv

\* Fewer candidates need no more room.
LEMMA FewerCandidates ==
    ASSUME RoomForAll, Candidates' \subseteq Candidates, overlapped' = overlapped
    PROVE  RoomForAll'
<1> SUFFICES ASSUME ~overlapped
             PROVE  IsFiniteSet(Candidates') /\ Cardinality(Candidates') <= MaxConnections
    BY DEF RoomForAll
<1>1. IsFiniteSet(Candidates) /\ Cardinality(Candidates) <= MaxConnections
    BY DEF RoomForAll
<1>2. IsFiniteSet(Candidates') /\ Cardinality(Candidates') <= Cardinality(Candidates)
    BY <1>1, FS_Subset
<1>3. Cardinality(Candidates) \in Nat /\ Cardinality(Candidates') \in Nat
    BY <1>1, <1>2, FS_CardinalityType
<1> QED  BY <1>1, <1>2, <1>3, WireLimits

\* What a step does to the commands does nothing to the places.
LEMMA PlacesStay ==
    ASSUME PlacesTyped, PlacesHeld, RoomForAll, UNCHANGED <<muxVars, connVars, serverVars>>
    PROVE  PlacesTyped' /\ PlacesHeld' /\ RoomForAll'
<1>1. /\ UNCHANGED <<sock, overlapped, connections, database, idleTimer>>
      /\ UNCHANGED <<serving, databases>>
    BY DEF muxVars, connVars, serverVars
<1>2. PlacesTyped' /\ PlacesHeld'
    BY <1>1 DEF PlacesTyped, PlacesHeld
<1>3. RoomForAll'
    BY <1>1 DEF RoomForAll, Candidates
<1> QED  BY <1>2, <1>3

\* The commands of a step that leaves them alone.
LEMMA CommandsStay ==
    ASSUME CommandsTyped, \A c \in Conn : RunsFor(c), UNCHANGED commandVars
    PROVE  CommandsTyped' /\ \A c \in Conn : RunsFor(c)'
BY DEF commandVars, CommandsTyped, RunsFor

\* A connection that ends.
LEMMA LeavingKeeps ==
    ASSUME WireInv, NEW c \in Conn, Becomes(c, "closed"), RemoveConnection(c), Forget(c),
           UNCHANGED <<overlapped, serverVars>>
    PROVE  WireInv'
<1>0. PlacesTyped /\ PlacesHeld /\ CommandsTyped /\ RoomForAll /\ \A d \in Conn : RunsFor(d)
    BY DEF WireInv
<1>1. /\ sock' = [sock EXCEPT ![c] = "closed"]
      /\ connections' = connections \ {c} /\ idleTimer' = idleTimer \ {c}
      /\ database' = [database EXCEPT ![c] = Default]
      /\ UNCHANGED <<overlapped, serving, databases>>
    BY DEF Becomes, RemoveConnection, serverVars
<1>2. PlacesTyped'
    BY <1>0, <1>1, WireLimits DEF PlacesTyped
<1>3. PlacesHeld'
    BY <1>0, <1>1 DEF PlacesTyped, PlacesHeld
<1>4. RoomForAll'
  <2>1. Candidates' \subseteq Candidates
      BY <1>0, <1>1 DEF Candidates, PlacesTyped
  <2> QED  BY <1>0, <1>1, <2>1, FewerCandidates
<1>5. /\ command' = [command EXCEPT ![c] = NoCommand]
      /\ running' = [running EXCEPT ![c] = NotRunning] /\ prepared' = prepared
    BY DEF Forget
<1>6. CommandsTyped'
    BY <1>0, <1>5 DEF CommandsTyped
<1>7. \A d \in Conn : RunsFor(d)'
    BY <1>0, <1>5 DEF RunsFor, CommandsTyped
<1> QED  BY <1>2, <1>3, <1>4, <1>6, <1>7 DEF WireInv

\* A handshake that begins, or is refused.
LEMMA HandshakeKeeps ==
    ASSUME WireInv, NEW c \in Conn, Silence(c)
    PROVE  WireInv'
<1>0. PlacesTyped /\ PlacesHeld /\ CommandsTyped /\ RoomForAll /\ \A d \in Conn : RunsFor(d)
    BY DEF WireInv
<1>1. /\ sock[c] = "detecting" /\ HandleConnection(c)
      /\ UNCHANGED <<connections, database, idleTimer, serving, databases>>
      /\ UNCHANGED commandVars
    BY DEF Silence, connVars, serverVars
<1>2. CommandsTyped' /\ \A d \in Conn : RunsFor(d)'
    BY <1>0, <1>1, CommandsStay
<1>3. CASE serving /\ Cardinality(connections) < MaxConnections
  <2>1. /\ sock' = [sock EXCEPT ![c] = "greeted"]
        /\ overlapped' = (overlapped \/ \E d \in Conn : sock[d] = "greeted")
      BY <1>1, <1>3 DEF HandleConnection, Becomes
  <2>2. PlacesTyped'
      BY <1>0, <1>1, <2>1 DEF PlacesTyped
  <2>3. PlacesHeld'
      BY <1>0, <1>1, <2>1 DEF PlacesTyped, PlacesHeld
  <2>4. ASSUME ~overlapped'
        PROVE  IsFiniteSet(Candidates') /\ Cardinality(Candidates') <= MaxConnections
    <3>1. ~overlapped /\ \A d \in Conn : sock[d] # "greeted"
        BY <1>0, <2>1, <2>4 DEF PlacesTyped
    <3>2. Candidates = connections
        BY <3>1 DEF Candidates
    <3>3. Candidates' = connections \cup {c}
        BY <1>0, <1>1, <2>1, <3>1 DEF Candidates, PlacesTyped
    <3>4. IsFiniteSet(connections)
        BY <1>0, <3>1, <3>2 DEF RoomForAll
    <3>5. IsFiniteSet(connections \cup {c}) /\ Cardinality(connections) \in Nat
        BY <3>4, FS_AddElement, FS_CardinalityType
    <3>6. \/ Cardinality(connections \cup {c}) = Cardinality(connections)
          \/ Cardinality(connections \cup {c}) = Cardinality(connections) + 1
        BY <3>4, FS_AddElement
    <3>7. Cardinality(connections \cup {c}) <= MaxConnections
        BY <1>3, <3>5, <3>6, WireLimits
    <3> QED  BY <3>3, <3>5, <3>7
  <2> QED  BY <1>2, <2>2, <2>3, <2>4 DEF WireInv, RoomForAll
<1>4. CASE ~(serving /\ Cardinality(connections) < MaxConnections)
  <2>1. sock' = [sock EXCEPT ![c] = "closed"] /\ overlapped' = overlapped
      BY <1>1, <1>4 DEF HandleConnection, Becomes
  <2>2. PlacesTyped'
      BY <1>0, <1>1, <2>1 DEF PlacesTyped
  <2>3. PlacesHeld'
      BY <1>0, <1>1, <2>1 DEF PlacesTyped, PlacesHeld
  <2>4. Candidates' \subseteq Candidates
      BY <1>0, <1>1, <2>1 DEF Candidates, PlacesTyped
  <2> QED  BY <1>0, <1>2, <2>1, <2>2, <2>3, <2>4, FewerCandidates DEF WireInv
<1> QED  BY <1>3, <1>4

\* A socket that is accepted, classified or refused: nothing of a place or a command.
LEMMA SocketKeeps ==
    ASSUME WireInv, NEW c \in Conn, NEW to \in {"detecting", "http", "closed"},
           sock[c] \in {"none", "detecting", "greeted"}, Becomes(c, to),
           UNCHANGED <<overlapped, connVars, commandVars, serverVars>>
    PROVE  WireInv'
<1>0. PlacesTyped /\ PlacesHeld /\ CommandsTyped /\ RoomForAll /\ \A d \in Conn : RunsFor(d)
    BY DEF WireInv
<1>1. /\ sock' = [sock EXCEPT ![c] = to]
      /\ UNCHANGED <<overlapped, connections, database, idleTimer, serving, databases>>
    BY DEF Becomes, connVars, serverVars
<1>2. CommandsTyped' /\ \A d \in Conn : RunsFor(d)'
    BY <1>0, CommandsStay
<1>3. PlacesTyped'
    BY <1>0, <1>1 DEF PlacesTyped
<1>4. PlacesHeld'
    BY <1>0, <1>1 DEF PlacesTyped, PlacesHeld
<1>5. Candidates' \subseteq Candidates
    BY <1>0, <1>1 DEF Candidates, PlacesTyped
<1> QED  BY <1>0, <1>1, <1>2, <1>3, <1>4, <1>5, FewerCandidates DEF WireInv

\* The end of a handshake: the candidate has its place.
LEMMA RegisterKeeps ==
    ASSUME WireInv, NEW c \in Conn, NEW d \in Database, Register(c, d)
    PROVE  WireInv'
<1>0. PlacesTyped /\ PlacesHeld /\ CommandsTyped /\ RoomForAll /\ \A e \in Conn : RunsFor(e)
    BY DEF WireInv
<1>1. /\ sock[c] = "greeted" /\ sock' = [sock EXCEPT ![c] = "ready"]
      /\ connections' = connections \cup {c} /\ idleTimer' = idleTimer \cup {c}
      /\ database' = [database EXCEPT ![c] = d]
      /\ UNCHANGED <<overlapped, serving, databases>> /\ UNCHANGED commandVars
    BY DEF Register, Becomes, serverVars
<1>2. CommandsTyped' /\ \A e \in Conn : RunsFor(e)'
    BY <1>0, <1>1, CommandsStay
<1>3. PlacesTyped'
    BY <1>0, <1>1 DEF PlacesTyped
<1>4. PlacesHeld'
    BY <1>0, <1>1 DEF PlacesTyped, PlacesHeld
<1>5. Candidates' \subseteq Candidates
    BY <1>0, <1>1 DEF Candidates, PlacesTyped
<1> QED  BY <1>0, <1>1, <1>2, <1>3, <1>4, <1>5, FewerCandidates DEF WireInv

\* A command that is answered while nothing of it runs, with or without a change of
\* the connection's database or of the prepared statements.
LEMMA ReplyKeeps ==
    ASSUME CommandsTyped, \A d \in Conn : RunsFor(d), NEW c \in Conn,
           running[c] = NotRunning, Reply(c), UNCHANGED running,
           prepared' = prepared
    PROVE  CommandsTyped' /\ \A d \in Conn : RunsFor(d)'
<1>1. command' = [command EXCEPT ![c] = NoCommand]
    BY DEF Reply
<1>2. CommandsTyped'
    BY <1>1 DEF CommandsTyped
<1>3. \A d \in Conn : RunsFor(d)'
    BY <1>1 DEF RunsFor, CommandsTyped
<1> QED  BY <1>2, <1>3

\* A statement of a query or of a prepared one: answered, or started.
LEMMA HandleQueryKeeps ==
    ASSUME WireInv, NEW c \in Conn, NEW s, HandleQuery(c, s),
           \/ command[c].kind = "query"
           \/ command[c].kind = "execute" /\ command[c].id \in DOMAIN prepared
    PROVE  WireInv'
<1>0. PlacesTyped /\ PlacesHeld /\ CommandsTyped /\ RoomForAll /\ \A d \in Conn : RunsFor(d)
    BY DEF WireInv
<1>1. /\ running[c] = NotRunning /\ prepared' = prepared
      /\ UNCHANGED <<muxVars, connVars, serverVars>>
      /\ \/ Reply(c) /\ UNCHANGED running
         \/ running' = [running EXCEPT ![c] = database[c]] /\ UNCHANGED command
    BY DEF HandleQuery, ExecuteClickHouseQuery
<1>2. PlacesTyped' /\ PlacesHeld' /\ RoomForAll'
    BY <1>0, <1>1, PlacesStay
<1>3. CASE Reply(c) /\ UNCHANGED running
    BY <1>0, <1>1, <1>2, <1>3, ReplyKeeps DEF WireInv
<1>4. CASE running' = [running EXCEPT ![c] = database[c]] /\ UNCHANGED command
  <2>1. CommandsTyped'
      BY <1>0, <1>1, <1>4 DEF CommandsTyped, PlacesTyped
  <2>2. \A d \in Conn : RunsFor(d)'
      BY <1>0, <1>1, <1>4 DEF RunsFor, CommandsTyped
  <2> QED  BY <1>2, <2>1, <2>2 DEF WireInv
<1> QED  BY <1>1, <1>3, <1>4

\* The handlers of the commands.
LEMMA HandleKeeps ==
    ASSUME WireInv, NEW c \in Conn, Handle(c)
    PROVE  WireInv'
<1>0. PlacesTyped /\ PlacesHeld /\ CommandsTyped /\ RoomForAll /\ \A d \in Conn : RunsFor(d)
    BY DEF WireInv
<1>c. command[c] \in Commands \/ command[c].kind = "none"
    BY <1>0, CommandKinds DEF CommandsTyped
<1>1. CASE Ping(c) \/ PrepareNoMore(c)
  <2>1. /\ command[c].kind \in {"ping", "prepare"} /\ Reply(c)
        /\ UNCHANGED <<muxVars, connVars, running, prepared, serverVars>>
      BY <1>1 DEF Ping, PrepareNoMore
  <2>2. running[c] = NotRunning
      BY <1>0, <2>1 DEF RunsFor
  <2>3. PlacesTyped' /\ PlacesHeld' /\ RoomForAll'
      BY <1>0, <2>1, PlacesStay
  <2> QED  BY <1>0, <2>1, <2>2, <2>3, ReplyKeeps DEF WireInv
<1>2. CASE HandleInitDb(c)
  <2>1. /\ command[c].kind = "init_db" /\ Reply(c)
        /\ \/ database' = [database EXCEPT ![c] = command[c].db]
           \/ database' = database
        /\ UNCHANGED <<sock, overlapped, connections, idleTimer, serving, databases>>
        /\ UNCHANGED <<running, prepared>>
      BY <1>2 DEF HandleInitDb, muxVars, serverVars
  <2>2. command[c].db \in Database
      BY <1>c, <2>1, CommandKinds
  <2>3. PlacesTyped' /\ PlacesHeld'
      BY <1>0, <2>1, <2>2 DEF PlacesTyped, PlacesHeld
  <2>4. RoomForAll'
      BY <1>0, <2>1 DEF RoomForAll, Candidates
  <2>5. running[c] = NotRunning
      BY <1>0, <2>1 DEF RunsFor
  <2> QED  BY <1>0, <2>1, <2>3, <2>4, <2>5, ReplyKeeps DEF WireInv
<1>3. CASE HandleStmtPrepare(c)
  <2>1. /\ command[c].kind = "prepare" /\ Len(prepared) < MaxStatements
        /\ prepared' = Append(prepared, command[c].stmt)
        /\ command' = [command EXCEPT ![c] = NoCommand]
        /\ UNCHANGED <<muxVars, connVars, serverVars>> /\ running' = running
      BY <1>3 DEF HandleStmtPrepare, Reply
  <2>2. command[c].stmt \in Statement
      BY <1>c, <2>1, CommandKinds
  <2>3. /\ prepared' \in Seq(Statement) /\ Len(prepared') <= MaxStatements
        /\ DOMAIN prepared \subseteq DOMAIN prepared'
    <3>1. prepared \in Seq(Statement) /\ Len(prepared) \in Nat
        BY <1>0 DEF CommandsTyped
    <3>2. prepared' \in Seq(Statement) /\ Len(prepared') = Len(prepared) + 1
        BY <2>1, <2>2, <3>1
    <3> QED  BY <2>1, <3>1, <3>2, WireLimits
  <2>4. CommandsTyped'
      BY <1>0, <2>1, <2>3 DEF CommandsTyped
  <2>5. running[c] = NotRunning
      BY <1>0, <2>1 DEF RunsFor
  <2>6. \A d \in Conn : RunsFor(d)'
      BY <1>0, <2>1, <2>3, <2>5 DEF RunsFor, CommandsTyped
  <2>7. PlacesTyped' /\ PlacesHeld' /\ RoomForAll'
      BY <1>0, <2>1, PlacesStay
  <2> QED  BY <2>4, <2>6, <2>7 DEF WireInv
<1>4. CASE HandleStmtExecute(c)
  <2>1. CASE command[c].id \in DOMAIN prepared
      BY <1>4, <2>1, HandleQueryKeeps DEF HandleStmtExecute
  <2>2. CASE command[c].id \notin DOMAIN prepared
    <3>1. /\ command[c].kind = "execute" /\ Reply(c)
          /\ UNCHANGED <<muxVars, connVars, running, prepared, serverVars>>
        BY <1>4, <2>2 DEF HandleStmtExecute
    <3>2. running[c] = NotRunning
        BY <1>0, <2>2, <3>1 DEF RunsFor
    <3>3. PlacesTyped' /\ PlacesHeld' /\ RoomForAll'
        BY <1>0, <3>1, PlacesStay
    <3> QED  BY <1>0, <3>1, <3>2, <3>3, ReplyKeeps DEF WireInv
  <2> QED  BY <2>1, <2>2
<1>5. CASE HandleComQuery(c)
    BY <1>5, HandleQueryKeeps DEF HandleComQuery
<1> QED  BY <1>1, <1>2, <1>3, <1>4, <1>5 DEF Handle

\* Every step of the wire protocol, or none, keeps its invariant.
LEMMA WireStep == WireInv /\ [WireNext]_wire => WireInv'
<1> SUFFICES ASSUME WireInv, [WireNext]_wire PROVE WireInv'
    OBVIOUS
<1>0. PlacesTyped /\ PlacesHeld /\ CommandsTyped /\ RoomForAll /\ \A c \in Conn : RunsFor(c)
    BY DEF WireInv
<1>1. ASSUME NEW c \in Conn, AcceptSocket(c) \/ FirstData(c) \/ RefuseLogin(c)
      PROVE  WireInv'
  <2>1. PICK to \in {"detecting", "http", "closed"} : Becomes(c, to)
      BY <1>1 DEF AcceptSocket, FirstData, RefuseLogin
  <2>2. /\ sock[c] \in {"none", "detecting", "greeted"}
        /\ UNCHANGED <<overlapped, connVars, commandVars, serverVars>>
      BY <1>1 DEF AcceptSocket, FirstData, RefuseLogin
  <2> QED  BY <2>1, <2>2, SocketKeeps
<1>2. ASSUME NEW c \in Conn, Silence(c) PROVE WireInv'
    BY <1>2, HandshakeKeeps
<1>3. ASSUME NEW c \in Conn, NEW d \in Database, Register(c, d) PROVE WireInv'
    BY <1>3, RegisterKeeps
<1>4. ASSUME NEW c \in Conn, Vanish(c) \/ IdleTimeout(c) PROVE WireInv'
    BY <1>4, LeavingKeeps DEF Vanish, IdleTimeout
<1>5. ASSUME NEW c \in Conn, Send(c) PROVE WireInv'
  <2>1. PICK m \in Commands : command' = [command EXCEPT ![c] = m]
      BY <1>5 DEF Send
  <2>2. /\ command[c] = NoCommand
        /\ UNCHANGED <<muxVars, connVars, serverVars>> /\ UNCHANGED <<running, prepared>>
      BY <1>5 DEF Send
  <2>3. running[c] = NotRunning
      BY <1>0, <2>2, CommandKinds DEF RunsFor
  <2>4. CommandsTyped'
      BY <1>0, <2>1, <2>2 DEF CommandsTyped
  <2>5. \A d \in Conn : RunsFor(d)'
      BY <1>0, <2>1, <2>2, <2>3 DEF RunsFor, CommandsTyped
  <2>6. PlacesTyped' /\ PlacesHeld' /\ RoomForAll'
      BY <1>0, <2>2, PlacesStay
  <2> QED  BY <2>4, <2>5, <2>6 DEF WireInv
<1>6. ASSUME NEW c \in Conn, Handle(c) PROVE WireInv'
    BY <1>6, HandleKeeps
<1>7. ASSUME NEW c \in Conn, ClickHouseAnswers(c) PROVE WireInv'
  <2>1. /\ running' = [running EXCEPT ![c] = NotRunning]
        /\ command' = [command EXCEPT ![c] = NoCommand] /\ prepared' = prepared
        /\ UNCHANGED <<muxVars, connVars, serverVars>>
      BY <1>7 DEF ClickHouseAnswers, Reply
  <2>2. CommandsTyped'
      BY <1>0, <2>1 DEF CommandsTyped
  <2>3. \A d \in Conn : RunsFor(d)'
      BY <1>0, <2>1 DEF RunsFor, CommandsTyped
  <2>4. PlacesTyped' /\ PlacesHeld' /\ RoomForAll'
      BY <1>0, <2>1, PlacesStay
  <2> QED  BY <2>2, <2>3, <2>4 DEF WireInv
<1>8. ASSUME NEW d \in Database, DatabaseAdded(d) \/ DatabaseRemoved(d) PROVE WireInv'
  <2>1. /\ databases' \subseteq Database
        /\ UNCHANGED <<muxVars, connVars, commandVars, serving>>
      BY <1>0, <1>8 DEF DatabaseAdded, DatabaseRemoved, PlacesTyped
  <2>2. PlacesTyped' /\ PlacesHeld'
      BY <1>0, <2>1 DEF PlacesTyped, PlacesHeld, muxVars, connVars
  <2>3. RoomForAll'
      BY <1>0, <2>1 DEF RoomForAll, Candidates, muxVars, connVars
  <2>4. CommandsTyped' /\ \A c \in Conn : RunsFor(c)'
      BY <1>0, <2>1, CommandsStay
  <2> QED  BY <2>2, <2>3, <2>4 DEF WireInv
<1>9. CASE Stop
  <2>1. /\ serving' = FALSE /\ connections' = {} /\ idleTimer' = {}
        /\ database' = [c \in Conn |-> Default]
        /\ UNCHANGED <<sock, overlapped, databases>> /\ UNCHANGED commandVars
      BY <1>9 DEF Stop, muxVars
  <2>2. PlacesTyped' /\ PlacesHeld'
      BY <1>0, <2>1, WireLimits DEF PlacesTyped, PlacesHeld
  <2>3. Candidates' \subseteq Candidates
      BY <2>1 DEF Candidates
  <2>4. CommandsTyped' /\ \A c \in Conn : RunsFor(c)'
      BY <1>0, <2>1, CommandsStay
  <2> QED  BY <1>0, <2>1, <2>2, <2>3, <2>4, FewerCandidates DEF WireInv
<1>10. CASE UNCHANGED wire
  <2>1. UNCHANGED <<muxVars, connVars, commandVars, serverVars>>
      BY <1>10 DEF wire
  <2>2. PlacesTyped' /\ PlacesHeld' /\ RoomForAll'
      BY <1>0, <2>1, PlacesStay
  <2>3. CommandsTyped' /\ \A c \in Conn : RunsFor(c)'
      BY <1>0, <2>1, CommandsStay
  <2> QED  BY <2>2, <2>3 DEF WireInv
<1> QED
    BY <1>1, <1>2, <1>3, <1>4, <1>5, <1>6, <1>7, <1>8, <1>9, <1>10 DEF WireNext

-----------------------------------------------------------------------------
(* The process                                                             *)
-----------------------------------------------------------------------------

\* The process starts with nothing up.
LEMMA LifecycleInitially == LifecycleInit => LifecycleTypeOK
BY DEF LifecycleInit, LifecycleTypeOK, Stages

\* Every step of the process, or none, keeps the typing.
LEMMA LifecycleStep == LifecycleTypeOK /\ [LifecycleNext]_lifecycle => LifecycleTypeOK'
<1> SUFFICES ASSUME LifecycleTypeOK, [LifecycleNext]_lifecycle PROVE LifecycleTypeOK'
    OBVIOUS
<1>1. CASE Starting
    BY <1>1 DEF Starting, Configure, AllInitialized, Listen, InstallHandlers, StartWire, Goto,
                LifecycleTypeOK, Stages
<1>2. CASE CloseWire \/ WireClosed \/ WireTimeout \/ ClosePort \/ PortClosed \/ PortTimeout
    BY <1>2 DEF CloseWire, WireClosed, WireTimeout, ClosePort, PortClosed, PortTimeout, Goto,
                LifecycleTypeOK, Stages
<1>3. CASE CloseHttp \/ HttpClosed \/ HttpTimeout \/ Flushed
    BY <1>3 DEF CloseHttp, HttpClosed, HttpTimeout, Flushed, Goto, LifecycleTypeOK, Stages
<1>4. CASE Signal \/ Throw \/ Die
    BY <1>4 DEF Signal, Throw, Die, LifecycleTypeOK, Stages
<1>5. ASSUME NEW d \in Hosted, InitializeDatabase(d) PROVE LifecycleTypeOK'
  <2>1. PICK result \in {"up", "failed"} : hosted' = [hosted EXCEPT ![d] = result]
      BY <1>5 DEF InitializeDatabase
  <2>2. UNCHANGED <<shared, stage, mysqlSide, port, socket, heard, dying, exit>>
      BY <1>5 DEF InitializeDatabase
  <2> QED  BY <2>1, <2>2 DEF LifecycleTypeOK
<1>6. ASSUME NEW c \in Socket, NEW kind \in {"out", "http", "mysql"},
             socket' = [socket EXCEPT ![c] = kind],
             UNCHANGED <<shared, stage, hosted, mysqlSide, port, heard, dying, exit>>
      PROVE  LifecycleTypeOK'
    BY <1>6 DEF LifecycleTypeOK
<1>7. ASSUME NEW c \in Socket, ClientLeaves(c) PROVE LifecycleTypeOK'
    BY <1>6, <1>7 DEF ClientLeaves
<1>8. ASSUME NEW c \in Socket, NEW kind \in {"http", "mysql"}, ClientArrives(c, kind)
      PROVE  LifecycleTypeOK'
    BY <1>6, <1>8 DEF ClientArrives
<1>9. CASE UNCHANGED lifecycle
    BY <1>9 DEF lifecycle, LifecycleTypeOK
<1> QED
    BY <1>1, <1>2, <1>3, <1>4, <1>5, <1>7, <1>8, <1>9 DEF LifecycleNext, Stopping

-----------------------------------------------------------------------------
(* The clients together                                                    *)
-----------------------------------------------------------------------------

ClientsInv == SessionInv /\ WireInv /\ LifecycleTypeOK

\* All begin in order, ...
LEMMA ClientsInitially == ClientsInit => ClientsInv /\ Promise!CallsInit
BY SessionInitially, WireInitially, LifecycleInitially, SessionImplementsInitially
   DEF ClientsInit, ClientsInv

\* ... a step moves one of them at most, ...
LEMMA ClientsMove ==
    [ClientsNext]_clients =>
        [SessionNext]_session /\ [WireNext]_wire /\ [LifecycleNext]_lifecycle
BY DEF ClientsNext, clients

\* ... and none of them gets out of order.
LEMMA ClientsStep == ClientsInv /\ [ClientsNext]_clients => ClientsInv' /\ PromiseStep
BY ClientsMove, SessionStep, SessionImplements, WireStep, LifecycleStep DEF ClientsInv

\* The invariant of the clients: the base of the theorems below.
THEOREM ClientsInvariance == ClientsSpec => []ClientsInv
<1>1. ClientsInit => ClientsInv
    BY ClientsInitially
<1>2. ClientsInv /\ [ClientsNext]_clients => ClientsInv'
    BY ClientsStep
<1> QED  BY <1>1, <1>2, PTL DEF ClientsSpec

\* A session that lost its connection has a socket, a timer or no attempt left, and
\* one that was closed does nothing more, whatever events, timeouts and calls come in
\* whatever order (DucklingClient of the SDK); every socket of the wire protocol that
\* has a place may have it, and a statement runs only for a command not yet answered.
THEOREM SessionsStaySound == ClientsSpec => []SessionsSound
<1>1. ClientsInv => SessionsSound
    BY SessionInvImplies, WireInvImplies DEF ClientsInv, SessionsSound
<1> QED  BY <1>1, ClientsInvariance, PTL

\* No more clients have a place than maxConnections, for any limit and any number of
\* sockets, as long as no two handshakes are under way at once (handleConnection checks
\* the limit, registration takes the place).
THEOREM LimitHoldsUnlessRaced == ClientsSpec => []LimitUnlessRaced
<1>1. ClientsInv => LimitUnlessRaced
    BY WireInvImplies DEF ClientsInv
<1> QED  BY <1>1, ClientsInvariance, PTL

\* The session implements the safety of what query() promises: a call ends once, with
\* the rows of its own statement or an error, and the statement runs at most once,
\* through any number of calls, attempts, losses and timeouts. (That every call ends is
\* liveness and part of CallsKept.)
THEOREM SessionImplementsCalls ==
    ClientsSpec => Promise!CallsInit /\ [][Promise!CallsNext]_(Promise!calls)
<1>1. ClientsInit => Promise!CallsInit
    BY ClientsInitially
<1>2. ClientsInv /\ [ClientsNext]_clients => [Promise!CallsNext]_(Promise!calls)
    BY ClientsStep DEF PromiseStep
<1> QED  BY <1>1, <1>2, ClientsInvariance, PTL DEF ClientsSpec
==============================================================================
