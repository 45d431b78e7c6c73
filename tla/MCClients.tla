------------------------------- MODULE MCClients -------------------------------
(***************************************************************************)
(* The two ways of a client to the server, and the life of the process     *)
(* they lead to, side by side: the WebSocket session of the SDK, the MySQL *)
(* wire protocol, the start and the end of the server. As they are         *)
(* modelled they share no state, so every behaviour moves one of them and  *)
(* leaves the others as they start.                                        *)
(***************************************************************************)
EXTENDS SdkSession, MySQLWire, ServerLifecycle

VARIABLE moving             \* the component that moves

clients == <<session, wire, lifecycle, moving>>

\* A statement for ClickHouse and one the router answers itself.
MCStatement == {{}, {"write"}}

ClientsInit ==
    /\ moving \in {"sdk", "wire", "process"}
    /\ SessionInit /\ WireInit /\ LifecycleInit
    /\ moving = "process" \/ shared

ClientsNext ==
    \/ moving = "sdk" /\ SessionNext /\ UNCHANGED <<wire, lifecycle, moving>>
    \/ moving = "wire" /\ WireNext /\ UNCHANGED <<session, lifecycle, moving>>
    \/ moving = "process" /\ LifecycleNext /\ UNCHANGED <<session, wire, moving>>

\* The fairness of the components, for the one that moves.
ClientsFairness ==
    /\ WF_session(moving = "sdk" /\ ConnectTimeout) /\ WF_session(moving = "sdk" /\ PingTick)
    /\ WF_session(moving = "sdk" /\ PingTimeout) /\ WF_session(moving = "sdk" /\ PingFails)
    /\ WF_session(moving = "sdk" /\ Closed)
    /\ \A c \in Call : /\ WF_session(moving = "sdk" /\ Resume(c))
                       /\ WF_session(moving = "sdk" /\ RequestTimeout(c))
    /\ \A c \in Conn : /\ WF_wire(moving = "wire" /\ Handle(c))
                       /\ WF_wire(moving = "wire" /\ ClickHouseAnswers(c))
                       /\ WF_wire(moving = "wire" /\ Silence(c))
    /\ WF_lifecycle(moving = "process" /\ Starting)
    /\ WF_lifecycle(moving = "process" /\ Stopping)
    /\ WF_lifecycle(moving = "process" /\ Die)
    /\ \A d \in Hosted : WF_lifecycle(moving = "process" /\ InitializeDatabase(d))

ClientsSpec == ClientsInit /\ [][ClientsNext]_clients /\ ClientsFairness

-----------------------------------------------------------------------------
\* The typing of all, and the life of a session: it is never without a way to
\* go on, and once closed it stays closed.
SessionsSound ==
    /\ SessionTypeOK /\ WireTypeOK /\ LifecycleTypeOK
    /\ NeverStranded /\ ClosedIsClosed
=============================================================================
