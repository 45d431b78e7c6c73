------------------------------ MODULE MySQLWire ------------------------------
(***************************************************************************)
(* The port: portMultiplexer.ts decides by who speaks first whether a      *)
(* socket is HTTP or MySQL; mysqlProtocolServer.ts shakes hands, limits    *)
(* and registers MySQL connections and answers their commands;             *)
(* mysqlQueryRouter.ts decides what becomes of a statement.                *)
(*                                                                         *)
(* A connection sends a command only when the one before was answered, as  *)
(* the protocol demands. A statement is the set of the router's patterns   *)
(* that it matches: which rule applies depends on their order. Result sets *)
(* have no content; what matters is that something answers.                *)
(***************************************************************************)
EXTENDS Naturals, FiniteSets, Sequences, FiniteSetsExt

CONSTANTS
    Conn,                   \* client sockets
    Database,               \* database ids, of which some are registered
    Default,                \* config.mysqlProtocol.defaultDatabase
    Statement,              \* the statements clients send: sets of patterns
    MaxConnections,         \* config.mysqlProtocol.maxConnections
    MaxStatements           \* bound on the statements prepared

ASSUME WireAssumption ==
    /\ Default \in Database
    /\ MaxConnections \in Nat \ {0} /\ MaxStatements \in Nat

VARIABLES
    serving,                \* the MySQL server runs (this.server # null)
    databases,              \* the registered database ids
    sock,                   \* [Conn -> stage of its socket]
    connections,            \* the registered connections
    database,               \* [Conn -> its current database, of a registered one]
    idleTimer,              \* connections whose idle timer is armed
    command,                \* [Conn -> the command not yet answered]
    running,                \* [Conn -> the database its statement runs on]
    prepared,               \* the statements prepared so far, by id
    overlapped              \* two handshakes were under way at once

muxVars == <<sock, overlapped>>
connVars == <<connections, database, idleTimer>>
commandVars == <<command, running, prepared>>
serverVars == <<serving, databases>>
wire == <<muxVars, connVars, commandVars, serverVars>>

NoCommand == [kind |-> "none"]
Commands ==
    {[kind |-> "query", stmt |-> s] : s \in Statement}
    \cup {[kind |-> "prepare", stmt |-> s] : s \in Statement}
    \cup {[kind |-> "execute", id |-> i] : i \in 1..(MaxStatements + 1)}
    \cup {[kind |-> "init_db", db |-> d] : d \in Database}
    \cup {[kind |-> "ping"]}

NotRunning == "not running"

WireTypeOK ==
    /\ serving \in BOOLEAN /\ overlapped \in BOOLEAN
    /\ databases \subseteq Database
    /\ sock \in [Conn -> {"none", "detecting", "http", "greeted", "ready", "closed"}]
    /\ database \in [Conn -> Database]
    /\ command \in [Conn -> Commands \cup {NoCommand}]
    /\ running \in [Conn -> Database \cup {NotRunning}]
    /\ prepared \in Seq(Statement) /\ Len(prepared) <= MaxStatements
    \* A place is held by an open connection with its idle timer, no other;
    \* every open one holds a place until the server stops.
    /\ connections = idleTimer
    /\ \A c \in connections : sock[c] = "ready"
    /\ \A c \in Conn : sock[c] = "ready" /\ serving => c \in connections
    /\ \A c \in Conn : running[c] # NotRunning => command[c] # NoCommand

WireInit ==
    /\ serving = TRUE
    /\ databases = Database
    /\ sock = [c \in Conn |-> "none"]
    /\ connections = {} /\ idleTimer = {}
    /\ database = [c \in Conn |-> Default]
    /\ command = [c \in Conn |-> NoCommand]
    /\ running = [c \in Conn |-> NotRunning]
    /\ prepared = <<>>
    /\ overlapped = FALSE

-----------------------------------------------------------------------------
\* The router

\* routeQuery's tests in the order the code makes them, with what they answer:
\* an OK, a canned result set, an error, or a query for ClickHouse.
SelectIntercepts == << <<"select of variables", "canned">>, <<"select of a function", "canned">> >>

Intercepts == <<
    <<"set", "ok">>, <<"transaction", "ok">>, <<"show grants, warnings, status", "canned">> >>

\* Rewritten catalogue queries, recognised anywhere in the text.
Catalogue == <<
    <<"schemata", "canned">>, <<"routines", "canned">>,
    <<"primary key of statistics", "forward">>, <<"statistics", "canned">>,
    <<"columns", "forward">>, <<"row count of tables", "forward">>,
    <<"size of tables", "canned">> >>

Writes == << <<"write", "error">> >>

Translations == <<
    <<"show databases", "canned">>, <<"show tables", "forward">>,
    <<"describe nothing", "error">>, <<"describe", "forward">>,
    <<"show index", "canned">>, <<"kill", "ok">>, <<"use", "ok">> >>

Rules == SelectIntercepts \o Intercepts \o Catalogue \o Writes \o Translations

\* The first rule that matches; everything else goes to ClickHouse.
RouteQuery(s) ==
    LET hits == {i \in 1..Len(Rules) : Rules[i][1] \in s}
    IN  IF hits = {} THEN "forward" ELSE Rules[Min(hits)][2]

-----------------------------------------------------------------------------
\* Sockets

Becomes(c, stage) == sock' = [sock EXCEPT ![c] = stage]

\* removeConnection: the place, the timer and the record of the connection go
\* together.
RemoveConnection(c) ==
    /\ connections' = connections \ {c}
    /\ idleTimer' = idleTimer \ {c}
    /\ database' = [database EXCEPT ![c] = Default]

\* The listener accepts and waits for the first bytes.
AcceptSocket(c) ==
    /\ sock[c] = "none"
    /\ Becomes(c, "detecting")
    /\ UNCHANGED <<overlapped, connVars, commandVars, serverVars>>

\* onFirstData: an HTTP client speaks first; its bytes are pushed back and the
\* socket is handed over, or destroyed if that throws.
FirstData(c) ==
    /\ sock[c] = "detecting"
    /\ \E stage \in {"http", "closed"} : Becomes(c, stage)
    /\ UNCHANGED <<overlapped, connVars, commandVars, serverVars>>

\* Mutant of HandleConnection: one connection too many.
AdmitOneMore(c) ==
    IF serving /\ Cardinality(connections) <= MaxConnections
    THEN /\ Becomes(c, "greeted")
         /\ overlapped' = (overlapped \/ \E d \in Conn : sock[d] = "greeted")
    ELSE Becomes(c, "closed") /\ UNCHANGED overlapped

\* handleConnection: over the limit the client gets error 1040; below it, the
\* greeting. The limit counts the registered connections only, and
\* registration comes at the end of the handshake.
HandleConnection(c) ==
    IF serving /\ Cardinality(connections) < MaxConnections
    THEN /\ Becomes(c, "greeted")
         /\ overlapped' = (overlapped \/ \E d \in Conn : sock[d] = "greeted")
    ELSE Becomes(c, "closed") /\ UNCHANGED overlapped

\* The detection timer: silence means a MySQL client. injectSocket refuses when
\* the server does not run, and the socket is destroyed.
Silence(c) ==
    /\ sock[c] = "detecting"
    /\ HandleConnection(c)
    /\ UNCHANGED <<connVars, commandVars, serverVars>>

\* authenticate: wrong credentials and unknown databases are refused and the
\* connection closed; the default database is not looked up.
RefuseLogin(c) ==
    /\ sock[c] = "greeted"
    /\ Becomes(c, "closed")
    /\ UNCHANGED <<overlapped, connVars, commandVars, serverVars>>

Register(c, d) ==
    /\ sock[c] = "greeted"
    /\ d \in databases \cup {Default}
    /\ Becomes(c, "ready")
    /\ connections' = connections \cup {c}
    /\ idleTimer' = idleTimer \cup {c}
    /\ database' = [database EXCEPT ![c] = d]
    /\ UNCHANGED <<overlapped, commandVars, serverVars>>

\* A client that is gone leaves no command behind; what it had running on
\* ClickHouse ends there and its result is dropped.
Forget(c) ==
    /\ command' = [command EXCEPT ![c] = NoCommand]
    /\ running' = [running EXCEPT ![c] = NotRunning]
    /\ UNCHANGED prepared

\* 'quit', 'end' and 'error' of a connection; the end or error of a socket
\* that is not classified yet.
Vanish(c) ==
    /\ sock[c] \notin {"none", "closed"}
    /\ Becomes(c, "closed")
    /\ RemoveConnection(c)
    /\ Forget(c)
    /\ UNCHANGED <<overlapped, serverVars>>

\* The idle timer, armed at registration and never again: commands only touch
\* lastActivity.
IdleTimeout(c) ==
    /\ c \in idleTimer
    /\ Becomes(c, "closed")
    /\ RemoveConnection(c)
    /\ Forget(c)
    /\ UNCHANGED <<overlapped, serverVars>>

-----------------------------------------------------------------------------
\* Commands

Send(c) ==
    /\ sock[c] = "ready" /\ command[c] = NoCommand
    /\ \E m \in Commands : command' = [command EXCEPT ![c] = m]
    /\ UNCHANGED <<muxVars, connVars, running, prepared, serverVars>>

\* safeWriteOk, safeWriteError, writeResultSet.
Reply(c) == command' = [command EXCEPT ![c] = NoCommand]

\* 'ping'; every command of a connection that holds no place any more, but a
\* prepare and a ping, gets error 1053.
Ping(c) ==
    /\ command[c].kind = "ping"
    /\ Reply(c)
    /\ UNCHANGED <<muxVars, connVars, running, prepared, serverVars>>

\* USE as COM_INIT_DB.
HandleInitDb(c) ==
    /\ command[c].kind = "init_db"
    /\ Reply(c)
    /\ IF c \in connections /\ command[c].db \in databases
       THEN database' = [database EXCEPT ![c] = command[c].db]
       ELSE UNCHANGED database
    /\ UNCHANGED <<muxVars, connections, idleTimer, running, prepared, serverVars>>

\* handleStmtPrepare keeps the text under the next id, for all connections and
\* for good.
HandleStmtPrepare(c) ==
    /\ command[c].kind = "prepare"
    /\ Len(prepared) < MaxStatements
    /\ prepared' = Append(prepared, command[c].stmt)
    /\ Reply(c)
    /\ UNCHANGED <<muxVars, connVars, running, serverVars>>

\* The bound on prepared statements is the model's, not the code's.
PrepareNoMore(c) ==
    /\ command[c].kind = "prepare"
    /\ Len(prepared) = MaxStatements
    /\ Reply(c)
    /\ UNCHANGED <<muxVars, connVars, running, prepared, serverVars>>

\* executeClickHouseQuery: the database may have been removed meanwhile.
ExecuteClickHouseQuery(c) ==
    IF database[c] \in databases
    THEN running' = [running EXCEPT ![c] = database[c]] /\ UNCHANGED command
    ELSE Reply(c) /\ UNCHANGED running

\* handleQuery: a connection that lost its place gets error 1053.
HandleQuery(c, s) ==
    /\ running[c] = NotRunning
    /\ IF c \in connections /\ RouteQuery(s) = "forward"
       THEN ExecuteClickHouseQuery(c)
       ELSE Reply(c) /\ UNCHANGED running
    /\ UNCHANGED <<muxVars, connVars, prepared, serverVars>>

HandleComQuery(c) == command[c].kind = "query" /\ HandleQuery(c, command[c].stmt)

\* handleStmtExecute: an unknown id is error 1243.
HandleStmtExecute(c) ==
    /\ command[c].kind = "execute"
    /\ \/ /\ command[c].id \in DOMAIN prepared
          /\ HandleQuery(c, prepared[command[c].id])
       \/ /\ command[c].id \notin DOMAIN prepared
          /\ Reply(c)
          /\ UNCHANGED <<muxVars, connVars, running, prepared, serverVars>>

\* Mutant of ClickHouseAnswers: a failed query is logged, not answered.
AnswerRowsOnly(c) ==
    /\ running[c] # NotRunning
    /\ running' = [running EXCEPT ![c] = NotRunning]
    /\ Reply(c) \/ UNCHANGED command
    /\ UNCHANGED <<muxVars, connVars, prepared, serverVars>>

\* The rows as text, "no such table" for empty metadata, or the error.
ClickHouseAnswers(c) ==
    /\ running[c] # NotRunning
    /\ running' = [running EXCEPT ![c] = NotRunning]
    /\ Reply(c)
    /\ UNCHANGED <<muxVars, connVars, prepared, serverVars>>

-----------------------------------------------------------------------------
\* The server

\* Databases come and go while clients are connected.
DatabaseAdded(d) ==
    /\ d \notin databases
    /\ databases' = databases \cup {d}
    /\ UNCHANGED <<muxVars, connVars, commandVars, serving>>

DatabaseRemoved(d) ==
    /\ d \in databases
    /\ databases' = databases \ {d}
    /\ UNCHANGED <<muxVars, connVars, commandVars, serving>>

\* stop(): every place and timer is given up; the sockets stay open.
Stop ==
    /\ serving
    /\ serving' = FALSE
    /\ connections' = {} /\ idleTimer' = {}
    /\ database' = [c \in Conn |-> Default]
    /\ UNCHANGED <<muxVars, commandVars, databases>>

-----------------------------------------------------------------------------
Handle(c) ==
    \/ Ping(c) \/ HandleInitDb(c) \/ HandleStmtPrepare(c) \/ PrepareNoMore(c)
    \/ HandleStmtExecute(c) \/ HandleComQuery(c)

WireNext ==
    \/ \E c \in Conn :
          \/ AcceptSocket(c) \/ FirstData(c) \/ Silence(c) \/ RefuseLogin(c)
          \/ \E d \in Database : Register(c, d)
          \/ Vanish(c) \/ IdleTimeout(c)
          \/ Send(c) \/ Handle(c) \/ ClickHouseAnswers(c)
    \/ \E d \in Database : DatabaseAdded(d) \/ DatabaseRemoved(d)
    \/ Stop

\* Handlers run, the detection timer fires, ClickHouse ends what it was asked
\* (its client has a request timeout).
WireFairness ==
    \A c \in Conn : WF_wire(Handle(c)) /\ WF_wire(ClickHouseAnswers(c)) /\ WF_wire(Silence(c))

WireSpec == WireInit /\ [][WireNext]_wire /\ WireFairness

-----------------------------------------------------------------------------
\* Properties

\* The limit holds unless handshakes overlap: a place is taken at the end of
\* the handshake, but the limit is checked before it.
LimitUnlessRaced == ~overlapped => Cardinality(connections) <= MaxConnections

\* Whatever the statement, the database or the connection came to meanwhile,
\* every command is answered or its connection closed, and no socket stays
\* with the multiplexer.
NobodyHangs ==
    \A c \in Conn :
        /\ (command[c] # NoCommand) ~> (command[c] = NoCommand)
        /\ (sock[c] = "detecting") ~> (sock[c] # "detecting")
=============================================================================
