---------------------------- MODULE ServerLifecycle ----------------------------
(***************************************************************************)
(* The life of the server process: main() of index.ts, start() and stop()  *)
(* of server.ts with the listeners of HTTP and of the MySQL protocol, on   *)
(* one shared port or on two. Databases are initialized side by side and   *)
(* the port opens when each is done or has failed; the handlers of signals *)
(* are installed last, so an earlier signal kills the process. stop() goes *)
(* from listener to listener; what a listener waits for is the clients'    *)
(* business, so each wait has a timer. An exception nobody catches ends    *)
(* the process while it goes on with what it was doing.                    *)
(***************************************************************************)
EXTENDS Naturals, FiniteSets

CONSTANTS
    Hosted,                 \* getAllDatabases()
    Socket                  \* connections of clients

VARIABLES
    shared,                 \* sharedPortMode: one port for both protocols
    stage,                  \* how far main() or the shutdown is
    hosted,               \* [Hosted -> "waiting", "up" or "failed"]
    mysqlSide,              \* this.mysqlProtocolServer, and whether it takes sockets
    port,                   \* it was never open ("shut"), is "open", or was "closed"
    socket,                 \* [Socket -> what the connection is]
    heard,                  \* the process was sent a signal
    dying,                  \* an exception was not caught: Sentry.close, then exit
    exit                    \* how the process ended

lifecycle == <<shared, stage, hosted, mysqlSide, port, socket, heard, dying, exit>>

Stages == {"configuring", "initializing", "wire first", "binding", "wire last", "reporting",
           "serving", "stopping wire", "stopping port", "stopping http", "flushing"}

LifecycleTypeOK ==
    /\ shared \in BOOLEAN /\ stage \in Stages
    /\ hosted \in [Hosted -> {"waiting", "up", "failed"}]
    /\ mysqlSide \in {"none", "taking", "refusing"} /\ port \in {"shut", "open", "closed"}
    /\ socket \in [Socket -> {"out", "http", "mysql"}]
    /\ heard \in BOOLEAN /\ dying \in BOOLEAN
    /\ exit \in {"running", "killed", "0", "1"}

LifecycleInit ==
    /\ shared \in BOOLEAN /\ stage = "configuring"
    /\ hosted = [d \in Hosted |-> "waiting"]
    /\ mysqlSide = "none" /\ port = "shut"
    /\ socket = [c \in Socket |-> "out"]
    /\ heard = FALSE /\ dying = FALSE /\ exit = "running"

Alive == exit = "running"

Goto(from, to) == Alive /\ stage = from /\ stage' = to

-----------------------------------------------------------------------------
\* An insecure configuration of authentication ends a server in production.
Configure ==
    /\ Alive /\ stage = "configuring"
    /\ \/ stage' = "initializing" /\ exit' = exit
       \/ stage' = stage /\ exit' = "1"
    /\ UNCHANGED <<shared, hosted, mysqlSide, port, socket, heard, dying>>

\* One of the promises of start(); a failure is caught and logged.
InitializeDatabase(d) ==
    /\ Alive /\ stage = "initializing" /\ hosted[d] = "waiting"
    /\ \E result \in {"up", "failed"} : hosted' = [hosted EXCEPT ![d] = result]
    /\ UNCHANGED <<shared, stage, mysqlSide, port, socket, heard, dying, exit>>

\* Promise.all is done; the MySQL side comes first when the port is shared.
AllInitialized ==
    /\ \A d \in Hosted : hosted[d] # "waiting"
    /\ Goto("initializing", IF shared THEN "wire first" ELSE "binding")
    /\ UNCHANGED <<shared, hosted, mysqlSide, port, socket, heard, dying, exit>>

\* MySQLProtocolServer.start. When it fails, a shared port serves HTTP only and
\* forgets the object; a port of its own keeps the object that does not listen.
StartWire(from, to) ==
    /\ Goto(from, to)
    /\ mysqlSide' \in {"taking", IF shared THEN "none" ELSE "refusing"}
    /\ UNCHANGED <<shared, hosted, port, socket, heard, dying, exit>>

\* listen(): a port that is taken is an error nothing listens for, and start() goes
\* on. The MySQL protocol has its own port next, unless it is switched off.
Listen ==
    /\ Goto("binding", "reporting") \/ (~shared /\ Goto("binding", "wire last"))
    /\ \/ port' = "open" /\ dying' = dying
       \/ port' = port /\ dying' = TRUE
    /\ UNCHANGED <<shared, hosted, mysqlSide, socket, heard, exit>>

\* logStorageReport is through; the handlers of SIGINT and SIGTERM are installed.
InstallHandlers ==
    /\ Goto("reporting", "serving")
    /\ UNCHANGED <<shared, hosted, mysqlSide, port, socket, heard, dying, exit>>

-----------------------------------------------------------------------------
\* A client connects. On a shared port a silent one is handed to the MySQL side,
\* or dropped when there is none.
ClientArrives(c, kind) ==
    /\ Alive /\ socket[c] = "out"
    /\ kind = "http" \/ shared => port = "open"
    /\ kind = "mysql" => mysqlSide = "taking"
    /\ socket' = [socket EXCEPT ![c] = kind]
    /\ UNCHANGED <<shared, stage, hosted, mysqlSide, port, heard, dying, exit>>

ClientLeaves(c) ==
    /\ Alive /\ socket[c] # "out"
    /\ socket' = [socket EXCEPT ![c] = "out"]
    /\ UNCHANGED <<shared, stage, hosted, mysqlSide, port, heard, dying, exit>>

-----------------------------------------------------------------------------
\* gracefulShutdown up to the first await. Without its handlers the process is
\* killed; a second signal finds isShuttingDown and changes nothing.
Signal ==
    /\ Alive /\ ~heard /\ heard' = TRUE
    /\ \/ stage = "serving" /\ stage' = "stopping wire" /\ exit' = exit
       \/ stage # "serving" /\ stage' = stage /\ exit' = "killed"
    /\ UNCHANGED <<shared, hosted, mysqlSide, port, socket, dying>>

Gone(kind) == \A c \in Socket : socket[c] # kind

\* The mysqlProtocolServer takes no more sockets, and leaves the ones it has; a
\* listener of its own closes when they are gone, or after five seconds.
CloseWire ==
    /\ Alive /\ stage = "stopping wire" /\ mysqlSide # "none"
    /\ mysqlSide' = "none"
    /\ stage' = IF shared THEN "stopping port" ELSE stage
    /\ UNCHANGED <<shared, hosted, port, socket, heard, dying, exit>>

WireClosed ==
    /\ mysqlSide = "none" /\ (shared \/ Gone("mysql"))
    /\ Goto("stopping wire", IF shared THEN "stopping port" ELSE "stopping http")
    /\ UNCHANGED <<shared, hosted, mysqlSide, port, socket, heard, dying, exit>>

WireTimeout ==
    /\ mysqlSide = "none" /\ ~shared /\ Goto("stopping wire", "stopping http")
    /\ UNCHANGED <<shared, hosted, mysqlSide, port, socket, heard, dying, exit>>

\* sharedServer.close: no more connections from here on. It calls back when the
\* last socket is gone, at once if it never listened.
ClosePort ==
    /\ Alive /\ stage = "stopping port" /\ port = "open" /\ port' = "closed"
    /\ UNCHANGED <<shared, stage, hosted, mysqlSide, socket, heard, dying, exit>>

PortClosed ==
    /\ port # "open" /\ \A c \in Socket : socket[c] = "out"
    /\ Goto("stopping port", "stopping http")
    /\ UNCHANGED <<shared, hosted, mysqlSide, port, socket, heard, dying, exit>>

\* Mutant of PortTimeout: clients of the MySQL side are waited for without limit.
PortTimeoutForHttp ==
    /\ port # "open" /\ Gone("mysql") /\ Goto("stopping port", "stopping http")
    /\ UNCHANGED <<shared, hosted, mysqlSide, port, socket, heard, dying, exit>>

\* Five seconds are enough for stop().
PortTimeout ==
    /\ port # "open" /\ Goto("stopping port", "stopping http")
    /\ UNCHANGED <<shared, hosted, mysqlSide, port, socket, heard, dying, exit>>

\* The HTTP server behind a shared port never listened: it drops its sockets. The
\* one that listened waits for them; one that could not listen is an error, and
\* the shutdown ends with it.
CloseHttp ==
    /\ Alive /\ stage = "stopping http"
    /\ \/ /\ shared /\ stage' = "flushing"
          /\ socket' = [c \in Socket |-> IF socket[c] = "http" THEN "out" ELSE socket[c]]
          /\ UNCHANGED <<port, exit>>
       \/ ~shared /\ port = "open" /\ port' = "closed" /\ UNCHANGED <<stage, socket, exit>>
       \/ ~shared /\ port = "shut" /\ exit' = "1" /\ UNCHANGED <<stage, socket, port>>
    /\ UNCHANGED <<shared, hosted, mysqlSide, heard, dying>>

HttpClosed ==
    /\ ~shared /\ port = "closed" /\ Gone("http") /\ Goto("stopping http", "flushing")
    /\ UNCHANGED <<shared, hosted, mysqlSide, port, socket, heard, dying, exit>>

\* Ten seconds are enough as well.
HttpTimeout ==
    /\ ~shared /\ port = "closed" /\ Goto("stopping http", "flushing")
    /\ UNCHANGED <<shared, hosted, mysqlSide, port, socket, heard, dying, exit>>

\* Sentry.close and process.exit(0).
Flushed ==
    /\ Alive /\ stage = "flushing" /\ exit' = "0"
    /\ UNCHANGED <<shared, stage, hosted, mysqlSide, port, socket, heard, dying>>

\* An exception nobody catches, anywhere in the process, ...
Throw ==
    /\ Alive /\ ~dying /\ dying' = TRUE
    /\ UNCHANGED <<shared, stage, hosted, mysqlSide, port, socket, heard, exit>>

\* ... ends it when Sentry is flushed, whatever else goes on.
Die ==
    /\ Alive /\ dying /\ exit' = "1"
    /\ UNCHANGED <<shared, stage, hosted, mysqlSide, port, socket, heard, dying>>

-----------------------------------------------------------------------------
Starting ==
    \/ Configure \/ AllInitialized \/ Listen \/ InstallHandlers
    \/ StartWire("wire first", "binding") \/ StartWire("wire last", "reporting")

Stopping ==
    \/ CloseWire \/ WireClosed \/ WireTimeout \/ ClosePort \/ PortClosed \/ PortTimeout
    \/ CloseHttp \/ HttpClosed \/ HttpTimeout \/ Flushed

LifecycleNext ==
    \/ Starting \/ Stopping \/ Signal \/ Throw \/ Die
    \/ \E d \in Hosted : InitializeDatabase(d)
    \/ \E c \in Socket : ClientLeaves(c) \/ \E kind \in {"http", "mysql"} : ClientArrives(c, kind)

\* What the process awaits answers or fails and its timers fire. Nothing is
\* assumed of the clients: a connection may stay for ever.
LifecycleFairness ==
    /\ WF_lifecycle(Starting) /\ WF_lifecycle(Stopping) /\ WF_lifecycle(Die)
    /\ \A d \in Hosted : WF_lifecycle(InitializeDatabase(d))

LifecycleSpec == LifecycleInit /\ [][LifecycleNext]_lifecycle /\ LifecycleFairness

-----------------------------------------------------------------------------
\* A server comes up or ends, however many of its databases fail; and one that is
\* told to stop, or has lost its port, ends, whatever its clients hold on to.
StartsAndStops ==
    /\ (stage = "initializing") ~> (stage = "serving" \/ ~Alive)
    /\ (heard \/ dying) ~> ~Alive
=============================================================================
