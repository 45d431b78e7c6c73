--------------------------- MODULE DatabaseServices ---------------------------
(***************************************************************************)
(* The objects behind one database id while the process lives: its         *)
(* MySQLConnection, the automation service with its timers and health      *)
(* checks (clickhouseAutomationService.ts), the sync service, and what the *)
(* handlers of server.ts that add, use and delete the database do to them  *)
(* (a new connection string in the record never reaches them). Each class  *)
(* keeps its objects by id; deletion closes and forgets the connection and *)
(* the automation, nothing forgets the sync service. A connection is a     *)
(* pool, closed by close() and opened again by reconnect(). One store      *)
(* stands for MySQL and ClickHouse: it answers or it does not.             *)
(***************************************************************************)
EXTENDS Naturals, FiniteSets

CONSTANTS
    MaxLives,               \* bound on the times the database is added
    MaxRestartAttempts,     \* config.automation.maxRestartAttempts
    MaxChecks               \* bound on the health checks under way at once

ASSUME ServicesAssumption ==
    /\ MaxLives \in Nat \ {0} /\ MaxRestartAttempts \in Nat
    /\ MaxChecks \in Nat \ {0}

Life == 1..MaxLives         \* an object of each class per life, at most
Check == 1..MaxChecks
None == 0

VARIABLES
    registered,             \* the database has a record
    life,                   \* lives begun
    deleting,               \* how far deleteDatabase is
    connection,             \* MySQLConnection.instances.get(id)
    automation,             \* ClickHouseAutomationService.instances.get(id)
    syncConnection,         \* the connection the sync service was made with
    open,                   \* [Life -> the pool of the connection is open]
    service,                \* [Life -> the automation services]
    check,                  \* [Check -> a health check and its service]
    answering,              \* the store answers
    synced                  \* changes with every sync that completes

records == <<registered, life, deleting>>
instances == <<connection, automation, syncConnection>>
objects == <<open, service, check>>
services == <<records, instances, objects, answering, synced>>

Unused == [stage |-> "none", of |-> None]

ServicesTypeOK ==
    /\ registered \in BOOLEAN /\ life \in 0..MaxLives
    /\ deleting \in {"no", "stopping", "closing"}
    /\ {connection, automation, syncConnection} \subseteq Life \cup {None}
    /\ open \in [Life -> BOOLEAN]
    /\ service \in [Life -> [on : Life \cup {None}, running : BOOLEAN, first : BOOLEAN,
                             busy : BOOLEAN, syncing : BOOLEAN, attempts : 0..MaxRestartAttempts]]
    /\ check \in [Check -> [stage : {"none", "probing", "waiting", "retrying"},
                            of : Life \cup {None}]]
    /\ answering \in BOOLEAN /\ synced \in BOOLEAN

ServicesInit ==
    /\ registered = FALSE /\ life = 0 /\ deleting = "no"
    /\ connection = None /\ automation = None /\ syncConnection = None
    /\ open = [l \in Life |-> FALSE]
    /\ service = [l \in Life |-> [on |-> None, running |-> FALSE, first |-> FALSE,
                                  busy |-> FALSE, syncing |-> FALSE, attempts |-> 0]]
    /\ check = [c \in Check |-> Unused]
    /\ answering = TRUE /\ synced = FALSE

-----------------------------------------------------------------------------
\* addDatabase; also the boot of a server that has the database on file.
AddDatabase ==
    /\ ~registered /\ life < MaxLives
    /\ registered' = TRUE /\ life' = life + 1
    /\ UNCHANGED <<deleting, instances, objects, answering, synced>>

\* The getInstance calls of a handler: what is missing is made of what exists.
CurrentConnection == IF connection = None THEN life ELSE connection
GetConnections ==
    /\ connection' = CurrentConnection
    /\ open' = IF connection # None THEN open ELSE [open EXCEPT ![life] = TRUE]
    /\ syncConnection' = IF syncConnection = None THEN CurrentConnection ELSE syncConnection

\* ... and the automation service, which becomes s.
AutomationService ==
    IF automation = None THEN [service[life] EXCEPT !.on = CurrentConnection]
                         ELSE service[automation]
WithAutomation(s) ==
    /\ registered /\ GetConnections
    /\ automation' = IF automation = None THEN life ELSE automation
    /\ service' = [service EXCEPT ![automation'] = s]
    /\ UNCHANGED <<records, check, answering, synced>>

\* Any other request that uses the database: the automatic bootstrap, a query.
UseDatabase ==
    /\ registered /\ GetConnections
    /\ UNCHANGED <<records, automation, service, check, answering, synced>>

\* start(): the loops, and a timeout for the first sync.
Started(s) == IF s.running THEN s ELSE [s EXCEPT !.running = TRUE, !.first = TRUE]
StartAutomation == WithAutomation(Started(AutomationService))

\* stop() clears the loops, not that timeout.
Stopped(s) == [s EXCEPT !.running = FALSE]
StopAutomation == WithAutomation(Stopped(AutomationService))

-----------------------------------------------------------------------------
\* The two guarded syncs, up to the await; one that finds another under way is
\* skipped.
Begun(s) == IF s.busy THEN s ELSE [s EXCEPT !.busy = TRUE, !.syncing = TRUE]
RequestSync == WithAutomation(Begun(AutomationService))

\* The interval of a running service, and the timeout of the first sync.
TimedSync(a) ==
    /\ service[a].running \/ service[a].first
    /\ service' = [service EXCEPT ![a] = [Begun(@) EXCEPT !.first = FALSE]]
    /\ UNCHANGED <<records, instances, open, check, answering, synced>>

Answers(l) == answering /\ l # None /\ open[l]

\* Mutant of SyncEnded: the flag is cleared on the way of success only.
FlagLeft(s, good) ==
    IF good THEN [s EXCEPT !.syncing = FALSE, !.busy = FALSE, !.attempts = 0]
    ELSE [s EXCEPT !.syncing = FALSE]

SyncEnded(s, good) ==
    [s EXCEPT !.syncing = FALSE, !.busy = FALSE, !.attempts = IF good THEN 0 ELSE @]

\* Its end; it ran on the connection of the sync service.
EndSync(a) ==
    /\ service[a].syncing
    /\ service' = [service EXCEPT ![a] = SyncEnded(@, Answers(syncConnection))]
    /\ synced' = (synced # Answers(syncConnection))
    /\ UNCHANGED <<records, instances, open, check, answering>>

-----------------------------------------------------------------------------
\* runHealthCheck, from the interval on. The checks of a service may overlap.
StartCheck(c, a) ==
    /\ check[c] = Unused /\ service[a].running
    /\ check' = [check EXCEPT ![c] = [stage |-> "probing", of |-> a]]
    /\ UNCHANGED <<records, instances, open, service, answering, synced>>

\* Mutant of Probe: a store that is well again does not clear the count.
ProbeKeepingCount(c) ==
    /\ check[c].stage = "probing"
    /\ LET a == check[c].of IN
         \/ /\ Answers(service[a].on)
            /\ service' = service /\ check' = [check EXCEPT ![c] = Unused]
         \/ /\ ~Answers(service[a].on) /\ service[a].attempts >= MaxRestartAttempts
            /\ service' = [service EXCEPT ![a] = Stopped(@)]
            /\ check' = [check EXCEPT ![c] = Unused]
         \/ /\ ~Answers(service[a].on) /\ service[a].attempts < MaxRestartAttempts
            /\ service' = [service EXCEPT ![a].attempts = @ + 1]
            /\ check' = [check EXCEPT ![c].stage = "waiting"]
    /\ UNCHANGED <<records, instances, open, answering, synced>>

\* The tests answer. A check that has found the store silent once too often
\* stops the service; another one waits and reconnects.
Probe(c) ==
    /\ check[c].stage = "probing"
    /\ LET a == check[c].of IN
         \/ /\ Answers(service[a].on)
            /\ service' = [service EXCEPT ![a].attempts = 0]
            /\ check' = [check EXCEPT ![c] = Unused]
         \/ /\ ~Answers(service[a].on) /\ service[a].attempts >= MaxRestartAttempts
            /\ service' = [service EXCEPT ![a] = Stopped(@)]
            /\ check' = [check EXCEPT ![c] = Unused]
         \/ /\ ~Answers(service[a].on) /\ service[a].attempts < MaxRestartAttempts
            /\ service' = [service EXCEPT ![a].attempts = @ + 1]
            /\ check' = [check EXCEPT ![c].stage = "waiting"]
    /\ UNCHANGED <<records, instances, open, answering, synced>>

\* After the backoff: reconnect() of what did not answer, whoever has stopped or
\* deleted the service meanwhile. A closed pool is one that did not answer.
ReconnectPool(c) ==
    /\ check[c].stage = "waiting"
    /\ open' = [open EXCEPT ![service[check[c].of].on] = TRUE]
    /\ check' = [check EXCEPT ![c].stage = "retrying"]
    /\ UNCHANGED <<records, instances, service, answering, synced>>

\* The second test, and the sync of a recovered database.
Retry(c) ==
    /\ check[c].stage = "retrying"
    /\ LET a == check[c].of IN
         service' = IF Answers(service[a].on)
                    THEN [service EXCEPT ![a] = [Begun(@) EXCEPT !.attempts = 0]]
                    ELSE service
    /\ check' = [check EXCEPT ![c] = Unused]
    /\ UNCHANGED <<records, instances, open, answering, synced>>

-----------------------------------------------------------------------------
\* deleteDatabase waits for the polling service and the tailer to stop, ...
BeginDelete ==
    /\ registered /\ deleting = "no" /\ deleting' = "stopping"
    /\ UNCHANGED <<registered, life, instances, objects, answering, synced>>

\* ... stops and forgets the automation and removes the record, ...
Unregister ==
    /\ deleting = "stopping" /\ deleting' = "closing"
    /\ registered' = FALSE /\ automation' = None
    /\ service' = IF automation = None THEN service
                  ELSE [service EXCEPT ![automation] = Stopped(@)]
    /\ UNCHANGED <<life, connection, syncConnection, open, check, answering, synced>>

\* ... and, when the ClickHouse connection is closed, closes the pool.
CloseInstance ==
    /\ deleting = "closing" /\ deleting' = "no" /\ connection' = None
    /\ open' = IF connection = None THEN open ELSE [open EXCEPT ![connection] = FALSE]
    /\ UNCHANGED <<registered, life, automation, syncConnection, service, check,
                   answering, synced>>

StoreChanges ==
    /\ answering' = ~answering
    /\ UNCHANGED <<records, instances, objects, synced>>

Automatic ==
    \/ \E a \in Life : TimedSync(a) \/ EndSync(a)
    \/ \E c \in Check : \E a \in Life : StartCheck(c, a)
    \/ \E c \in Check : Probe(c) \/ ReconnectPool(c) \/ Retry(c)
    \/ Unregister \/ CloseInstance

ServicesNext ==
    \/ AddDatabase \/ UseDatabase \/ StartAutomation
    \/ StopAutomation \/ RequestSync \/ BeginDelete \/ StoreChanges \/ Automatic

\* The timers keep firing and what is awaited answers or fails; a check's
\* interval finds a free place when an earlier check has ended.
ServicesFairness ==
    /\ \A a \in Life : WF_services(TimedSync(a)) /\ WF_services(EndSync(a))
    /\ \A a \in Life : SF_services(\E c \in Check : StartCheck(c, a))
    /\ \A c \in Check : WF_services(Probe(c)) /\ WF_services(ReconnectPool(c) \/ Retry(c))
    /\ WF_services(Unregister \/ CloseInstance)

ServicesSpec == ServicesInit /\ [][ServicesNext]_services /\ ServicesFairness

-----------------------------------------------------------------------------
\* While a database's automation runs and its sync service reads through a pool
\* that is open to a store that answers, syncs complete again and again: no
\* failure of the past, no skipped sync and no check keeps them from it.
SyncsGoOn ==
    (\E a \in Life : <>[](service[a].running /\ Answers(syncConnection)))
        => []<>synced /\ []<>~synced

\* Failures do not add up: a service that runs on while the store answers ends
\* with no attempt counted against it, whatever its checks saw before.
RecoveryIsForgiven ==
    \A a \in Life :
        <>[](service[a].running /\ answering) => <>[](service[a].attempts = 0)

\* A database that can be synced is, and is not held responsible for the past.
ServicesRecover == SyncsGoOn /\ RecoveryIsForgiven

\* "Database deletion now stops the polling CDC service and automation loops
\* and closes the MySQL pool" (CHANGELOG.md:152).
DeletedIsQuiet ==
    ~registered /\ deleting = "no" => \A l \in Life : ~open[l]
=============================================================================
