------------------------------- MODULE MCConsole -------------------------------
(***************************************************************************)
(* What the operator watches and the server does for a database, side by   *)
(* side: its services, the record of its syncs with the header that shows  *)
(* it, the pages of the dashboard, and the sign-in of the tabs. As they    *)
(* are modelled they share no state, so every behaviour moves one of them  *)
(* and leaves the others as they start.                                    *)
(***************************************************************************)
EXTENDS DatabaseServices, Dashboard, SyncProgress, SignIn

CONSTANTS d1, d2

VARIABLE moving             \* the component that moves

console == <<services, dashboard, progress, signIn, moving>>

MCDb == {d1, d2}

\* One prefix begins like the other.
MCPathPrefix == [d \in MCDb |-> IF d = d1 THEN <<"a">> ELSE <<"a", "b">>]

\* What does not move starts in one way, waiting for nothing.
ConsoleInit ==
    /\ moving \in {"services", "dashboard", "progress", "sign-in"}
    /\ ServicesInit /\ DashboardInit /\ ProgressInit /\ SignInInit
    /\ moving = "dashboard" \/ (page = "backups" /\ selectedDatabaseId = d1)
    /\ moving = "progress" \/ ~selected

ConsoleNext ==
    \/ moving = "services" /\ ServicesNext
       /\ UNCHANGED <<dashboard, progress, signIn, moving>>
    \/ moving = "dashboard" /\ DashboardNext
       /\ UNCHANGED <<services, progress, signIn, moving>>
    \/ moving = "progress" /\ ProgressNext
       /\ UNCHANGED <<services, dashboard, signIn, moving>>
    \/ moving = "sign-in" /\ SignInNext
       /\ UNCHANGED <<services, dashboard, progress, moving>>

\* The fairness of the component that moves.
ConsoleFairness ==
    \/ moving = "services" /\ ServicesFairness
    \/ moving = "dashboard" /\ DashboardFairness
    \/ moving = "progress" /\ ProgressFairness
    \/ moving = "sign-in" /\ SignInFairness

ConsoleSpec == ConsoleInit /\ [][ConsoleNext]_console /\ ConsoleFairness

-----------------------------------------------------------------------------
\* The record of the syncs says what goes on, and no two go on for one table; the
\* typing of the components.
RecordIsTrue ==
    /\ ServicesTypeOK /\ DashboardTypeOK /\ ProgressTypeOK /\ SignInTypeOK
    /\ QuietMeansIdle /\ CountIsRuns /\ OneSyncPerTable
=============================================================================
