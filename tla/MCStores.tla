------------------------------- MODULE MCStores --------------------------------
(***************************************************************************)
(* What the server keeps, side by side: the registry of databases and      *)
(* their keys, the bucket of backups with the marker that paces them, the  *)
(* internal tables of ClickHouse, and the comparison of a table with its   *)
(* source. They share no state, so every behaviour moves one of them and   *)
(* leaves the others as they start.                                        *)
(***************************************************************************)
EXTENDS DatabaseRegistry, Backups, InternalTables, TableValidation

VARIABLE moving             \* the component that moves

stores == <<registry, backups, internal, validation, moving>>

\* A table with no other column, or with one of two.
MCShape == {{"id"}, {"id", "a"}, {"id", "b"}}

\* The two columns are alike, so one of them may come first; the table that is
\* compared is empty or full, and changes from there. The table of a
\* comparison that does not move is absent in ClickHouse and empty.
StoresInit ==
    /\ moving \in {"registry", "backups", "internal", "validation"}
    /\ RegistryInit /\ BackupInit /\ InternalInit /\ ValidationInit
    /\ source.columns # {"id", "b"} /\ source.rows \in {{}, RowId}
    /\ moving = "validation" \/ (mirror = Absent /\ source = [Absent EXCEPT !.exists = TRUE,
                                                                          !.columns = {"id"}])

StoresNext ==
    \/ moving = "registry" /\ RegistryNext
       /\ UNCHANGED <<backups, internal, validation, moving>>
    \/ moving = "backups" /\ BackupNext
       /\ UNCHANGED <<registry, internal, validation, moving>>
    \/ moving = "internal" /\ InternalNext
       /\ UNCHANGED <<registry, backups, validation, moving>>
    \/ moving = "validation" /\ ValidationNext
       /\ UNCHANGED <<registry, backups, internal, moving>>

StoresSpec == StoresInit /\ [][StoresNext]_stores

-----------------------------------------------------------------------------
\* A key works as its holder was last told, opens no database but its own, and the
\* index that requests use is the one of the file.
KeysKept == KeysAsTold /\ KeysStayHome /\ IndexInLockstep

\* The typing of the components; a database that counts as initialized has its
\* internal tables, and so has one whose data was reported cleared.
TablesThere ==
    /\ RegistryTypeOK /\ BackupTypeOK /\ InternalTypeOK /\ ValidationTypeOK
    /\ InitializedHasTables /\ ClearedMeansReady
=============================================================================
