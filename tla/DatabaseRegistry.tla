--------------------------- MODULE DatabaseRegistry ---------------------------
(***************************************************************************)
(* databases.json and the API keys: DatabaseConfigManager of               *)
(* databaseConfig.ts, the handlers of server.ts that change a database's   *)
(* record, and the authentication of a request by a per-database key.      *)
(*                                                                         *)
(* A change is made in memory and then saved; the save writes a temporary  *)
(* file and renames it. It may fail, which the operator is told and memory *)
(* keeps, and the process may die before or after the rename. Ids are the  *)
(* numbers generateId tries: an id is free again once its database is gone.*)
(* A record holds its settings as one value and its keys, each with its    *)
(* `enabled` flag. The secret of a key is the key itself.                  *)
(***************************************************************************)
EXTENDS Naturals, FiniteSets, Functions

CONSTANTS
    Key,                    \* the keys that may be minted, each once
    Setting,                \* the values of the rest of a record
    MaxIds,                 \* bound on the databases registered at once
    MaxBorn                 \* bound on the databases ever added

ASSUME RegistryAssumption == MaxIds \in Nat \ {0} /\ MaxBorn \in Nat

VARIABLES
    databases,              \* [id -> record], the map in memory
    file,                   \* [id -> record], databases.json
    apiKeyIndex,            \* [Key -> id]
    flushDue,               \* a minute has passed since the last usage flush
    up,                     \* the server runs
    expired,                \* keys whose expiry date has come
    born,                   \* databases added so far
    minted,                 \* [Key -> the database it was minted for], 0 none
    told                    \* [Key -> what the operator was last told of it]

memory == <<databases, apiKeyIndex, flushDue, up>>
history == <<born, minted, told>>
registry == <<memory, file, expired, history>>

Id == 1..MaxIds
Partial(S, T) == UNION {[D -> T] : D \in SUBSET S}
Record == [born : 1..MaxBorn, setting : Setting, keys : Partial(Key, BOOLEAN)]
NoDatabases == [i \in {} |-> {}]

RegistryTypeOK ==
    /\ databases \in Partial(Id, Record) /\ file \in Partial(Id, Record)
    /\ apiKeyIndex \in Partial(Key, Id)
    /\ flushDue \in BOOLEAN /\ up \in BOOLEAN /\ expired \subseteq Key
    /\ born \in 0..MaxBorn /\ minted \in [Key -> 0..MaxBorn]
    /\ told \in [Key -> {"nothing", "works", "off", "unknown"}]

RegistryInit ==
    /\ databases = NoDatabases /\ file = NoDatabases
    /\ apiKeyIndex = [k \in {} |-> 0]
    /\ flushDue = TRUE /\ up = TRUE /\ expired = {} /\ born = 0
    /\ minted = [k \in Key |-> 0] /\ told = [k \in Key |-> "nothing"]

-----------------------------------------------------------------------------
KeysIn(dbs) == UNION {DOMAIN dbs[i].keys : i \in DOMAIN dbs}

\* rebuildApiKeyIndex.
IndexOf(dbs) ==
    [k \in KeysIn(dbs) |-> CHOOSE i \in DOMAIN dbs : k \in DOMAIN dbs[i].keys]

Outcome == {"saved", "failed", "died"}

\* The process dies: memory is gone.
Die == up' = FALSE /\ databases' = NoDatabases /\ apiKeyIndex' = IndexOf(NoDatabases)

\* Memory has `dbs`; saveConfig writes it, or fails to, or the process dies
\* right after the rename.
SaveConfig(dbs, how) ==
    /\ file' = IF how = "failed" THEN file ELSE dbs
    /\ IF how = "died" THEN Die
       ELSE /\ up' = TRUE /\ databases' = dbs
            /\ apiKeyIndex' = IF how = "saved" THEN IndexOf(dbs) ELSE apiKeyIndex

\* The operator is told `answer` of the keys, or an error, or nothing.
Tell(keys, answer, how) ==
    told' = [k \in Key |-> IF k \notin keys THEN told[k]
                           ELSE IF how = "saved" THEN answer ELSE "unknown"]

FreeIds == Id \ DOMAIN databases

AddDatabase ==
    /\ up /\ born < MaxBorn
    /\ \E id \in FreeIds, s \in Setting, how \in Outcome :
         /\ \A j \in FreeIds : id <= j
         /\ LET r == [born |-> born + 1, setting |-> s, keys |-> [k \in {} |-> TRUE]]
            IN  SaveConfig([i \in DOMAIN databases \cup {id} |->
                               IF i = id THEN r ELSE databases[i]], how)
    /\ born' = born + 1
    /\ UNCHANGED <<flushDue, expired, minted, told>>

\* updateDatabase and patchDatabase: a new object replaces the record.
ChangeSettings(i) ==
    /\ up
    /\ \E s \in Setting, how \in Outcome :
         SaveConfig([databases EXCEPT ![i].setting = s], how)
    /\ UNCHANGED <<flushDue, expired, history>>

DeleteDatabase(i) ==
    /\ up
    /\ \E how \in Outcome :
         /\ SaveConfig(Restrict(databases, DOMAIN databases \ {i}), how)
         /\ Tell(DOMAIN databases[i].keys, "off", how)
    /\ UNCHANGED <<flushDue, expired, born, minted>>

\* The secret leaves the server with the answer, after the save.
CreateApiKey(i, k) ==
    /\ up /\ minted[k] = 0
    /\ \E how \in Outcome :
         /\ SaveConfig([databases EXCEPT ![i].keys =
                           [x \in DOMAIN @ \cup {k} |-> x = k \/ databases[i].keys[x]]], how)
         /\ Tell({k}, "works", how)
    /\ minted' = [minted EXCEPT ![k] = databases[i].born]
    /\ UNCHANGED <<flushDue, expired, born>>

\* Enabling or disabling a key (a name or another expiry date may come with it).
UpdateApiKey(i, k) ==
    /\ up
    /\ \E on \in BOOLEAN, how \in Outcome :
         /\ SaveConfig([databases EXCEPT ![i].keys[k] = on], how)
         /\ Tell({k}, IF on THEN "works" ELSE "off", how)
    /\ UNCHANGED <<flushDue, expired, born, minted>>

DeleteApiKey(i, k) ==
    /\ up
    /\ \E how \in Outcome :
         /\ SaveConfig([databases EXCEPT ![i].keys =
                           Restrict(@, DOMAIN @ \ {k})], how)
         /\ Tell({k}, "off", how)
    /\ UNCHANGED <<flushDue, expired, born, minted>>

-----------------------------------------------------------------------------
\* Mutant of KeyDatabase: the index is believed.
IndexDatabase(k) == IF k \in DOMAIN apiKeyIndex /\ k \notin expired THEN apiKeyIndex[k] ELSE 0

\* lookupApiKey: the database the key opens, 0 when it is refused.
KeyDatabase(k) ==
    IF /\ k \in DOMAIN apiKeyIndex
       /\ apiKeyIndex[k] \in DOMAIN databases
       /\ k \in DOMAIN databases[apiKeyIndex[k]].keys
       /\ databases[apiKeyIndex[k]].keys[k]
       /\ k \notin expired
    THEN apiKeyIndex[k] ELSE 0

\* enforceDatabaseScope and attachDatabaseContext: the database that answers a
\* request for `asked` (0: none named) with the key; 0 when it is refused.
Opened(k, asked) == IF asked \in {0, KeyDatabase(k)} THEN KeyDatabase(k) ELSE 0

\* A request with the key; the first one of a minute saves the time of use, and
\* with it whatever memory holds. A failure of that save is swallowed.
UseKey(k) ==
    /\ up /\ flushDue /\ KeyDatabase(k) # 0
    /\ flushDue' = FALSE
    /\ \E how \in Outcome : SaveConfig(databases, how)
    /\ UNCHANGED <<expired, history>>

MinutePasses ==
    /\ ~flushDue /\ flushDue' = TRUE
    /\ UNCHANGED <<databases, apiKeyIndex, up, file, expired, history>>

Expire(k) ==
    /\ k \notin expired /\ expired' = expired \cup {k}
    /\ UNCHANGED <<memory, file, history>>

\* The process dies at another time, or before a rename.
Crash ==
    /\ up /\ Die
    /\ UNCHANGED <<file, flushDue, expired, history>>

\* loadConfig and the constructor.
Restart ==
    /\ ~up /\ up' = TRUE
    /\ databases' = file /\ apiKeyIndex' = IndexOf(file)
    /\ flushDue' = TRUE
    /\ UNCHANGED <<file, expired, history>>

RegistryNext ==
    \/ AddDatabase \/ MinutePasses \/ Crash \/ Restart
    \/ \E i \in DOMAIN databases :
         \/ ChangeSettings(i) \/ DeleteDatabase(i)
         \/ \E k \in Key : CreateApiKey(i, k)
         \/ \E k \in DOMAIN databases[i].keys :
              UpdateApiKey(i, k) \/ DeleteApiKey(i, k)
    \/ \E k \in Key : UseKey(k) \/ Expire(k)

RegistrySpec == RegistryInit /\ [][RegistryNext]_registry

-----------------------------------------------------------------------------
\* A key whose creation, re-enabling, disabling or revocation was acknowledged
\* works, or does not, from then on: across failed saves of other changes, the
\* saves that requests cause, crashes and restarts, until its next change.
KeysAsTold ==
    up => \A k \in Key :
            /\ told[k] = "works" /\ k \notin expired => KeyDatabase(k) # 0
            /\ told[k] = "off" => KeyDatabase(k) = 0

\* A key opens the database it was minted for and never another one, whatever it
\* asks for, not even one that was given the same id after the first was deleted.
KeysStayHome ==
    \A k \in Key, asked \in Id \cup {0} : Opened(k, asked) # 0 =>
        /\ Opened(k, asked) \in DOMAIN databases
        /\ databases[Opened(k, asked)].born = minted[k]

\* "Keep the request-time lookup index in lockstep with persisted state"
\* (databaseConfig.ts:317): while the server runs, the index is that of the
\* file, whatever memory holds after a save that failed.
IndexInLockstep == up => apiKeyIndex = IndexOf(file)

\* "Apply a mutation atomically to the in-memory config and persist"
\* (databaseConfig.ts:462): a change is in memory and in the file, or in
\* neither.
ChangesAreAtomic == up => databases = file
=============================================================================
