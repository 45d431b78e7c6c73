----------------------------- MODULE StoresProofs ------------------------------
(***************************************************************************)
(* That what the server keeps stays in order, proved for every number of   *)
(* keys, databases, backups, internal tables and rows: a key works as its  *)
(* holder was told and nowhere but at home, the marker of the scheduled    *)
(* backups is true and a backup is there to restore, a database that       *)
(* counts as initialized has its tables, and the verdict on a table is     *)
(* true as long as nothing stirs.                                          *)
(*                                                                         *)
(* The components share no state, so each has an inductive invariant of    *)
(* its own and every step of the composition is a step or a stutter of     *)
(* each of them.                                                           *)
(***************************************************************************)
EXTENDS MCStores, FiniteSetTheorems, TLAPS

-----------------------------------------------------------------------------
(* The registry of databases and their keys                                *)
-----------------------------------------------------------------------------

\* No database of `dbs` is younger than the last one that was added, and each key is
\* with the database it was minted for.
KeysAtHome(dbs, b, m) ==
    \A i \in DOMAIN dbs :
        /\ dbs[i].born <= b
        /\ \A k \in DOMAIN dbs[i].keys : dbs[i].born = m[k]

\* A database has one id, in memory and in the file.
SameIds(dbs1, dbs2) ==
    \A i \in DOMAIN dbs1, j \in DOMAIN dbs2 : dbs1[i].born = dbs2[j].born => i = j

\* What the operator was told of the keys is so in `dbs`.
AsTold(dbs, t) ==
    \A k \in Key :
        /\ t[k] = "works" => \E i \in DOMAIN dbs : k \in DOMAIN dbs[i].keys /\ dbs[i].keys[k]
        /\ t[k] = "off" =>
             \A i \in DOMAIN dbs : k \in DOMAIN dbs[i].keys => ~dbs[i].keys[k]

RegistryInv ==
    /\ RegistryTypeOK
    /\ KeysAtHome(databases, born, minted) /\ KeysAtHome(file, born, minted)
    /\ SameIds(databases, databases) /\ SameIds(databases, file) /\ SameIds(file, file)
    /\ AsTold(file, told) /\ (up => AsTold(databases, told))
    /\ IndexInLockstep

\* A partial function is one whose domain and values are within the sets.
LEMMA PartialFunction ==
    ASSUME NEW S, NEW T, NEW f
    PROVE  f \in Partial(S, T) <=> DOMAIN f \subseteq S /\ f \in [DOMAIN f -> T]
<1>1. ASSUME f \in Partial(S, T) PROVE DOMAIN f \subseteq S /\ f \in [DOMAIN f -> T]
  <2>1. PICK D \in SUBSET S : f \in [D -> T] BY <1>1 DEF Partial
  <2> QED BY <2>1
<1>2. ASSUME DOMAIN f \subseteq S, f \in [DOMAIN f -> T] PROVE f \in Partial(S, T)
  BY <1>2 DEF Partial
<1> QED BY <1>1, <1>2

\* The index of databases is a partial function from keys to ids, and gives for a key a
\* database that has it.
LEMMA IndexIsPartial ==
    ASSUME NEW dbs \in Partial(Id, Record)
    PROVE  /\ IndexOf(dbs) \in Partial(Key, Id)
           /\ \A i \in DOMAIN dbs : \A k \in DOMAIN dbs[i].keys : k \in DOMAIN IndexOf(dbs)
           /\ \A k \in DOMAIN IndexOf(dbs) :
                 IndexOf(dbs)[k] \in DOMAIN dbs /\ k \in DOMAIN dbs[IndexOf(dbs)[k]].keys
<1>1. DOMAIN dbs \subseteq Id /\ \A i \in DOMAIN dbs : dbs[i] \in Record BY PartialFunction
<1>2. \A i \in DOMAIN dbs : DOMAIN dbs[i].keys \subseteq Key
  <2> TAKE i \in DOMAIN dbs
  <2>1. dbs[i].keys \in Partial(Key, BOOLEAN) BY <1>1 DEF Record
  <2> QED BY <2>1, PartialFunction
<1>3. DOMAIN IndexOf(dbs) = KeysIn(dbs) BY DEF IndexOf
<1>4. KeysIn(dbs) \subseteq Key BY <1>2 DEF KeysIn
<1>5. \A k \in KeysIn(dbs) : \E i \in DOMAIN dbs : k \in DOMAIN dbs[i].keys BY DEF KeysIn
<1>6. \A k \in KeysIn(dbs) :
        IndexOf(dbs)[k] \in DOMAIN dbs /\ k \in DOMAIN dbs[IndexOf(dbs)[k]].keys
  BY <1>5 DEF IndexOf
<1>7. IndexOf(dbs) \in [DOMAIN IndexOf(dbs) -> Id]
  <2>1. IndexOf(dbs) = [k \in KeysIn(dbs) |-> IndexOf(dbs)[k]] BY DEF IndexOf
  <2> QED BY <1>1, <1>3, <1>6, <2>1
<1>8. \A i \in DOMAIN dbs : \A k \in DOMAIN dbs[i].keys : k \in KeysIn(dbs) BY DEF KeysIn
<1> QED BY <1>3, <1>4, <1>6, <1>7, <1>8, PartialFunction

\* The registry with no databases.
LEMMA EmptyRegistry ==
    /\ NoDatabases \in Partial(Id, Record) /\ DOMAIN NoDatabases = {}
BY PartialFunction DEF NoDatabases

\* A save of databases that are in order keeps the registry in order, whatever becomes
\* of it.
LEMMA SaveKeeps ==
    ASSUME NEW dbs \in Partial(Id, Record), NEW how \in Outcome, SaveConfig(dbs, how), up,
           RegistryInv,
           expired' \subseteq Key, flushDue' \in BOOLEAN, born' \in 0..MaxBorn,
           minted' \in [Key -> 0..MaxBorn],
           told' \in [Key -> {"nothing", "works", "off", "unknown"}],
           KeysAtHome(dbs, born', minted'), KeysAtHome(file, born', minted'),
           SameIds(dbs, dbs), SameIds(dbs, file),
           AsTold(dbs, told'), how = "failed" => AsTold(file, told')
    PROVE  RegistryInv'
<1>1. \/ how = "saved" /\ up' = TRUE /\ file' = dbs /\ databases' = dbs
         /\ apiKeyIndex' = IndexOf(dbs)
      \/ how = "failed" /\ up' = TRUE /\ file' = file /\ databases' = dbs
         /\ apiKeyIndex' = apiKeyIndex
      \/ how = "died" /\ up' = FALSE /\ file' = dbs /\ databases' = NoDatabases
         /\ apiKeyIndex' = IndexOf(NoDatabases)
  BY DEF SaveConfig, Die, Outcome
<1>2. RegistryTypeOK'
  <2>1. file \in Partial(Id, Record) /\ apiKeyIndex \in Partial(Key, Id)
    BY DEF RegistryInv, RegistryTypeOK
  <2>2. file' \in Partial(Id, Record) /\ databases' \in Partial(Id, Record)
        /\ apiKeyIndex' \in Partial(Key, Id) /\ up' \in BOOLEAN
    <3>1. IndexOf(dbs) \in Partial(Key, Id) /\ IndexOf(NoDatabases) \in Partial(Key, Id)
      BY EmptyRegistry, IndexIsPartial
    <3>2. NoDatabases \in Partial(Id, Record) BY EmptyRegistry
    <3> QED BY ONLY <1>1, <2>1, <3>1, <3>2, dbs \in Partial(Id, Record)
  <2> QED BY <2>2 DEF RegistryTypeOK
<1>3. (KeysAtHome(databases, born, minted) /\ KeysAtHome(file, born, minted))'
  BY <1>1, EmptyRegistry DEF KeysAtHome
<1>4. (SameIds(databases, databases) /\ SameIds(databases, file) /\ SameIds(file, file))'
  BY <1>1, EmptyRegistry DEF SameIds, RegistryInv
<1>5. (AsTold(file, told) /\ (up => AsTold(databases, told)))' BY <1>1
<1>6. IndexInLockstep'
  <2>1. apiKeyIndex = IndexOf(file) BY DEF RegistryInv, IndexInLockstep
  <2> QED BY <1>1, <2>1 DEF IndexInLockstep
<1> QED BY <1>2, <1>3, <1>4, <1>5, <1>6 DEF RegistryInv

\* What a change of one record makes of the databases.
LEMMA ChangedRecord ==
    ASSUME RegistryInv, NEW i \in DOMAIN databases, NEW r \in Record,
           NEW dbs, dbs = [databases EXCEPT ![i] = r], r.born = databases[i].born,
           \A k \in DOMAIN r.keys : minted'[k] = r.born,
           \A k \in Key : minted[k] # 0 => minted'[k] = minted[k],
           born' = born
    PROVE  /\ dbs \in Partial(Id, Record)
           /\ KeysAtHome(dbs, born', minted') /\ KeysAtHome(file, born', minted')
           /\ SameIds(dbs, dbs) /\ SameIds(dbs, file)
<1>1. /\ databases \in Partial(Id, Record) /\ file \in Partial(Id, Record)
      /\ born \in 0..MaxBorn
  BY DEF RegistryInv, RegistryTypeOK
<1>2. /\ DOMAIN databases \subseteq Id /\ databases \in [DOMAIN databases -> Record]
      /\ DOMAIN file \subseteq Id /\ file \in [DOMAIN file -> Record]
  BY <1>1, PartialFunction
<1>3. DOMAIN dbs = DOMAIN databases /\ dbs \in [DOMAIN dbs -> Record] BY <1>2
<1>4. \A j \in DOMAIN dbs : dbs[j].born = databases[j].born /\ (j # i => dbs[j] = databases[j])
  BY <1>2
<1>5. dbs[i] = r BY <1>2
<1>6. \A d \in {databases, file} : \A j \in DOMAIN d : \A k \in DOMAIN d[j].keys :
        k \in Key /\ minted[k] = d[j].born /\ minted[k] # 0
  <2> TAKE d \in {databases, file}
  <2> TAKE j \in DOMAIN d
  <2> TAKE k \in DOMAIN d[j].keys
  <2>1. d[j] \in Record BY <1>2
  <2>2. k \in Key /\ d[j].born # 0 BY <2>1, PartialFunction DEF Record
  <2> QED BY <2>2 DEF RegistryInv, KeysAtHome
<1>7. KeysAtHome(dbs, born', minted')
  <2> SUFFICES ASSUME NEW j \in DOMAIN dbs
               PROVE  dbs[j].born <= born /\ \A k \in DOMAIN dbs[j].keys : dbs[j].born = minted'[k]
    BY DEF KeysAtHome
  <2>1. dbs[j].born <= born BY <1>3, <1>4 DEF RegistryInv, KeysAtHome
  <2>2. ASSUME NEW k \in DOMAIN dbs[j].keys PROVE dbs[j].born = minted'[k]
    <3>1. CASE j = i BY <1>5, <2>2, <3>1
    <3>2. CASE j # i BY <1>3, <1>4, <1>6, <2>2, <3>2
    <3> QED BY <3>1, <3>2
  <2> QED BY <2>1, <2>2
<1>8. KeysAtHome(file, born', minted')
  <2> SUFFICES ASSUME NEW j \in DOMAIN file
               PROVE  file[j].born <= born /\ \A k \in DOMAIN file[j].keys : file[j].born = minted'[k]
    BY DEF KeysAtHome
  <2>1. file[j].born <= born BY DEF RegistryInv, KeysAtHome
  <2> QED BY <1>6, <2>1
<1>9. SameIds(dbs, dbs) /\ SameIds(dbs, file) BY <1>3, <1>4 DEF RegistryInv, SameIds
<1>10. dbs \in Partial(Id, Record) BY <1>2, <1>3, PartialFunction
<1> QED BY <1>7, <1>8, <1>9, <1>10

\* `keys` are those of database i but for k, of which `answer` is true.
OneKeyDiffers(keys, i, k, answer) ==
    /\ \A x \in Key \ {k} : /\ x \in DOMAIN keys <=> x \in DOMAIN databases[i].keys
                            /\ x \in DOMAIN keys => keys[x] = databases[i].keys[x]
    /\ answer = "works" => k \in DOMAIN keys /\ keys[k]
    /\ answer = "off" /\ k \in DOMAIN keys => ~keys[k]

\* A change of one key of one record, of which the operator is told how it ended.
LEMMA KeyChange ==
    ASSUME RegistryInv, up, NEW i \in DOMAIN databases, NEW k \in Key, NEW how \in Outcome,
           NEW K \in Partial(Key, BOOLEAN), NEW answer \in {"works", "off"},
           OneKeyDiffers(K, i, k, answer),
           SaveConfig([databases EXCEPT ![i].keys = K], how),
           Tell({k}, answer, how),
           minted[k] \in {0, databases[i].born},
           minted' = [minted EXCEPT ![k] = databases[i].born],
           UNCHANGED <<flushDue, expired, born>>
    PROVE  RegistryInv'
<1>21. ASSUME NEW x \in Key, x # k
      PROVE  /\ x \in DOMAIN K <=> x \in DOMAIN databases[i].keys
             /\ x \in DOMAIN K => K[x] = databases[i].keys[x]
  BY <1>21 DEF OneKeyDiffers
<1>22. /\ answer = "works" => k \in DOMAIN K /\ K[k]
       /\ answer = "off" /\ k \in DOMAIN K => ~K[k]
  BY DEF OneKeyDiffers
<1> DEFINE r == [databases[i] EXCEPT !.keys = K]
           dbs == [databases EXCEPT ![i] = r]
<1>1. /\ databases \in Partial(Id, Record) /\ file \in Partial(Id, Record)
      /\ minted \in [Key -> 0..MaxBorn] /\ born \in 0..MaxBorn
      /\ told \in [Key -> {"nothing", "works", "off", "unknown"}]
      /\ flushDue \in BOOLEAN /\ expired \subseteq Key
  BY DEF RegistryInv, RegistryTypeOK
<1>2. databases \in [DOMAIN databases -> Record] BY <1>1, PartialFunction
<1>3. databases[i] \in Record /\ databases[i].born \in 1..MaxBorn BY <1>2 DEF Record
<1>4. r \in Record /\ r.born = databases[i].born /\ r.keys = K BY <1>3 DEF Record
<1>5. minted' \in [Key -> 0..MaxBorn] BY <1>1, <1>3
<1>6. \A x \in Key : x # k => minted'[x] = minted[x] BY <1>1
<1>7. minted'[k] = databases[i].born BY <1>1
<1>8. \A x \in DOMAIN databases[i].keys : minted[x] = databases[i].born
  BY DEF RegistryInv, KeysAtHome
<1>9. DOMAIN K \subseteq Key BY PartialFunction
<1>10. \A x \in DOMAIN r.keys : minted'[x] = r.born BY <1>21, <1>4, <1>6, <1>7, <1>8, <1>9
<1>11. \A x \in Key : minted[x] # 0 => minted'[x] = minted[x] BY <1>6, <1>7
<1> HIDE DEF r
<1>12. /\ dbs \in Partial(Id, Record)
       /\ KeysAtHome(dbs, born', minted') /\ KeysAtHome(file, born', minted')
       /\ SameIds(dbs, dbs) /\ SameIds(dbs, file)
  BY <1>4, <1>10, <1>11, ChangedRecord
<1>13. told' \in [Key -> {"nothing", "works", "off", "unknown"}] BY <1>1 DEF Tell
<1>14. \A x \in Key : x # k => told'[x] = told[x] BY DEF Tell
<1>15. told'[k] = IF how = "saved" THEN answer ELSE "unknown" BY DEF Tell
<1>16. AsTold(file, told) /\ AsTold(databases, told) BY DEF RegistryInv
<1>17. how = "failed" => AsTold(file, told') BY <1>14, <1>15, <1>16 DEF AsTold
<1>18. DOMAIN dbs = DOMAIN databases /\ dbs[i].keys = K
       /\ \A j \in DOMAIN databases : j # i => dbs[j] = databases[j]
  BY <1>2, <1>4
<1>19. AsTold(dbs, told')
  <2> SUFFICES ASSUME NEW x \in Key
               PROVE  /\ told'[x] = "works" =>
                           \E j \in DOMAIN dbs : x \in DOMAIN dbs[j].keys /\ dbs[j].keys[x]
                      /\ told'[x] = "off" =>
                           \A j \in DOMAIN dbs : x \in DOMAIN dbs[j].keys => ~dbs[j].keys[x]
    BY DEF AsTold
  <2>1. CASE x # k
    <3>0. /\ x \in DOMAIN dbs[i].keys <=> x \in DOMAIN databases[i].keys
          /\ x \in DOMAIN databases[i].keys => dbs[i].keys[x] = databases[i].keys[x]
      BY <1>21, <1>18, <2>1
    <3>1. ASSUME told'[x] = "works"
          PROVE  \E j \in DOMAIN dbs : x \in DOMAIN dbs[j].keys /\ dbs[j].keys[x]
      <4>1. PICK j \in DOMAIN databases : x \in DOMAIN databases[j].keys /\ databases[j].keys[x]
        BY <1>14, <1>16, <2>1, <3>1 DEF AsTold
      <4> QED BY <1>18, <3>0, <4>1
    <3>2. ASSUME told'[x] = "off", NEW j \in DOMAIN dbs, x \in DOMAIN dbs[j].keys
          PROVE  ~dbs[j].keys[x]
      <4>1. \A l \in DOMAIN databases : x \in DOMAIN databases[l].keys => ~databases[l].keys[x]
        BY <1>14, <1>16, <2>1, <3>2 DEF AsTold
      <4> QED BY <1>18, <3>0, <3>2, <4>1
    <3> QED BY <3>1, <3>2
  <2>2. CASE x = k
    <3>1. ASSUME told'[k] = "works"
          PROVE  \E j \in DOMAIN dbs : k \in DOMAIN dbs[j].keys /\ dbs[j].keys[k]
      <4>1. answer = "works" BY <1>15, <3>1
      <4>2. k \in DOMAIN K /\ K[k] BY <1>22, <4>1
      <4>3. i \in DOMAIN dbs /\ k \in DOMAIN dbs[i].keys /\ dbs[i].keys[k] BY <1>18, <4>2
      <4> QED BY <4>3
    <3>2. ASSUME told'[k] = "off", NEW j \in DOMAIN dbs, k \in DOMAIN dbs[j].keys
          PROVE  ~dbs[j].keys[k]
      <4>1. answer = "off" BY <1>15, <3>2
      <4>2. dbs[j].born = minted'[k] /\ dbs[i].born = databases[i].born
        BY <1>2, <1>4, <1>12, <3>2 DEF KeysAtHome
      <4>3. j = i BY <1>7, <1>12, <1>18, <3>2, <4>2 DEF SameIds
      <4> QED BY <1>22, <1>18, <3>2, <4>1, <4>3
    <3> QED BY <2>2, <3>1, <3>2
  <2> QED BY <2>1, <2>2
<1>20. dbs = [databases EXCEPT ![i].keys = K] BY <1>2 DEF r
<1> QED BY <1>1, <1>5, <1>12, <1>13, <1>17, <1>19, <1>20, SaveKeeps

\* The operations of the registry keep it in order: a new record has an id and a birth
\* that no other has (addDatabase).
LEMMA AddKeeps == RegistryInv /\ AddDatabase => RegistryInv'
<1> SUFFICES ASSUME RegistryInv, AddDatabase PROVE RegistryInv' OBVIOUS
<1>1. PICK id \in FreeIds, s \in Setting, how \in Outcome :
        SaveConfig([i \in DOMAIN databases \cup {id} |->
                      IF i = id THEN [born |-> born + 1, setting |-> s, keys |-> [k \in {} |-> TRUE]]
                      ELSE databases[i]], how)
  BY DEF AddDatabase
<1> DEFINE r == [born |-> born + 1, setting |-> s, keys |-> [k \in {} |-> TRUE]]
           dbs == [i \in DOMAIN databases \cup {id} |-> IF i = id THEN r ELSE databases[i]]
<1>2. /\ up /\ born < MaxBorn /\ born' = born + 1
      /\ UNCHANGED <<flushDue, expired, minted, told>>
  BY DEF AddDatabase
<1>3. /\ databases \in Partial(Id, Record) /\ file \in Partial(Id, Record)
      /\ minted \in [Key -> 0..MaxBorn] /\ born \in 0..MaxBorn
      /\ told \in [Key -> {"nothing", "works", "off", "unknown"}]
      /\ flushDue \in BOOLEAN /\ expired \subseteq Key /\ MaxBorn \in Nat
  BY RegistryAssumption DEF RegistryInv, RegistryTypeOK, RegistryAssumption
<1>4. /\ databases \in [DOMAIN databases -> Record] /\ DOMAIN databases \subseteq Id
      /\ file \in [DOMAIN file -> Record]
  BY <1>3, PartialFunction
<1>5. id \in Id /\ id \notin DOMAIN databases BY DEF FreeIds
<1>6. [k \in {} |-> TRUE] \in Partial(Key, BOOLEAN) BY PartialFunction
<1>7. born + 1 \in 1..MaxBorn /\ born' \in 0..MaxBorn BY <1>2, <1>3
<1>8. r \in Record BY <1>6, <1>7 DEF Record
<1>9. /\ DOMAIN dbs = DOMAIN databases \cup {id} /\ dbs[id] = r
      /\ \A i \in DOMAIN databases : dbs[i] = databases[i]
  BY <1>5
<1>10. r.born = born + 1 /\ DOMAIN r.keys = {} OBVIOUS
<1> HIDE DEF r
<1>11. dbs \in Partial(Id, Record)
  <2>1. dbs \in [DOMAIN dbs -> Record] BY <1>4, <1>8
  <2> QED BY <1>4, <1>5, <1>9, <2>1, PartialFunction
<1> HIDE DEF dbs
<1>12. \A d \in {databases, file} : \A i \in DOMAIN d : d[i].born \in Nat /\ d[i].born <= born
  BY <1>4 DEF RegistryInv, KeysAtHome, Record
<1>13. KeysAtHome(dbs, born', minted') /\ KeysAtHome(file, born', minted')
  <2>1. KeysAtHome(file, born', minted')
    BY <1>2, <1>3, <1>12 DEF RegistryInv, KeysAtHome
  <2>2. KeysAtHome(dbs, born', minted')
    BY <1>2, <1>3, <1>9, <1>10, <1>12 DEF RegistryInv, KeysAtHome
  <2> QED BY <2>1, <2>2
<1>14. SameIds(dbs, dbs) /\ SameIds(dbs, file)
  BY <1>3, <1>9, <1>10, <1>12 DEF RegistryInv, SameIds
<1>15. AsTold(databases, told) /\ AsTold(file, told) BY <1>2 DEF RegistryInv
<1>16. AsTold(dbs, told)
  <2> SUFFICES ASSUME NEW k \in Key
               PROVE  /\ told[k] = "works" =>
                           \E j \in DOMAIN dbs : k \in DOMAIN dbs[j].keys /\ dbs[j].keys[k]
                      /\ told[k] = "off" =>
                           \A j \in DOMAIN dbs : k \in DOMAIN dbs[j].keys => ~dbs[j].keys[k]
    BY DEF AsTold
  <2>1. ASSUME told[k] = "works"
        PROVE  \E j \in DOMAIN dbs : k \in DOMAIN dbs[j].keys /\ dbs[j].keys[k]
    <3>1. PICK j \in DOMAIN databases : k \in DOMAIN databases[j].keys /\ databases[j].keys[k]
      BY <1>15, <2>1 DEF AsTold
    <3> QED BY <1>9, <3>1
  <2>2. ASSUME told[k] = "off", NEW j \in DOMAIN dbs, k \in DOMAIN dbs[j].keys
        PROVE  ~dbs[j].keys[k]
    BY <1>9, <1>10, <1>15, <2>2 DEF AsTold
  <2> QED BY <2>1, <2>2
<1>17. told' = told /\ SaveConfig(dbs, how) BY <1>1, <1>2 DEF dbs, r
<1>18. RegistryInv /\ how \in Outcome OBVIOUS
<1> QED
  BY <1>2, <1>3, <1>7, <1>11, <1>13, <1>14, <1>15, <1>16, <1>17, <1>18, SaveKeeps

\* A change of settings leaves the keys alone (updateDatabase, patchDatabase).
LEMMA SettingsKeep ==
    ASSUME RegistryInv, NEW i \in DOMAIN databases, ChangeSettings(i) PROVE RegistryInv'
<1>1. PICK s \in Setting, how \in Outcome : SaveConfig([databases EXCEPT ![i].setting = s], how)
  BY DEF ChangeSettings
<1> DEFINE r == [databases[i] EXCEPT !.setting = s]
           dbs == [databases EXCEPT ![i] = r]
<1>2. up /\ UNCHANGED <<flushDue, expired, born, minted, told>> BY DEF ChangeSettings, history
<1>3. /\ databases \in Partial(Id, Record)
      /\ minted \in [Key -> 0..MaxBorn] /\ born \in 0..MaxBorn
      /\ told \in [Key -> {"nothing", "works", "off", "unknown"}]
      /\ flushDue \in BOOLEAN /\ expired \subseteq Key
  BY DEF RegistryInv, RegistryTypeOK
<1>4. databases \in [DOMAIN databases -> Record] BY <1>3, PartialFunction
<1>5. databases[i] \in Record BY <1>4
<1>6. r \in Record /\ r.born = databases[i].born /\ r.keys = databases[i].keys
  BY <1>5 DEF Record
<1>7. dbs = [databases EXCEPT ![i].setting = s] BY <1>4
<1>8. \A k \in DOMAIN r.keys : minted'[k] = r.born
  BY <1>2, <1>6 DEF RegistryInv, KeysAtHome
<1>9. \A k \in Key : minted[k] # 0 => minted'[k] = minted[k] BY <1>2
<1> HIDE DEF r
<1>10. /\ dbs \in Partial(Id, Record)
       /\ KeysAtHome(dbs, born', minted') /\ KeysAtHome(file, born', minted')
       /\ SameIds(dbs, dbs) /\ SameIds(dbs, file)
  BY <1>2, <1>6, <1>8, <1>9, ChangedRecord
<1>11. DOMAIN dbs = DOMAIN databases /\ \A j \in DOMAIN databases : dbs[j].keys = databases[j].keys
  BY <1>4, <1>6
<1>12. AsTold(databases, told) /\ AsTold(file, told) BY <1>2 DEF RegistryInv
<1>13. AsTold(dbs, told) BY <1>11, <1>12 DEF AsTold
<1>14. RegistryInv /\ how \in Outcome OBVIOUS
<1> QED BY <1>1, <1>2, <1>3, <1>7, <1>10, <1>12, <1>13, <1>14, SaveKeeps

\* A deletion takes the keys of the database with it, of which no other has one.
LEMMA DeleteKeeps ==
    ASSUME RegistryInv, NEW i \in DOMAIN databases, DeleteDatabase(i) PROVE RegistryInv'
<1> DEFINE dbs == Restrict(databases, DOMAIN databases \ {i})
           gone == DOMAIN databases[i].keys
<1>1. PICK how \in Outcome : SaveConfig(dbs, how) /\ Tell(gone, "off", how)
  BY DEF DeleteDatabase
<1>2. up /\ UNCHANGED <<flushDue, expired, born, minted>> BY DEF DeleteDatabase
<1>3. /\ databases \in Partial(Id, Record)
      /\ minted \in [Key -> 0..MaxBorn] /\ born \in 0..MaxBorn
      /\ told \in [Key -> {"nothing", "works", "off", "unknown"}]
      /\ flushDue \in BOOLEAN /\ expired \subseteq Key
  BY DEF RegistryInv, RegistryTypeOK
<1>4. databases \in [DOMAIN databases -> Record] /\ DOMAIN databases \subseteq Id
  BY <1>3, PartialFunction
<1>5. /\ DOMAIN dbs = DOMAIN databases \ {i}
      /\ \A j \in DOMAIN dbs : dbs[j] = databases[j]
  BY DEF Restrict
<1>6. dbs \in Partial(Id, Record)
  <2>1. dbs \in [DOMAIN dbs -> Record] BY <1>4 DEF Restrict
  <2> QED BY <1>4, <1>5, <2>1, PartialFunction
<1> HIDE DEF dbs
<1>7. KeysAtHome(dbs, born', minted') /\ KeysAtHome(file, born', minted')
  BY <1>2, <1>5 DEF RegistryInv, KeysAtHome
<1>8. SameIds(dbs, dbs) /\ SameIds(dbs, file) BY <1>5 DEF RegistryInv, SameIds
<1>9. told' \in [Key -> {"nothing", "works", "off", "unknown"}] BY <1>1, <1>3 DEF Tell
<1>10. \A k \in Key : told'[k] = IF k \notin gone THEN told[k]
                                 ELSE IF how = "saved" THEN "off" ELSE "unknown"
  BY <1>1 DEF Tell
<1>11. AsTold(databases, told) /\ AsTold(file, told) BY <1>2 DEF RegistryInv
<1>12. \A k \in gone, j \in DOMAIN dbs : k \notin DOMAIN dbs[j].keys
  <2> SUFFICES ASSUME NEW k \in gone, NEW j \in DOMAIN dbs, k \in DOMAIN dbs[j].keys PROVE FALSE
    OBVIOUS
  <2>1. databases[j].born = minted[k] /\ databases[i].born = minted[k]
    BY <1>5 DEF RegistryInv, KeysAtHome
  <2> QED BY <1>5, <2>1 DEF RegistryInv, SameIds
<1>13. how = "failed" => AsTold(file, told') BY <1>10, <1>11 DEF AsTold
<1>14. AsTold(dbs, told')
  <2> SUFFICES ASSUME NEW k \in Key
               PROVE  /\ told'[k] = "works" =>
                           \E j \in DOMAIN dbs : k \in DOMAIN dbs[j].keys /\ dbs[j].keys[k]
                      /\ told'[k] = "off" =>
                           \A j \in DOMAIN dbs : k \in DOMAIN dbs[j].keys => ~dbs[j].keys[k]
    BY DEF AsTold
  <2>1. ASSUME told'[k] = "works"
        PROVE  \E j \in DOMAIN dbs : k \in DOMAIN dbs[j].keys /\ dbs[j].keys[k]
    <3>1. told[k] = "works" /\ k \notin gone BY <1>10, <2>1
    <3>2. PICK j \in DOMAIN databases : k \in DOMAIN databases[j].keys /\ databases[j].keys[k]
      BY <1>11, <3>1 DEF AsTold
    <3>3. j # i BY <3>1, <3>2
    <3> QED BY <1>5, <3>2, <3>3
  <2>2. ASSUME told'[k] = "off", NEW j \in DOMAIN dbs, k \in DOMAIN dbs[j].keys
        PROVE  ~dbs[j].keys[k]
    <3>1. k \notin gone BY <1>12, <2>2
    <3>2. told[k] = "off" BY <1>10, <2>2, <3>1
    <3> QED BY <1>5, <1>11, <2>2, <3>2 DEF AsTold
  <2> QED BY <2>1, <2>2
<1>15. RegistryInv /\ how \in Outcome OBVIOUS
<1> QED
  BY <1>1, <1>2, <1>3, <1>6, <1>7, <1>8, <1>9, <1>13, <1>14, <1>15, SaveKeeps

\* A created key is new, and works once that is answered.
LEMMA CreateKeeps ==
    ASSUME RegistryInv, NEW i \in DOMAIN databases, NEW k \in Key, CreateApiKey(i, k)
    PROVE  RegistryInv'
<1> DEFINE K == [x \in DOMAIN databases[i].keys \cup {k} |-> x = k \/ databases[i].keys[x]]
<1>1. /\ databases \in [DOMAIN databases -> Record]
  BY PartialFunction DEF RegistryInv, RegistryTypeOK
<1>2. databases[i].keys \in Partial(Key, BOOLEAN) BY <1>1 DEF Record
<1>3. databases[i].keys \in [DOMAIN databases[i].keys -> BOOLEAN]
      /\ DOMAIN databases[i].keys \subseteq Key
  BY <1>2, PartialFunction
<1>4. DOMAIN K \subseteq Key /\ K \in [DOMAIN K -> BOOLEAN] BY <1>3
<1>5. K \in Partial(Key, BOOLEAN) BY <1>4, PartialFunction
<1>6. /\ DOMAIN K = DOMAIN databases[i].keys \cup {k} /\ K[k]
      /\ \A x \in DOMAIN databases[i].keys : x # k => K[x] = databases[i].keys[x]
  BY <1>3
<1>7. [databases EXCEPT ![i].keys = K]
        = [databases EXCEPT ![i].keys = [x \in DOMAIN @ \cup {k} |-> x = k \/ databases[i].keys[x]]]
  BY <1>1
<1>8. PICK how \in Outcome :
        SaveConfig([databases EXCEPT ![i].keys = K], how) /\ Tell({k}, "works", how)
  BY <1>7 DEF CreateApiKey
<1> HIDE DEF K
<1>9. OneKeyDiffers(K, i, k, "works") BY <1>6 DEF OneKeyDiffers
<1>10. /\ up /\ minted[k] = 0 /\ minted' = [minted EXCEPT ![k] = databases[i].born]
       /\ UNCHANGED <<flushDue, expired, born>>
  BY DEF CreateApiKey
<1> QED BY <1>5, <1>8, <1>9, <1>10, KeyChange

\* An enabled or disabled key is as the operator is told.
LEMMA UpdateKeeps ==
    ASSUME RegistryInv, NEW i \in DOMAIN databases, NEW k \in DOMAIN databases[i].keys,
           UpdateApiKey(i, k)
    PROVE  RegistryInv'
<1>1. /\ databases \in [DOMAIN databases -> Record]
  BY PartialFunction DEF RegistryInv, RegistryTypeOK
<1>2. databases[i].keys \in Partial(Key, BOOLEAN) BY <1>1 DEF Record
<1>3. databases[i].keys \in [DOMAIN databases[i].keys -> BOOLEAN]
      /\ DOMAIN databases[i].keys \subseteq Key
  BY <1>2, PartialFunction
<1>4. PICK on \in BOOLEAN, how \in Outcome :
        /\ SaveConfig([databases EXCEPT ![i].keys[k] = on], how)
        /\ Tell({k}, IF on THEN "works" ELSE "off", how)
  BY DEF UpdateApiKey
<1> DEFINE K == [databases[i].keys EXCEPT ![k] = on]
<1>5. K \in Partial(Key, BOOLEAN)
  <2>1. DOMAIN K \subseteq Key /\ K \in [DOMAIN K -> BOOLEAN] BY <1>3
  <2> QED BY <2>1, PartialFunction
<1>6. K[k] = on /\ DOMAIN K = DOMAIN databases[i].keys
      /\ \A x \in DOMAIN K : x # k => K[x] = databases[i].keys[x]
  BY <1>3
<1>7. [databases EXCEPT ![i].keys = K] = [databases EXCEPT ![i].keys[k] = on] BY <1>1
<1>8. SaveConfig([databases EXCEPT ![i].keys = K], how) BY <1>4, <1>7
<1> HIDE DEF K
<1>9. /\ up /\ UNCHANGED <<flushDue, expired, born, minted>> BY DEF UpdateApiKey
<1>10. minted[k] = databases[i].born /\ k \in Key
  BY <1>3 DEF RegistryInv, KeysAtHome
<1>11. minted' = [minted EXCEPT ![k] = databases[i].born]
  BY <1>9, <1>10 DEF RegistryInv, RegistryTypeOK
<1>12. OneKeyDiffers(K, i, k, IF on THEN "works" ELSE "off") BY <1>6 DEF OneKeyDiffers
<1>13. CASE on BY <1>4, <1>5, <1>8, <1>9, <1>10, <1>11, <1>12, <1>13, KeyChange
<1>14. CASE ~on BY <1>4, <1>5, <1>8, <1>9, <1>10, <1>11, <1>12, <1>14, KeyChange
<1> QED BY <1>13, <1>14

\* A deleted key is gone.
LEMMA DeleteKeyKeeps ==
    ASSUME RegistryInv, NEW i \in DOMAIN databases, NEW k \in DOMAIN databases[i].keys,
           DeleteApiKey(i, k)
    PROVE  RegistryInv'
<1> DEFINE K == Restrict(databases[i].keys, DOMAIN databases[i].keys \ {k})
<1>1. /\ databases \in [DOMAIN databases -> Record]
  BY PartialFunction DEF RegistryInv, RegistryTypeOK
<1>2. databases[i].keys \in Partial(Key, BOOLEAN) BY <1>1 DEF Record
<1>3. databases[i].keys \in [DOMAIN databases[i].keys -> BOOLEAN]
      /\ DOMAIN databases[i].keys \subseteq Key
  BY <1>2, PartialFunction
<1>4. K \in Partial(Key, BOOLEAN)
  <2>1. DOMAIN K \subseteq Key /\ K \in [DOMAIN K -> BOOLEAN] BY <1>3 DEF Restrict
  <2> QED BY <2>1, PartialFunction
<1>5. DOMAIN K = DOMAIN databases[i].keys \ {k}
      /\ \A x \in DOMAIN K : K[x] = databases[i].keys[x]
  BY DEF Restrict
<1>6. [databases EXCEPT ![i].keys = K] = [databases EXCEPT ![i].keys = Restrict(@, DOMAIN @ \ {k})]
  BY <1>1
<1>7. PICK how \in Outcome :
        SaveConfig([databases EXCEPT ![i].keys = K], how) /\ Tell({k}, "off", how)
  BY <1>6 DEF DeleteApiKey
<1> HIDE DEF K
<1>8. up /\ UNCHANGED <<flushDue, expired, born, minted>> BY DEF DeleteApiKey
<1>9. minted[k] = databases[i].born /\ k \in Key
  BY <1>3 DEF RegistryInv, KeysAtHome
<1>10. minted' = [minted EXCEPT ![k] = databases[i].born]
  BY <1>8, <1>9 DEF RegistryInv, RegistryTypeOK
<1>11. OneKeyDiffers(K, i, k, "off") BY <1>5 DEF OneKeyDiffers
<1> QED BY <1>4, <1>7, <1>8, <1>9, <1>10, <1>11, KeyChange

\* The save that a request causes writes what memory has.
LEMMA UseKeeps == ASSUME RegistryInv, NEW k \in Key, UseKey(k) PROVE RegistryInv'
<1>1. PICK how \in Outcome : SaveConfig(databases, how) BY DEF UseKey
<1>2. up /\ flushDue' = FALSE /\ UNCHANGED <<expired, born, minted, told>>
  BY DEF UseKey, history
<1>3. /\ databases \in Partial(Id, Record)
      /\ minted \in [Key -> 0..MaxBorn] /\ born \in 0..MaxBorn
      /\ told \in [Key -> {"nothing", "works", "off", "unknown"}]
      /\ expired \subseteq Key /\ RegistryInv
  BY DEF RegistryInv, RegistryTypeOK
<1>4. /\ KeysAtHome(databases, born', minted') /\ KeysAtHome(file, born', minted')
      /\ SameIds(databases, databases) /\ SameIds(databases, file)
      /\ AsTold(databases, told') /\ AsTold(file, told')
  BY <1>2 DEF RegistryInv
<1> QED BY <1>1, <1>2, <1>3, <1>4, SaveKeeps

\* Every step of the registry keeps it in order.
LEMMA RegistryStep == RegistryInv /\ [RegistryNext]_registry => RegistryInv'
<1> SUFFICES ASSUME RegistryInv, [RegistryNext]_registry PROVE RegistryInv' OBVIOUS
<1>1. CASE AddDatabase BY <1>1, AddKeeps
<1>2. CASE Crash
  <2>1. /\ databases' = NoDatabases /\ apiKeyIndex' = IndexOf(NoDatabases) /\ up' = FALSE
        /\ UNCHANGED <<file, flushDue, expired, born, minted, told>>
    BY <1>2 DEF Crash, Die, history
  <2>2. NoDatabases \in Partial(Id, Record) /\ DOMAIN NoDatabases = {}
        /\ IndexOf(NoDatabases) \in Partial(Key, Id)
    BY EmptyRegistry, IndexIsPartial
  <2>3. RegistryTypeOK' BY <2>1, <2>2 DEF RegistryInv, RegistryTypeOK
  <2> QED BY <2>1, <2>2, <2>3 DEF RegistryInv, KeysAtHome, SameIds, IndexInLockstep
<1>3. CASE Restart
  <2>1. /\ databases' = file /\ apiKeyIndex' = IndexOf(file) /\ up' = TRUE /\ flushDue' = TRUE
        /\ UNCHANGED <<file, expired, born, minted, told>>
    BY <1>3 DEF Restart, history
  <2>2. file \in Partial(Id, Record) /\ IndexOf(file) \in Partial(Key, Id)
    BY IndexIsPartial DEF RegistryInv, RegistryTypeOK
  <2>3. RegistryTypeOK' BY <2>1, <2>2 DEF RegistryInv, RegistryTypeOK
  <2> QED BY <2>1, <2>3 DEF RegistryInv, IndexInLockstep
<1>4. ASSUME NEW i \in DOMAIN databases, ChangeSettings(i) PROVE RegistryInv'
  BY <1>4, SettingsKeep
<1>5. ASSUME NEW i \in DOMAIN databases, DeleteDatabase(i) PROVE RegistryInv'
  BY <1>5, DeleteKeeps
<1>6. ASSUME NEW i \in DOMAIN databases, NEW k \in Key, CreateApiKey(i, k) PROVE RegistryInv'
  BY <1>6, CreateKeeps
<1>7. ASSUME NEW i \in DOMAIN databases, NEW k \in DOMAIN databases[i].keys,
             UpdateApiKey(i, k)
      PROVE  RegistryInv'
  BY <1>7, UpdateKeeps
<1>8. ASSUME NEW i \in DOMAIN databases, NEW k \in DOMAIN databases[i].keys,
             DeleteApiKey(i, k)
      PROVE  RegistryInv'
  BY <1>8, DeleteKeyKeeps
<1>9. ASSUME NEW k \in Key, UseKey(k) PROVE RegistryInv' BY <1>9, UseKeeps
<1>10. ASSUME MinutePasses \/ (\E k \in Key : Expire(k)) \/ UNCHANGED registry
       PROVE  RegistryInv'
  <2>1. UNCHANGED <<databases, apiKeyIndex, up, file, born, minted, told>>
    BY <1>10 DEF MinutePasses, Expire, registry, memory, history
  <2>2. flushDue' \in BOOLEAN /\ expired' \subseteq Key
    BY <1>10 DEF MinutePasses, Expire, registry, memory, RegistryInv, RegistryTypeOK
  <2>3. RegistryTypeOK' BY <2>1, <2>2 DEF RegistryInv, RegistryTypeOK
  <2> QED BY <2>1, <2>3 DEF RegistryInv, IndexInLockstep
<1> QED
  BY <1>1, <1>2, <1>3, <1>4, <1>5, <1>6, <1>7, <1>8, <1>9, <1>10 DEF RegistryNext

\* The registry starts in order.
LEMMA RegistryStart == RegistryInit => RegistryInv
<1> SUFFICES ASSUME RegistryInit PROVE RegistryInv OBVIOUS
<1>1. databases \in Partial(Id, Record) /\ file \in Partial(Id, Record)
      /\ DOMAIN databases = {} /\ DOMAIN file = {}
  BY EmptyRegistry DEF RegistryInit
<1>2. [k \in {} |-> 0] \in Partial(Key, Id) BY PartialFunction
<1>3. DOMAIN IndexOf(file) = {} BY <1>1 DEF IndexOf, KeysIn
<1>4. apiKeyIndex = IndexOf(file)
  <2>1. IndexOf(file) = [k \in {} |-> 0] BY <1>3 DEF IndexOf
  <2> QED BY <2>1 DEF RegistryInit
<1>5. MaxBorn \in Nat BY RegistryAssumption DEF RegistryAssumption
<1>6. RegistryTypeOK BY <1>1, <1>2, <1>5 DEF RegistryTypeOK, RegistryInit
<1>7. AsTold(file, told) /\ AsTold(databases, told) BY DEF AsTold, RegistryInit
<1> QED
  BY <1>1, <1>4, <1>6, <1>7 DEF RegistryInv, KeysAtHome, SameIds, IndexInLockstep

\* A key that is on in memory is found there by the index of the file.
LEMMA RegistryImplies == RegistryInv => KeysAsTold /\ KeysStayHome /\ IndexInLockstep
<1> SUFFICES ASSUME RegistryInv PROVE KeysAsTold /\ KeysStayHome BY DEF RegistryInv
<1>1. databases \in Partial(Id, Record) /\ file \in Partial(Id, Record)
  BY DEF RegistryInv, RegistryTypeOK
<1>2. DOMAIN databases \subseteq Id /\ 0 \notin Id
  BY <1>1, PartialFunction, RegistryAssumption DEF Id, RegistryAssumption
<1>3. KeysAsTold
  <2> SUFFICES ASSUME up, NEW k \in Key
               PROVE  /\ told[k] = "works" /\ k \notin expired => KeyDatabase(k) # 0
                      /\ told[k] = "off" => KeyDatabase(k) = 0
    BY DEF KeysAsTold
  <2>1. AsTold(file, told) /\ AsTold(databases, told) /\ apiKeyIndex = IndexOf(file)
    BY DEF RegistryInv, IndexInLockstep
  <2>2. ASSUME told[k] = "works", k \notin expired PROVE KeyDatabase(k) # 0
    <3>1. PICK i \in DOMAIN databases : k \in DOMAIN databases[i].keys /\ databases[i].keys[k]
      BY <2>1, <2>2 DEF AsTold
    <3>2. PICK j \in DOMAIN file : k \in DOMAIN file[j].keys
      BY <2>1, <2>2 DEF AsTold
    <3>3. k \in DOMAIN apiKeyIndex BY <1>1, <2>1, <3>2, IndexIsPartial
    <3>4. apiKeyIndex[k] \in DOMAIN file /\ k \in DOMAIN file[apiKeyIndex[k]].keys
      BY <1>1, <2>1, <3>3, IndexIsPartial
    <3>5. apiKeyIndex[k] = i
      <4>1. file[apiKeyIndex[k]].born = minted[k] /\ databases[i].born = minted[k]
        BY <3>1, <3>4 DEF RegistryInv, KeysAtHome
      <4> QED BY <3>4, <4>1 DEF RegistryInv, SameIds
    <3>6. KeyDatabase(k) = i BY <2>2, <3>1, <3>3, <3>5 DEF KeyDatabase
    <3> QED BY <1>2, <3>6
  <2>3. ASSUME told[k] = "off" PROVE KeyDatabase(k) = 0
    BY <2>1, <2>3 DEF AsTold, KeyDatabase
  <2> QED BY <2>2, <2>3
<1>4. KeysStayHome
  <2>1. \A k \in Key : KeyDatabase(k) # 0 =>
           KeyDatabase(k) \in DOMAIN databases /\ databases[KeyDatabase(k)].born = minted[k]
    BY DEF KeyDatabase, RegistryInv, KeysAtHome
  <2> QED BY <2>1 DEF KeysStayHome, Opened
<1> QED BY <1>3, <1>4

-----------------------------------------------------------------------------
(* The backups                                                             *)
-----------------------------------------------------------------------------

Content == {"none", "partial", "complete"}
Object == [content : Content, age : 0..Retention + 1]
Attempt == [stage : {"none", "asked", "running"}, saved : 0..Interval]

\* An attempt was due when it was begun.
AttemptWasDue == attempt.stage # "none" => attempt.saved = Interval

\* Unless the operator deletes backups, what is being written is there in part, and
\* a prune comes right after a backup: nothing has aged in between.
StorageInOrder ==
    ~handDeleted =>
        /\ inFlight # NoBackup =>
             /\ bucket[inFlight].content = "partial"
             /\ pruning => bucket[inFlight].age = 0
        /\ pruning => \E b \in Backup : bucket[b].content = "complete" /\ bucket[b].age = 0

BackupInv ==
    /\ BackupTypeOK /\ AttemptWasDue /\ MarkerIsTrue
    /\ StorageInOrder /\ SomethingToRestore

\* The bounds of ages, and the place that is none.
LEMMA AgeLimits ==
    /\ Interval \in Nat /\ 0 \in 0..Interval /\ Interval \in 0..Interval
    /\ Retention \in Nat \ {0} /\ 0 \in 0..Retention + 1
    /\ NoBackup \notin Backup
<1>1. Interval \in Nat \ {0} /\ Retention \in Nat \ {0} BY BackupAssumption DEF BackupAssumption
<1>2. NoBackup \notin Backup BY BackupAssumption DEF BackupAssumption, NoBackup
<1>3. 0 \in 0..Interval /\ Interval \in 0..Interval BY <1>1
<1>4. 0 \in 0..Retention + 1 BY <1>1
<1> QED BY <1>1, <1>2, <1>3, <1>4

\* The age of a thing stays within its limit, which it keeps once it has reached it.
LEMMA OlderBound ==
    ASSUME NEW limit \in Nat, NEW age \in 0..limit
    PROVE  /\ Older(age, limit) \in 0..limit
           /\ age = limit => Older(age, limit) = limit
           /\ Older(age, limit) < limit => age < limit /\ Older(age, limit) = age + 1
BY DEF Older

\* The types of the backups.
LEMMA BackupTypeStep == BackupTypeOK /\ [BackupNext]_backups => BackupTypeOK'
<1> SUFFICES ASSUME BackupTypeOK, [BackupNext]_backups PROVE BackupTypeOK' OBVIOUS
<1> DEFINE Flags == /\ enabled \in BOOLEAN /\ pruning \in BOOLEAN
                    /\ everTaken \in BOOLEAN /\ handDeleted \in BOOLEAN
           Ages == markerAge \in 0..Interval /\ lastAge \in 0..Interval /\ attempt \in Attempt
           Places == inFlight \in Backup \cup {NoBackup} /\ bucket \in [Backup -> Object]
<1>1. Flags'
  <2>1. Flags BY DEF BackupTypeOK
  <2> QED
    BY <2>1 DEF BackupNext, backups, schedule, storage, past, Tick, Configure, AskScheduled,
       RunScheduled, RunManual, BeginBackup, GiveUp, BackupDone, BackupFails, Prune,
       RestartServer, DeleteBackup
<1>2. Ages'
  <2>1. Ages BY DEF BackupTypeOK, Attempt
  <2>2. Interval \in Nat /\ 0 \in 0..Interval /\ Interval \in 0..Interval
    BY AgeLimits
  <2> HIDE DEF Ages
  <2>0. NoAttempt \in Attempt BY <2>2 DEF NoAttempt, Attempt
  <2> USE DEF Ages
  <2>3. CASE Tick
    <3>1. /\ Older(markerAge, Interval) \in 0..Interval /\ Older(lastAge, Interval) \in 0..Interval
          /\ Older(attempt.saved, Interval) \in 0..Interval
      BY <2>1, <2>2, OlderBound DEF Attempt
    <3> QED BY <2>1, <2>3, <3>1 DEF Tick, Attempt
  <2>4. CASE AskScheduled
    <3>1. attempt' \in Attempt BY <2>1, <2>4 DEF AskScheduled, Attempt
    <3> QED BY <2>1, <2>2, <2>4, <3>1 DEF AskScheduled, past
  <2>5. CASE RunScheduled
    <3>1. attempt.saved \in 0..Interval /\ [attempt EXCEPT !.stage = "running"] \in Attempt
      BY <2>1 DEF Attempt
    <3> QED BY <2>0, <2>1, <2>5, <3>1 DEF RunScheduled, GiveUp, past
  <2>6. CASE BackupDone BY <2>0, <2>1, <2>6 DEF BackupDone
  <2>7. CASE BackupFails BY <2>0, <2>1, <2>7 DEF BackupFails, GiveUp, schedule, past, Attempt
  <2>8. CASE RestartServer BY <2>0, <2>2, <2>1, <2>8 DEF RestartServer, past
  <2>9. ASSUME Configure \/ RunManual \/ Prune \/ (\E b \in Backup : DeleteBackup(b))
                \/ UNCHANGED backups
        PROVE  UNCHANGED <<markerAge, lastAge, attempt>>
    BY <2>9 DEF Configure, RunManual, Prune, DeleteBackup, backups, schedule, past
  <2> QED BY <2>1, <2>3, <2>4, <2>5, <2>6, <2>7, <2>8, <2>9 DEF BackupNext
<1>3. Places'
  <2>1. Places BY DEF BackupTypeOK, Object, Content
  <2>2. /\ Retention \in Nat /\ Empty \in Object
        /\ \A c \in Content : [content |-> c, age |-> 0] \in Object
    <3>1. Retention \in Nat /\ 0 \in 0..Retention + 1
      BY AgeLimits
    <3> QED BY <3>1 DEF Empty, Object, Content
  <2>3. CASE Tick
    <3>1. \A b \in Backup : [bucket[b] EXCEPT !.age = Older(@, Retention + 1)] \in Object
      <4> TAKE b \in Backup
      <4>1. bucket[b] \in Object BY <2>1
      <4>2. Older(bucket[b].age, Retention + 1) \in 0..Retention + 1
        BY <2>2, <4>1, OlderBound DEF Object
      <4> QED BY <4>1, <4>2 DEF Object
    <3> QED BY <2>1, <2>2, <2>3, <3>1 DEF Tick
  <2>4. ASSUME NEW b \in Backup, BeginBackup(b) PROVE Places'
    BY <2>1, <2>2, <2>4 DEF BeginBackup, Content
  <2>5. CASE RunScheduled BY <2>1, <2>4, <2>5 DEF RunScheduled, storage
  <2>6. CASE RunManual BY <2>4, <2>6 DEF RunManual
  <2>7. CASE BackupDone BY <2>1, <2>2, <2>7 DEF BackupDone, Content
  <2>8. CASE BackupFails BY <2>1, <2>8 DEF BackupFails
  <2>9. CASE Prune
    <3>1. \A b \in Backup : [bucket[b] EXCEPT !.content = "partial"] \in Object
      BY <2>1 DEF Object, Content
    <3> QED BY <2>1, <2>2, <2>9, <3>1 DEF Prune
  <2>10. CASE RestartServer
    <3>1. \A b \in Backup, c \in {"partial", "complete"} :
              [bucket[b] EXCEPT !.content = c] \in Object
      BY <2>1 DEF Object, Content
    <3>2. PICK c \in {"partial", "complete"} :
              bucket' = [b \in Backup |-> IF b = inFlight THEN [bucket[b] EXCEPT !.content = c]
                                         ELSE bucket[b]]
      BY <2>10 DEF RestartServer
    <3> QED BY <2>1, <2>10, <3>1, <3>2 DEF RestartServer
  <2>11. ASSUME NEW b \in Backup, DeleteBackup(b) PROVE Places'
    <3>1. [bucket[b] EXCEPT !.content = "partial"] \in Object
      BY <2>1 DEF Object, Content
    <3>2. PICK left \in Object : bucket' = [bucket EXCEPT ![b] = left]
      BY <2>2, <2>11, <3>1 DEF DeleteBackup
    <3> QED BY <2>1, <2>11, <3>2 DEF DeleteBackup
  <2>12. ASSUME Configure \/ AskScheduled \/ UNCHANGED backups
         PROVE  UNCHANGED <<inFlight, bucket>>
    BY <2>12 DEF Configure, AskScheduled, backups, storage
  <2> QED
    BY <2>1, <2>3, <2>5, <2>6, <2>7, <2>8, <2>9, <2>10, <2>11, <2>12 DEF BackupNext
<1> QED BY <1>1, <1>2, <1>3 DEF BackupTypeOK, Attempt, Object, Content

\* The marker, through ticks, attempts that fail and restarts.
LEMMA MarkerStep ==
    BackupTypeOK /\ AttemptWasDue /\ MarkerIsTrue /\ [BackupNext]_backups
        => (AttemptWasDue /\ MarkerIsTrue)'
<1> SUFFICES ASSUME BackupTypeOK, AttemptWasDue, MarkerIsTrue, [BackupNext]_backups
             PROVE  (AttemptWasDue /\ MarkerIsTrue)'
  OBVIOUS
<1> DEFINE Ages == markerAge \in 0..Interval /\ lastAge \in 0..Interval /\ attempt \in Attempt
<1>1. Ages /\ Interval \in Nat
  BY AgeLimits DEF BackupTypeOK, Attempt
<1> USE DEF AttemptWasDue, MarkerIsTrue
<1>2. CASE Tick
  <2>1. attempt.saved \in 0..Interval /\ attempt'.saved = Older(attempt.saved, Interval)
        /\ attempt'.stage = attempt.stage
    BY <1>1, <1>2 DEF Tick, Attempt
  <2>2. AttemptWasDue' BY <1>1, <2>1, OlderBound
  <2>3. MarkerIsTrue'
    <3> SUFFICES ASSUME attempt'.stage = "none", markerAge' < Interval
                 PROVE  lastAge' = markerAge'
      OBVIOUS
    <3>1. markerAge < Interval /\ markerAge' = markerAge + 1 BY <1>1, <1>2, OlderBound DEF Tick
    <3>2. lastAge = markerAge BY <2>1, <3>1
    <3> QED BY <1>2, <3>2 DEF Tick
  <2> QED BY <2>2, <2>3
<1>3. CASE AskScheduled BY <1>1, <1>3 DEF AskScheduled
<1>4. CASE RunScheduled
  <2>1. CASE attempt' = [attempt EXCEPT !.stage = "running"]
    BY <1>1, <1>4, <2>1 DEF RunScheduled, Attempt
  <2>2. CASE GiveUp BY <1>1, <1>4, <2>2 DEF RunScheduled, GiveUp, NoAttempt
  <2> QED BY <1>4, <2>1, <2>2 DEF RunScheduled
<1>5. CASE BackupDone
  <2>1. CASE attempt.stage = "running" BY <1>1, <1>5, <2>1 DEF BackupDone, NoAttempt
  <2>2. CASE attempt.stage # "running" BY <1>1, <1>5, <2>2 DEF BackupDone
  <2> QED BY <2>1, <2>2
<1>6. CASE BackupFails
  BY <1>1, <1>6 DEF BackupFails, GiveUp, schedule, past, NoAttempt
<1>7. CASE RestartServer BY <1>1, <1>7 DEF RestartServer, past, NoAttempt
<1>8. ASSUME Configure \/ RunManual \/ Prune \/ (\E b \in Backup : DeleteBackup(b))
              \/ UNCHANGED backups
      PROVE  UNCHANGED <<markerAge, lastAge, attempt>>
  BY <1>8 DEF Configure, RunManual, Prune, DeleteBackup, backups, schedule, past
<1> QED BY <1>2, <1>3, <1>4, <1>5, <1>6, <1>7, <1>8 DEF BackupNext

\* The bucket, through backups, prunes and restarts.
LEMMA StorageStep ==
    BackupTypeOK /\ StorageInOrder /\ SomethingToRestore /\ [BackupNext]_backups
        => (StorageInOrder /\ SomethingToRestore)'
<1> SUFFICES ASSUME BackupTypeOK, StorageInOrder, SomethingToRestore, [BackupNext]_backups,
                    ~handDeleted'
             PROVE  (StorageInOrder /\ SomethingToRestore)'
  BY DEF StorageInOrder, SomethingToRestore
<1> DEFINE Complete(b) == bucket[b].content = "complete"
           Fresh(b) == Complete(b) /\ bucket[b].age = 0
           Written(b) == bucket[b].content = "partial" /\ (pruning => bucket[b].age = 0)
<1>1. /\ inFlight \in Backup \cup {NoBackup} /\ bucket \in [Backup -> Object]
      /\ NoBackup \notin Backup /\ Retention \in Nat \ {0}
  BY AgeLimits DEF BackupTypeOK, Object, Content
<1>2. ~handDeleted
  BY DEF BackupNext, backups, past, Tick, Configure, AskScheduled,
       RunScheduled, RunManual, BackupDone, BackupFails, Prune, RestartServer, DeleteBackup
<1>3. /\ inFlight # NoBackup => Written(inFlight)
      /\ pruning => \E b \in Backup : Fresh(b)
      /\ everTaken => \E b \in Backup : Complete(b)
  BY <1>2 DEF StorageInOrder, SomethingToRestore
<1> SUFFICES /\ inFlight' # NoBackup => Written(inFlight)'
             /\ pruning' => \E b \in Backup : Fresh(b)'
             /\ everTaken' => \E b \in Backup : Complete(b)'
  BY DEF StorageInOrder, SomethingToRestore
<1> HIDE DEF Complete, Fresh, Written
<1>4. ASSUME NEW c \in Backup, BeginBackup(c), everTaken' = everTaken
      PROVE  /\ inFlight' # NoBackup => Written(inFlight)'
             /\ pruning' => \E b \in Backup : Fresh(b)'
             /\ everTaken' => \E b \in Backup : Complete(b)'
  <2>1. bucket[c].content = "none" /\ bucket' = [bucket EXCEPT ![c] = [content |-> "partial", age |-> 0]]
    BY <1>4 DEF BeginBackup, Free
  <2>2. \A b \in Backup : (Complete(b) => Complete(b)') /\ (Fresh(b) => Fresh(b)')
    BY <1>1, <2>1 DEF Complete, Fresh
  <2>3. Written(inFlight)' BY <1>1, <1>4, <2>1 DEF BeginBackup, Written
  <2> QED BY <1>3, <1>4, <2>2, <2>3 DEF BeginBackup
<1>5. CASE Tick
  <2>1. \A b \in Backup : bucket'[b].content = bucket[b].content
    BY <1>1, <1>5 DEF Tick, Object, Empty
  <2>2. \A b \in Backup : Complete(b) => Complete(b)' BY <2>1 DEF Complete
  <2>3. inFlight # NoBackup => Written(inFlight)'
    BY <1>1, <1>3, <1>5, <2>1 DEF Tick, Written
  <2> QED BY <1>3, <1>5, <2>2, <2>3 DEF Tick
<1>6. CASE RunScheduled
  <2>1. CASE \E b \in Backup : BeginBackup(b) BY <1>4, <1>6, <2>1 DEF RunScheduled, past
  <2>2. CASE UNCHANGED storage
    BY <1>3, <1>6, <2>2 DEF RunScheduled, storage, past, Complete, Fresh, Written
  <2> QED BY <1>6, <2>1, <2>2 DEF RunScheduled
<1>7. CASE RunManual BY <1>4, <1>7 DEF RunManual, past
<1>8. CASE BackupDone
  <2>1. PICK c \in Backup : c = inFlight /\ bucket[c].content = "partial"
    BY <1>1, <1>3, <1>8 DEF BackupDone, Written
  <2>2. bucket'[c] = [content |-> "complete", age |-> 0] BY <1>1, <1>8, <2>1 DEF BackupDone
  <2>3. Fresh(c)' /\ Complete(c)' BY <2>2 DEF Fresh, Complete
  <2> QED BY <1>8, <2>3 DEF BackupDone
<1>9. CASE BackupFails BY <1>3, <1>9 DEF BackupFails, past, Complete, Fresh
<1>10. CASE Prune
  <2>1. \A b \in Backup \ Expired : bucket'[b] = bucket[b] BY <1>1, <1>10 DEF Prune
  <2>2. \A b \in Backup : bucket[b].age = 0 => b \notin Expired BY <1>1 DEF Expired
  <2>3. PICK b \in Backup : Fresh(b) BY <1>3, <1>10 DEF Prune
  <2>4. Complete(b)' BY <2>1, <2>2, <2>3 DEF Fresh, Complete
  <2>5. inFlight # NoBackup => Written(inFlight)'
    BY <1>1, <1>3, <1>10, <2>1, <2>2 DEF Prune, Written
  <2> QED BY <1>10, <2>4, <2>5 DEF Prune
<1>11. CASE RestartServer
  <2>1. \A b \in Backup : Complete(b) => Complete(b)'
    BY <1>1, <1>3, <1>11 DEF RestartServer, Complete, Written
  <2> QED BY <1>3, <1>11, <2>1 DEF RestartServer, past
<1>12. CASE Configure \/ AskScheduled \/ UNCHANGED backups
  BY <1>3, <1>12 DEF Configure, AskScheduled, backups, storage, past, Complete, Fresh, Written
<1> QED
  BY <1>5, <1>6, <1>7, <1>8, <1>9, <1>10, <1>11, <1>12 DEF BackupNext, DeleteBackup

\* Every step of the backups keeps them in order.
LEMMA BackupStep == BackupInv /\ [BackupNext]_backups => BackupInv'
BY BackupTypeStep, MarkerStep, StorageStep DEF BackupInv

\* The backups start in order.
LEMMA BackupStart == BackupInit => BackupInv
<1> SUFFICES ASSUME BackupInit PROVE BackupInv OBVIOUS
<1> USE AgeLimits DEF BackupInit
<1>1. BackupTypeOK
  <2>1. /\ markerAge \in 0..Interval /\ lastAge \in 0..Interval
        /\ attempt \in [stage : {"none", "asked", "running"}, saved : 0..Interval]
    BY DEF NoAttempt
  <2>2. bucket \in [Backup -> [content : {"none", "partial", "complete"}, age : 0..Retention + 1]]
    BY DEF Empty
  <2> QED BY <2>1, <2>2 DEF BackupTypeOK
<1>2. AttemptWasDue /\ MarkerIsTrue /\ StorageInOrder /\ SomethingToRestore
  BY DEF AttemptWasDue, MarkerIsTrue, StorageInOrder, SomethingToRestore, NoAttempt
<1> QED BY <1>1, <1>2 DEF BackupInv

-----------------------------------------------------------------------------
(* The internal tables                                                     *)
-----------------------------------------------------------------------------

\* The run has created the tables before the one it creates next.
MadeSoFar(r) == step[r] # 0 /\ 1..(step[r] - 1) \subseteq tables

\* While a clear runs its predecessor's answer is withdrawn, and the run it waits for
\* has made what it should have.
ClearUnderWay ==
    /\ clear # 0 => ~cleared
    /\ awaits \in Run => clear = Tables + 1 /\ MadeSoFar(awaits)

\* The shared run has made what it should have, and the flag is set with the tables
\* there: until a run succeeds that was abandoned, or a clear fails.
SharedRun ==
    ~overtaken =>
        /\ initializationPromise \in Run =>
             ~initialized /\ MadeSoFar(initializationPromise)
        /\ initialized /\ clear = 0 /\ ~broken => tables = Table

InternalInv == InternalTypeOK /\ ClearUnderWay /\ ClearedMeansReady /\ SharedRun

\* The types of the internal tables.
LEMMA InternalTypeStep == InternalTypeOK /\ [InternalNext]_internal => InternalTypeOK'
<1> SUFFICES ASSUME InternalTypeOK, [InternalNext]_internal PROVE InternalTypeOK' OBVIOUS
<1> DEFINE Values == /\ tables \subseteq Table /\ clear \in 0..Tables + 1
                     /\ initializationPromise \in Run \cup {NoRun, Settled}
                     /\ step \in [Run -> 0..Tables + 1] /\ awaits \in Run \cup {NoRun}
           Flags == /\ initialized \in BOOLEAN /\ cleared \in BOOLEAN
                    /\ broken \in BOOLEAN /\ overtaken \in BOOLEAN
<1>1. Values'
  <2>1. Values BY DEF InternalTypeOK
  <2> USE InternalAssumption, <2>1 DEF InternalAssumption, Table
  <2>2. CASE InitializeDatabase BY <2>2 DEF InitializeDatabase, Begin
  <2>3. CASE ResetAndInitialize BY <2>3 DEF ResetAndInitialize, Begin
  <2>4. ASSUME NEW r \in Run, CreateTable(r) PROVE Values'
    <3>1. step' \in [Run -> 0..Tables + 1]
      <4>1. step[r] + 1 \in 0..Tables + 1 BY <2>4 DEF CreateTable
      <4> QED BY <2>4, <4>1 DEF CreateTable
    <3>2. tables' \subseteq Table BY <2>4 DEF CreateTable
    <3> QED BY <2>4, <3>1, <3>2 DEF CreateTable
  <2>5. ASSUME NEW r \in Run, Succeed(r) PROVE Values' BY <2>5 DEF Succeed
  <2>6. ASSUME NEW r \in Run, Fail(r) PROVE Values' BY <2>6 DEF Fail
  <2>7. CASE Reconnect BY <2>7 DEF Reconnect
  <2>8. CASE BeginClear
    <3>1. clear' \in 0..Tables + 1 BY <2>8 DEF BeginClear
    <3> QED BY <2>8, <3>1 DEF BeginClear
  <2>9. CASE DropTable
    <3>1. clear' \in 0..Tables + 1 BY <2>9 DEF DropTable
    <3> QED BY <2>9, <3>1 DEF DropTable
  <2>10. CASE DropFails
    <3>1. clear' \in 0..Tables + 1 BY <2>10 DEF DropFails
    <3> QED BY <2>10, <3>1 DEF DropFails
  <2>11. CASE UNCHANGED internal BY <2>11 DEF internal
  <2> QED
    BY <2>2, <2>3, <2>4, <2>5, <2>6, <2>7, <2>8, <2>9, <2>10, <2>11 DEF InternalNext
<1>2. Flags'
  <2>1. Flags BY DEF InternalTypeOK
  <2> QED
    BY <2>1 DEF InternalNext, internal, InitializeDatabase, Begin, ResetAndInitialize,
       CreateTable, Succeed, Fail, Reconnect, BeginClear, DropTable, DropFails
<1> QED BY <1>1, <1>2 DEF InternalTypeOK

\* Every step of the internal tables keeps them in order.
LEMMA InternalStep == InternalInv /\ [InternalNext]_internal => InternalInv'
<1> SUFFICES ASSUME InternalInv, [InternalNext]_internal
             PROVE  (ClearUnderWay /\ ClearedMeansReady /\ SharedRun)'
  BY InternalTypeStep DEF InternalInv
<1> USE InternalAssumption DEF InternalAssumption, InternalInv, InternalTypeOK, Table, ClearUnderWay,
        ClearedMeansReady, SharedRun, MadeSoFar
<1>1. CASE InitializeDatabase BY <1>1 DEF InitializeDatabase, Begin, NoRun
<1>2. CASE ResetAndInitialize BY <1>2 DEF ResetAndInitialize, Begin, NoRun
<1>3. ASSUME NEW r \in Run, CreateTable(r)
      PROVE  (ClearUnderWay /\ ClearedMeansReady /\ SharedRun)'
  BY <1>3 DEF CreateTable
<1>4. ASSUME NEW r \in Run, Succeed(r)
      PROVE  (ClearUnderWay /\ ClearedMeansReady /\ SharedRun)'
  <2>1. MadeSoFar(r) => tables = Table
    <3>1. step[r] - 1 = Tables BY <1>4 DEF Succeed
    <3> QED BY <3>1
  <2>2. CASE awaits = r BY <1>4, <2>1, <2>2 DEF Succeed, NoRun, Settled
  <2>3. CASE awaits # r BY <1>4, <2>1, <2>3 DEF Succeed, NoRun, Settled
  <2> QED BY <2>2, <2>3
<1>5. ASSUME NEW r \in Run, Fail(r)
      PROVE  (ClearUnderWay /\ ClearedMeansReady /\ SharedRun)'
  BY <1>5 DEF Fail, NoRun
<1>6. CASE Reconnect \/ BeginClear BY <1>6 DEF Reconnect, BeginClear, NoRun
<1>7. CASE DropTable \/ DropFails BY <1>7 DEF DropTable, DropFails, NoRun
<1>8. CASE UNCHANGED internal BY <1>8 DEF internal
<1> QED BY <1>1, <1>2, <1>3, <1>4, <1>5, <1>6, <1>7, <1>8 DEF InternalNext

\* The internal tables start in order.
LEMMA InternalStart == InternalInit => InternalInv
<1> SUFFICES ASSUME InternalInit PROVE InternalInv OBVIOUS
<1> USE InternalAssumption DEF InternalAssumption, InternalInit
<1>1. InternalTypeOK
  <2>1. step \in [Run -> 0..Tables + 1] OBVIOUS
  <2>2. tables \subseteq Table /\ clear \in 0..Tables + 1 OBVIOUS
  <2> QED BY <2>1, <2>2 DEF InternalTypeOK
<1>2. ClearUnderWay /\ ClearedMeansReady /\ SharedRun
  BY DEF ClearUnderWay, ClearedMeansReady, SharedRun, NoRun
<1> QED BY <1>1, <1>2 DEF InternalInv

\* What is in order has the properties that the run checks.
LEMMA InternalImplies == InternalInv => InitializedHasTables /\ ClearedMeansReady
BY DEF InternalInv, SharedRun, InitializedHasTables, Quiet

-----------------------------------------------------------------------------
(* The comparison of a table with its source                               *)
-----------------------------------------------------------------------------

Request == [stage : Stage, skip : BOOLEAN, ch : Side, my : Side]
Status == {"pending", "loading", "error", "missing", "mismatch", "uncounted", "match"}
Row == [status : Status, errorType : Verdict, count : Count, mysqlCount : Count,
        columnsMatch : BOOLEAN]

BothExist == mirror.exists /\ source.exists

\* A request holds what the tables are, as far as it has read.
AsRead(r) ==
    LET at == r.stage IN
    /\ at # "ch" => /\ r.ch.exists = mirror.exists
                    /\ mirror.exists => r.ch.columns = mirror.columns
    /\ at \notin {"ch", "chCount"} /\ mirror.exists => r.ch.count = Cardinality(mirror.rows)
    /\ at \in {"myCount", "chKeys", "myKeys", "answer"} =>
         /\ r.my.exists = source.exists
         /\ source.exists => r.my.columns = source.columns
    /\ at = "ch" => ~r.ch.exists
    /\ at \in {"ch", "chCount", "my"} => ~r.my.exists
    /\ r.skip => r.my.count = None /\ at # "myCount"
    /\ at \in {"chKeys", "myKeys", "answer"} /\ ~r.skip /\ source.exists =>
         r.my.count = Cardinality(source.rows)
    /\ at \in {"myKeys", "answer"} /\ BothExist =>
         r.ch.maxId = MaxId(mirror) /\ r.ch.checksum = Checksum(mirror)
    /\ at = "answer" /\ BothExist =>
         r.my.maxId = MaxId(source) /\ r.my.checksum = Checksum(source)

RequestIsTrue == ~stirred /\ request # NoRequest => AsRead(request)

\* The row holds the count and the columns of what it has compared; the page asks for a
\* count only of a row that is there.
RowIsTrue ==
    /\ ~stirred /\ row.status # "loading" /\ BothExist =>
         /\ row.count = Cardinality(mirror.rows)
         /\ row.columnsMatch = (Cardinality(mirror.columns) = Cardinality(source.columns))
    /\ request # NoRequest /\ ~request.skip => row.status # "loading"

ValidationInv == ValidationTypeOK /\ RequestIsTrue /\ RowIsTrue /\ VerdictIsTrue

\* A request that is under way has its fields.
LEMMA SomeRequest == ValidationTypeOK /\ request # NoRequest => request \in Request
BY DEF ValidationTypeOK, Request

\* What a query may read is what a request may hold.
LEMMA ReadableTypes ==
    ASSUME NEW c \in Copy
    PROVE  /\ c.columns \in Shape \cup {{}} /\ c.exists \in BOOLEAN
           /\ Cardinality(c.rows) \in Count
           /\ MaxId(c) \in {None} \cup {Max(r) : r \in (SUBSET RowId) \ {{}}}
           /\ Checksum(c) \in {None} \cup {SumSet(r) : r \in SUBSET RowId}
<1>1. c.columns \in Shape \cup {{}} /\ c.exists \in BOOLEAN /\ c.rows \in SUBSET RowId
  BY DEF Copy
<1>2. IsFiniteSet(RowId) BY ValidationAssumption DEF ValidationAssumption
<1>3. Cardinality(c.rows) \in Nat BY <1>1, <1>2, FS_Subset, FS_CardinalityType
<1>4. MaxId(c) \in {None} \cup {Max(r) : r \in (SUBSET RowId) \ {{}}}
  <2>1. CASE c.rows = {} BY <2>1 DEF MaxId
  <2>2. CASE c.rows # {}
    <3>1. c.rows \in (SUBSET RowId) \ {{}} BY <1>1, <2>2
    <3> QED BY <2>2, <3>1 DEF MaxId
  <2> QED BY <2>1, <2>2
<1>5. Checksum(c) \in {None} \cup {SumSet(r) : r \in SUBSET RowId} BY <1>1 DEF Checksum
<1> QED BY <1>1, <1>3, <1>4, <1>5 DEF Count

\* What a query makes of the request, stage by stage.
LEMMA ReadCases ==
    ASSUME ValidationTypeOK, Read
    PROVE  /\ request \in Request
           /\ LET ask(stage) == [request EXCEPT !.stage = stage]
                  at == request.stage
                  both == request.ch.exists /\ request.my.exists IN
              \/ at = "ch" /\ ~mirror.exists /\ request' = ask("my")
              \/ at = "ch" /\ mirror.exists
                 /\ request' = [ask("chCount") EXCEPT !.ch.exists = TRUE,
                                                      !.ch.columns = mirror.columns]
              \/ at = "chCount" /\ mirror.exists
                 /\ request' = [ask("my") EXCEPT !.ch.count = Cardinality(mirror.rows)]
              \/ at = "my" /\ ~source.exists /\ request' = ask("chKeys")
              \/ at = "my" /\ source.exists
                 /\ request' = [ask(IF request.skip THEN "chKeys" ELSE "myCount")
                                  EXCEPT !.my.exists = TRUE, !.my.columns = source.columns]
              \/ at = "myCount" /\ source.exists
                 /\ request' = [ask("chKeys") EXCEPT !.my.count = Cardinality(source.rows)]
              \/ at = "chKeys" /\ ~both /\ request' = ask("answer")
              \/ at = "chKeys" /\ both /\ mirror.exists
                 /\ request' = [ask("myKeys") EXCEPT !.ch.maxId = MaxId(mirror),
                                                     !.ch.checksum = Checksum(mirror)]
              \/ at = "myKeys" /\ source.exists
                 /\ request' = [ask("answer") EXCEPT !.my.maxId = MaxId(source),
                                                     !.my.checksum = Checksum(source)]
<1>1. request \in Request BY SomeRequest DEF Read
<1>2. request.stage \in Stage \ {"answer"} BY <1>1 DEF Request, Read
<1>3. CASE request.stage = "ch" BY <1>1, <1>3 DEF Read
<1>4. CASE request.stage = "chCount" BY <1>1, <1>4 DEF Read
<1>5. CASE request.stage = "my" BY <1>1, <1>5 DEF Read
<1>6. CASE request.stage = "myCount" BY <1>1, <1>6 DEF Read
<1>7. CASE request.stage = "chKeys" BY <1>1, <1>7 DEF Read
<1>8. CASE request.stage = "myKeys" BY <1>1, <1>8 DEF Read
<1> QED BY <1>2, <1>3, <1>4, <1>5, <1>6, <1>7, <1>8 DEF Stage

\* What a request may become keeps its type.
LEMMA RequestType ==
    ASSUME NEW r \in Request, NEW at \in Stage, NEW c \in Copy
    PROVE  /\ [r EXCEPT !.stage = at] \in Request
           /\ [[r EXCEPT !.stage = at] EXCEPT !.ch.exists = TRUE, !.ch.columns = c.columns] \in Request
           /\ [[r EXCEPT !.stage = at] EXCEPT !.ch.exists = c.exists] \in Request
           /\ [[r EXCEPT !.stage = at] EXCEPT !.ch.count = Cardinality(c.rows)] \in Request
           /\ [[r EXCEPT !.stage = at] EXCEPT !.ch.maxId = MaxId(c), !.ch.checksum = Checksum(c)]
                \in Request
           /\ [[r EXCEPT !.stage = at] EXCEPT !.ch.maxId = None, !.ch.checksum = None] \in Request
           /\ [[r EXCEPT !.stage = at] EXCEPT !.my.exists = TRUE, !.my.columns = c.columns] \in Request
           /\ [[r EXCEPT !.stage = at] EXCEPT !.my.exists = c.exists] \in Request
           /\ [[r EXCEPT !.stage = at] EXCEPT !.my.count = Cardinality(c.rows)] \in Request
           /\ [[r EXCEPT !.stage = at] EXCEPT !.my.maxId = MaxId(c), !.my.checksum = Checksum(c)]
                \in Request
<1>1. r.ch \in Side /\ r.my \in Side BY DEF Request
<1>2. \A s \in Side :
        /\ [s EXCEPT !.exists = TRUE, !.columns = c.columns] \in Side
        /\ [s EXCEPT !.exists = c.exists] \in Side
        /\ [s EXCEPT !.count = Cardinality(c.rows)] \in Side
  BY ReadableTypes DEF Side
<1>3. \A s \in Side :
        /\ [s EXCEPT !.maxId = MaxId(c), !.checksum = Checksum(c)] \in Side
        /\ [s EXCEPT !.maxId = None, !.checksum = None] \in Side
  BY ReadableTypes DEF Side
<1>4. \A s \in Side : [[r EXCEPT !.stage = at] EXCEPT !.ch = s] \in Request
                      /\ [[r EXCEPT !.stage = at] EXCEPT !.my = s] \in Request
  BY DEF Request
<1>5. [r EXCEPT !.stage = at] \in Request BY DEF Request
<1>6. /\ [[r EXCEPT !.stage = at] EXCEPT !.ch.exists = TRUE, !.ch.columns = c.columns] \in Request
      /\ [[r EXCEPT !.stage = at] EXCEPT !.my.exists = TRUE, !.my.columns = c.columns] \in Request
  <2>1. [[r EXCEPT !.stage = at] EXCEPT !.ch.exists = TRUE, !.ch.columns = c.columns]
         = [[r EXCEPT !.stage = at] EXCEPT
               !.ch = [r.ch EXCEPT !.exists = TRUE, !.columns = c.columns]]
    BY <1>1 DEF Request, Side
  <2>2. [[r EXCEPT !.stage = at] EXCEPT !.my.exists = TRUE, !.my.columns = c.columns]
         = [[r EXCEPT !.stage = at] EXCEPT
               !.my = [r.my EXCEPT !.exists = TRUE, !.columns = c.columns]]
    BY <1>1 DEF Request, Side
  <2> QED BY <1>1, <1>2, <1>4, <2>1, <2>2
<1>7. /\ [[r EXCEPT !.stage = at] EXCEPT !.ch.exists = c.exists] \in Request
      /\ [[r EXCEPT !.stage = at] EXCEPT !.my.exists = c.exists] \in Request
      /\ [[r EXCEPT !.stage = at] EXCEPT !.ch.count = Cardinality(c.rows)] \in Request
      /\ [[r EXCEPT !.stage = at] EXCEPT !.my.count = Cardinality(c.rows)] \in Request
  BY <1>1, <1>2, <1>4 DEF Request
<1>8. /\ [[r EXCEPT !.stage = at] EXCEPT !.ch.maxId = MaxId(c), !.ch.checksum = Checksum(c)]
           \in Request
      /\ [[r EXCEPT !.stage = at] EXCEPT !.ch.maxId = None, !.ch.checksum = None] \in Request
      /\ [[r EXCEPT !.stage = at] EXCEPT !.my.maxId = MaxId(c), !.my.checksum = Checksum(c)]
           \in Request
  <2>1. [[r EXCEPT !.stage = at] EXCEPT !.ch.maxId = MaxId(c), !.ch.checksum = Checksum(c)]
         = [[r EXCEPT !.stage = at] EXCEPT
               !.ch = [r.ch EXCEPT !.maxId = MaxId(c), !.checksum = Checksum(c)]]
    BY <1>1 DEF Request, Side
  <2>2. [[r EXCEPT !.stage = at] EXCEPT !.my.maxId = MaxId(c), !.my.checksum = Checksum(c)]
         = [[r EXCEPT !.stage = at] EXCEPT
               !.my = [r.my EXCEPT !.maxId = MaxId(c), !.checksum = Checksum(c)]]
    BY <1>1 DEF Request, Side
  <2>3. [[r EXCEPT !.stage = at] EXCEPT !.ch.maxId = None, !.ch.checksum = None]
         = [[r EXCEPT !.stage = at] EXCEPT !.ch = [r.ch EXCEPT !.maxId = None, !.checksum = None]]
    BY <1>1 DEF Request, Side
  <2> QED BY <1>1, <1>3, <1>4, <2>1, <2>2, <2>3
<1> QED BY <1>5, <1>6, <1>7, <1>8

\* A query keeps the type of the request.
LEMMA ReadType == ValidationTypeOK /\ Read => request' \in Request
<1> SUFFICES ASSUME ValidationTypeOK, Read PROVE request' \in Request OBVIOUS
<1>0. source \in Copy /\ mirror \in Copy BY DEF ValidationTypeOK
<1>1. request \in Request /\ request.skip \in BOOLEAN BY SomeRequest DEF Read, Request
<1>2. {"ch", "chCount", "my", "myCount", "chKeys", "myKeys", "answer"} \subseteq Stage
  BY DEF Stage
<1>3. \A at \in Stage :
        /\ [request EXCEPT !.stage = at] \in Request
        /\ [[request EXCEPT !.stage = at]
              EXCEPT !.ch.exists = TRUE, !.ch.columns = mirror.columns] \in Request
        /\ [[request EXCEPT !.stage = at] EXCEPT !.ch.count = Cardinality(mirror.rows)]
             \in Request
        /\ [[request EXCEPT !.stage = at]
              EXCEPT !.ch.maxId = MaxId(mirror), !.ch.checksum = Checksum(mirror)] \in Request
  BY <1>0, <1>1, RequestType
<1>4. \A at \in Stage :
        /\ [[request EXCEPT !.stage = at]
              EXCEPT !.my.exists = TRUE, !.my.columns = source.columns] \in Request
        /\ [[request EXCEPT !.stage = at] EXCEPT !.my.count = Cardinality(source.rows)]
             \in Request
        /\ [[request EXCEPT !.stage = at]
              EXCEPT !.my.maxId = MaxId(source), !.my.checksum = Checksum(source)] \in Request
  BY <1>0, <1>1, RequestType
<1>5. (IF request.skip THEN "chKeys" ELSE "myCount") \in Stage BY <1>2
<1> DEFINE at == request.stage
           both == request.ch.exists /\ request.my.exists
<1>6. CASE at = "ch"
  <2>1. \/ request' = [request EXCEPT !.stage = "my"]
        \/ request' = [[request EXCEPT !.stage = "chCount"]
                          EXCEPT !.ch.exists = TRUE, !.ch.columns = mirror.columns]
    BY <1>6, ReadCases
  <2> QED BY <1>2, <1>3, <2>1
<1>7. CASE at = "chCount" BY <1>2, <1>3, <1>7, ReadCases
<1>8. CASE at \in {"my", "myCount"} BY <1>2, <1>3, <1>4, <1>5, <1>8, ReadCases
<1>9. CASE at = "chKeys"
  <2>1. \/ request' = [request EXCEPT !.stage = "answer"]
        \/ request' = [[request EXCEPT !.stage = "myKeys"]
                          EXCEPT !.ch.maxId = MaxId(mirror), !.ch.checksum = Checksum(mirror)]
    BY <1>9, ReadCases
  <2> QED BY <1>2, <1>3, <2>1
<1>10. CASE at = "myKeys" BY <1>2, <1>4, <1>10, ReadCases
<1>11. at \in Stage \ {"answer"} BY <1>1 DEF Read, Request
<1> QED BY <1>6, <1>7, <1>8, <1>9, <1>10, <1>11 DEF Stage

\* The types of the comparison.
LEMMA ValidationTypeStep ==
    ValidationTypeOK /\ [ValidationNext]_validation => ValidationTypeOK'
<1> SUFFICES ASSUME ValidationTypeOK, [ValidationNext]_validation PROVE ValidationTypeOK'
  OBVIOUS
<1>1. /\ source \in Copy /\ mirror \in Copy /\ row \in Row
      /\ request = NoRequest \/ request \in Request
  BY DEF ValidationTypeOK, Request, Row, Status
<1>2. source' \in Copy /\ mirror' \in Copy
  <2>1. Absent \in Copy BY DEF Absent, Copy
  <2>2. CASE Change
    <3>1. \A k \in RowId : [source EXCEPT !.rows = SymDiff(@, {k})] \in Copy
      BY <1>1 DEF Copy, SymDiff
    <3>2. \A s \in Shape : [source EXCEPT !.columns = s] \in Copy BY <1>1 DEF Copy
    <3> QED BY <1>1, <2>1, <2>2, <3>1, <3>2 DEF Change
  <2>3. CASE Sync
    <3>1. \A r \in {source.rows, mirror.rows \cup source.rows} : [source EXCEPT !.rows = r] \in Copy
      BY <1>1 DEF Copy
    <3> QED BY <1>1, <2>3, <3>1 DEF Sync
  <2>4. CASE DeleteTable BY <1>1, <2>1, <2>4 DEF DeleteTable
  <2> QED
    BY <1>1, <2>2, <2>3, <2>4 DEF ValidationNext, LoadTableDetails, CountMySQLRecords, Read,
       ReadFails, RequestFails, ShowDetails, ShowCount, validation
<1>3. changes' \in 0..MaxChanges
  <2>1. changes \in 0..MaxChanges /\ MaxChanges \in Nat
    BY ValidationAssumption DEF ValidationAssumption, ValidationTypeOK
  <2>2. CASE Change BY <2>1, <2>2 DEF Change
  <2>3. Change \/ changes' = changes
    BY DEF ValidationNext, Sync, DeleteTable, LoadTableDetails, CountMySQLRecords,
       Read, ReadFails, RequestFails, ShowDetails, ShowCount, validation
  <2> QED BY <2>1, <2>2, <2>3
<1>4. stirred' \in BOOLEAN
  BY DEF ValidationTypeOK, ValidationNext, Change, Sync, DeleteTable, LoadTableDetails,
     CountMySQLRecords, Read, ReadFails, RequestFails, ShowDetails, ShowCount, validation
<1>5. request' = NoRequest \/ request' \in Request
  <2>1. ASSUME NEW skip \in BOOLEAN, Ask(skip) PROVE request' \in Request
    <3>1. Unknown(0) \in Side /\ Unknown(None) \in Side BY DEF Unknown, Side, Count
    <3> QED BY <2>1, <3>1 DEF Ask, Request, Stage
  <2>2. CASE Read BY <2>2, ReadType
  <2>3. CASE ReadFails
    <3>1. request \in Request BY <2>3, SomeRequest DEF ReadFails
    <3>2. {"my", "chKeys", "answer"} \subseteq Stage BY DEF Stage
    <3>3. \A at \in Stage : /\ [request EXCEPT !.stage = at] \in Request
              /\ [[request EXCEPT !.stage = at] EXCEPT !.ch.exists = mirror.exists] \in Request
              /\ [[request EXCEPT !.stage = at] EXCEPT !.my.exists = source.exists] \in Request
              /\ [[request EXCEPT !.stage = at] EXCEPT !.ch.maxId = None, !.ch.checksum = None]
                   \in Request
      BY <1>1, <3>1, RequestType
    <3> QED BY <2>3, <3>1, <3>2, <3>3 DEF ReadFails
  <2> QED
    BY <1>1, <2>1, <2>2, <2>3 DEF ValidationNext, Change, Sync, DeleteTable, LoadTableDetails,
       CountMySQLRecords, RequestFails, ShowDetails, ShowCount, validation
<1>6. row' \in Row
  <2>1. ASSUME NEW ch, NEW my PROVE ErrorType(ch, my) \in Verdict BY DEF ErrorType, Verdict
  <2>2. CASE ShowDetails
    <3>1. request \in Request
      <4>1. request # NoRequest BY <2>2 DEF ShowDetails, NoRequest
      <4> QED BY <4>1, <1>1
    <3>2. request.ch.count \in Count /\ None \in Count BY <3>1 DEF Request, Side, Count
    <3>3. \A e \in Verdict, s \in Status, b \in BOOLEAN :
            [status |-> s, errorType |-> e, count |-> request.ch.count, mysqlCount |-> None,
             columnsMatch |-> b] \in Row
      BY <3>2 DEF Row
    <3> QED BY <2>1, <2>2, <3>3 DEF ShowDetails, Status
  <2>3. CASE ShowCount
    <3>1. request \in Request
      <4>1. request # NoRequest BY <2>3 DEF ShowCount, NoRequest
      <4> QED BY <4>1, <1>1
    <3>2. request.my.count \in Count BY <3>1 DEF Request, Side
    <3>3. [row EXCEPT !.mysqlCount = request.my.count] \in Row BY <1>1, <3>2 DEF Row
    <3> QED BY <2>3, <3>3 DEF ShowCount, Row, Status, Verdict
  <2>4. CASE DeleteTable BY <1>1, <2>4 DEF DeleteTable, Row, Status, Count
  <2>5. CASE LoadTableDetails BY <1>1, <2>5 DEF LoadTableDetails, Row, Status
  <2>6. CASE RequestFails BY <1>1, <2>6 DEF RequestFails, Row, Status
  <2> QED
    BY <1>1, <2>2, <2>3, <2>4, <2>5, <2>6 DEF ValidationNext, Change, Sync, CountMySQLRecords,
       Read, ReadFails, validation
<1> QED BY <1>2, <1>3, <1>4, <1>5, <1>6 DEF ValidationTypeOK, Request, Row, Status

\* A query keeps the request true to the tables.
LEMMA ReadIsTrue ==
    ASSUME ValidationTypeOK, Read, AsRead(request) PROVE AsRead(request)'
<1> DEFINE at == request.stage
           q == request'
<1>1. /\ request \in Request /\ UNCHANGED <<source, mirror>>
      /\ source \in Copy /\ mirror \in Copy
  BY ReadCases DEF Read, ValidationTypeOK
<1> SUFFICES AsRead(q) BY <1>1 DEF AsRead, BothExist
<1>2. at \in Stage \ {"answer"} BY <1>1 DEF Read, Request
<1>3. CASE at = "ch"
  <2>1. CASE ~mirror.exists
    <3>1. q = [request EXCEPT !.stage = "my"] BY <1>3, <2>1, ReadCases
    <3> HIDE DEF q
    <3>2. q.stage = "my" /\ q.my = request.my /\ q.skip = request.skip /\ q.ch = request.ch
      BY <1>1, <3>1 DEF Request
    <3>3. q.ch.exists = mirror.exists
      BY <1>1, <1>3, <2>1, <3>2 DEF AsRead, Request, Side, Copy
    <3> QED BY <1>3, <2>1, <3>2, <3>3 DEF AsRead
  <2>2. CASE mirror.exists
    <3>1. q = [[request EXCEPT !.stage = "chCount"]
                  EXCEPT !.ch.exists = TRUE, !.ch.columns = mirror.columns]
      BY <1>3, <2>2, ReadCases
    <3> HIDE DEF q
    <3>2. q.stage = "chCount" /\ q.my = request.my /\ q.skip = request.skip
      BY <1>1, <3>1 DEF Request
    <3>3. q.ch.exists = mirror.exists /\ q.ch.columns = mirror.columns
      BY <1>1, <2>2, <3>1 DEF Request, Side
    <3> QED BY <1>3, <2>2, <3>2, <3>3 DEF AsRead
  <2> QED BY <2>1, <2>2
<1>4. CASE at = "chCount"
  <2>1. q = [[request EXCEPT !.stage = "my"] EXCEPT !.ch.count = Cardinality(mirror.rows)]
    BY <1>4, ReadCases
  <2> HIDE DEF q
  <2>2. q.my = request.my /\ q.skip = request.skip /\ q.stage = "my"
    BY <1>1, <2>1 DEF Request
  <2>3. /\ q.ch.exists = request.ch.exists /\ q.ch.columns = request.ch.columns
        /\ q.ch.count = Cardinality(mirror.rows)
    BY <1>1, <2>1 DEF Request, Side
  <2> QED BY <1>4, <2>2, <2>3 DEF AsRead
<1>5. CASE at = "my"
  <2>1. CASE ~source.exists
    <3>1. q = [request EXCEPT !.stage = "chKeys"] BY <1>5, <2>1, ReadCases
    <3> HIDE DEF q
    <3>2. q.stage = "chKeys" /\ q.my = request.my /\ q.skip = request.skip /\ q.ch = request.ch
      BY <1>1, <3>1 DEF Request
    <3>3. q.my.exists = source.exists
      BY <1>1, <1>5, <2>1, <3>2 DEF AsRead, Request, Side, Copy
    <3> QED BY <1>5, <2>1, <3>2, <3>3 DEF AsRead, BothExist
  <2>2. CASE source.exists
    <3>1. q = [[request EXCEPT !.stage = IF request.skip THEN "chKeys" ELSE "myCount"]
                  EXCEPT !.my.exists = TRUE, !.my.columns = source.columns]
      BY <1>5, <2>2, ReadCases
    <3> HIDE DEF q
    <3>2. /\ q.stage = (IF request.skip THEN "chKeys" ELSE "myCount")
          /\ q.ch = request.ch /\ q.skip = request.skip
      BY <1>1, <3>1 DEF Request
    <3>3. /\ q.my.exists = source.exists /\ q.my.columns = source.columns
          /\ q.my.count = request.my.count
      BY <1>1, <2>2, <3>1 DEF Request, Side
    <3> QED BY <1>5, <2>2, <3>2, <3>3 DEF AsRead
  <2> QED BY <2>1, <2>2
<1>6. CASE at = "myCount"
  <2>1. q = [[request EXCEPT !.stage = "chKeys"] EXCEPT !.my.count = Cardinality(source.rows)]
    BY <1>6, ReadCases
  <2> HIDE DEF q
  <2>2. q.ch = request.ch /\ q.skip = request.skip /\ q.stage = "chKeys"
    BY <1>1, <2>1 DEF Request
  <2>3. /\ q.my.exists = request.my.exists /\ q.my.columns = request.my.columns
        /\ q.my.count = Cardinality(source.rows)
    BY <1>1, <2>1 DEF Request, Side
  <2> QED BY <1>6, <2>2, <2>3 DEF AsRead
<1>7. CASE at = "chKeys"
  <2>1. (request.ch.exists /\ request.my.exists) <=> BothExist
    BY <1>7 DEF AsRead, BothExist
  <2>2. CASE ~BothExist
    <3>1. q = [request EXCEPT !.stage = "answer"] BY <1>7, <2>1, <2>2, ReadCases
    <3> HIDE DEF q
    <3>2. q.stage = "answer" /\ q.my = request.my /\ q.skip = request.skip /\ q.ch = request.ch
      BY <1>1, <3>1 DEF Request
    <3> QED BY <1>7, <2>2, <3>2 DEF AsRead
  <2>3. CASE BothExist
    <3>1. q = [[request EXCEPT !.stage = "myKeys"]
                  EXCEPT !.ch.maxId = MaxId(mirror), !.ch.checksum = Checksum(mirror)]
      BY <1>7, <2>1, <2>3, ReadCases
    <3> HIDE DEF q
    <3>2. q.stage = "myKeys" /\ q.my = request.my /\ q.skip = request.skip
      BY <1>1, <3>1 DEF Request
    <3>3. /\ q.ch.exists = request.ch.exists /\ q.ch.columns = request.ch.columns
          /\ q.ch.count = request.ch.count
          /\ q.ch.maxId = MaxId(mirror) /\ q.ch.checksum = Checksum(mirror)
      BY <1>1, <3>1 DEF Request, Side
    <3> QED BY <1>7, <2>3, <3>2, <3>3 DEF AsRead
  <2> QED BY <2>2, <2>3
<1>8. CASE at = "myKeys"
  <2>1. q = [[request EXCEPT !.stage = "answer"]
               EXCEPT !.my.maxId = MaxId(source), !.my.checksum = Checksum(source)]
    BY <1>8, ReadCases
  <2> HIDE DEF q
  <2>2. q.ch = request.ch /\ q.skip = request.skip /\ q.stage = "answer"
    BY <1>1, <2>1 DEF Request
  <2>3. /\ q.my.exists = request.my.exists /\ q.my.columns = request.my.columns
        /\ q.my.count = request.my.count
        /\ q.my.maxId = MaxId(source) /\ q.my.checksum = Checksum(source)
    BY <1>1, <2>1 DEF Request, Side
  <2> QED BY <1>8, <2>2, <2>3 DEF AsRead
<1> QED BY <1>2, <1>3, <1>4, <1>5, <1>6, <1>7, <1>8 DEF Stage

\* The details that the page shows are true to the tables, as long as nothing stirs.
LEMMA DetailsAreTrue ==
    ASSUME ValidationInv, ShowDetails, ~stirred PROVE (RowIsTrue /\ VerdictIsTrue)'
<1>1. request \in Request /\ request.stage = "answer" /\ request.skip
  <2>1. request # NoRequest BY DEF ShowDetails, NoRequest
  <2> QED BY <2>1, SomeRequest DEF ValidationInv, ShowDetails
<1>2. AsRead(request)
  <2>1. request # NoRequest BY <1>1 DEF NoRequest
  <2> QED BY <2>1 DEF ValidationInv, RequestIsTrue
<1> DEFINE ch == request.ch
           my == request.my
           e == ErrorType(ch, my)
           same == Cardinality(ch.columns) = Cardinality(my.columns)
<1>3. /\ ch.exists = mirror.exists /\ my.exists = source.exists /\ my.count = None
      /\ mirror.exists => ch.columns = mirror.columns /\ ch.count = Cardinality(mirror.rows)
      /\ source.exists => my.columns = source.columns
      /\ BothExist => /\ ch.maxId = MaxId(mirror) /\ ch.checksum = Checksum(mirror)
                      /\ my.maxId = MaxId(source) /\ my.checksum = Checksum(source)
  BY <1>1, <1>2 DEF AsRead
<1>4. /\ row' = [status |-> CASE ~ch.exists \/ ~my.exists -> "missing"
                            [] e \in {"schema_mismatch", "max_id_mismatch", "checksum_mismatch"}
                                 -> "mismatch"
                            [] OTHER -> IF same THEN "uncounted" ELSE "mismatch",
                 errorType |-> e, count |-> ch.count, mysqlCount |-> None, columnsMatch |-> same]
      /\ request' = NoRequest /\ UNCHANGED <<source, mirror, stirred>>
  BY DEF ShowDetails
<1>5. e # "none" => source # mirror
  <2> SUFFICES ASSUME source = mirror PROVE e = "none" OBVIOUS
  <2>1. ~CountsDiffer(ch, my) BY <1>3 DEF CountsDiffer
  <2>2. CASE mirror.exists
    <3>1. /\ ch.exists /\ my.exists /\ ch.columns = my.columns /\ ch.maxId = my.maxId
          /\ ch.checksum = my.checksum
      BY <1>3, <2>2 DEF BothExist
    <3> QED BY <2>1, <3>1 DEF ErrorType
  <2>3. CASE ~mirror.exists
    <3>1. ~ch.exists /\ ~my.exists BY <1>3, <2>3
    <3> QED BY <3>1 DEF ErrorType
  <2> QED BY <2>2, <2>3
<1>6. ~same => source # mirror \/ ~mirror.exists \/ ~source.exists BY <1>3
<1>7. row'.status = "missing" <=> ~BothExist
  <2>1. CASE BothExist
    <3>1. ~(~ch.exists \/ ~my.exists) BY <1>3, <2>1 DEF BothExist
    <3> HIDE DEF e, same
    <3> QED BY <1>4, <2>1, <3>1
  <2>2. CASE ~BothExist
    <3>1. ~ch.exists \/ ~my.exists BY <1>3, <2>2 DEF BothExist
    <3>2. e \notin {"schema_mismatch", "max_id_mismatch", "checksum_mismatch"}
      BY <3>1 DEF ErrorType
    <3> HIDE DEF e, same
    <3>3. row'.status = "missing" BY <1>4, <3>1, <3>2
    <3> QED BY <2>2, <3>3
  <2> QED BY <2>1, <2>2
<1>8. row'.status = "mismatch" => source # mirror
  <2> SUFFICES ASSUME source = mirror, row'.status = "mismatch" PROVE FALSE OBVIOUS
  <2>1. e = "none" BY <1>5
  <2>2. same \/ ~BothExist BY <1>6 DEF BothExist
  <2> QED BY <1>3, <1>4, <2>1, <2>2 DEF BothExist
<1>9. row'.status # "match" /\ row'.errorType = e /\ row'.count = ch.count
      /\ row'.columnsMatch = same
  BY <1>4
<1>10. VerdictIsTrue' BY <1>4, <1>5, <1>7, <1>8, <1>9 DEF VerdictIsTrue, BothExist
<1>11. RowIsTrue'
  <2>1. BothExist => same = (Cardinality(mirror.columns) = Cardinality(source.columns))
    BY <1>3 DEF BothExist
  <2> QED BY <1>3, <1>4, <1>9, <2>1 DEF RowIsTrue, BothExist
<1> QED BY <1>10, <1>11

\* The count that the page shows is true to the tables, as long as nothing stirs.
LEMMA CountIsTrue ==
    ASSUME ValidationInv, ShowCount, ~stirred PROVE (RowIsTrue /\ VerdictIsTrue)'
<1>1. request \in Request /\ request.stage = "answer" /\ ~request.skip
  <2>1. request # NoRequest BY DEF ShowCount, NoRequest
  <2> QED BY <2>1, SomeRequest DEF ValidationInv, ShowCount
<1>2. AsRead(request) /\ row.status # "loading"
  <2>1. request # NoRequest BY <1>1 DEF NoRequest
  <2> QED BY <1>1, <2>1 DEF ValidationInv, RequestIsTrue, RowIsTrue
<1> DEFINE n == request.my.count
           new == [row EXCEPT !.mysqlCount = n]
<1>3. /\ request.ch.exists = mirror.exists /\ request.my.exists = source.exists
      /\ BothExist => n = Cardinality(source.rows)
  BY <1>1, <1>2 DEF AsRead, BothExist
<1>4. /\ request' = NoRequest /\ UNCHANGED <<source, mirror, stirred>>
      /\ row \in Row
  BY DEF ShowCount, ValidationInv, ValidationTypeOK, Row, Status
<1>5. BothExist => row.count = Cardinality(mirror.rows)
                   /\ row.columnsMatch = (Cardinality(mirror.columns) = Cardinality(source.columns))
  BY <1>2 DEF ValidationInv, RowIsTrue
<1>6. /\ row.errorType # "none" \/ row.status = "mismatch" => source # mirror
      /\ row.status = "missing" => ~source.exists \/ ~mirror.exists
      /\ row.status = "match" =>
           /\ Cardinality(source.rows) = Cardinality(mirror.rows)
           /\ Cardinality(source.columns) = Cardinality(mirror.columns)
  BY <1>2 DEF ValidationInv, VerdictIsTrue
<1>7. CASE ~BothExist
  <2>1. row' = [new EXCEPT !.status = "missing"] BY <1>3, <1>7 DEF ShowCount, BothExist
  <2>2. row'.status = "missing" /\ row'.errorType = row.errorType BY <1>4, <2>1 DEF Row
  <2> QED BY <1>4, <1>6, <1>7, <2>2 DEF RowIsTrue, VerdictIsTrue, BothExist
<1>8. CASE BothExist /\ row.count # n
  <2>1. row' = [new EXCEPT !.status = "mismatch", !.errorType = "record_count_mismatch"]
    BY <1>3, <1>8 DEF ShowCount, BothExist
  <2>2. /\ row'.status = "mismatch" /\ row'.errorType = "record_count_mismatch"
        /\ row'.count = row.count /\ row'.columnsMatch = row.columnsMatch
    BY <1>4, <2>1 DEF Row
  <2>3. source # mirror BY <1>3, <1>5, <1>8
  <2> QED BY <1>4, <1>5, <2>2, <2>3 DEF RowIsTrue, VerdictIsTrue, BothExist
<1>9. CASE BothExist /\ row.count = n
  <2>1. row' = IF row.columnsMatch
               THEN [new EXCEPT !.status = "match", !.errorType = "none"] ELSE new
    BY <1>3, <1>9 DEF ShowCount, BothExist
  <2>2. row'.count = row.count /\ row'.columnsMatch = row.columnsMatch BY <1>4, <2>1 DEF Row
  <2>3. RowIsTrue' BY <1>4, <1>5, <2>2 DEF RowIsTrue, BothExist
  <2>4. CASE row.columnsMatch
    <3>1. row'.status = "match" /\ row'.errorType = "none" BY <1>4, <2>1, <2>4 DEF Row
    <3>2. Cardinality(source.rows) = Cardinality(mirror.rows)
          /\ Cardinality(source.columns) = Cardinality(mirror.columns)
      BY <1>3, <1>5, <1>9, <2>4
    <3> QED BY <1>4, <2>3, <3>1, <3>2 DEF VerdictIsTrue
  <2>5. CASE ~row.columnsMatch
    <3>1. row'.status = row.status /\ row'.errorType = row.errorType
      BY <1>4, <2>1, <2>5 DEF Row
    <3> QED BY <1>4, <1>6, <2>3, <3>1 DEF VerdictIsTrue
  <2> QED BY <2>4, <2>5
<1> QED BY <1>7, <1>8, <1>9

\* A query changes nothing of what was asked for.
LEMMA SkipStays ==
    ASSUME ValidationTypeOK, Read \/ ReadFails PROVE request'.skip = request.skip
<1> DEFINE Same(q) == q.skip = request.skip
<1>1. request \in Request /\ Stage # {} BY SomeRequest DEF Read, ReadFails, Stage
<1>2. \A at \in Stage :
        /\ Same([request EXCEPT !.stage = at])
        /\ Same([[request EXCEPT !.stage = at]
                   EXCEPT !.ch.exists = TRUE, !.ch.columns = mirror.columns])
        /\ Same([[request EXCEPT !.stage = at] EXCEPT !.ch.exists = mirror.exists])
        /\ Same([[request EXCEPT !.stage = at] EXCEPT !.ch.count = Cardinality(mirror.rows)])
        /\ Same([[request EXCEPT !.stage = at]
                   EXCEPT !.ch.maxId = MaxId(mirror), !.ch.checksum = Checksum(mirror)])
        /\ Same([[request EXCEPT !.stage = at] EXCEPT !.ch.maxId = None, !.ch.checksum = None])
  BY <1>1 DEF Request
<1>3. \A at \in Stage :
        /\ Same([[request EXCEPT !.stage = at]
                   EXCEPT !.my.exists = TRUE, !.my.columns = source.columns])
        /\ Same([[request EXCEPT !.stage = at] EXCEPT !.my.exists = source.exists])
        /\ Same([[request EXCEPT !.stage = at] EXCEPT !.my.count = Cardinality(source.rows)])
        /\ Same([[request EXCEPT !.stage = at]
                   EXCEPT !.my.maxId = MaxId(source), !.my.checksum = Checksum(source)])
  BY <1>1 DEF Request
<1>4. {"ch", "chCount", "my", "myCount", "chKeys", "myKeys", "answer"} \subseteq Stage
  BY DEF Stage
<1> HIDE DEF Same
<1>5. CASE Read
  <2>1. request.stage \in Stage \ {"answer"} BY <1>1, <1>5 DEF Read, Request
  <2>2. ASSUME request.stage = "ch" PROVE Same(request')
    BY <1>2, <1>4, <1>5, <2>2 DEF Read
  <2>3. ASSUME request.stage = "chCount" PROVE Same(request')
    BY <1>2, <1>4, <1>5, <2>3 DEF Read
  <2>4. ASSUME request.stage = "my" PROVE Same(request')
    BY <1>2, <1>3, <1>4, <1>5, <2>4 DEF Read
  <2>5. ASSUME request.stage = "myCount" PROVE Same(request')
    BY <1>3, <1>4, <1>5, <2>5 DEF Read
  <2>6. ASSUME request.stage = "chKeys" PROVE Same(request')
    BY <1>2, <1>4, <1>5, <2>6 DEF Read
  <2>7. ASSUME request.stage = "myKeys" PROVE Same(request')
    BY <1>3, <1>4, <1>5, <2>7 DEF Read
  <2>8. Same(request') BY <2>1, <2>2, <2>3, <2>4, <2>5, <2>6, <2>7 DEF Stage
  <2> QED BY <2>8 DEF Same
<1>6. CASE ReadFails
  <2>1. Same(request') BY <1>2, <1>3, <1>4, <1>6 DEF ReadFails
  <2> QED BY <2>1 DEF Same
<1> QED BY <1>5, <1>6

\* Every step of the comparison keeps it in order.
LEMMA ValidationStep == ValidationInv /\ [ValidationNext]_validation => ValidationInv'
<1> SUFFICES ASSUME ValidationInv, [ValidationNext]_validation
             PROVE  (RequestIsTrue /\ RowIsTrue /\ VerdictIsTrue)'
  BY ValidationTypeStep DEF ValidationInv
<1>1. ValidationTypeOK /\ row \in Row
  BY DEF ValidationInv, ValidationTypeOK, Row, Status
<1>2. ASSUME stirred', request' = NoRequest \/ request' = request, row' = row
      PROVE  (RequestIsTrue /\ RowIsTrue /\ VerdictIsTrue)'
  BY <1>2 DEF ValidationInv, RequestIsTrue, RowIsTrue, VerdictIsTrue
<1>3. CASE Change \/ Sync BY <1>2, <1>3 DEF Change, Sync
<1>4. CASE DeleteTable
  <2>1. row' = [row EXCEPT !.status = "missing", !.count = 0] /\ stirred'
    BY <1>4 DEF DeleteTable
  <2>2. row'.status = "missing" BY <1>1, <2>1 DEF Row
  <2> QED BY <2>1, <2>2 DEF RequestIsTrue, RowIsTrue, VerdictIsTrue
<1>5. CASE LoadTableDetails
  <2>1. /\ request' = [stage |-> "ch", skip |-> TRUE, ch |-> Unknown(0), my |-> Unknown(None)]
        /\ row' = [row EXCEPT !.status = "loading"]
    BY <1>5 DEF LoadTableDetails, Ask
  <2>2. row'.status = "loading" /\ request'.skip BY <1>1, <2>1 DEF Row
  <2>3. AsRead(request)' BY <2>1 DEF AsRead, Unknown
  <2> QED BY <2>2, <2>3 DEF RequestIsTrue, RowIsTrue, VerdictIsTrue
<1>6. CASE CountMySQLRecords
  <2>1. /\ request' = [stage |-> "ch", skip |-> FALSE, ch |-> Unknown(0), my |-> Unknown(None)]
        /\ row.status # "loading" /\ UNCHANGED <<source, mirror, row, stirred>>
    BY <1>6 DEF CountMySQLRecords, Ask
  <2>2. AsRead(request)' BY <2>1 DEF AsRead, Unknown
  <2> QED
    BY <2>1, <2>2 DEF ValidationInv, RequestIsTrue, RowIsTrue, VerdictIsTrue, BothExist
<1>7. CASE Read
  <2>1. /\ request # NoRequest /\ request \in Request
        /\ UNCHANGED <<source, mirror, row, stirred>>
    BY <1>1, <1>7, SomeRequest DEF Read
  <2>2. ~stirred => AsRead(request)'
    BY <1>1, <1>7, <2>1, ReadIsTrue DEF ValidationInv, RequestIsTrue
  <2>3. request'.skip = request.skip BY <1>1, <1>7, SkipStays
  <2> QED
    BY <2>1, <2>2, <2>3 DEF ValidationInv, RequestIsTrue, RowIsTrue, VerdictIsTrue, BothExist
<1>8. CASE ReadFails
  <2>1. request'.skip = request.skip BY <1>1, <1>8, SkipStays
  <2> QED BY <1>8, <2>1 DEF ReadFails, ValidationInv, RequestIsTrue, RowIsTrue, VerdictIsTrue
<1>9. CASE RequestFails
  BY <1>9 DEF RequestFails, RequestIsTrue, RowIsTrue, VerdictIsTrue
<1>10. CASE ShowDetails \/ ShowCount
  <2>1. request' = NoRequest /\ stirred' = stirred BY <1>10 DEF ShowDetails, ShowCount
  <2>2. CASE stirred BY <2>1, <2>2 DEF RequestIsTrue, RowIsTrue, VerdictIsTrue
  <2>3. CASE ~stirred
    BY <1>10, <2>1, <2>3, DetailsAreTrue, CountIsTrue DEF RequestIsTrue
  <2> QED BY <2>2, <2>3
<1>11. CASE UNCHANGED validation
  BY <1>11 DEF validation, ValidationInv, RequestIsTrue, RowIsTrue, VerdictIsTrue, BothExist,
     AsRead, MaxId, Checksum
<1> QED
  BY <1>3, <1>4, <1>5, <1>6, <1>7, <1>8, <1>9, <1>10, <1>11 DEF ValidationNext

\* The comparison starts in order.
LEMMA ValidationStart == ValidationInit => ValidationInv
<1> SUFFICES ASSUME ValidationInit PROVE ValidationInv OBVIOUS
<1>1. PICK s \in Shape, r \in SUBSET RowId : source = [exists |-> TRUE, columns |-> s, rows |-> r]
  BY DEF ValidationInit
<1>2. source \in Copy /\ Absent \in Copy BY <1>1 DEF Copy, Absent
<1>6. mirror \in Copy BY <1>2 DEF ValidationInit
<1>3. row \in [status : {"pending", "loading", "error", "missing", "mismatch", "uncounted",
                           "match"},
                errorType : Verdict, count : Count, mysqlCount : Count,
                columnsMatch : BOOLEAN]
  BY DEF ValidationInit, Verdict, Count
<1>4. changes \in 0..MaxChanges
  BY ValidationAssumption DEF ValidationAssumption, ValidationInit
<1>5. ValidationTypeOK BY <1>2, <1>6, <1>3, <1>4 DEF ValidationTypeOK, ValidationInit
<1> QED
  BY <1>5 DEF ValidationInv, ValidationInit, RequestIsTrue, RowIsTrue, VerdictIsTrue

-----------------------------------------------------------------------------
(* The stores side by side                                                 *)
-----------------------------------------------------------------------------

StoresInv == RegistryInv /\ BackupInv /\ InternalInv /\ ValidationInv

\* Every step is one of each component, or leaves it as it is.
LEMMA StoresStep == StoresInv /\ [StoresNext]_stores => StoresInv'
<1> SUFFICES ASSUME StoresInv, [StoresNext]_stores PROVE StoresInv' OBVIOUS
<1>1. [RegistryNext]_registry BY DEF StoresNext, stores
<1>2. [BackupNext]_backups BY DEF StoresNext, stores
<1>3. [InternalNext]_internal BY DEF StoresNext, stores
<1>4. [ValidationNext]_validation BY DEF StoresNext, stores
<1> QED
  BY <1>1, <1>2, <1>3, <1>4, RegistryStep, BackupStep, InternalStep, ValidationStep DEF StoresInv

\* The components start in order.
LEMMA StoresStart == StoresInit => StoresInv
BY RegistryStart, BackupStart, InternalStart, ValidationStart DEF StoresInit, StoresInv

\* The stores are in order in every state.
LEMMA StoresInOrder == StoresSpec => []StoresInv
BY StoresStart, StoresStep, PTL DEF StoresSpec

\* A key works as its holder was last told, opens no database but the one it was minted
\* for, and the index that requests use is the one of the file: whatever saves fail, and
\* whenever the process dies (databaseConfig.ts:317).
THEOREM KeysAreKept == StoresSpec => []KeysKept
<1>1. StoresInv => KeysKept BY RegistryImplies DEF StoresInv, KeysKept
<1> QED BY <1>1, StoresInOrder, PTL

\* Between attempts the marker of the scheduled backups is as old as the last one that
\* completed (maybeRunScheduledBackup).
THEOREM MarkerStaysTrue == StoresSpec => []MarkerIsTrue
<1>1. StoresInv => MarkerIsTrue BY DEF StoresInv, BackupInv
<1> QED BY <1>1, StoresInOrder, PTL

\* Once a backup has completed there is one to restore until the operator deletes
\* backups (pruneOldBackups).
THEOREM RestoreStaysPossible == StoresSpec => []SomethingToRestore
<1>1. StoresInv => SomethingToRestore BY DEF StoresInv, BackupInv
<1> QED BY <1>1, StoresInOrder, PTL

\* The stores are typed; a database that counts as initialized has its internal tables,
\* and so has one whose data was reported cleared (initializeDatabase, clearAllData).
THEOREM TablesStayThere == StoresSpec => []TablesThere
<1>1. StoresInv => TablesThere
  BY InternalImplies DEF StoresInv, RegistryInv, BackupInv, InternalInv, ValidationInv, TablesThere
<1> QED BY <1>1, StoresInOrder, PTL

\* As long as nothing stirs, an alarm of the validation is true and a match counted
\* truly (getTableValidationDetails, validate.vue).
THEOREM VerdictsAreTrue == StoresSpec => []VerdictIsTrue
<1>1. StoresInv => VerdictIsTrue BY DEF StoresInv, ValidationInv
<1> QED BY <1>1, StoresInOrder, PTL
=============================================================================
