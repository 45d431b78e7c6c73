---------------------------- MODULE TableValidation ----------------------------
(***************************************************************************)
(* The validation of one table: getTableValidationDetails of server.ts     *)
(* compares the table in MySQL with the view in ClickHouse, and a row of   *)
(* validate.vue shows the verdict. The comparison takes several queries,   *)
(* between which the application writes and the syncs run; a query that    *)
(* fails leaves what it would have told at its default. The page asks      *)
(* without the slow count of MySQL first, and for that count on demand.    *)
(*                                                                         *)
(* Rows are their primary keys. The page has one request on its way.       *)
(***************************************************************************)
EXTENDS Integers, FiniteSetsExt

CONSTANTS
    RowId,                  \* primary keys, positive
    Shape,                  \* sets of columns the table may have
    MaxChanges              \* bound on the changes of the source

ASSUME ValidationAssumption ==
    /\ RowId \subseteq Nat \ {0} /\ IsFiniteSet(RowId)
    /\ \A s \in Shape : IsFiniteSet(s) /\ s # {}
    /\ MaxChanges \in Nat

VARIABLES
    source,                 \* the table in MySQL
    mirror,                 \* the view in ClickHouse
    changes,                \* changes of the source so far
    request,                \* the request for details: the query that is next, and
                            \* what was read
    row,                    \* the row of the page
    stirred                 \* since the page asked for the verdict either side has
                            \* changed or a query has failed

validation == <<source, mirror, changes, request, row, stirred>>

Absent == [exists |-> FALSE, columns |-> {}, rows |-> {}]
Copy == [exists : BOOLEAN, columns : Shape \cup {{}}, rows : SUBSET RowId]
None == -1                  \* null
Count == {None} \cup Nat
Side == [exists : BOOLEAN, columns : Shape \cup {{}}, count : Count,
         maxId : {None} \cup {Max(r) : r \in (SUBSET RowId) \ {{}}},
         checksum : {None} \cup {SumSet(r) : r \in SUBSET RowId}]
Stage == {"ch", "chCount", "my", "myCount", "chKeys", "myKeys", "answer"}
NoRequest == [stage |-> "none"]
Verdict == {"none", "schema_mismatch", "max_id_mismatch", "checksum_mismatch",
            "record_count_mismatch", "missing_in_clickhouse", "orphaned_in_clickhouse"}

ValidationTypeOK ==
    /\ source \in Copy /\ mirror \in Copy /\ changes \in 0..MaxChanges
    /\ \/ request = NoRequest
       \/ request \in [stage : Stage, skip : BOOLEAN, ch : Side, my : Side]
    /\ row \in [status : {"pending", "loading", "error", "missing", "mismatch", "uncounted",
                           "match"},
                errorType : Verdict, count : Count, mysqlCount : Count,
                columnsMatch : BOOLEAN]
    /\ stirred \in BOOLEAN

Unknown(count) ==
    [exists |-> FALSE, columns |-> {}, count |-> count, maxId |-> None, checksum |-> None]

ValidationInit ==
    /\ source \in {[exists |-> TRUE, columns |-> s, rows |-> r] : s \in Shape, r \in SUBSET RowId}
    /\ mirror \in {Absent, source} /\ changes = 0 /\ request = NoRequest /\ stirred = TRUE
    /\ row = [status |-> "pending", errorType |-> "none", count |-> 0, mysqlCount |-> None,
              columnsMatch |-> FALSE]

-----------------------------------------------------------------------------
\* The application adds or deletes a row, alters the table or drops it.
Change ==
    /\ changes < MaxChanges /\ changes' = changes + 1 /\ stirred' = TRUE
    /\ \/ \E k \in RowId : source.exists /\ source' = [source EXCEPT !.rows = SymDiff(@, {k})]
       \/ \E s \in Shape : source.exists /\ source' = [source EXCEPT !.columns = s]
       \/ source' = Absent
    /\ UNCHANGED <<mirror, request, row>>

\* A sync: the view has the columns of the table, and its rows; deleted ones stay
\* unless the sync was a full one.
Sync ==
    /\ source.exists /\ stirred' = TRUE
    /\ \E r \in {source.rows, mirror.rows \cup source.rows} : mirror' = [source EXCEPT !.rows = r]
    /\ UNCHANGED <<source, changes, request, row>>

\* deleteTableFromClickHouse, and what the page makes of its answer.
DeleteTable ==
    /\ row.status # "loading" /\ mirror.exists /\ mirror' = Absent /\ stirred' = TRUE
    /\ row' = [row EXCEPT !.status = "missing", !.count = 0]
    /\ UNCHANGED <<source, changes, request>>

-----------------------------------------------------------------------------
\* The page asks: the load and every later validation skip the count.
Ask(skip) ==
    request' = [stage |-> "ch", skip |-> skip, ch |-> Unknown(0), my |-> Unknown(None)]

LoadTableDetails ==
    /\ request = NoRequest /\ Ask(TRUE) /\ stirred' = FALSE
    /\ row' = [row EXCEPT !.status = "loading"]
    /\ UNCHANGED <<source, mirror, changes>>

CountMySQLRecords ==
    /\ request = NoRequest /\ row.status \notin {"pending", "loading"} /\ row.mysqlCount = None
    /\ Ask(FALSE)
    /\ UNCHANGED <<source, mirror, changes, row, stirred>>

MaxId(c) == IF c.rows = {} THEN None ELSE Max(c.rows)
Checksum(c) == IF c.rows = {} THEN None ELSE SumSet(c.rows)

\* One query; of a table that is gone it can only fail. The keys are asked for
\* when both exist.
Read ==
    /\ request # NoRequest /\ request.stage # "answer"
    /\ LET at == request.stage
           ask(stage) == [request EXCEPT !.stage = stage]
           both == request.ch.exists /\ request.my.exists IN
       /\ at = "chCount" \/ (at = "chKeys" /\ both) => mirror.exists
       /\ at \in {"myCount", "myKeys"} => source.exists
       /\ request' =
         CASE at = "ch" ->
                IF ~mirror.exists THEN ask("my")
                ELSE [ask("chCount") EXCEPT !.ch.exists = TRUE, !.ch.columns = mirror.columns]
           [] at = "chCount" -> [ask("my") EXCEPT !.ch.count = Cardinality(mirror.rows)]
           [] at = "my" ->
                IF ~source.exists THEN ask("chKeys")
                ELSE [ask(IF request.skip THEN "chKeys" ELSE "myCount")
                        EXCEPT !.my.exists = TRUE, !.my.columns = source.columns]
           [] at = "myCount" -> [ask("chKeys") EXCEPT !.my.count = Cardinality(source.rows)]
           [] at = "chKeys" ->
                IF ~both THEN ask("answer")
                ELSE [ask("myKeys") EXCEPT !.ch.maxId = MaxId(mirror),
                                           !.ch.checksum = Checksum(mirror)]
           [] at = "myKeys" -> [ask("answer") EXCEPT !.my.maxId = MaxId(source),
                                                     !.my.checksum = Checksum(source)]
    /\ UNCHANGED <<source, mirror, changes, row, stirred>>

\* A query fails: the rest of its block is skipped. The one that lists the tables
\* leaves the table missing, the others leave what is read already; the four
\* about the keys tell nothing when one of them fails.
ReadFails ==
    /\ request # NoRequest /\ request.stage # "answer" /\ stirred' = TRUE
    /\ LET at == request.stage
           to(stage) == [request EXCEPT !.stage = stage] IN
       request' \in
         CASE at = "ch" -> {to("my"), [to("my") EXCEPT !.ch.exists = mirror.exists]}
           [] at = "chCount" -> {to("my")}
           [] at = "my" -> {to("chKeys"), [to("chKeys") EXCEPT !.my.exists = source.exists]}
           [] at = "myCount" -> {to("chKeys")}
           [] OTHER -> {[to("answer") EXCEPT !.ch.maxId = None, !.ch.checksum = None]}
    /\ UNCHANGED <<source, mirror, changes, row>>

\* Mutant of CountsDiffer: a count that was not taken is compared, too.
AlwaysCounted(ch, my) == ch.count # my.count

CountsDiffer(ch, my) == my.count # None /\ ch.count # my.count

\* The first difference decides.
ErrorType(ch, my) ==
    CASE ch.exists /\ my.exists /\ ch.columns # my.columns -> "schema_mismatch"
      [] ch.exists /\ my.exists /\ ch.columns = my.columns ->
           IF ch.maxId # my.maxId THEN "max_id_mismatch"
           ELSE IF ch.checksum # my.checksum THEN "checksum_mismatch"
           ELSE IF CountsDiffer(ch, my) THEN "record_count_mismatch" ELSE "none"
      [] ~ch.exists /\ my.exists -> "missing_in_clickhouse"
      [] ch.exists /\ ~my.exists -> "orphaned_in_clickhouse"
      [] OTHER -> "none"

\* The page shows the details it asked for, a count that was not taken included.
ShowDetails ==
    /\ request.stage = "answer" /\ request.skip /\ request' = NoRequest
    /\ LET ch == request.ch
           my == request.my
           e == ErrorType(ch, my)
           same == Cardinality(ch.columns) = Cardinality(my.columns) IN
       row' = [status |-> CASE ~ch.exists \/ ~my.exists -> "missing"
                            [] e \in {"schema_mismatch", "max_id_mismatch", "checksum_mismatch"}
                                 -> "mismatch"
                            [] OTHER -> IF same THEN "uncounted" ELSE "mismatch",
               errorType |-> e, count |-> ch.count, mysqlCount |-> None, columnsMatch |-> same]
    /\ UNCHANGED <<source, mirror, changes, stirred>>

\* Of the details asked for with the count the page takes the count alone, and
\* compares it with the count of ClickHouse it has.
ShowCount ==
    /\ request.stage = "answer" /\ ~request.skip /\ request' = NoRequest
    /\ LET n == request.my.count
           new == [row EXCEPT !.mysqlCount = n] IN
       row' = CASE ~request.ch.exists \/ ~request.my.exists -> [new EXCEPT !.status = "missing"]
                [] request.ch.exists /\ request.my.exists /\ row.count # n ->
                     [new EXCEPT !.status = "mismatch", !.errorType = "record_count_mismatch"]
                [] OTHER -> IF row.columnsMatch
                            THEN [new EXCEPT !.status = "match", !.errorType = "none"] ELSE new
    /\ UNCHANGED <<source, mirror, changes, stirred>>

\* The request as a whole is refused or gets no answer.
RequestFails ==
    /\ request # NoRequest /\ request' = NoRequest /\ stirred' = TRUE
    /\ row' = IF request.skip THEN [row EXCEPT !.status = "error"] ELSE row
    /\ UNCHANGED <<source, mirror, changes>>

ValidationNext ==
    \/ Change \/ Sync \/ DeleteTable \/ LoadTableDetails \/ CountMySQLRecords
    \/ Read \/ ReadFails \/ RequestFails \/ ShowDetails \/ ShowCount

ValidationSpec == ValidationInit /\ [][ValidationNext]_validation

-----------------------------------------------------------------------------
\* As long as nothing stirs from the request on, an alarm is true and a match
\* counted truly, whichever of the two ways of asking came last: a table that is
\* the same on both sides is never shown as missing or different, and one that is
\* said to match has as many rows and columns in MySQL as in ClickHouse.
VerdictIsTrue ==
    ~stirred /\ row.status # "loading" =>
        /\ row.errorType # "none" \/ row.status = "mismatch" => source # mirror
        /\ row.status = "missing" => ~source.exists \/ ~mirror.exists
        /\ row.status = "match" =>
             /\ Cardinality(source.rows) = Cardinality(mirror.rows)
             /\ Cardinality(source.columns) = Cardinality(mirror.columns)

\* "priority: schema > max_id > checksum > record_count" (server.ts:2433): rows or
\* columns found to differ are not called a match while nothing stirs. A count
\* that agrees with the old one withdraws the verdict (validate.vue:235).
VerdictStands ==
    ~stirred /\ row.status = "match" => source = mirror
=============================================================================
