------------------------------ MODULE Executor ------------------------------
(***************************************************************************)
(* What a statement, in the form Parser gives it, does to rows: the plan   *)
(* that planner.go makes of it and the iterators of executor.go, which     *)
(* hand rows up one at a time, against a naive evaluation.  One statement runs at a time: the table locks keep *)
(* others off its tables (TableLocks), and its changes are undone as a     *)
(* whole when it fails (TxnStore).                                         *)
(*                                                                         *)
(* A table is a function from the keys under which the tree stores its     *)
(* rows to the rows, which hold the primary key once more as their first   *)
(* column.  Values are integers and NULL.                                  *)
(***************************************************************************)
EXTENDS Integers, FiniteSetsExt, SequencesExt, TLC, Parser

CONSTANTS
    Schema,      \* table -> names of its columns, the primary key first
    Databases,   \* contents of the tables to start with
    Null,        \* NULL
    MaxStatements \* bound on the statements of a run

ASSUME MaxStatementsAssumption == MaxStatements \in Nat

VARIABLES
    tables,   \* table -> key -> row
    stmt,     \* the statement that runs, or ran last
    status,   \* "run", or how it ended: "spins" if it was never parsed
    it,       \* the iterators of the statement
    before,   \* the tables when it began
    ran,      \* history: number of statements so far
    expected, \* history: what the tables should be after the statements that succeeded
    rekeyed   \* history: an UPDATE gave a row another primary key

history == <<ran, expected, rekeyed>>
vars == <<tables, stmt, status, it, before, history>>

Idle   == [kind |-> "none"]
NoRows == [left |-> <<>>, right |-> <<>>, leftRow |-> <<>>, rightRows |-> <<>>, rows |-> <<>>]

\* colIndex: the first column of that name, whatever table was meant; 0 if none.
colIndex(cols, name) == SelectInSeq(cols, LAMBDA c : c = name)

IsColumn(x)  == DOMAIN x \in {{"col"}, {"table", "col"}}
IsLiteral(x) == DOMAIN x \in {{"lit"}, {"null"}}
evalLiteral(x) == IF x = NullLit THEN Null ELSE x.lit

\* evalValue fails on an expression with no value: an unknown column, a condition, "*".
HasValue(x, cols) == IsLiteral(x) \/ (IsColumn(x) /\ colIndex(cols, x.col) # 0)
evalValue(x, row, cols) == IF IsColumn(x) THEN row[colIndex(cols, x.col)] ELSE evalLiteral(x)

\* compareValues: NULL on the left equals everything, NULL on the right of a
\* number is a failing type assertion.
CanCompare(a, b) == a = Null \/ b # Null
compareValues(a, b) == IF a = Null \/ a = b THEN 0 ELSE IF a < b THEN -1 ELSE 1

Compares(op, n) ==
    CASE op = "=" -> n = 0 [] op = "!=" -> n # 0 [] op = "<" -> n < 0
      [] op = ">" -> n > 0 [] op = "<=" -> n <= 0 [] op = ">=" -> n >= 0

Verdict(b) == IF b THEN "yes" ELSE "no"

\* Whether a row meets a condition: "yes", "no", "error" or "panic".
RECURSIVE evalCond(_, _, _)
evalCond(e, row, cols) ==
    CASE "op" \notin DOMAIN e -> "error"
      [] e.op = "AND" -> LET l == evalCond(e.left, row, cols)
                         IN IF l # "yes" THEN l ELSE evalCond(e.right, row, cols)
      [] e.op = "OR"  -> LET l == evalCond(e.left, row, cols)
                         IN IF l # "no" THEN l ELSE evalCond(e.right, row, cols)
      [] e.op = "NOT" -> LET v == evalCond(e.arg, row, cols)
                         IN IF v = "yes" THEN "no" ELSE IF v = "no" THEN "yes" ELSE v
      [] e.op \in {"IS NULL", "IS NOT NULL"} ->
                IF ~HasValue(e.arg, cols) THEN "error"
                ELSE Verdict((evalValue(e.arg, row, cols) = Null) = (e.op = "IS NULL"))
      [] OTHER -> IF ~HasValue(e.left, cols) \/ ~HasValue(e.right, cols) THEN "error"
                  ELSE LET l == evalValue(e.left, row, cols)
                           r == evalValue(e.right, row, cols)
                       IN IF ~CanCompare(l, r) THEN "panic"
                          ELSE Verdict(Compares(e.op, compareValues(l, r)))

-----------------------------------------------------------------------------
(* Plans.                                                                  *)

PrimaryKey(t) == Schema[t][1]

\* extractPKExpr, for a statement without a join.
IndexScan(s) == /\ s.join = None /\ "op" \in DOMAIN s.where
                /\ s.where.op \in {"=", "<", ">", "<=", ">="}
                /\ IsColumn(s.where.left) /\ s.where.left.col = PrimaryKey(s.from)

Columns(s) == Schema[s.from] \o (IF s.join = None THEN <<>> ELSE Schema[s.join.table])

\* BTreeRepository.Scan, in the order of the keys.
Scan(t) == LET keys == SetToSortSeq(DOMAIN tables[t], <)
           IN [i \in DOMAIN keys |-> tables[t][keys[i]]]

\* Mutant: a key that is not found yields an empty row.
MutFetched(s) ==
    IF s.kind # "select" \/ ~IndexScan(s) THEN Scan(s.from)
    ELSE IF "lit" \in DOMAIN s.where.right /\ s.where.right.lit \in DOMAIN tables[s.from]
         THEN <<tables[s.from][s.where.right.lit]>> ELSE <<<<>>>>
\* Rows the leaf iterators will return.  FindByPK ignores the operator.
Fetched(s) ==
    IF s.kind # "select" \/ ~IndexScan(s) THEN Scan(s.from)
    ELSE IF "lit" \in DOMAIN s.where.right /\ s.where.right.lit \in DOMAIN tables[s.from]
         THEN <<tables[s.from][s.where.right.lit]>> ELSE <<>>

-----------------------------------------------------------------------------
Init ==
    /\ tables \in Databases
    /\ stmt = Idle /\ status = "ok" /\ it = NoRows
    /\ before = tables /\ expected = tables
    /\ ran = 0 /\ rekeyed = FALSE

\* Another statement may begin.  A run ends with its first SELECT, which leaves
\* the tables to the next statement as they were, as RowsExact says.
Ready == status \in {"ok", "error"} /\ stmt.kind # "select" /\ ran < MaxStatements

OfTables(s) == s.kind \in {"create", "drop", "marker"}

\* The planner knows the tables, and how many values a row has.
Refused(s) ==
    /\ ~OfTables(s)
    /\ \/ s.from \notin DOMAIN Schema
       \/ s.kind = "select" /\ s.join # None /\ s.join.table \notin DOMAIN Schema
       \/ s.kind = "insert" /\ s.from \in DOMAIN Schema /\ Len(s.values) # Len(Schema[s.from])

\* A statement is planned and begins to run.  What the catalog makes of CREATE
\* and DROP is in Ddl; BEGIN, COMMIT and ROLLBACK do nothing.
Begin(s) ==
    /\ Ready /\ ran' = ran + 1
    /\ stmt' = s /\ before' = tables
    /\ \/ Refused(s) /\ status' = "error" /\ it' = NoRows
       \/ OfTables(s) /\ status' \in {"ok", "error"} /\ it' = NoRows
       \/ /\ ~Refused(s) /\ ~OfTables(s)
          /\ status' = "run"
          /\ it' = [NoRows EXCEPT !.left  = IF s.kind = "insert" THEN <<>> ELSE Fetched(s),
                                  !.right = IF s.kind = "select" /\ s.join # None THEN Scan(s.join.table) ELSE <<>>]
    /\ UNCHANGED <<tables, expected, rekeyed>>

Running(kind) == status = "run" /\ stmt.kind = kind

\* Mutant: the changes made so far stay.
MutFail(how) == /\ status' = how /\ it' = NoRows
                /\ UNCHANGED <<tables, stmt, before, history>>
\* Execute rolls back on an error.  A panic goes past it: the transaction stays
\* open, its locks are never released, and no statement can follow.
Fail(how) == /\ status' = how /\ it' = NoRows
             /\ tables' = IF how = "error" THEN before ELSE tables
             /\ UNCHANGED <<stmt, before, history>>

\* ProjectionExecutor.
All(s) == s.cols[1] = Wildcard
Projectable(s) == All(s) \/ \A i \in DOMAIN s.cols : IsColumn(s.cols[i]) /\ colIndex(Columns(s), s.cols[i].col) # 0
Projected(s, row) == IF All(s) THEN row
                     ELSE [i \in DOMAIN s.cols |-> row[colIndex(Columns(s), s.cols[i].col)]]

\* LimitExecutor, below which nothing is read once enough rows were returned.
MorePossible ==
    stmt.limit # None => IF stmt.order = None THEN Len(it.rows) < stmt.limit.n ELSE stmt.limit.n > 0

\* FilterExecutor and ProjectionExecutor on a row; next is what the iterators
\* below have become.  IndexScan has no filter above it.
Take(row, next) ==
    LET verdict == IF stmt.where = None \/ IndexScan(stmt) THEN "yes"
                   ELSE evalCond(stmt.where, row, Columns(stmt))
    IN CASE verdict = "yes" /\ Projectable(stmt) ->
              /\ it' = [next EXCEPT !.rows = Append(@, Projected(stmt, row))]
              /\ UNCHANGED <<tables, stmt, status, before, history>>
         [] verdict = "no" ->
              /\ it' = next
              /\ UNCHANGED <<tables, stmt, status, before, history>>
         [] OTHER -> Fail(IF verdict = "panic" THEN "panic" ELSE "error")

\* SeqScanExecutor or IndexScanExecutor returns a row.
ScanNext ==
    /\ Running("select") /\ stmt.join = None
    /\ MorePossible /\ it.left # <<>>
    /\ Take(Head(it.left), [it EXCEPT !.left = Tail(@)])

\* IndexScanExecutor: the key is compared with something else than a literal.
IndexFails ==
    /\ Running("select") /\ stmt.join = None /\ MorePossible
    /\ IndexScan(stmt) /\ ~IsLiteral(stmt.where.right)
    /\ Fail("error")

\* NestedLoopJoinExecutor: the next row on the left, and whatever the right side
\* still has.  Nothing makes the right side start again.
JoinLeft ==
    /\ Running("select") /\ stmt.join # None
    /\ MorePossible /\ it.rightRows = <<>> /\ it.left # <<>>
    /\ it' = [it EXCEPT !.left = Tail(@), !.leftRow = Head(it.left),
                        !.right = <<>>, !.rightRows = it.right]
    /\ UNCHANGED <<tables, stmt, status, before, history>>

JoinRight ==
    /\ Running("select") /\ stmt.join # None
    /\ MorePossible /\ it.rightRows # <<>>
    /\ LET row     == it.leftRow \o Head(it.rightRows)
           next    == [it EXCEPT !.rightRows = Tail(@)]
           verdict == evalCond(stmt.join.on, row, Columns(stmt))
       IN CASE verdict = "yes" -> Take(row, next)
            [] verdict = "no"  -> it' = next /\ UNCHANGED <<tables, stmt, status, before, history>>
            [] OTHER           -> Fail(verdict)

\* Mutant: the column after the one named.
MutSortIndex == colIndex(Columns(stmt), stmt.order.col) + 1
\* SortExecutor, above the projection but with the columns below it.  SliceStable
\* on a short slice: each row moves down while it is less than its predecessor.
SortIndex == colIndex(Columns(stmt), stmt.order.col)

\* Mutant: DESC is ignored.
MutLess(a, b) == compareValues(a, b) < 0
Less(a, b) == IF stmt.order.desc THEN compareValues(a, b) > 0 ELSE compareValues(a, b) < 0

\* Rows are too short for the column, or there is no such column.
OutOfRange == Len(it.rows) > 1 /\ (SortIndex = 0 \/ SortIndex > Len(it.rows[1]))

InsertRow(done, row) ==
    LET v(r)  == r[SortIndex]
        stops == {i \in DOMAIN done.rows : CanCompare(v(row), v(done.rows[i])) /\ ~Less(v(row), v(done.rows[i]))}
        bad   == {i \in DOMAIN done.rows : ~CanCompare(v(row), v(done.rows[i]))}
        p     == Max(stops \cup {0})
    IN [rows |-> InsertAt(done.rows, p + 1, row), ok |-> done.ok /\ Max(bad \cup {0}) <= p]

SortRows == FoldLeft(InsertRow, [rows |-> <<>>, ok |-> TRUE], it.rows)

Limited(s, rows) == IF s.limit = None THEN rows ELSE SubSeq(rows, 1, Min({s.limit.n, Len(rows)}))

\* All rows are there, or as many as the limit asks for.
FinishSelect ==
    /\ Running("select")
    /\ MorePossible => it.left = <<>> /\ it.rightRows = <<>>
    /\ ~(IndexScan(stmt) /\ MorePossible /\ ~IsLiteral(stmt.where.right))
    /\ \/ /\ stmt.order = None
          /\ status' = "ok" /\ UNCHANGED <<tables, stmt, it, before, history>>
       \/ /\ stmt.order # None
          /\ IF OutOfRange \/ ~SortRows.ok THEN Fail("panic")
             ELSE /\ it' = [it EXCEPT !.rows = Limited(stmt, SortRows.rows)]
                  /\ status' = "ok" /\ UNCHANGED <<tables, stmt, before, history>>

-----------------------------------------------------------------------------
(* INSERT, UPDATE and DELETE do all their work in one call of Next.  The   *)
(* latter two read the table first and then change row after row.          *)

\* A row becomes what the assignments say.
Assigned(s, row) ==
    [i \in DOMAIN row |->
       LET mine == {k \in DOMAIN s.set : colIndex(Schema[s.from], s.set[k].col) = i}
       IN IF mine = {} THEN row[i] ELSE evalLiteral(s.set[Max(mine)].val)]

\* BTree.Update and Delete at a key; a row is found by the key it was stored
\* under, and keeps it.
Changed(t, key, row) ==
    [tables EXCEPT ![t] = IF stmt.kind = "update" THEN [@ EXCEPT ![key] = row]
                          ELSE [k \in DOMAIN @ \ {key} |-> @[k]]]

ChangeNext ==
    /\ status = "run" /\ stmt.kind \in {"update", "delete"} /\ it.left # <<>>
    /\ LET row     == Head(it.left)
           key     == row[1]
           t       == stmt.from
           verdict == IF stmt.where = None THEN "yes" ELSE evalCond(stmt.where, row, Schema[t])
           bad     == \/ /\ stmt.kind = "update"
                         /\ \E k \in DOMAIN stmt.set : \/ colIndex(Schema[t], stmt.set[k].col) = 0
                                                      \/ ~IsLiteral(stmt.set[k].val)
                      \/ key \notin DOMAIN tables[t]
       IN CASE verdict = "no" -> /\ it' = [it EXCEPT !.left = Tail(@)]
                                 /\ UNCHANGED <<tables, stmt, status, before, history>>
            [] verdict = "yes" /\ ~bad ->
                 /\ it' = [it EXCEPT !.left = Tail(@)]
                 /\ tables' = Changed(t, key, IF stmt.kind = "update" THEN Assigned(stmt, row) ELSE row)
                 /\ UNCHANGED <<stmt, status, before, history>>
            [] OTHER -> Fail(IF verdict = "panic" THEN "panic" ELSE "error")

-----------------------------------------------------------------------------
(* The naive evaluation.                                                   *)

RECURSIVE Holds(_, _, _)
Holds(e, row, cols) ==
    LET v(x) == IF IsLiteral(x) THEN evalLiteral(x) ELSE row[CHOOSE i \in DOMAIN cols : cols[i] = x.col]
    IN CASE e.op = "none"    -> TRUE
         [] e.op = "AND"     -> Holds(e.left, row, cols) /\ Holds(e.right, row, cols)
         [] e.op = "OR"      -> Holds(e.left, row, cols) \/ Holds(e.right, row, cols)
         [] e.op = "NOT"     -> ~Holds(e.arg, row, cols)
         [] e.op = "IS NULL" -> v(e.arg) = Null
         [] e.op = "IS NOT NULL" -> v(e.arg) # Null
         [] e.op = "="       -> v(e.left) = v(e.right)
         [] e.op = "!="      -> v(e.left) # v(e.right)
         [] e.op = "<"       -> v(e.left) < v(e.right)
         [] e.op = ">"       -> v(e.left) > v(e.right)
         [] e.op = "<="      -> v(e.left) <= v(e.right)
         [] e.op = ">="      -> v(e.left) >= v(e.right)

\* The rows of FROM and JOIN, in the order of their keys.
NaiveSource(s) ==
    IF s.join = None THEN Scan(s.from)
    ELSE LET l == Scan(s.from)
             r == Scan(s.join.table)
             pairs == [k \in 1..(Len(l) * Len(r)) |-> l[1 + ((k - 1) \div Len(r))] \o r[1 + ((k - 1) % Len(r))]]
         IN SelectSeq(pairs, LAMBDA row : Holds(s.join.on, row, Columns(s)))

\* The k-th row is the one that k - 1 rows come before.
NaiveSort(s, rows) ==
    IF s.order = None THEN rows
    ELSE LET v(i) == rows[i][CHOOSE c \in DOMAIN Columns(s) : Columns(s)[c] = s.order.col]
             Before(i, j) == \/ IF s.order.desc THEN v(i) > v(j) ELSE v(i) < v(j)
                             \/ v(i) = v(j) /\ i < j
         IN [k \in DOMAIN rows |->
               rows[CHOOSE i \in DOMAIN rows : Cardinality({j \in DOMAIN rows : Before(j, i)}) = k - 1]]

NaiveSelect(s) ==
    LET met    == SelectSeq(NaiveSource(s), LAMBDA row : Holds(s.where, row, Columns(s)))
        sorted == NaiveSort(s, met)
    IN Limited(s, [i \in DOMAIN sorted |-> Projected(s, sorted[i])])

\* The row that VALUES describes.
Row(s) == [i \in DOMAIN s.values |-> evalLiteral(s.values[i])]

\* The tables db after a statement that succeeded.
NaiveEffect(s, db) ==
    LET t == s.from
        Met(key) == Holds(s.where, db[t][key], Schema[t])
    IN CASE s.kind = "insert" -> [db EXCEPT ![t] = (Row(s)[1] :> Row(s)) @@ @]
         [] s.kind = "delete" -> [db EXCEPT ![t] = [key \in {k \in DOMAIN @ : ~Met(k)} |-> @[key]]]
         [] s.kind = "update" -> [db EXCEPT ![t] =
                [key \in DOMAIN @ |-> IF Met(key) THEN Assigned(s, @[key]) ELSE @[key]]]
         [] OTHER             -> db

\* The comparisons in a condition.
RECURSIVE Comparisons(_)
Comparisons(e) ==
    CASE "op" \notin DOMAIN e \/ e.op \in {"none", "IS NULL", "IS NOT NULL"} -> {}
      [] e.op \in {"AND", "OR"} -> Comparisons(e.left) \cup Comparisons(e.right)
      [] e.op = "NOT" -> Comparisons(e.arg)
      [] OTHER -> {e}

\* What a statement compares.
Compared(s) ==
    LET conds    == {s.where} \cup (IF s.kind = "select" /\ s.join # None THEN {s.join.on} ELSE {})
        operands == UNION {{c.left, c.right} : c \in UNION {Comparisons(e) : e \in conds}}
    IN operands \cup (IF s.kind = "select" /\ s.order # None THEN {[col |-> s.order.col]} ELSE {})

\* A statement compares NULL, or a column that is NULL in some row.
ComparesNull(s) ==
    \/ NullLit \in Compared(s)
    \/ \E t \in DOMAIN Schema : \E i \in DOMAIN Schema[t] :
        (\E x \in Compared(s) : IsColumn(x) /\ x.col = Schema[t][i]) /\ \E key \in DOMAIN before[t] : before[t][key][i] = Null

-----------------------------------------------------------------------------
Insert ==
    /\ Running("insert")
    /\ IF \E i \in DOMAIN stmt.values : ~IsLiteral(stmt.values[i]) THEN Fail("error")
       ELSE /\ tables' = [tables EXCEPT ![stmt.from] = (Row(stmt)[1] :> Row(stmt)) @@ @]
            /\ status' = "ok"
            /\ expected' = NaiveEffect(stmt, expected)
            /\ UNCHANGED <<stmt, it, before, ran, rekeyed>>

\* All rows are changed: the transaction commits.  What a comparison with NULL
\* should have done is left open.
FinishChange ==
    /\ status = "run" /\ stmt.kind \in {"update", "delete"} /\ it.left = <<>>
    /\ status' = "ok"
    /\ expected' = IF ComparesNull(stmt) THEN tables ELSE NaiveEffect(stmt, expected)
    /\ rekeyed' = (rekeyed \/ \E key \in DOMAIN tables[stmt.from] : tables[stmt.from][key][1] # key)
    /\ UNCHANGED <<tables, stmt, it, before, ran>>

\* A step of the statement that runs.
Execute ==
    \/ ScanNext \/ IndexFails \/ JoinLeft \/ JoinRight \/ FinishSelect
    \/ Insert \/ ChangeNext \/ FinishChange

-----------------------------------------------------------------------------
(* Properties.                                                             *)

TypeOK ==
    /\ \A t \in DOMAIN Schema : \A key \in DOMAIN tables[t] : Len(tables[t][key]) = Len(Schema[t])
    /\ status \in {"run", "ok", "error", "panic", "spins"}
    /\ \A part \in DOMAIN it : \A i \in DOMAIN it[part] : part = "leftRow" \/ it[part][i] # <<>>
    /\ ran \in 0..MaxStatements /\ rekeyed \in BOOLEAN

\* ORDER BY reads another column of the projected row than the one it names.
SortsByOther(s) == /\ s.order # None /\ ~All(s)
                   /\ SelectInSeq(s.cols, LAMBDA c : IsColumn(c) /\ c.col = s.order.col) # colIndex(Columns(s), s.order.col)

RECURSIVE WellFormed(_, _)
WellFormed(e, cols) ==
    /\ "op" \in DOMAIN e
    /\ CASE e.op = "none" -> TRUE
         [] e.op = "NOT"  -> WellFormed(e.arg, cols)
         [] e.op \in {"AND", "OR"} -> WellFormed(e.left, cols) /\ WellFormed(e.right, cols)
         [] e.op \in {"IS NULL", "IS NOT NULL"} -> HasValue(e.arg, cols)
         [] OTHER -> HasValue(e.left, cols) /\ HasValue(e.right, cols)

\* The statement names a column that does not exist, or a condition is none;
\* only rows make this an error.
NamesUnknown(s) == \/ ~Projectable(s) \/ ~WellFormed(s.where, Columns(s))
                   \/ s.join # None /\ ~WellFormed(s.join.on, Columns(s))
                   \/ s.order # None /\ colIndex(Columns(s), s.order.col) = 0

\* A comparison of the key that is not "=" becomes a search for that one key.
SearchesRange(s) == IndexScan(s) /\ s.where.op # "="

\* The result is what the naive evaluation says.
Exact(s) == it.rows = NaiveSelect(s)

\* A SELECT that succeeds returns exactly the rows of a naive evaluation, in its
\* order (planner.go:178-249, executor.go:247-504), except for unknown columns that
\* no row has brought to light, ranges of keys, sorting by a column that the projection moved, comparisons with NULL, keys
\* changed by UPDATE, and joins with more than one row on the left.
SelectExact ==
    (status = "ok" /\ stmt.kind = "select") =>
        \/ NamesUnknown(stmt) \/ SearchesRange(stmt) \/ SortsByOther(stmt)
        \/ ComparesNull(stmt) \/ rekeyed
        \/ stmt.join # None /\ Cardinality(DOMAIN tables[stmt.from]) > 1
        \/ Exact(stmt)

\* The tables are what the statements that succeeded have made of them, and a
\* statement that failed half way has changed nothing (executor.go:538-629),
\* until an UPDATE changes a key: later statements look for the row under its
\* new key and change another row, or none.
RowsExact == status \in {"ok", "error"} => tables = expected \/ rekeyed

\* A statement panics only if it compares a column that is NULL somewhere, or
\* sorts by a column that the result does not have (executor.go:462, 740).
PanicsExplained ==
    status = "panic" => \/ ComparesNull(stmt)
                        \/ stmt.kind = "select" /\ (SortsByOther(stmt) \/ NamesUnknown(stmt))

=============================================================================
