------------------------------ MODULE Grammar ------------------------------
(***************************************************************************)
(* The SQL the documentation describes: sql/docs/parser.md gives the       *)
(* precedence of the operators (OR lowest, then AND, NOT, and comparisons  *)
(* together with IS NULL and IS NOT NULL), the comments of parser.go the   *)
(* clauses of the statements.  Binary operators associate to the left.     *)
(* Two independent forms: the trees that a sequence of tokens has, and the *)
(* sequence of tokens of a tree.                                           *)
(***************************************************************************)
EXTENDS Parser

Word(t)  == <<[t |-> t]>>
Ident(x) == <<[t |-> "IDENT", name |-> x]>>
Number(n) == <<[t |-> "INT_LIT", lit |-> n]>>

Find(ts, types) == {i \in DOMAIN ts : ts[i].t \in types}
UpTo(ts, i)  == SubSeq(ts, 1, i - 1)
After(ts, i) == SubSeq(ts, i + 1, Len(ts))
EndsWith(ts, types) == LET n == Len(types) IN Len(ts) > n /\ \A i \in 1..n : ts[Len(ts) - n + i].t = types[i]

\* The trees of ts as an expression of at least the given level.
RECURSIVE Trees(_, _)
Trees(ts, level) ==
    LET Infix(types, l, r) ==
            UNION {{Binary(ts[i].t, a, b) : a \in Trees(UpTo(ts, i), l), b \in Trees(After(ts, i), r)} :
                   i \in Find(ts, types)}
        Postfix(op, types) ==
            IF EndsWith(ts, types) THEN {Unary(op, a) : a \in Trees(SubSeq(ts, 1, Len(ts) - Len(types)), 4)} ELSE {}
    IN CASE level = 1 -> Trees(ts, 2) \cup Infix({"OR"}, 1, 2)
         [] level = 2 -> Trees(ts, 3) \cup Infix({"AND"}, 2, 3)
         [] level = 3 -> Trees(ts, 4) \cup (IF Len(ts) > 1 /\ ts[1].t = "NOT"
                                            THEN {Unary("NOT", a) : a \in Trees(Tail(ts), 3)} ELSE {})
         [] level = 4 -> Trees(ts, 5) \cup Infix(ComparisonOps, 4, 5)
                         \cup Postfix("IS NULL", <<"IS", "NULL">>)
                         \cup Postfix("IS NOT NULL", <<"IS", "NOT", "NULL">>)
         [] level = 5 ->
              CASE Len(ts) = 1 /\ ts[1].t \in {"INT_LIT", "STR_LIT", "TRUE", "FALSE"} -> {[lit |-> ts[1].lit]}
                [] Len(ts) = 1 /\ ts[1].t = "NULL" -> {NullLit}
                [] Len(ts) = 1 /\ ts[1].t = "IDENT" -> {[col |-> ts[1].name]}
                [] Len(ts) = 3 /\ ts[1].t = "IDENT" /\ ts[2].t = "DOT" /\ ts[3].t = "IDENT" ->
                     {[table |-> ts[1].name, col |-> ts[3].name]}
                [] Len(ts) > 2 /\ ts[1].t = "(" /\ ts[Len(ts)].t = ")" -> Trees(SubSeq(ts, 2, Len(ts) - 1), 1)
                [] OTHER -> {}

\* Columns that ts has as a list of column definitions: name type [PRIMARY KEY] [NOT NULL].
Constraints == {<<>>, <<"PRIMARY", "KEY">>, <<"NOT", "NULL">>, <<"PRIMARY", "KEY", "NOT", "NULL">>}
TypeNames   == {"INT", "BOOL", "VARCHAR"}
TypesOf(ts) == [i \in DOMAIN ts |-> ts[i].t]

IsColumnDef(ts) ==
    /\ Len(ts) > 1 /\ ts[1].t = "IDENT" /\ ts[2].t = "IDENT" /\ ts[2].name \in TypeNames
    /\ LET size == IF ts[2].name = "VARCHAR" THEN <<"(", "INT_LIT", ")">> ELSE <<>>
       IN \E c \in Constraints : TypesOf(ts) = <<"IDENT", "IDENT">> \o size \o c
ColumnDef(ts) == [name |-> ts[1].name, type |-> ts[2].name,
                  pk |-> Find(ts, {"PRIMARY"}) # {}, notNull |-> Find(ts, {"PRIMARY", "NULL"}) # {}]

RECURSIVE ColumnLists(_)
ColumnLists(ts) ==
    (IF IsColumnDef(ts) THEN {<<ColumnDef(ts)>>} ELSE {})
    \cup UNION {{<<ColumnDef(UpTo(ts, i))>> \o rest : rest \in ColumnLists(After(ts, i))} :
                i \in {j \in Find(ts, {"COMMA"}) : IsColumnDef(UpTo(ts, j))}}

-----------------------------------------------------------------------------
(* The text of a statement, with the parentheses it needs and no others.   *)

Level(e) == IF "op" \notin DOMAIN e THEN 5
            ELSE CASE e.op = "OR" -> 1 [] e.op = "AND" -> 2 [] e.op = "NOT" -> 3 [] OTHER -> 4

RECURSIVE ExprText(_, _)
ExprText(e, level) ==
    LET inner ==
          CASE Level(e) = 5 -> (IF "col" \in DOMAIN e THEN Ident(e.col)
                                ELSE IF "lit" \in DOMAIN e THEN Number(e.lit)
                                ELSE IF "null" \in DOMAIN e THEN Word("NULL") ELSE Word("ASTERISK"))
            [] Level(e) = 3 -> Word("NOT") \o ExprText(e.arg, 3)
            [] Level(e) \in {1, 2} -> ExprText(e.left, Level(e)) \o Word(e.op) \o ExprText(e.right, Level(e) + 1)
            [] Level(e) = 4 ->
                 CASE e.op = "IS NULL" -> ExprText(e.arg, 4) \o Word("IS") \o Word("NULL")
                   [] e.op = "IS NOT NULL" -> ExprText(e.arg, 4) \o Word("IS") \o Word("NOT") \o Word("NULL")
                   [] OTHER -> ExprText(e.left, 4) \o Word(e.op) \o ExprText(e.right, 5)
    IN IF Level(e) < level THEN Word("(") \o inner \o Word(")") ELSE inner

RECURSIVE ListText(_)
ListText(list) == IF Len(list) = 1 THEN list[1] ELSE list[1] \o Word("COMMA") \o ListText(Tail(list))

WhereText(s) == IF s.where = None THEN <<>> ELSE Word("WHERE") \o ExprText(s.where, 1)

Text(s) ==
    CASE s.kind = "select" ->
           Word("SELECT") \o ListText([i \in DOMAIN s.cols |-> ExprText(s.cols[i], 1)])
           \o Word("FROM") \o Ident(s.from)
           \o (IF s.join = None THEN <<>>
               ELSE Word("INNER") \o Word("JOIN") \o Ident(s.join.table) \o Word("ON") \o ExprText(s.join.on, 1))
           \o WhereText(s)
           \o (IF s.order = None THEN <<>>
               ELSE Word("ORDER") \o Word("BY") \o Ident(s.order.col) \o Word(IF s.order.desc THEN "DESC" ELSE "ASC"))
           \o (IF s.limit = None THEN <<>> ELSE Word("LIMIT") \o Number(s.limit.n))
      [] s.kind = "insert" ->
           Word("INSERT") \o Word("INTO") \o Ident(s.from) \o Word("VALUES") \o Word("(")
           \o ListText([i \in DOMAIN s.values |-> ExprText(s.values[i], 1)]) \o Word(")")
      [] s.kind = "update" ->
           Word("UPDATE") \o Ident(s.from) \o Word("SET")
           \o ListText([i \in DOMAIN s.set |-> Ident(s.set[i].col) \o Word("=") \o ExprText(s.set[i].val, 1)])
           \o WhereText(s)
      [] s.kind = "delete" -> Word("DELETE") \o Word("FROM") \o Ident(s.from) \o WhereText(s)
      [] s.kind = "drop"   -> Word("DROP") \o Word("TABLE") \o Ident(s.from)
      [] s.kind = "marker" -> Word("COMMIT")

=============================================================================
