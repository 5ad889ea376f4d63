------------------------------- MODULE MCSql -------------------------------
(* An instance of Sql for TLC: two tables of two columns. *)
EXTENDS Sql

MCSchema == [A |-> <<"id", "v">>, B |-> <<"ref", "w">>]

TablesOver(keys, vals) == UNION {{[k \in d |-> <<k, f[k]>>] : f \in [d -> vals]} : d \in SUBSET keys}

\* Every content of up to three rows of A, and few of B.
MCDatabases == [A : TablesOver({1, 2, 3}, {1, 2, Null}), B : {<<>>, <<<<1, 2>>, <<2, 1>>>>}]

Col(c) == [col |-> c]
Lit(n) == [lit |-> n]
Cmp(op, l, r) == Binary(op, l, r)

Wheres == {None,
           Cmp("=", Col("id"), Lit(2)), Cmp("=", Col("id"), Col("v")), Cmp("<", Col("id"), Lit(3)),
           Cmp("<=", Col("v"), Lit(1)), Cmp("!=", Lit(1), Col("v")), Cmp(">", Col("x"), Lit(0)),
           Cmp("=", Col("v"), NullLit), Unary("IS NULL", Col("v")),
           Unary("NOT", Cmp("=", Lit(2), Col("id"))),
           Cmp("AND", Cmp(">=", Col("v"), Lit(2)), Cmp("!=", Col("id"), Lit(1))),
           Cmp("OR", Cmp("<=", Col("v"), Lit(1)), Cmp(">", Col("x"), Lit(0))),
           Cmp("OR", Cmp(">", Col("id"), Lit(1)), Unary("IS NOT NULL", Col("v")))}

Select(join, where, cols, order, limit) ==
    [kind |-> "select", from |-> "A", join |-> join, where |-> where, cols |-> cols, order |-> order, limit |-> limit]
By(col, desc) == [op |-> "by", col |-> col, desc |-> desc]
Limit(n) == [op |-> "limit", n |-> n]

Selects == {Select(None, w, c, o, l) : w \in Wheres, c \in {<<Wildcard>>, <<Col("id")>>, <<Col("v"), Col("id")>>},
              o \in {None, By("v", FALSE), By("v", TRUE)}, l \in {None, Limit(1)}}
           \cup {Select(None, w, <<Wildcard>>, o, Limit(0)) : w \in Wheres, o \in {None, By("v", TRUE)}}
           \cup {Select(None, None, <<Col("x")>>, None, None), Select(None, None, <<Col("id"), Wildcard>>, None, None),
                 Select(None, None, <<Wildcard>>, By("x", FALSE), None)}

Joins == {Select([op |-> "join", table |-> "B", on |-> on], w, <<Wildcard>>, o, l) :
            on \in {Cmp("=", Col("v"), Col("ref")), Cmp("<=", Col("ref"), Col("id"))},
            w \in {None, Cmp(">", Col("w"), Col("id"))},
            o \in {None, By("id", TRUE)}, l \in {None, Limit(1)}}

InsertInto(t, vals)  == [kind |-> "insert", from |-> t, values |-> vals]
Delete(t, w)      == [kind |-> "delete", from |-> t, where |-> w]
Update(t, w, set) == [kind |-> "update", from |-> t, where |-> w, set |-> set]
Set(c, x)         == [col |-> c, val |-> x]

Changes ==
    {InsertInto("A", <<Lit(k), v>>) : k \in {1, 3}, v \in {Lit(1), NullLit, Col("v")}}
    \cup {Delete("A", w) : w \in Wheres}
    \cup {Update("A", w, set) : w \in Wheres,
            set \in {<<Set("v", Lit(2))>>, <<Set("v", NullLit), Set("x", Lit(1))>>, <<Set("id", Lit(2))>>}}
    \cup {Update("A", None, <<Set("v", Col("id"))>>)}

\* Statements that the planner refuses, and markers.
Others == {InsertInto("A", <<Lit(3)>>), InsertInto("C", <<Lit(1)>>), Delete("C", None),
           [Select(None, None, <<Wildcard>>, None, None) EXCEPT !.from = "C"],
           Select([op |-> "join", table |-> "C", on |-> Cmp("=", Col("v"), Col("id"))], None, <<Wildcard>>, None, None),
           [kind |-> "drop", from |-> "C"], [kind |-> "marker"]}

MCStatements == Selects \cup Joins \cup Changes \cup Others

MCOpenings == [delete |-> Word("DELETE") \o Word("FROM") \o Ident("A") \o Word("WHERE"),
               create |-> Word("CREATE") \o Word("TABLE") \o Ident("C") \o Word("(")]

MCPhrases ==
    [delete |-> {Ident("v"), Ident("v") \o Word("=") \o Number(1), Ident("v") \o Word("IS") \o Word("NULL"),
                 Word("IS") \o Word("NOT") \o Word("NULL")}
                \cup {Word(t) : t \in {"=", "AND", "OR", "NOT", "(", ")"}},
     create |-> {Ident("a") \o Ident("INT"), Ident("b") \o Ident("VARCHAR") \o Word("(") \o Number(9) \o Word(")"),
                 Word("PRIMARY") \o Word("KEY"), Word("NOT") \o Word("NULL")}
                \cup {Word(t) : t \in {"NOT", "NULL", "COMMA", ")"}}]

MCTypedDatabase == [A |-> <<<<1, 1>>, <<2, Null>>>>, B |-> <<>>]
=============================================================================
