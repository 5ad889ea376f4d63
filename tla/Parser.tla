------------------------------- MODULE Parser -------------------------------
(***************************************************************************)
(* parser.Parse (sql/parser/parser.go): recursive descent for statements,  *)
(* a Pratt parser for expressions.  A text is the sequence of tokens that  *)
(* the lexer makes of it: [t |-> type], with the name of an identifier or  *)
(* the value of a literal; the type of an operator is the operator.  The   *)
(* end of the sequence is the EOF token.                                   *)
(*                                                                         *)
(* A parser p is [ts, pos, bad, spins]: the tokens, the next position,     *)
(* whether addError was called, and whether it is in a loop for ever.      *)
(* Every function returns [p, v]: the parser it leaves and its result.     *)
(***************************************************************************)
EXTENDS Naturals, Sequences

Res(p, v) == [p |-> p, v |-> v]

NewParser(ts) == [ts |-> ts, pos |-> 1, bad |-> FALSE, spins |-> FALSE]
Cur(p)        == IF p.pos > Len(p.ts) THEN "EOF" ELSE p.ts[p.pos].t
Advance(p)    == [p EXCEPT !.pos = IF @ > Len(p.ts) THEN @ ELSE @ + 1]
AddError(p)   == [p EXCEPT !.bad = TRUE]

Expect(p, t)   == IF Cur(p) = t THEN Advance(p) ELSE AddError(p)
ExpectIdent(p) == IF Cur(p) = "IDENT" THEN Res(Advance(p), p.ts[p.pos].name) ELSE Res(AddError(p), "")

-----------------------------------------------------------------------------
(* Expressions: [col], [table, col], [lit], [null], [star] and, with an op, *)
(* [left, right] or [arg].  None is a missing clause.                       *)

None      == [op |-> "none"]
NullLit   == [null |-> TRUE]
Wildcard  == [star |-> TRUE]
Unary(op, arg)          == [op |-> op, arg |-> arg]
Binary(op, left, right) == [op |-> op, left |-> left, right |-> right]

ComparisonOps == {"=", "!=", "<", ">", "<=", ">="}
precNot == 3

\* Mutant: AND and OR bind alike.
MutTokenPrec(t) == CASE t = "OR" -> 2 [] t = "AND" -> 2 [] t \in ComparisonOps -> 4 [] OTHER -> 0
tokenPrec(t) == CASE t = "OR" -> 1 [] t = "AND" -> 2 [] t \in ComparisonOps -> 4 [] OTHER -> 0

RECURSIVE parseExpr(_, _), parseOps(_, _), parsePrimary(_), parseExprList(_)

\* IS NULL and IS NOT NULL.
parseIs(left) ==
    LET p == Advance(left.p)
    IN IF Cur(p) = "NOT" THEN Res(Expect(Advance(p), "NULL"), Unary("IS NOT NULL", left.v))
                         ELSE Res(Expect(p, "NULL"), Unary("IS NULL", left.v))

\* After IS NULL the function returns at once, without looking for an operator.
parseExpr(p, minPrec) ==
    LET operand == parseExpr(Advance(p), precNot)
        left    == IF Cur(p) = "NOT" THEN Res(operand.p, Unary("NOT", operand.v)) ELSE parsePrimary(p)
    IN IF Cur(left.p) = "IS" THEN parseIs(left) ELSE parseOps(left, minPrec)

\* The loop of parseExpr, in which left grows.
parseOps(left, minPrec) ==
    LET op    == Cur(left.p)
        right == parseExpr(Advance(left.p), tokenPrec(op))
    IN IF tokenPrec(op) <= minPrec THEN left
       ELSE parseOps(Res(right.p, Binary(op, left.v, right.v)), minPrec)

parsePrimary(p) ==
    LET tok  == p.ts[p.pos]
        next == Advance(p)
    IN CASE Cur(p) \in {"INT_LIT", "STR_LIT", "TRUE", "FALSE"} -> Res(next, [lit |-> tok.lit])
         [] Cur(p) = "NULL" -> Res(next, NullLit)
         [] Cur(p) = "ASTERISK" -> Res(next, Wildcard)
         [] Cur(p) = "IDENT" /\ Cur(next) # "DOT" -> Res(next, [col |-> tok.name])
         [] Cur(p) = "IDENT" /\ Cur(next) = "DOT" ->
              LET c == ExpectIdent(Advance(next)) IN Res(c.p, [table |-> tok.name, col |-> c.v])
         [] Cur(p) = "(" -> LET e == parseExpr(next, 0) IN Res(Expect(e.p, ")"), e.v)
         [] OTHER -> Res(Advance(AddError(p)), NullLit)

parseExprList(p) ==
    LET e    == parseExpr(p, 0)
        rest == parseExprList(Advance(e.p))
    IN IF Cur(e.p) = "COMMA" THEN Res(rest.p, <<e.v>> \o rest.v) ELSE Res(e.p, <<e.v>>)

-----------------------------------------------------------------------------
(* Clauses of SELECT, INSERT, UPDATE and DELETE.                           *)

parseWhere(p) == IF Cur(p) = "WHERE" THEN parseExpr(Advance(p), 0) ELSE Res(p, None)

parseJoin(p) ==
    LET table == ExpectIdent(Expect(IF Cur(p) = "INNER" THEN Advance(p) ELSE p, "JOIN"))
        on    == parseExpr(Advance(table.p), 0)
    IN CASE Cur(p) \notin {"INNER", "JOIN"} -> Res(p, None)
         [] Cur(p) \in {"INNER", "JOIN"} /\ (table.v = "" \/ Cur(table.p) # "ON") -> Res(AddError(table.p), None)
         [] OTHER -> Res(on.p, [op |-> "join", table |-> table.v, on |-> on.v])

parseOrderBy(p) ==
    LET col  == ExpectIdent(Expect(Advance(p), "BY"))
        desc == Cur(col.p) = "DESC"
    IN IF Cur(p) # "ORDER" THEN Res(p, None)
       ELSE Res(IF desc \/ Cur(col.p) = "ASC" THEN Advance(col.p) ELSE col.p,
                [op |-> "by", col |-> col.v, desc |-> desc])

parseLimit(p) ==
    LET n == Advance(p)
    IN CASE Cur(p) # "LIMIT" -> Res(p, None)
         [] Cur(p) = "LIMIT" /\ Cur(n) = "INT_LIT" -> Res(Advance(n), [op |-> "limit", n |-> n.ts[n.pos].lit])
         [] OTHER -> Res(AddError(n), None)

parseSelect(p) ==
    LET start == Expect(p, "SELECT")
        cols  == parseExprList(start)
        from  == ExpectIdent(Advance(cols.p))
        join  == parseJoin(from.p)
        where == parseWhere(join.p)
        order == parseOrderBy(where.p)
        limit == parseLimit(order.p)
    IN IF Cur(start) = "EOF" THEN Res(AddError(start), None)
       ELSE IF Cur(cols.p) # "FROM" THEN Res(AddError(cols.p), None)
       ELSE Res(limit.p, [kind |-> "select", from |-> from.v, join |-> join.v, where |-> where.v,
                          cols |-> cols.v, order |-> order.v, limit |-> limit.v])

parseInsert(p) ==
    LET table  == ExpectIdent(Expect(Expect(p, "INSERT"), "INTO"))
        values == parseExprList(Expect(Expect(table.p, "VALUES"), "("))
    IN Res(Expect(values.p, ")"), [kind |-> "insert", from |-> table.v, values |-> values.v])

RECURSIVE parseAssignments(_)
parseAssignments(p) ==
    LET col  == ExpectIdent(p)
        val  == parseExpr(Expect(col.p, "="), 0)
        this == <<[col |-> col.v, val |-> val.v]>>
        rest == parseAssignments(Advance(val.p))
    IN IF Cur(val.p) = "COMMA" THEN Res(rest.p, this \o rest.v) ELSE Res(val.p, this)

parseUpdate(p) ==
    LET table == ExpectIdent(Expect(p, "UPDATE"))
        set   == parseAssignments(Expect(table.p, "SET"))
        where == parseWhere(set.p)
    IN Res(where.p, [kind |-> "update", from |-> table.v, set |-> set.v, where |-> where.v])

parseDelete(p) ==
    LET table == ExpectIdent(Expect(Expect(p, "DELETE"), "FROM"))
        where == parseWhere(table.p)
    IN Res(where.p, [kind |-> "delete", from |-> table.v, where |-> where.v])

-----------------------------------------------------------------------------
(* CREATE TABLE and DROP TABLE.                                            *)

\* Names of types are ordinary identifiers, or even strings.
Literal(p) == CASE Cur(p) = "IDENT" -> p.ts[p.pos].name [] Cur(p) = "STR_LIT" -> p.ts[p.pos].lit [] OTHER -> ""

parseDataType(p) ==
    LET open == Expect(Advance(p), "(")
    IN CASE Literal(p) \in {"INT", "BOOL"} -> Res(Advance(p), Literal(p))
         [] Literal(p) = "VARCHAR" /\ Cur(open) = "INT_LIT" -> Res(Expect(Advance(open), ")"), "VARCHAR")
         [] Literal(p) = "VARCHAR" /\ Cur(open) # "INT_LIT" -> Res(AddError(open), "")
         [] OTHER -> Res(AddError(Advance(p)), "")

\* Mutant: NOT does not consume the NULL after it.
RECURSIVE MutParseConstraints(_, _)
MutParseConstraints(p, col) ==
    CASE Cur(p) = "PRIMARY" -> MutParseConstraints(Expect(Advance(p), "KEY"), [col EXCEPT !.pk = TRUE, !.notNull = TRUE])
      [] Cur(p) = "NOT"     -> MutParseConstraints(Advance(p), [col EXCEPT !.notNull = TRUE])
      [] Cur(p) = "NULL"    -> Res([p EXCEPT !.spins = TRUE], col)
      [] OTHER              -> Res(p, col)

\* The loop of parseColumnDef: it goes on at PRIMARY, NOT and NULL, but a NULL
\* without NOT is consumed by no case of its switch.
RECURSIVE parseConstraints(_, _)
parseConstraints(p, col) ==
    CASE Cur(p) = "PRIMARY" -> parseConstraints(Expect(Advance(p), "KEY"), [col EXCEPT !.pk = TRUE, !.notNull = TRUE])
      [] Cur(p) = "NOT"     -> parseConstraints(Expect(Advance(p), "NULL"), [col EXCEPT !.notNull = TRUE])
      [] Cur(p) = "NULL"    -> Res([p EXCEPT !.spins = TRUE], col)
      [] OTHER              -> Res(p, col)

parseColumnDef(p) ==
    LET name == ExpectIdent(p)
        type == parseDataType(name.p)
    IN parseConstraints(type.p, [name |-> name.v, type |-> type.v, pk |-> FALSE, notNull |-> FALSE])

\* The loop of parseCreateTable; columns need no comma between them.
RECURSIVE parseColumns(_, _)
parseColumns(p, cols) ==
    LET col  == parseColumnDef(p)
        twice == col.v.pk /\ \E i \in DOMAIN cols : cols[i].pk
        next == IF twice THEN AddError(col.p) ELSE col.p
    IN IF p.spins \/ Cur(p) \in {")", "EOF"} THEN Res(p, cols)
       ELSE parseColumns(IF Cur(next) = "COMMA" /\ ~next.spins THEN Advance(next) ELSE next, Append(cols, col.v))

parseCreateTable(p) ==
    LET table == ExpectIdent(Expect(Expect(p, "CREATE"), "TABLE"))
        cols  == parseColumns(Expect(table.p, "("), <<>>)
        all   == IF cols.v = <<>> THEN AddError(cols.p) ELSE cols.p
    IN IF table.v = "" THEN Res(table.p, None)
       ELSE Res(IF all.spins THEN all ELSE Expect(all, ")"), [kind |-> "create", from |-> table.v, columns |-> cols.v])

parseDropTable(p) ==
    LET table == ExpectIdent(Expect(Expect(p, "DROP"), "TABLE"))
    IN Res(table.p, [kind |-> "drop", from |-> table.v])

parseStatement(p) ==
    CASE Cur(p) = "SELECT" -> parseSelect(p)
      [] Cur(p) = "INSERT" -> parseInsert(p)
      [] Cur(p) = "UPDATE" -> parseUpdate(p)
      [] Cur(p) = "DELETE" -> parseDelete(p)
      [] Cur(p) = "CREATE" -> parseCreateTable(p)
      [] Cur(p) = "DROP"   -> parseDropTable(p)
      [] Cur(p) \in {"BEGIN", "COMMIT", "ROLLBACK"} -> Res(Advance(p), [kind |-> "marker"])
      [] OTHER -> Res(AddError(p), None)

\* What Parse makes of a text.  It does not ask for the end of the text.
Outcome(s) == [outcome |-> IF s.p.spins THEN "spins" ELSE IF s.p.bad THEN "error" ELSE "ok",
               stmt    |-> s.v, read |-> s.p.pos - 1]
Parse(ts) == Outcome(parseStatement(NewParser(ts)))

=============================================================================
