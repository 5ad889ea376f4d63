-------------------------------- MODULE Sql --------------------------------
(***************************************************************************)
(* From the text of a statement to its effect: handleQuery of the HTTP API *)
(* and DB.Exec of the client parse it (Parser), plan it and execute it     *)
(* (Executor).  Users either write a statement down as Grammar says, or    *)
(* put phrases together that may make sense or not.                        *)
(***************************************************************************)
EXTENDS Executor, Grammar

CONSTANTS
    Statements,    \* the statements that users write down
    Openings,      \* kind of statement -> the tokens with which it begins
    Phrases,       \* kind of statement -> phrases that users may put after them
    MaxPhrases,    \* bound on their number
    TypedDatabase  \* contents of the tables for statements made of phrases

ASSUME MaxPhrasesAssumption == MaxPhrases \in Nat

VARIABLES
    typing, \* the kind of statement that is made of phrases, or "no"
    text,   \* the phrases of the text
    meant,  \* history: the statement that was written down
    heard   \* what Parse made of the text

sqlVars == <<vars, typing, text, meant, heard>>

Unheard == [outcome |-> "none"]

SqlInit ==
    /\ Init
    /\ typing \in {"no"} \cup DOMAIN Openings
    /\ typing # "no" => tables = TypedDatabase
    /\ text = <<>> /\ meant = Idle /\ heard = Unheard

Tokens == IF typing = "no" THEN FlattenSeq(text) ELSE Openings[typing] \o FlattenSeq(text)

\* Parse is called and, if it succeeds, Plan and Execute.
Exec(parsed) ==
    /\ Ready /\ heard' = parsed
    /\ \/ parsed.outcome = "ok" /\ Begin(parsed.stmt)
       \/ /\ parsed.outcome \in {"error", "spins"}
          /\ status' = parsed.outcome /\ stmt' = Idle /\ it' = NoRows
          /\ before' = tables /\ ran' = ran + 1
          /\ UNCHANGED <<tables, expected, rekeyed>>

Parsed == [s \in Statements |-> Parse(Text(s))]

\* Rows have different keys.
Query(s) ==
    /\ typing = "no"
    /\ s.kind = "insert" /\ s.from \in DOMAIN Schema => evalLiteral(s.values[1]) \notin DOMAIN tables[s.from]
    /\ Exec(Parsed[s])
    /\ text' = <<Text(s)>> /\ meant' = s
    /\ UNCHANGED typing

Type(phrase) ==
    /\ typing # "no" /\ heard = Unheard
    /\ Len(text) < MaxPhrases
    /\ text' = Append(text, phrase)
    /\ UNCHANGED <<vars, typing, meant, heard>>

Submit ==
    /\ typing # "no" /\ heard = Unheard
    /\ Exec(Parse(Tokens))
    /\ UNCHANGED <<typing, text, meant>>

SqlNext ==
    \/ \E s \in Statements : Query(s)
    \/ typing # "no" /\ \E phrase \in Phrases[typing] : Type(phrase)
    \/ Submit
    \/ Execute /\ UNCHANGED <<typing, text, meant, heard>>

Spec == SqlInit /\ [][SqlNext]_sqlVars

-----------------------------------------------------------------------------
(* Properties.                                                             *)

\* What the documentation says that ts means: at most one statement.
Meanings(ts) ==
    LET rest == SubSeq(ts, Len(Openings[typing]) + 1, Len(ts))
    IN CASE typing = "no" -> {meant}
         [] typing = "delete" -> {[kind |-> "delete", from |-> ts[3].name, where |-> e] : e \in Trees(rest, 1)}
         [] typing = "create" ->
              IF rest = <<>> \/ Last(rest).t # ")" THEN {}
              ELSE {[kind |-> "create", from |-> ts[3].name, columns |-> cols] :
                      cols \in {c \in ColumnLists(UpTo(rest, Len(rest))) :
                                  Cardinality({i \in DOMAIN c : c[i].pk}) <= 1}}

\* How tightly the token before or after an operand holds it.
Rank(t) == CASE t = "OR" -> 1 [] t = "AND" -> 2 [] t = "NOT" -> 3 [] t \in ComparisonOps \cup {"IS"} -> 4 [] OTHER -> 0

\* After IS NULL, parseExpr returns to whoever called it for the operand,
\* although an operator follows that binds more tightly than the one before.
CutShort(ts) ==
    \E i \in Find(ts, {"IS"}) : \E j \in 1..(i - 1) :
        LET k == IF i < Len(ts) /\ ts[i + 1].t = "NOT" THEN i + 3 ELSE i + 2
        IN /\ Trees(SubSeq(ts, j + 1, i - 1), 5) # {}
           /\ ts[j].t \in ComparisonOps \/ (k <= Len(ts) /\ Rank(ts[k].t) > Rank(ts[j].t))

\* A comparison with NOT on its right, which the grammar does not have.
ComparesNot(ts) == \E i \in Find(ts, ComparisonOps) : i < Len(ts) /\ ts[i + 1].t = "NOT"

\* A text that the documentation gives a meaning (sql/docs/parser.md:63, the
\* comments of parser.go) is read to its end and with that meaning, and what is
\* accepted of any other text means what was read of it, except where IS NULL
\* cuts an expression short (parser.go:371), comparisons with NOT, and commas
\* between columns, which are optional.
ReadAsDocumented ==
    heard # Unheard =>
        \/ CutShort(Tokens)
        \/ /\ Meanings(Tokens) # {} =>
                heard.outcome = "ok" /\ heard.read = Len(Tokens) /\ heard.stmt \in Meanings(Tokens)
           /\ heard.outcome = "ok" =>
                \/ typing = "create" \/ ComparesNot(Tokens)
                \/ heard.stmt \in Meanings(SubSeq(Tokens, 1, heard.read))

\* Parse ends, unless there is a NULL that is not part of a NOT NULL after a type
\* or another constraint: the loop of parseColumnDef goes on at NULL, which only
\* NOT consumes (parser.go:280).
ParserEnds ==
    heard.outcome = "spins" =>
        \E i \in Find(Tokens, {"NULL"}) : Tokens[i - 1].t # "NOT" \/ Tokens[i - 2].t \in {"(", "COMMA"}

=============================================================================
