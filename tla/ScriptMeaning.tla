--------------------------- MODULE ScriptMeaning ---------------------------
(***************************************************************************)
(* What a script means, without parser, operators or ports: a line is a    *)
(* sequence of stages, a stage turns the rows it is given into rows, an    *)
(* expression and a condition are trees.  Written gives the tokens of a    *)
(* program with the parentheses its trees need, so that the engine can be  *)
(* compared with the meaning of what it was given.                         *)
(***************************************************************************)
EXTENDS ScriptEngine

CONSTANT Programs      \* the programs, each a sequence of lines

Num(tok) == [k |-> "num", tok |-> tok]
Col == [k |-> "col"]
Bin(op, l, r) == [k |-> "bin", op |-> op, l |-> l, r |-> r]
Rel(op, l, r) == [k |-> "rel", op |-> op, l |-> l, r |-> r]
Both(op, l, r) == [k |-> op, l |-> l, r |-> r]
Not(c) == [k |-> "not", c |-> c]
Line(stages, to) == [stages |-> stages, to |-> to]

Binds(op) == CASE op \in {"+", "-"} -> 1 [] op \in {"*", "/"} -> 2 [] op \in {"&", "^"} -> 3
Paren(need, tokens) == IF need THEN <<"(">> \o tokens \o <<")">> ELSE tokens

RECURSIVE WrittenExp(_, _), WrittenCond(_), WrittenStage(_)
WrittenExp(e, least) ==
  CASE e.k = "num" -> <<e.tok>>
    [] e.k = "col" -> <<".", "v">>
    [] e.k = "bin" -> Paren(Binds(e.op) < least,
                            WrittenExp(e.l, Binds(e.op)) \o <<e.op>> \o WrittenExp(e.r, Binds(e.op) + 1))
Joined(c) == c.k \in {"and", "or"}
WrittenCond(c) ==
  CASE c.k = "rel" -> WrittenExp(c.l, 1) \o <<c.op>> \o WrittenExp(c.r, 1)
    [] c.k = "not" -> <<"not">> \o Paren(Joined(c.c), WrittenCond(c.c))
    [] Joined(c) -> WrittenCond(c.l) \o <<c.k>> \o Paren(Joined(c.r), WrittenCond(c.r))

WrittenStage(s) ==
  CASE s.k = "gen" -> <<":", "gen", s.tok>>
    [] s.k \in {"dup", "pair"} -> <<":", s.k>>
    [] s.k = "add" -> <<":", "add", "-p">> \o WrittenExp(s.e, 4)
    [] s.k = "double" -> <<":", "add", "-p", "@", "{">> \o WrittenStage(s.of) \o <<"}">>
    [] s.k = "vector" -> <<"(">> \o WrittenExp(s.a, 1) \o <<":">> \o WrittenExp(s.b, 1)
                               \o <<":">> \o WrittenExp(s.c, 1) \o <<")">>
    [] s.k = "filter" -> <<"filter">> \o WrittenCond(s.c)
    [] s.k = "loop" -> <<"@", s.name>>
    [] s.k = "exit" -> <<"exit">>
    [] s.k = "table" -> <<"@", "{">> \o WrittenStage(s.of) \o <<"}">>

WrittenLine(line) ==
  FlattenSeq([i \in DOMAIN line.stages |->
                (IF i = 1 THEN <<>> ELSE <<"|">>) \o WrittenStage(line.stages[i])])
  \o (IF line.to = "" THEN <<>> ELSE <<"=>", line.to>>) \o <<"newline">>

Written(p) == FlattenSeq([i \in DOMAIN p |-> WrittenLine(p[i])])

-----------------------------------------------------------------------------
RECURSIVE MeantExp(_, _), Holds(_, _), Meant(_, _, _)
MeantExp(e, v) ==
  CASE e.k = "num" -> Numerals[e.tok]
    [] e.k = "col" -> v
    [] e.k = "bin" -> Compute(e.op, MeantExp(e.l, v), MeantExp(e.r, v))

(* The relations as the parser's comments give them (syntax_parser.cpp, MatchRelationExp). *)
Related(op, l, r) == CASE op = "==" -> l = r [] op = "<" -> l < r [] op = ">" -> l > r
                       [] op = "<=" -> l <= r [] op = ">=" -> l >= r

Holds(c, v) == CASE c.k = "rel" -> Related(c.op, MeantExp(c.l, v), MeantExp(c.r, v))
                 [] c.k = "not" -> ~Holds(c.c, v)
                 [] c.k = "and" -> Holds(c.l, v) /\ Holds(c.r, v)
                 [] c.k = "or" -> Holds(c.l, v) \/ Holds(c.r, v)

Each(rows, F(_)) == FlattenSeq([i \in DOMAIN rows |-> F(rows[i])])

(* The values a stage gives for the values it takes; tables are the variables. *)
Meant(s, rows, tables) ==
  CASE s.k = "gen" -> [i \in 1..Numerals[s.tok] |-> i]
    [] s.k = "dup" -> Each(rows, LAMBDA v : <<v, v>>)
    [] s.k = "pair" -> Each(rows, LAMBDA v : <<v, v + 1>>)
    [] s.k = "add" -> Each(rows, LAMBDA v : <<v + MeantExp(s.e, v)>>)
    [] s.k = "double" -> Each(Meant(s.of, <<>>, tables), LAMBDA v : <<v + v>>)
    [] s.k = "vector" ->
         SelectSeq([i \in 1..10 |-> MeantExp(s.a, 0) + (i - 1) * MeantExp(s.c, 0)],
                   LAMBDA v : v < MeantExp(s.b, 0))
    [] s.k = "filter" -> SelectSeq(rows, LAMBDA v : Holds(s.c, v))
    [] s.k = "loop" -> tables[s.name]
    [] s.k = "table" -> Meant(s.of, <<>>, tables)

MeantLine(line, tables) == FoldLeft(LAMBDA rows, s : Meant(s, rows, tables), <<>>, line.stages)

RECURSIVE MeantProgram(_, _)
MeantProgram(p, tables) ==
  IF p = <<>> THEN <<>>
  ELSE IF p[1].stages[1].k = "exit" THEN [i \in DOMAIN Tail(p) |-> <<>>]
  ELSE LET rows == MeantLine(p[1], tables)
       IN <<rows>> \o MeantProgram(Tail(p), IF p[1].to = "" THEN tables
                                            ELSE [n \in Names |-> IF n = p[1].to THEN rows ELSE tables[n]])

Gathered == LET all == SelectSeq([o \in DOMAIN ops |-> o], LAMBDA o : ops[o].kind = "collector")
            IN [i \in DOMAIN all |-> [j \in DOMAIN m.table[all[i]] |-> m.table[all[i]][j].v]]

-----------------------------------------------------------------------------
(* When a script has run, every line has gathered exactly the rows it      *)
(* means, in their order: precedence, the moving of operators to outer     *)
(* sequences, the parameters pushed and the ports between the stages change *)
(* nothing.  That holds where a `not` is an operand of `and`: at the root   *)
(* of a filter its assertion fails, and inside an `or` a false one skips    *)
(* the filter.  It holds where the rows given to a parameter have a text.   *)
RowsAsWritten ==
  /\ status \notin {"syntax", "thrown"}
  /\ status = "done" => \A p \in Programs : Written(p) = text => Gathered = MeantProgram(p, [n \in Names |-> <<>>])

(* A relation keeps the rows the comments of the parser say. *)
RelationAsWritten == RowsAsWritten
=============================================================================
