---------------------------- MODULE ScriptEngine ----------------------------
(***************************************************************************)
(* The script engine of the test tool (src/jcvos/script_engine): a         *)
(* recursive-descent parser that compiles a script into sequences of       *)
(* operators, moving every operator to the outermost sequence its sources  *)
(* allow, and the machine that runs them.                                  *)
(*                                                                         *)
(* A script is a sequence of tokens.  Compiling it creates operators       *)
(* (records, named by their index): the program, one combo per line, one   *)
(* single statement per stage of a line, and the atoms.  A single          *)
(* statement takes a row from the out-port of the stage before it, runs    *)
(* its atoms, then its state operator (a feature of a plugin, a filter, a  *)
(* vector or a loop over a table) as long as that asks for more.           *)
(*                                                                         *)
(* Values are integers (the 64-bit type every constant has), a truth value *)
(* is 0 or 1, and a row has one column.  The first syntax error ends the   *)
(* compilation: the code goes on with the next line only to report more    *)
(* errors, and does not run the script.  An assertion that fails stops the *)
(* script like an exception, which is the debug build.                     *)
(***************************************************************************)
EXTENDS Integers, Sequences, SequencesExt
LOCAL INSTANCE Bitwise

CONSTANTS Numerals,    \* the numeral tokens, a function to their values
          Features,    \* the feature names of the default plugin
          Names,       \* the words used for variables and columns
          Texts        \* the scripts, each a sequence of tokens

VARIABLES text,        \* the script
          ops,         \* the operators compiled so far
          status,      \* "compile", "run", "done", "syntax" or "thrown"
          pc, at,      \* the operator of the program, and of its combo, that is next
          running,     \* whether a statement of this pass over the combo has work left
          m            \* what the operators keep, see Fresh
vars == <<text, ops, status, pc, at, running, m>>

None == 0
Program == 1           \* the operator that is the whole script
StateKinds == {"feature", "filter", "vector", "loop"}

-----------------------------------------------------------------------------
(* The compiler.  c.rest are the tokens not read, c.ops the operators made, *)
(* c.err whether an error was thrown, c.op what the last rule matched.      *)

Tok(c) == IF c.rest = <<>> THEN "eof" ELSE Head(c.rest)
Next1(c) == [c EXCEPT !.rest = Tail(@)]
Error(c) == [c EXCEPT !.rest = <<>>, !.err = TRUE, !.op = None]
Match(c, tok) == IF Tok(c) = tok THEN Next1(c) ELSE Error(c)
NoMatch(c) == [c EXCEPT !.op = None]

Dependency(c, src) == IF src = <<>> THEN 0 ELSE LET d == {c.ops[src[i]].dep : i \in DOMAIN src}
                                                IN CHOOSE x \in d : \A y \in d : y <= x
(* A new operator; its dependency is the largest of its sources'. *)
Make(c, kind, arg, src) ==
  [c EXCEPT !.ops = Append(@, [kind |-> kind, arg |-> arg, src |-> src, super |-> None,
                               list |-> <<>>, state |-> None, dep |-> Dependency(c, src)]),
            !.op = Len(c.ops) + 1]
MakeSequence(c, kind, super) ==
  [Make(c, kind, None, <<>>) EXCEPT !.ops[Len(c.ops) + 1] =
     [@ EXCEPT !.super = super, !.dep = c.ops[super].dep + 1]]

(* An operator goes to the sequence it is added to, or, when it depends on *)
(* less than the sequence does, to the sequence around it.                 *)
RECURSIVE AddOp(_, _, _)
AddOp(c, s, o) ==
  IF c.ops[s].kind = "single" /\ c.ops[o].kind \in StateKinds
  THEN [c EXCEPT !.ops[s].state = o]
  ELSE IF c.ops[s].kind # "program" /\ c.ops[o].dep < c.ops[s].dep
  THEN AddOp(c, c.ops[s].super, o)
  ELSE [c EXCEPT !.ops[s].list = Append(@, o)]

Emit(c, s, kind, arg, src) == LET n == Make(c, kind, arg, src) IN AddOp(n, s, n.op)

InPort(c, s) == LET l == c.ops[s].list IN
                IF c.ops[s].kind = "single" /\ l # <<>> /\ c.ops[l[1]].kind = "inport" THEN l[1] ELSE None
(* The statement reads src from now on: one level deeper than src.        *)
(* (A slip: the in-port itself counts as shallow as src.)                   *)
SetSourceShallow(c, s, src) ==
  LET n == Make(c, "inport", None, <<src>>)
  IN [n EXCEPT !.ops[s].dep = c.ops[src].dep + 1, !.ops[s].list = Append(@, n.op)]
SetSource(c, s, src) ==
  IF InPort(c, s) # None THEN Error(c)
  ELSE LET n == Make(c, "inport", None, <<src>>)
           d == c.ops[src].dep + 1
       IN [n EXCEPT !.ops[n.op].dep = d, !.ops[s].dep = d, !.ops[s].list = Append(@, n.op)]

LevelOps == [bool |-> {"and", "or"}, add |-> {"+", "-"}, mul |-> {"*", "/"}, bit |-> {"&", "^"}]
RelOps == {"<", ">", "<=", ">=", "=="}

(* The grammar is recursive: a rule reaches the others by their names. *)
RECURSIVE Rule(_, _, _), BinaryRest(_, _, _)
Below == [bool |-> "relation", add |-> "mul", mul |-> "bit", bit |-> "factor"]

Column(c, s) ==
  IF InPort(c, s) = None THEN Error(c)
  ELSE IF Tok(c) \in Names THEN Next1(Emit(c, s, "column", Tok(c), <<InPort(c, s)>>))
  ELSE [c EXCEPT !.op = InPort(c, s)]

Variable(c, s) == IF Tok(c) \in Names THEN Next1(Emit(c, s, "variable", Tok(c), <<>>)) ELSE Error(c)

Factor(c, s) ==
  CASE Tok(c) \in DOMAIN Numerals -> Next1(Emit(c, s, "constant", Tok(c), <<>>))
    [] Tok(c) = "(" -> Match(Rule("expression", Next1(c), s), ")")
    [] Tok(c) = "$" -> Variable(Next1(c), s)
    [] Tok(c) = "." -> Column(Next1(c), s)
    [] OTHER -> NoMatch(c)

(* c.op is the left side; every operator of the level binds to the left. *)
BinaryRest(level, c, s) ==
  IF Tok(c) \notin LevelOps[level] THEN c
  ELSE LET r == Rule(Below[level], Next1(c), s)
       IN IF r.op = None THEN Error(r)
          ELSE BinaryRest(level, Emit(r, s, Tok(c), None, <<c.op, r.op>>), s)

Binary(level, c, s) == LET l == Rule(Below[level], c, s)
                       IN IF l.op = None THEN l ELSE BinaryRest(level, l, s)

(* a, a : b or a : b : c *)
Expression(c, s) ==
  LET a == Rule("add", c, s)
      b == Rule("add", Next1(a), s)
      d == Rule("add", Next1(b), s)
  IN IF a.op = None \/ Tok(a) # ":" THEN a
     ELSE IF b.op = None THEN Error(b)
     ELSE IF Tok(b) # ":" THEN Emit(b, s, "vector", None, <<a.op, b.op>>)
     ELSE IF d.op = None THEN Error(d)
     ELSE Emit(d, s, "vector", None, <<a.op, b.op, d.op>>)

(* The operator classes a relation compiles to, and the side that comes first. *)
RelationOp(tok) == CASE tok \in {"<", ">"} -> "LT" [] tok \in {"<=", ">="} -> "LE" [] OTHER -> "EQ"
Sides(tok, l, r) == IF tok \in {">", ">="} THEN <<r, l>> ELSE <<l, r>>

Relation(c, s) ==
  CASE Tok(c) = "(" -> LET e == Rule("bool", Next1(c), s)
                       IN IF e.op = None THEN Error(e) ELSE Match(e, ")")
    [] Tok(c) = "not" -> LET e == Rule("relation", Next1(c), s)
                         IN IF e.op = None THEN Error(e) ELSE Emit(e, s, "not", None, <<e.op>>)
    [] OTHER -> LET l == Rule("expression", c, s)
                    r == Rule("expression", Next1(l), s)
                IN IF l.op = None THEN l
                   ELSE IF Tok(l) \notin RelOps \/ r.op = None THEN Error(l)
                   ELSE Emit(r, s, RelationOp(Tok(l)), None, Sides(Tok(l), l.op, r.op))

-----------------------------------------------------------------------------
RECURSIVE Parameters(_, _, _, _), Chain(_, _), Lines(_)

(* One parameter of feature f of statement s: the value of an expression,  *)
(* or @{statement}, whose rows become the rows of s.                       *)
PushParam(c, s, f, name) ==
  IF Tok(c) = "@"
  THEN LET n == Match(Rule("single", NoMatch(Match(Next1(c), "{")), c.ops[s].super), "}")
           r == SetSource(n, s, n.op)
       IN IF n.err \/ r.err THEN Error(n) ELSE Emit(r, s, "push", <<f, name>>, <<r.op>>)
  ELSE LET e == Rule("factor", c, s)
       IN IF e.op = None THEN e ELSE Emit(e, s, "push", <<f, name>>, <<e.op>>)

(* The values without a name, numbered from 0, then the named ones. *)
Named == -1
Parameters(c, s, f, next) ==
  LET n == PushParam(Next1(c), s, f, Named)
      v == PushParam(c, s, f, next)
  IN IF Tok(c) = "-p" THEN IF n.op = None THEN Error(n) ELSE Parameters(n, s, f, Named)
     ELSE IF next = Named THEN c
     ELSE IF v.op = None THEN IF v.err THEN v ELSE c
     ELSE Parameters(v, s, f, next + 1)

Feature(c, s) ==
  IF Tok(c) \notin Features THEN Error(c)
  ELSE LET w == Make(Next1(c), "feature", Tok(c), <<>>)
           p == Parameters(w, s, w.op, 0)
       IN AddOp([p EXCEPT !.ops[w.op].src = IF InPort(p, s) = None THEN <<>> ELSE <<InPort(p, s)>>],
                s, w.op)

Filter(c, s) ==
  IF InPort(c, s) = None THEN Error(c)
  ELSE LET e == Rule("bool", c, s)
       IN IF e.op = None THEN Error(e) ELSE Emit(e, s, "filter", None, <<InPort(c, s), e.op>>)

(* A stage of a line, reading the stage c.op when there is one. *)
SingleSt(c, combo) ==
  LET n == MakeSequence(c, "single", combo)
      s == n.op
      b == IF c.op = None THEN n ELSE SetSource(n, s, c.op)
      e == CASE Tok(b) = "(" -> Match(Rule("expression", Next1(b), s), ")")
             [] Tok(b) = "filter" -> Filter(Next1(b), s)
             [] Tok(b) = ":" -> Feature(Next1(b), s)
             [] OTHER -> Error(b)
  IN [AddOp(e, combo, s) EXCEPT !.op = s]

Chain(c, combo) == IF Tok(c) = "|" THEN Chain(Rule("single", Next1(c), combo), combo) ELSE c

(* What a line starts with: a statement, @{statement}, @variable, or a value. *)
TableSt(c, combo) ==
  IF Tok(c) = "{" THEN Match(Rule("single", Next1(c), combo), "}")
  ELSE LET v == Variable(c, combo)
           s == MakeSequence(v, "single", combo)
       IN IF v.err THEN v
          ELSE [AddOp(Emit(s, s.op, "loop", None, <<v.op>>), combo, s.op) EXCEPT !.op = s.op]

First(c, combo) == CASE Tok(c) \in {"(", "filter", ":"} -> Rule("single", c, combo)
                     [] Tok(c) = "@" -> TableSt(Next1(c), combo)
                     [] OTHER -> Rule("factor", c, combo)

Assign(c) == IF Tok(c) # "=>" THEN c
             ELSE IF Tok(Next1(c)) \notin Names THEN Error(c)
             ELSE Next1(Emit(Next1(c), Program, "assign", Tok(Next1(c)), <<c.op>>))

ComboSt(c, program) ==
  LET n == MakeSequence(c, "combo", program)
      f == First(NoMatch(n), n.op)
      e == Chain(f, n.op)
      k == AddOp(Emit(e, n.op, "collector", None, <<e.op>>), program, n.op)
  IN IF f.op = None \/ e.err THEN Error(e)
     ELSE IF e.ops[n.op].list = <<>> THEN Assign(e)
     ELSE Assign([k EXCEPT !.op = Len(e.ops) + 1])

Rule(name, c, s) == CASE name = "factor" -> Factor(c, s)
                      [] name = "expression" -> Expression(c, s)
                      [] name = "relation" -> Relation(c, s)
                      [] name = "single" -> SingleSt(c, s)
                      [] name = "combo" -> ComboSt(c, s)
                      [] OTHER -> Binary(name, c, s)

Lines(c) == CASE Tok(c) = "eof" -> c
              [] Tok(c) = "newline" -> Lines(Next1(c))
              [] Tok(c) = "exit" -> Lines(Emit(Next1(c), Program, "exit", None, <<>>))
              [] OTHER -> Lines(Rule("combo", c, Program))

Parse(t) == Lines(Make([rest |-> t, ops |-> <<>>, err |-> FALSE, op |-> None], "program", None, <<>>))

-----------------------------------------------------------------------------
(* Running.  m.val is the last value of an operator, m.row the row an      *)
(* in-port holds, m.out the rows in the out-port of a statement, m.more    *)
(* whether its state operator asked to go on, m.fresh whether it never     *)
(* ran, m.count how often a feature, vector or loop was called for its     *)
(* input, m.param the parameters pushed, m.table what a collector holds.   *)

NoRow == [v |-> 0, columns |-> FALSE, present |-> FALSE]
Row(v) == [v |-> v, columns |-> TRUE, present |-> TRUE]
Value(v) == [v |-> v, columns |-> FALSE, present |-> TRUE]

Fresh(c) == LET ids == DOMAIN c.ops IN
  [val |-> [o \in ids |-> 0], row |-> [o \in ids |-> NoRow], out |-> [o \in ids |-> <<>>],
   more |-> [o \in ids |-> FALSE], fresh |-> [o \in ids |-> TRUE], count |-> [o \in ids |-> 0],
   param |-> [o \in ids |-> [n \in {Named, 0} |-> 0]], table |-> [o \in ids |-> <<>>],
   set |-> [o \in ids |-> <<>>], thrown |-> FALSE,
   names |-> [n \in Names |-> [present |-> FALSE, rows |-> <<>>]]]

Truth(b) == IF b THEN 1 ELSE 0
Quotient(a, b) == LET q == (IF a < 0 THEN -a ELSE a) \div (IF b < 0 THEN -b ELSE b)
                  IN IF (a < 0) = (b < 0) THEN q ELSE -q
(* CmpLT is <= and CmpLE is <, whatever their names say. *)
CmpLT(l, r) == l <= r
CmpLE(l, r) == l < r
Compute(kind, l, r) ==
  CASE kind = "+" -> l + r [] kind = "-" -> l - r [] kind = "*" -> l * r [] kind = "/" -> Quotient(l, r)
    [] kind = "&" -> l & r [] kind = "^" -> l ^^ r
    [] kind = "and" -> Truth(l = 1 /\ r = 1) [] kind = "or" -> Truth(l = 1 \/ r = 1)
    [] kind = "EQ" -> Truth(l = r) [] kind = "LT" -> Truth(CmpLT(l, r)) [] kind = "LE" -> Truth(CmpLE(l, r))

Throw(k) == [m |-> [k EXCEPT !.thrown = TRUE], ok |-> FALSE]
Returns(k, ok) == [m |-> k, ok |-> ok]
Push(k, s, row) == [k EXCEPT !.out[s] = Append(@, row)]

(* What a feature reads in a parameter: the text of the value, made a number *)
(* again.  A row with columns has no text, and no text is 0.                *)
Text(row) == IF row.columns THEN 0 ELSE row.v
ValueOf(k, o) == IF ops[o].kind = "inport" THEN Text(k.row[o]) ELSE k.val[o]
TableOf(k, o) == IF ops[o].kind = "collector" THEN k.table[o] ELSE k.set[o]

(* An atom: FALSE ends the list it is in. *)
InvokeAtom(k, o) ==
  LET op == ops[o]
      l == op.src[1]
  IN CASE op.kind = "constant" -> Returns([k EXCEPT !.val[o] = Numerals[op.arg]], TRUE)
       [] op.kind = "inport" ->
            IF k.out[l] = <<>> THEN Returns([k EXCEPT !.row[o] = NoRow], FALSE)
            ELSE Returns([k EXCEPT !.row[o] = Head(k.out[l]), !.out[l] = Tail(@)], TRUE)
       [] op.kind = "column" -> IF ~k.row[l].columns THEN Throw(k)
                                ELSE Returns([k EXCEPT !.val[o] = k.row[l].v], TRUE)
       [] op.kind = "variable" -> IF ~k.names[op.arg].present THEN Throw(k)
                                  ELSE Returns([k EXCEPT !.set[o] = k.names[op.arg].rows], TRUE)
       [] op.kind = "push" -> Returns([k EXCEPT !.param[op.arg[1]][op.arg[2]] = ValueOf(k, l)], TRUE)
       [] op.kind = "not" -> Returns([k EXCEPT !.val[o] = 1 - k.val[l]], k.val[l] = 0)
       [] op.kind = "assign" ->
            Returns(IF TableOf(k, l) = <<>> THEN k
                    ELSE [k EXCEPT !.names[op.arg] = [present |-> TRUE, rows |-> TableOf(k, l)]], TRUE)
       [] op.kind = "collector" ->
            Returns(IF k.out[l] = <<>> THEN k
                    ELSE [k EXCEPT !.table[o] = Append(@, Head(k.out[l])), !.out[l] = Tail(@)], FALSE)
       [] OTHER -> Returns([k EXCEPT !.val[o] = Compute(op.kind, k.val[l], k.val[op.src[2]])], TRUE)

RECURSIVE InvokeOpList(_, _)
InvokeOpList(k, list) ==
  IF list = <<>> THEN Returns(k, TRUE)
  ELSE LET r == InvokeAtom(k, Head(list)) IN IF r.ok THEN InvokeOpList(r.m, Tail(list)) ELSE r

(* What the features of the plugins do with a row: "gen" makes rows 1..n, *)
(* "dup" gives each row again, in two calls, "pair" gives it and its      *)
(* successor in one call, "add" adds the parameter -p to it.              *)
InvokeFeature(k, s, o) ==
  LET name == ops[o].arg
      row == IF ops[o].src = <<>> THEN NoRow ELSE k.row[ops[o].src[1]]
      counted == [k EXCEPT !.count[o] = @ + 1]
  IN CASE name = "gen" -> IF k.count[o] >= k.param[o][0] THEN Returns(k, FALSE)
                          ELSE Returns(Push(counted, s, Row(k.count[o] + 1)), TRUE)
       [] name = "dup" -> IF k.count[o] = 0 THEN Returns(Push(counted, s, row), TRUE)
                          ELSE Returns(Push([k EXCEPT !.count[o] = 0], s, row), FALSE)
       [] name = "pair" -> Returns(Push(Push(k, s, row), s, Row(row.v + 1)), FALSE)
       [] name = "add" -> Returns(Push(k, s, Row(row.v + k.param[o][Named])), FALSE)

(* The bounds are read once: count is then the next value, param the end and the step. *)
InvokeVector(k, s, o) ==
  LET src == ops[o].src
      begin == k.val[src[1]]
      end == k.val[src[2]]
      step == IF Len(src) = 3 THEN k.val[src[3]] ELSE 1
      v == IF ~k.fresh[o] THEN k
           ELSE [k EXCEPT !.fresh[o] = FALSE, !.count[o] = begin,
                          !.param[o] = [n \in {Named, 0} |-> IF n = 0 THEN end ELSE step]]
  IN IF k.fresh[o] /\ (end - begin) * step < 0 THEN Throw(k)
     ELSE IF v.count[o] >= v.param[o][0] THEN Returns(v, FALSE)
     ELSE Returns(Push([v EXCEPT !.count[o] = @ + v.param[o][Named]], s, Value(v.count[o])), TRUE)

InvokeLoop(k, s, o) ==
  LET table == k.set[ops[o].src[1]]
      i == k.count[o] + 1
  IN IF i > Len(table) THEN Returns(k, FALSE)
     ELSE Returns(Push([k EXCEPT !.count[o] = i], s, table[i]), i < Len(table))

(* The filter asks its condition with a dummy for the value, and a `not`  *)
(* asserts that there is none.                                            *)
InvokeFilter(k, s, o) ==
  LET condition == ops[o].src[2] IN
  IF ops[condition].kind = "not" THEN Throw(k)
  ELSE Returns(IF k.val[condition] = 1 THEN Push(k, s, k.row[ops[o].src[1]]) ELSE k, FALSE)

InvokeState(k, s, o) == CASE ops[o].kind = "feature" -> InvokeFeature(k, s, o)
                          [] ops[o].kind = "vector" -> InvokeVector(k, s, o)
                          [] ops[o].kind = "loop" -> InvokeLoop(k, s, o)
                          [] ops[o].kind = "filter" -> InvokeFilter(k, s, o)

(* The state operator runs until there is a row to take or it has no more. *)
RECURSIVE RunState(_, _)
RunState(k, s) ==
  IF ~k.more[s] \/ k.out[s] # <<>> THEN k
  ELSE LET r == InvokeState(k, s, ops[s].state) IN RunState([r.m EXCEPT !.more[s] = r.ok], s)

(* One call of a statement: TRUE while it has rows, or more to do for one. *)
InvokeSingle(k, s) ==
  LET first == [k EXCEPT !.fresh[s] = FALSE, !.more[s] = @ \/ (k.fresh[s] /\ ops[s].list = <<>>)]
      l == InvokeOpList(first, ops[s].list)
      fed == IF first.more[s] THEN first
             ELSE [l.m EXCEPT !.more[s] = l.ok /\ ops[s].list # <<>>]
      r == RunState(fed, s)
  IN Returns(r, r.out[s] # <<>>)

-----------------------------------------------------------------------------
Init == /\ text \in Texts
        /\ ops = <<>> /\ status = "compile"
        /\ pc = 1 /\ at = 1 /\ running = FALSE /\ m = <<>>

Compile ==
  LET c == Parse(text) IN
  /\ status = "compile"
  /\ ops' = c.ops
  /\ status' = IF c.err THEN "syntax" ELSE "run"
  /\ m' = Fresh(c)
  /\ UNCHANGED <<text, pc, at, running>>

Current == ops[Program].list[pc]
After(r) == IF r.m.thrown THEN "thrown" ELSE IF r.ok THEN "run" ELSE "done"

(* An operator of the program itself; one that answers FALSE ends the script. *)
InvokeProgramOp ==
  LET r == InvokeAtom(m, Current) IN
  /\ status = "run" /\ pc <= Len(ops[Program].list)
  /\ ops[Current].kind \notin {"combo", "exit"}
  /\ m' = r.m /\ status' = After(r) /\ pc' = pc + 1
  /\ UNCHANGED <<text, ops, at, running>>

(* One operator of the combo, in turn. *)
InvokeComboOp ==
  LET o == ops[Current].list[at]
      r == IF ops[o].kind = "single" THEN InvokeSingle(m, o) ELSE InvokeAtom(m, o)
  IN /\ status = "run" /\ pc <= Len(ops[Program].list) /\ ops[Current].kind = "combo"
     /\ at <= Len(ops[Current].list)
     /\ m' = r.m /\ running' = (running \/ r.ok) /\ at' = at + 1
     /\ status' = IF r.m.thrown THEN "thrown" ELSE "run"
     /\ UNCHANGED <<text, ops, pc>>

(* The combo starts over as long as an operator had work left. *)
EndPass ==
  /\ status = "run" /\ pc <= Len(ops[Program].list) /\ ops[Current].kind = "combo"
  /\ at > Len(ops[Current].list)
  /\ at' = 1 /\ running' = FALSE
  /\ pc' = IF running THEN pc ELSE pc + 1
  /\ UNCHANGED <<text, ops, status, m>>

Finish == /\ status = "run"
          /\ pc <= Len(ops[Program].list) => ops[Current].kind = "exit"
          /\ status' = "done"
          /\ UNCHANGED <<text, ops, pc, at, running, m>>

Next == Compile \/ InvokeProgramOp \/ InvokeComboOp \/ EndPass \/ Finish
Spec == Init /\ [][Next]_vars
=============================================================================
