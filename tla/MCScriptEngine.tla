--------------------------- MODULE MCScriptEngine ---------------------------
(* Scripts for TLC: every shape of expression over two operators of every  *)
(* pair of levels, every condition of two relations, every line of up to   *)
(* three stages, and pairs of lines joined by a variable.                  *)
EXTENDS ScriptMeaning

MCNumerals == [t \in {"0", "1", "2", "3"} |-> CASE t = "0" -> 0 [] t = "1" -> 1 [] t = "2" -> 2 [] t = "3" -> 3]

Ops == {"+", "-", "*", "/", "&"}
Exps == {Bin(a, Bin(b, Col, Num("2")), Num("3")) : a, b \in Ops}
        \cup {Bin(a, Num("3"), Bin(b, Col, Num("2"))) : a, b \in Ops \ {"/"}}

OneLine(stages) == <<Line(stages, "")>>
Gen(tok) == [k |-> "gen", tok |-> tok]
Keep(c) == [k |-> "filter", c |-> c]
Plain(k) == [k |-> k]
Add(e) == [k |-> "add", e |-> e]

Is(tok) == Rel("==", Col, Num(tok))
Atoms == {Is("1"), Is("2"), Rel("==", Num("1"), Num("1")), Rel("==", Num("2"), Bin("+", Col, Num("1")))}
Conds == Atoms \cup {Both(o, l, r) : o \in {"and", "or"}, l, r \in Atoms}
               \cup {Both(o, Is("1"), Both(q, Is("2"), Is("3"))) : o, q \in {"and", "or"}}
               \cup {Both(o, Both(q, Is("1"), Is("2")), Is("3")) : o, q \in {"and", "or"}}
               \cup {Both("and", l, Not(r)) : l \in Atoms, r \in {Is("1"), Both("or", Is("1"), Is("3"))}}
               \cup {Both("and", Not(l), r) : l \in {Is("2"), Is("3")}, r \in Atoms}

Stages == {Keep(Is("2")), Plain("dup"), Plain("pair"), Add(Num("1")), Add(Col), Add(Bin("+", Col, Num("1")))}
Steps(end) == [k |-> "vector", a |-> Num("1"), b |-> end, c |-> Num("2")]
Starts == {Gen("0"), Gen("3"), [k |-> "table", of |-> Gen("2")], Steps(Bin("+", Num("3"), Num("2"))),
           [k |-> "double", of |-> Steps(Bin("+", Num("3"), Num("2")))]}

MCPrograms ==
  {OneLine(<<Gen("3"), Add(e)>>) : e \in Exps}
  \cup {OneLine(<<Gen("3"), Keep(c), a>>) : c \in Conds, a \in {Plain("dup"), Keep(Is("2"))}}
  \cup {OneLine(<<g>>) : g \in Starts}
  \cup {OneLine(<<Gen("3"), a, b, d>>) : a, b, d \in Stages}
  \cup {OneLine(<<[k |-> "table", of |-> Gen("2")], Plain("dup"), a, b>>) : a, b \in {Plain("dup"), Plain("pair"), Keep(Is("1"))}}
  \cup {<<Line(<<Gen("2"), a>>, "x"), Line(<<[k |-> "loop", name |-> "x"], b>>, "")>> : a, b \in Stages}
  \cup {<<Line(<<Gen("2")>>, "x"), Line(<<[k |-> "exit"]>>, ""), Line(<<g>>, "")>> : g \in Starts}
  \cup {<<Line(<<Gen("3"), Keep(c)>>, "x"), Line(<<Gen("2"), a>>, "x"), Line(<<[k |-> "loop", name |-> "x"]>>, "")>> :
          c \in {Is("1"), Both("and", Not(Is("2")), Not(Is("3")))}, a \in Stages}

MCRelations == {OneLine(<<Gen("3"), Keep(Rel(o, Col, Num("2")))>>) : o \in {"<", ">", "<=", ">=", "=="}}
               \cup {OneLine(<<Gen("3"), Keep(Both("and", Is("1"), Is(t)))>>) : t \in {"1", "2", "3"}}

MCTexts == {Written(p) : p \in MCPrograms}
MCRelationTexts == {Written(p) : p \in MCRelations}
=============================================================================
