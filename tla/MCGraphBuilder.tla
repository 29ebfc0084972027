--------------------------- MODULE MCGraphBuilder ---------------------------
(* GraphBuilder on every function body of a bounded shape: one compound       *)
(* statement, or two nested ones, around jumps and expressions, with or       *)
(* without an expression behind each.                                         *)
EXTENDS GraphBuilder

St(k, s) == [k |-> k, s |-> s, v |-> <<>>]
Expr == St("expr", <<>>)
Block_(s) == St("block", s)

\* Blocks of up to two statements, with the jumps J and those of any function.
Blocks(J) ==
  LET jumps == {St(j, <<>>) : j \in J \cup {"return", "throw"}}
  IN  {Block_(<<>>), Block_(<<Expr>>)}
        \cup {Block_(<<j>>) : j \in jumps}
        \cup {Block_(<<Expr, j>>) : j \in jumps}
        \cup {Block_(<<j, Expr>>) : j \in jumps}

Cases(A) ==
  {<<St("case", a.s), St("default", b.s)>> : a, b \in A}
    \cup {<<St("default", b.s), St("case", a.s)>> : a, b \in A}
    \cup {<<St("case", a.s), St("case", <<>>), St("default", <<Expr>>)>> : a \in A}

\* Statements around the arms A; the others are the arms of a loop, of a loop
\* in which continue is wrong, and of a switch.
Compound(A, B, L, M, S) ==
  {St(k, <<a, b>>) : k \in {"if", "try"}, a \in A, b \in B}
    \cup {St(k, <<b, a>>) : k \in {"if", "try"}, a \in A, b \in B}
    \cup {St("if", <<a, St("empty", <<>>)>>) : a \in A}
    \cup {St(k, <<l>>) : k \in {"while", "of"}, l \in L}
    \cup {St(k, <<m>>) : k \in {"do", "for"}, m \in M}
    \cup {St("switch", c) : c \in Cases(S)}

\* In a case, nothing follows a jump.
CaseArms(J) == {a \in Blocks(J) : Len(a.s) = 2 => a.s[1] = Expr}
LoopJumps(wrong) == {"break", "continue"} \ wrong

One(J, wrong) ==
  Compound(Blocks(J), Blocks(J), Blocks({"break", "continue"}), Blocks({"break", "continue"} \ wrong),
           CaseArms(J \cup {"break"}))

Around(J, wrong) == {Block_(<<c, Expr>>) : c \in One(J, wrong)}

Two(wrong) ==
  LET few == {Block_(<<Expr>>), Block_(<<St("throw", <<>>)>>)}
  IN  Compound(Around({}, wrong), few, Around({"break", "continue"}, wrong),
               Around({"break", "continue"} \ wrong, wrong), {})

Bodies(C) == {Block_(<<c>>) : c \in C} \cup {Block_(<<c, Expr>>) : c \in C}

\* A continue in a do or a for, a switch without default and a jump followed by
\* a statement in a case are built wrong, and left to AnyProgram.
Plain == Bodies(One({}, {"continue"}) \cup Two({"continue"}))

------------------------------------------------------------------------------
(* Bodies that write and read the variables x and y.  Left out, because the   *)
(* builder gets them wrong or fails an assertion of its own: a try that       *)
(* writes, a case that writes and falls through, and two empty blocks in a    *)
(* row behind a merge that needs a phi.                                       *)

Does(k, v) == [k |-> k, s |-> <<>>, v |-> <<v>>]
Testing(S) == S \cup {[s EXCEPT !.v = <<"x">>] : s \in S}

\* What an arm does with x, and how it ends.
Touching == {<<Does(k, "x")>> : k \in Expressions}
Endings(J) == {<<>>} \cup {<<St(j, <<>>)>> : j \in J}
DataArms(J) == {Block_(a \o e) : a \in {<<>>} \cup Touching, e \in Endings(J)}

Branches(J) ==
  {St("if", <<a, b>>) : a \in DataArms(J), b \in {Block_(<<>>), Block_(<<Does("set", "x")>>)}}
    \cup {St("cond", <<Does(k, v), Does(l, "x")>>) : k, l \in Expressions, v \in {"x", "y"}}
    \cup {St("try", <<Block_(a \o <<St("throw", <<>>)>>), b>>) :
              a \in {<<>>, <<Does("expr", "x")>>}, b \in DataArms(J)}
    \cup {St("switch", <<St("case", a \o e), St("default", b)>>) :
              a, b \in Touching, e \in {<<St(j, <<>>)>> : j \in {"break", "return"}}}

\* Handlers that read and write what they caught, also around loops.
Caught ==
  LET e(k) == Does(k, "e")
      loop(k, b) == [St(k, <<Block_(b)>>) EXCEPT !.v = <<"e">>]
  IN  {<<e(k), e("expr")>> : k \in Expressions}
        \cup {<<loop(k, <<e(l)>>), e("expr")>> : k \in {"while", "do", "for"}, l \in Expressions}
        \cup {<<St("if", <<Block_(<<e(k)>>), Block_(<<e(l)>>)>>), e("expr")>> : k, l \in Expressions}
Catching ==
  {[St("try", <<Block_(a \o <<St("throw", <<>>)>>), Block_(h)>>) EXCEPT !.v = <<"e">>] :
     a \in {<<>>, <<Does("expr", "x")>>}, h \in Caught}

\* A loop around b, in which continue is right or not used.
DataLoop(k, b) == {St(k, <<b>>), [St(k, <<b>>) EXCEPT !.v = <<"x">>]}
DataLoops ==
  UNION {DataLoop(k, Block_(<<b>> \o t)) :
           k \in {"while", "of", "do", "for"}, b \in Branches({"break", "return"}), t \in {<<>>} \cup Touching}
    \cup UNION {DataLoop(k, Block_(<<b>> \o t)) :
           k \in {"while", "of"}, b \in Branches({"continue"}) \cup Catching, t \in {<<>>} \cup Touching}

\* Loops in loops, left early or not.
Inner == {[St(k, <<Block_(<<St("if", <<a, Block_(<<>>)>>), Does("expr", v)>>)>>) EXCEPT !.v = w] :
            k \in {"while", "do"}, a \in DataArms({"break"}), v \in {"x", "y"}, w \in {<<>>, <<"x">>}}
Nested == UNION {DataLoop(k, Block_(<<i>> \o t)) :
                   k \in {"while", "for", "of", "do"}, i \in Inner, t \in {<<>>, <<Does("set", "x")>>}}

DataPrograms ==
  {Block_(w \o <<s, Does("expr", "x"), Does("expr", "y")>>) :
     w \in {<<>>, <<Does("set", "x")>>}, s \in Testing(Branches({"return"})) \cup Catching \cup DataLoops \cup Nested}

MeantPrograms == Plain \cup DataPrograms

Irregular ==
  {St("switch", <<>>), St("switch", <<St("case", <<St("return", <<>>)>>)>>),
   St("switch", <<St("case", <<St("return", <<>>), St("break", <<>>)>>), St("default", <<Expr>>)>>)}

AnyProgram == Bodies(One({}, {}) \cup Irregular)
=============================================================================
