---------------------------- MODULE MCTypecheck ----------------------------
(* Typecheck on graphs that GraphBuilder builds, of the function bodies below *)
(* and for every way their conditions may settle a type.                      *)
EXTENDS Typecheck

CONSTANT NodeCount       \* the bound on the size of a graph

Builder == INSTANCE GraphBuilder WITH Programs <- {}, Variables <- {}, body <- None, graph <- None

Nodes == 1..NodeCount

St(k, s) == [k |-> k, s |-> s, v |-> <<>>]
Block(s) == St("block", s)
Expr == St("expr", <<>>)
Jump(k) == Block(<<St(k, <<>>)>>)
Empty == Block(<<>>)
If(a, b) == St("if", <<a, b>>)
While(b) == St("while", <<b>>)
Do(b) == St("do", <<b>>)

Bodies ==
  {Block(<<If(a, b), Expr>>) : a, b \in {Empty, Jump("return"), Jump("throw")}}
    \cup {Block(<<Expr, If(Empty, Empty)>>), Block(<<If(Empty, Empty), If(Empty, Empty)>>)}
    \cup {Block(<<If(Block(<<If(Empty, Jump("return"))>>), Empty)>>)}
    \cup {Block(<<While(b)>>) : b \in {Empty, Block(<<Expr>>)} \cup {Jump(k) : k \in {"break", "continue", "return"}}}
    \cup {Block(<<While(Block(<<If(a, Empty)>>))>>) : a \in {Empty, Jump("break"), Jump("continue")}}
    \cup {Block(<<If(Block(<<While(Empty)>>), Empty)>>)}
    \cup {Block(<<If(Block(<<Do(b)>>), Empty)>>) : b \in {Empty, Jump("break")}}
    \cup {Block(<<Do(Block(<<If(a, Empty)>>))>>) : a \in {Empty, Jump("break")}}
    \cup {Block(<<St("try", <<Block(<<If(Jump("throw"), Empty)>>), Block(<<Expr>>)>>)>>)}
    \cup {Block(<<St("switch", <<St("case", <<Expr>>), St("default", <<St("break", <<>>)>>)>>)>>)}

\* if (g()) { do { continue; } while (c); }
ContinueForEver == {Block(<<If(Block(<<Do(Jump("continue"))>>), Empty)>>)}

\* What the arms of a branch learn of a condition that is a call, its negation,
\* the value of the function's first expression, or nothing of the kind.
Conditions == {"call", "not", "first", "opaque"}

\* The graph g, where the condition of each branch b is conds[b] and calls have
\* the type t.
Typed(g, conds, t) ==
  LET n == Len(g.type)
      branch(m) == CHOOSE b \in 1..n : m \in Builder!Followers(g, b)
      test(m) == CHOOSE c \in 1..n : branch(m) \in Builder!Followers(g, c)
      labelled == {c \in 1..n : g.label[c] # <<>> /\ g.type[c] # "CatchException"} \ {Builder!Undefined}
      first == CHOOSE c \in labelled : \A d \in labelled : c <= d
      learnt(m) ==
        LET cond == conds[branch(m)]
            settled == IF cond = "opaque" THEN {} ELSE {IF cond = "first" THEN first ELSE test(m)}
        IN  [x \in settled |-> (g.type[m] = "IfTrue") # (cond = "not")]
  IN  [next |-> [m \in Nodes |-> IF m <= n THEN Builder!Followers(g, m) ELSE {}],
       truthy |-> [m \in Nodes |-> IF m <= n /\ g.type[m] \in {"IfTrue", "IfFalse"}
                                   THEN learnt(m) ELSE [x \in {} |-> TRUE]],
       type |-> [m \in Nodes |-> t]]

Branches(g) == {b \in DOMAIN g.type : g.type[b] \in {"If", "Loop"}}

GraphsOf(bodies, ts) ==
  LET gs == {Builder!BuildFromAst(b) : b \in bodies}
  IN  UNION {{Typed(g, conds, t) : conds \in [Branches(g) -> Conditions], t \in ts} : g \in gs}

SomeTypes == {{}, {"number"}, {"null", "number"}, {"number", "string"}, {"null", "undefined", "number"}}

BodyGraphs == GraphsOf(Bodies, SomeTypes)
LoopGraphs == GraphsOf(ContinueForEver, {{}, {"null", "number"}})
=============================================================================
