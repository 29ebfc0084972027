---------------------------- MODULE ControlFlow ----------------------------
(***************************************************************************)
(* What the statements of JavaScript do, as far as control goes: what may  *)
(* run first, and what may run after what.  It is the measure for the      *)
(* graphs that GraphBuilder builds.                                        *)
(*                                                                         *)
(* A statement is [k, s, v]: its kind, its children, and the variables it  *)
(* uses, a sequence.  An "expr" f(x, y) reads them, a "set" x = f() writes *)
(* them, a "step" x = f(x) does both; a condition reads them, and the loop *)
(* of a for (x of o) writes them.  They are declared at the function's top,*)
(* but for the parameter of a catch, the variable of a "try", which holds  *)
(* in the handler and has a name of its own.                               *)
(* What runs is named by where it is in the tree and by its part there: an *)
(* expression or a jump by "run", the condition of a branch by "test", and *)
(* so on.  Any condition may be true or false; only throw statements throw.*)
(***************************************************************************)
EXTENDS Naturals, Sequences, Functions

Expressions == {"expr", "set", "step"}

\* The label of the end of the function.
End == <<<<>>, "end">>

\* Where control goes when a statement completes: normally, by break, by
\* continue, by an exception.  What runs is named by the labels of the graph.
Returned == [normal |-> {End}, break |-> {}, continue |-> {}, throw |-> {End}]

\* first: what of statement s may run first; pairs: what may run after what.
RECURSIVE Flow(_, _, _)
FlowOf(label, to) == [first |-> {label}, pairs |-> {label} \X to]
Both(f, h) == [first |-> f.first, pairs |-> f.pairs \cup h.pairs]

RECURSIVE FlowFrom(_, _, _, _)
FlowFrom(s, p, i, k) ==
  IF i > Len(s) THEN [first |-> k.normal, pairs |-> {}]
  ELSE LET rest == FlowFrom(s, p, i + 1, k)
       IN  Both(Flow(s[i], p \o <<i>>, [k EXCEPT !.normal = rest.first]), rest)

\* The cases from the i-th on: entered at each, run on through the next ones.
RECURSIVE CasesFrom(_, _, _, _)
CasesFrom(s, p, i, k) ==
  IF i > Len(s) THEN [first |-> k.normal, entries |-> {}, pairs |-> {}]
  ELSE LET rest == CasesFrom(s, p, i + 1, k)
           this == FlowFrom(s[i].s, p \o <<i>>, 1, [k EXCEPT !.normal = rest.first])
       IN  [first |-> this.first, entries |-> this.first \cup rest.entries,
            pairs |-> this.pairs \cup rest.pairs]

HasDefault(s) == \E i \in DOMAIN s.s : s.s[i].k = "default"

Flow(s, p, k) ==
  LET run == <<p, "run">>
      test == <<p, "test">>
      update == <<p, "update">>
      child(i, q) == Flow(s.s[i], p \o <<i>>, q)
      loop(to) == child(1, [k EXCEPT !.normal = {to}, !.continue = {to}, !.break = k.normal])
  IN  CASE s.k \in Expressions -> FlowOf(run, k.normal)
        [] s.k = "empty"    -> [first |-> k.normal, pairs |-> {}]
        [] s.k = "block"    -> FlowFrom(s.s, p, 1, k)
        [] s.k = "return"   -> FlowOf(run, {End})
        [] s.k = "throw"    -> FlowOf(run, k.throw)
        [] s.k = "break"    -> [first |-> k.break, pairs |-> {}]
        [] s.k = "continue" -> [first |-> k.continue, pairs |-> {}]
        [] s.k \in {"if", "cond"} ->
             Both(FlowOf(test, child(1, k).first \cup child(2, k).first),
                  Both(child(1, k), child(2, k)))
        [] s.k = "while"    ->
             Both(FlowOf(test, loop(test).first \cup k.normal), loop(test))
        [] s.k = "do"       ->
             Both(loop(test), FlowOf(test, loop(test).first \cup k.normal))
        [] s.k = "for"      ->
             Both(FlowOf(<<p, "init">>, {test}),
                  Both(FlowOf(test, loop(update).first \cup k.normal),
                       Both(loop(update), FlowOf(update, {test}))))
        [] s.k = "of"       ->
             LET bind == <<p, "bind">>
             IN  Both(FlowOf(test, {bind} \cup k.normal),
                      Both(FlowOf(bind, loop(test).first), loop(test)))
        [] s.k = "try"      ->
             LET catch == <<p, "catch">>
                 handler == Both(FlowOf(catch, child(2, k).first), child(2, k))
             IN  Both(child(1, [k EXCEPT !.throw = {catch}]), handler)
        [] s.k = "switch"   ->
             LET cases == CasesFrom(s.s, p, 1, [k EXCEPT !.break = k.normal])
             IN  Both(FlowOf(test, cases.entries \cup (IF HasDefault(s) THEN {} ELSE k.normal)),
                      cases)

RECURSIVE Reached(_, _)
Reached(pairs, from) ==
  LET more == from \cup {e[2] : e \in {d \in pairs : d[1] \in from}}
  IN  IF more = from THEN from ELSE Reached(pairs, more)

\* The pairs that a run of the body b really meets.
Meaning(b) ==
  LET f == Flow(b, <<>>, Returned)
      reached == Reached(f.pairs, f.first)
  IN  [first |-> f.first, pairs |-> {e \in f.pairs : e[1] \in reached}]

\* Where the statements of s, found at p, write v.
RECURSIVE Writes(_, _, _)
Writes(s, p, v) ==
  {<<p, part>> : part \in IF v \notin Range(s.v) THEN {}
                          ELSE IF s.k \in {"set", "step"} THEN {"run"}
                          ELSE IF s.k = "of" THEN {"bind"}
                          ELSE IF s.k = "try" THEN {"catch"} ELSE {}}
    \cup UNION {Writes(s.s[i], p \o <<i>>, v) : i \in DOMAIN s.s}

\* The places in the tree whose value v may have when control gets to at: those
\* of the writes that reach it without another one, and <<>> for undefined.
Definitions(b, m, at, v) ==
  LET writes == Writes(b, <<>>, v)
      onwards == {e \in m.pairs : e[1] \notin writes}
      reaches(from) == at \in Reached(onwards, from)
  IN  {w[1] : w \in {w \in writes : reaches({e[2] : e \in {d \in m.pairs : d[1] = w}})}}
        \cup (IF reaches(m.first) THEN {<<>>} ELSE {})
=============================================================================
