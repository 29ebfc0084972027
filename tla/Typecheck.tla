----------------------------- MODULE Typecheck -----------------------------
(***************************************************************************)
(* The type checking of one function: the worklist of runTypechecks and    *)
(* runTypechecksInBranch (src/analyze/typecheck.cpp) over the nodes of its *)
(* graph, with the refinements that typerefinement.cpp deduces at branches.*)
(* A scope is named by the node it starts at.  A type is the set of base   *)
(* types a value may have: a sum type if it has several members, the       *)
(* unknown type if it has none.  What a check reports is left out: what    *)
(* matters is which node is checked, and under which refined types.        *)
(***************************************************************************)
EXTENDS Naturals, Sequences, FiniteSets

CONSTANTS
  Node,        \* the nodes of a graph
  Start,       \* node 0
  BaseTypes,   \* "null", "undefined" and the others
  Graphs,      \* the graphs a function may have: see GraphAssumption
  None         \* no branch is being walked

Prev(g, n) == {m \in Node : n \in g.next[m]}

\* next: the control successors; truthy: at an IfTrue or IfFalse node, the
\* nodes whose truthiness its condition settles (inferRefinementsFromNode);
\* type: what resolveNodeType returns.
GraphAssumption ==
  /\ Start \in Node
  /\ None \notin Node
  /\ \A g \in Graphs :
       /\ g.next \in [Node -> SUBSET Node]
       /\ \A n \in Node : IsFiniteSet(g.next[n])
       /\ \A n \in Node : DOMAIN g.truthy[n] \subseteq Node
       /\ g.type \in [Node -> SUBSET BaseTypes]
       /\ Prev(g, Start) = {}
       /\ DOMAIN g.truthy[Start] = {}

ASSUME GraphAssumption

VARIABLES
  graph,      \* the graph of the function, from getFunctionGraph
  queue,      \* scopesToVisit
  visited,    \* scopes with visited > 0
  types,      \* types of each scope: node -> type, for the refined nodes
  prevs,      \* prevs of each scope
  scope,      \* the scope of the branch being walked, or None
  node,       \* the node reached in it
  checked     \* nodes given to typecheckNode so far

vars == <<graph, queue, visited, types, prevs, scope, node, checked>>

Init ==
  /\ graph \in Graphs
  /\ queue = <<Start>>
  /\ visited = {}
  /\ types = [n \in Node |-> [x \in {} |-> {}]]
  /\ prevs = [n \in Node |-> {}]
  /\ scope = None
  /\ node = Start
  /\ checked = {}

------------------------------------------------------------------------------
(* Types *)

\* mergeTypes: unknown if one of them is, else the sum of all.
MergeTypes(ts) == IF {} \in ts THEN {} ELSE UNION ts

\* mergeScopes: what the previous scopes know replaces what this one knows.
MergeScopes(s) ==
  LET known == UNION {DOMAIN types[p] : p \in prevs[s]}
  IN  [x \in DOMAIN types[s] \cup known |->
         IF x \in known
         THEN MergeTypes({types[p][x] : p \in {q \in prevs[s] : x \in DOMAIN types[q]}})
         ELSE types[s][x]]

\* refineByTruthiness.  Its erase gets the one iterator remove_if returned: one
\* element goes and not the tail.  With one null or undefined that is it; with
\* both, one stale element is left; with none, the erased one is past the end.
RefineByTruthiness(t, truthy) ==
  LET nothing == t \cap {"null", "undefined"}
  IN  IF Cardinality(t) < 2 \/ ~truthy THEN {t}
      ELSE IF nothing = {} THEN {t \ {x} : x \in t}
      ELSE IF Cardinality(nothing) = 1 THEN {t \ nothing}
      ELSE {(t \ nothing) \cup {x} : x \in t}

\* refineTypes on the first node of a scope.
RefineTypes(s) ==
  LET dom == DOMAIN types[s] \cup DOMAIN graph.truthy[s]
      before(x) == IF x \in DOMAIN types[s] THEN types[s][x] ELSE graph.type[x]
      outcomes(x) == IF x \in DOMAIN graph.truthy[s]
                     THEN RefineByTruthiness(before(x), graph.truthy[s][x])
                     ELSE {types[s][x]}
  IN  {f \in [dom -> SUBSET BaseTypes] : \A x \in dom : f[x] \in outcomes(x)}

------------------------------------------------------------------------------
NextNodes == graph.next[node]

(* Slips of this code, to test the checks below against.                    *)

VisitAgainMerged ==     \* the merged scope is kept, not only compared
  /\ scope = None /\ queue # <<>>
  /\ Head(queue) \in visited
  /\ MergeScopes(Head(queue)) # types[Head(queue)]
  /\ types' = [types EXCEPT ![Head(queue)] = MergeScopes(Head(queue))]
  /\ scope' = Head(queue) /\ node' = Head(queue)
  /\ queue' = Tail(queue)
  /\ UNCHANGED <<graph, visited, prevs, checked>>

SkipScopeUnvisited ==   \* compared before the scope was ever visited
  /\ scope = None /\ queue # <<>>
  /\ MergeScopes(Head(queue)) = types[Head(queue)]
  /\ queue' = Tail(queue)
  /\ UNCHANGED <<graph, visited, types, prevs, scope, node, checked>>

SkipScopeNever ==       \* a visited scope is always walked again
  /\ scope = None /\ queue # <<>>
  /\ Head(queue) \in visited
  /\ scope' = Head(queue) /\ node' = Head(queue)
  /\ queue' = Tail(queue)
  /\ UNCHANGED <<graph, visited, types, prevs, checked>>

PushedNode(m) == prevs[m] \cup {node}      \* the node reached is no scope
Pushed(m) == prevs[m] \cup {scope}

\* Next in line is a scope whose merge brings nothing new: it is dropped.
SkipScope ==
  /\ scope = None /\ queue # <<>>
  /\ Head(queue) \in visited
  /\ MergeScopes(Head(queue)) = types[Head(queue)]
  /\ queue' = Tail(queue)
  /\ UNCHANGED <<graph, visited, types, prevs, scope, node, checked>>

\* It is new: the branch is entered and its types refined.
EnterScope(s) ==
  /\ visited' = visited \cup {s}
  /\ \E f \in RefineTypes(s) : types' = [types EXCEPT ![s] = f]
  /\ scope' = s /\ node' = s
  /\ queue' = Tail(queue)
  /\ UNCHANGED <<graph, prevs, checked>>

VisitNew ==
  /\ scope = None /\ queue # <<>>
  /\ Head(queue) \notin visited
  /\ EnterScope(Head(queue))

\* It was visited with other types: it is walked again.  The merged scope itself
\* is thrown away.
VisitAgain ==
  /\ scope = None /\ queue # <<>>
  /\ Head(queue) \in visited
  /\ MergeScopes(Head(queue)) # types[Head(queue)]
  /\ EnterScope(Head(queue))

\* The node is checked; it ends the function.
CheckLeaf ==
  /\ scope # None /\ NextNodes = {}
  /\ checked' = checked \cup {node}
  /\ scope' = None
  /\ UNCHANGED <<graph, queue, visited, types, prevs, node>>

\* The node is checked; the one that follows belongs to the same scope.
CheckOn ==
  /\ scope # None
  /\ \E m \in NextNodes :
       /\ NextNodes = {m} /\ Prev(graph, m) = {node}
       /\ node' = m
  /\ checked' = checked \cup {node}
  /\ UNCHANGED <<graph, queue, visited, types, prevs, scope>>

\* The node is checked; what follows is one merge, or several branches, pushed
\* in the order of an unordered_set.
CheckPush ==
  /\ scope # None /\ NextNodes # {}
  /\ \A m \in NextNodes : NextNodes = {m} => Prev(graph, m) # {node}
  /\ checked' = checked \cup {node}
  /\ prevs' = [m \in Node |-> IF m \in NextNodes THEN Pushed(m) ELSE prevs[m]]
  /\ \E order \in [1..Cardinality(NextNodes) -> NextNodes] :
       /\ \A m \in NextNodes : \E i \in 1..Cardinality(NextNodes) : order[i] = m
       /\ queue' = queue \o order
  /\ scope' = None
  /\ UNCHANGED <<graph, visited, types, node>>

Next == SkipScope \/ VisitNew \/ VisitAgain \/ CheckLeaf \/ CheckOn \/ CheckPush

SafeSpec == Init /\ [][Next]_vars

\* The analysis is one thread that keeps running.
Spec == SafeSpec /\ WF_vars(Next)

------------------------------------------------------------------------------
(* Correctness *)

Done == queue = <<>> /\ scope = None

\* Type invariant of runTypechecks's state: what is merged comes from scopes that
\* were walked.
TypeOK ==
  /\ queue \in Seq(Node)
  /\ visited \subseteq Node
  /\ DOMAIN types = Node
  /\ \A n \in Node : \A x \in DOMAIN types[n] : x \in Node /\ types[n][x] \subseteq BaseTypes
  /\ prevs \in [Node -> SUBSET visited]
  /\ scope \in visited \cup {None}
  /\ node \in Node
  /\ checked \subseteq Node

\* When the worklist is empty every node the control flow reaches has been
\* checked, although scopes are dropped from the queue unwalked.
ReachableIsChecked ==
  Done => /\ Start \in checked
          /\ \A n \in checked : graph.next[n] \subseteq checked

\* Every way from Start to n passes d: the nodes that some set holds, with Start
\* and without d and n, lead nowhere else but to d.
Dominates(d, n) ==
  d = n \/ \E S \in SUBSET (Node \ {d, n}) :
             Start \in S /\ \A m \in S : graph.next[m] \subseteq S \cup {d}

\* A node is checked under a refined type only where it holds: some branch that
\* deduced it is passed on every way to the node.  So what one arm of an "if"
\* learns is forgotten where the arms meet.
RefinementsDominate ==
  scope # None =>
    \A x \in DOMAIN types[scope] :
      \E d \in Node : x \in DOMAIN graph.truthy[d] /\ Dominates(d, node)

\* The type checking of a function ends.
TypecheckEnds == <>Done
=============================================================================
