-------------------------- MODULE TypecheckProofs --------------------------
(***************************************************************************)
(* Theorems about Typecheck, for every graph whose Start no node leads to. *)
(* The argument:                                                           *)
(*  - what is reached: every successor of a checked node is checked, in    *)
(*    the queue or being walked, and every visited scope is checked or     *)
(*    being walked, so that dropping a scope drops nothing (ReachInv);     *)
(*  - what is known: a scope knows no more than the arm it starts with     *)
(*    deduced, and the walk stays where that arm is the only way in, a     *)
(*    node with several ways in being a scope of its own (KnownInv).       *)
(***************************************************************************)
EXTENDS Typecheck, FiniteSetTheorems, TLAPS

Queued(n) == \E i \in 1..Len(queue) : queue[i] = n
Walked(n) == scope # None /\ node = n

ReachInv ==
  /\ graph \in Graphs
  /\ TypeOK
  /\ Start \in visited \/ Queued(Start)
  /\ \A n \in checked : \A m \in graph.next[n] : m \in checked \/ Queued(m) \/ Walked(m)
  /\ \A s \in visited : s \in checked \/ Walked(s)

KnownInv ==
  /\ graph \in Graphs
  /\ TypeOK
  /\ \A n \in Node : DOMAIN types[n] \subseteq DOMAIN graph.truthy[n]
  /\ scope # None /\ scope # Start => Dominates(scope, node)

-----------------------------------------------------------------------------
(* A queue of nodes, seen by what it holds. *)

\* The head of a queue is a node, and its tail holds all but the head.
LEMMA QueueHead ==
  ASSUME NEW S, NEW q \in Seq(S), q # <<>>
  PROVE  /\ Head(q) \in S
         /\ Tail(q) \in Seq(S)
         /\ \A x : (\E i \in 1..Len(q) : q[i] = x)
                     => x = Head(q) \/ \E i \in 1..Len(Tail(q)) : Tail(q)[i] = x
<1>1. Len(q) \in Nat \ {0} /\ Head(q) = q[1] /\ \A i \in 1..Len(q) : q[i] \in S
  OBVIOUS
<1>2. Tail(q) \in Seq(S) /\ Len(Tail(q)) = Len(q) - 1
      /\ \A i \in 1..Len(q) - 1 : Tail(q)[i] = q[i + 1]
  OBVIOUS
<1>3. ASSUME NEW i \in 1..Len(q), q[i] # Head(q)
      PROVE  \E j \in 1..Len(Tail(q)) : Tail(q)[j] = q[i]
  <2>1. i # 1 /\ i - 1 \in 1..Len(Tail(q)) /\ Tail(q)[i - 1] = q[i]
    BY <1>1, <1>2, <1>3
  <2> QED
    BY <2>1
<1> QED
  BY <1>1, <1>2, <1>3

\* A queue with more behind it holds both.
LEMMA QueueAppend ==
  ASSUME NEW S, NEW q \in Seq(S), NEW r \in Seq(S)
  PROVE  /\ q \o r \in Seq(S)
         /\ \A i \in 1..Len(q) : \E j \in 1..Len(q \o r) : (q \o r)[j] = q[i]
         /\ \A i \in 1..Len(r) : \E j \in 1..Len(q \o r) : (q \o r)[j] = r[i]
<1>1. Len(q) \in Nat /\ Len(r) \in Nat /\ q \o r \in Seq(S) /\ Len(q \o r) = Len(q) + Len(r)
  OBVIOUS
<1>2. /\ \A i \in 1..Len(q) : (q \o r)[i] = q[i]
      /\ \A i \in 1..Len(r) : (q \o r)[Len(q) + i] = r[i]
  OBVIOUS
<1>3. ASSUME NEW i \in 1..Len(r)
      PROVE  \E j \in 1..Len(q \o r) : (q \o r)[j] = r[i]
  <2>1. Len(q) + i \in 1..Len(q \o r)
    BY <1>1
  <2> QED
    BY <2>1, <1>2
<1>4. ASSUME NEW i \in 1..Len(q)
      PROVE  \E j \in 1..Len(q \o r) : (q \o r)[j] = q[i]
  <2>1. i \in 1..Len(q \o r)
    BY <1>1
  <2> QED
    BY <2>1, <1>2
<1> QED
  BY <1>1, <1>3, <1>4

\* Taking the head of the worklist loses nothing but it.
LEMMA Popped ==
  ASSUME queue \in Seq(Node), queue # <<>>, queue' = Tail(queue)
  PROVE  Head(queue) \in Node /\ \A x : Queued(x) => x = Head(queue) \/ Queued(x)'
<1>1. \A x : (\E i \in 1..Len(queue) : queue[i] = x)
               => x = Head(queue) \/ \E i \in 1..Len(Tail(queue)) : Tail(queue)[i] = x
  BY QueueHead
<1>2. \A x : Queued(x)' <=> \E i \in 1..Len(Tail(queue)) : Tail(queue)[i] = x
  BY DEF Queued
<1>3. Head(queue) \in Node
  BY QueueHead
<1> QED
  BY <1>1, <1>2, <1>3 DEF Queued

\* Pushing nodes on the worklist keeps what it holds.
LEMMA PushedOn ==
  ASSUME queue \in Seq(Node), NEW r \in Seq(Node), queue' = queue \o r
  PROVE  /\ \A x : Queued(x) => Queued(x)'
         /\ \A i \in 1..Len(r) : Queued(r[i])'
<1>1. /\ \A i \in 1..Len(queue) : \E j \in 1..Len(queue \o r) : (queue \o r)[j] = queue[i]
      /\ \A i \in 1..Len(r) : \E j \in 1..Len(queue \o r) : (queue \o r)[j] = r[i]
  BY QueueAppend
<1> QED
  BY <1>1 DEF Queued

-----------------------------------------------------------------------------
(* Types *)

\* What refineTypes may leave in a scope knows a set of base types for each node,
\* and no node but those known before and those the arm settles.
LEMMA RefinedTypes ==
  ASSUME NEW s \in Node, NEW f \in RefineTypes(s)
  PROVE  /\ DOMAIN f = DOMAIN types[s] \cup DOMAIN graph.truthy[s]
         /\ \A x \in DOMAIN f : f[x] \subseteq BaseTypes
BY DEF RefineTypes

\* The graph is one of those assumed.
LEMMA GraphFacts ==
  ASSUME graph \in Graphs
  PROVE  /\ graph.next \in [Node -> SUBSET Node]
         /\ \A n \in Node : DOMAIN graph.truthy[n] \subseteq Node
         /\ Prev(graph, Start) = {}
         /\ DOMAIN graph.truthy[Start] = {}
         /\ \A n \in Node : Cardinality(graph.next[n]) \in Nat
         /\ Start \in Node /\ None \notin Node
BY GraphAssumption, FS_CardinalityType DEF GraphAssumption

-----------------------------------------------------------------------------
(* Type correctness *)

\* A scope at the head of the queue can be entered.
LEMMA EnterScopeTypes ==
  ASSUME graph \in Graphs, TypeOK, queue # <<>>, EnterScope(Head(queue))
  PROVE  TypeOK'
<1> DEFINE s == Head(queue)
<1>1. s \in Node /\ queue' \in Seq(Node)
  BY QueueHead DEF TypeOK, EnterScope
<1>2. PICK f \in RefineTypes(s) : types' = [types EXCEPT ![s] = f]
  BY DEF EnterScope
<1>3. DOMAIN types' = Node
  BY <1>2 DEF TypeOK
<1>4. ASSUME NEW n \in Node, NEW x \in DOMAIN types'[n]
      PROVE  x \in Node /\ types'[n][x] \subseteq BaseTypes
  <2>1. CASE n = s
    <3>1. types'[n] = f
      BY <2>1, <1>2, <1>1 DEF TypeOK
    <3>2. DOMAIN f = DOMAIN types[s] \cup DOMAIN graph.truthy[s] /\ f[x] \subseteq BaseTypes
      BY <3>1, <1>1, <1>4, RefinedTypes
    <3> QED
      BY <3>1, <3>2, <1>1, <1>4, GraphFacts DEF TypeOK
  <2>2. CASE n # s
    <3>1. types'[n] = types[n]
      BY <2>2, <1>2 DEF TypeOK
    <3> QED
      BY <3>1, <1>4 DEF TypeOK
  <2> QED
    BY <2>1, <2>2
<1>5. visited' = visited \cup {s} /\ scope' = s /\ node' = s /\ prevs' = prevs /\ checked' = checked
  BY DEF EnterScope
<1>6. visited' \subseteq Node /\ prevs' \in [Node -> SUBSET visited'] /\ scope' \in visited' \cup {None}
      /\ node' \in Node /\ checked' \subseteq Node
  BY <1>1, <1>5 DEF TypeOK
<1> QED
  BY <1>1, <1>3, <1>4, <1>6 DEF TypeOK

\* Every step keeps the graph and the types of the state.
LEMMA TypesKept ==
  ASSUME graph \in Graphs, TypeOK, [Next]_vars
  PROVE  graph' \in Graphs /\ TypeOK'
<1> USE GraphFacts
<1>1. CASE SkipScope
  <2>1. queue' \in Seq(Node)
    BY <1>1, QueueHead DEF SkipScope, TypeOK
  <2> QED
    BY <1>1, <2>1 DEF SkipScope, TypeOK
<1>2. CASE VisitNew
  BY <1>2, EnterScopeTypes DEF VisitNew, EnterScope
<1>3. CASE VisitAgain
  BY <1>3, EnterScopeTypes DEF VisitAgain, EnterScope
<1>4. CASE CheckLeaf
  BY <1>4 DEF CheckLeaf, TypeOK
<1>5. CASE CheckOn
  <2>1. PICK m \in NextNodes : node' = m
    BY <1>5 DEF CheckOn
  <2>2. node' \in Node
    BY <2>1 DEF NextNodes, TypeOK
  <2> QED
    BY <1>5, <2>2 DEF CheckOn, TypeOK
<1>6. CASE CheckPush
  <2>1. PICK order \in [1..Cardinality(NextNodes) -> NextNodes] : queue' = queue \o order
    BY <1>6 DEF CheckPush
  <2>2. NextNodes \subseteq Node
    BY DEF NextNodes, TypeOK
  <2>3. Cardinality(NextNodes) \in Nat
    BY DEF NextNodes, TypeOK
  <2>4. queue' \in Seq(Node)
    <3>1. order \in [1..Cardinality(NextNodes) -> Node]
      BY <2>1, <2>2
    <3>2. order \in Seq(Node)
      BY <2>3, <3>1
    <3>3. queue \in Seq(Node)
      BY DEF TypeOK
    <3> QED
      BY <2>1, <3>2, <3>3, QueueAppend
  <2>5. prevs' \in [Node -> SUBSET visited']
    BY <1>6 DEF CheckPush, Pushed, TypeOK
  <2> QED
    BY <1>6, <2>4, <2>5 DEF CheckPush, TypeOK
<1>7. CASE UNCHANGED vars
  BY <1>7 DEF vars, TypeOK
<1> QED
  BY <1>1, <1>2, <1>3, <1>4, <1>5, <1>6, <1>7 DEF Next

\* What Init builds is well typed.
LEMMA TypesInit ==
  ASSUME Init
  PROVE  graph \in Graphs /\ TypeOK
<1>1. queue \in Seq(Node)
  BY GraphAssumption DEF Init, GraphAssumption
<1>2. \A n \in Node : DOMAIN types[n] = {}
  BY DEF Init
<1> QED
  BY <1>1, <1>2, GraphAssumption DEF Init, TypeOK, GraphAssumption

\* The state of the worklist keeps its types, and scopes are merged only from
\* scopes that were walked (runTypechecks, runTypechecksInBranch).
THEOREM TypeCorrect == SafeSpec => []TypeOK
<1>1. Init => graph \in Graphs /\ TypeOK
  BY TypesInit
<1>2. (graph \in Graphs /\ TypeOK) /\ [Next]_vars => (graph \in Graphs /\ TypeOK)'
  BY TypesKept
<1> QED
  BY <1>1, <1>2, PTL DEF SafeSpec

-----------------------------------------------------------------------------
(* Every reachable node is checked *)

\* Entering the scope at the head of the queue keeps what is to be checked.
LEMMA EnterScopeReach ==
  ASSUME ReachInv, queue # <<>>, scope = None, NEW s, s = Head(queue), EnterScope(s),
         graph' \in Graphs /\ TypeOK'
  PROVE  ReachInv'
<1>1. s \in Node /\ \A x : Queued(x) => x = s \/ Queued(x)'
  BY Popped DEF ReachInv, TypeOK, EnterScope
<1>2. visited' = visited \cup {s} /\ scope' = s /\ node' = s /\ checked' = checked /\ graph' = graph
  BY DEF EnterScope
<1>3. scope' # None /\ Walked(s)' /\ \A x : ~Walked(x)
  BY <1>1, <1>2, GraphFacts DEF Walked, ReachInv
<1>4. Start \in visited' \/ Queued(Start)'
  BY <1>1, <1>2 DEF ReachInv
<1>5. ASSUME NEW n \in checked', NEW m \in graph'.next[n]
      PROVE  m \in checked' \/ Queued(m)' \/ Walked(m)'
  <2>1. m \in checked \/ Queued(m)
    BY <1>2, <1>3, <1>5 DEF ReachInv
  <2> QED
    BY <2>1, <1>1, <1>2, <1>3
<1>6. ASSUME NEW v \in visited'
      PROVE  v \in checked' \/ Walked(v)'
  BY <1>2, <1>3, <1>6 DEF ReachInv
<1> QED
  BY <1>4, <1>5, <1>6 DEF ReachInv

\* Every step keeps what is to be checked.
LEMMA ReachKept ==
  ASSUME ReachInv, [Next]_vars
  PROVE  ReachInv'
<1>0. graph' \in Graphs /\ TypeOK'
  BY TypesKept DEF ReachInv
<1>g. graph \in Graphs /\ TypeOK
  BY DEF ReachInv
<1>1. CASE SkipScope
  <2> DEFINE s == Head(queue)
  <2>1. \A x : Queued(x) => x = s \/ Queued(x)'
    BY <1>1, <1>g, Popped DEF TypeOK, SkipScope
  <2>2. \A x : ~Walked(x)
    BY <1>1 DEF SkipScope, Walked
  <2>3. s \in visited /\ s \in checked
    BY <1>1, <2>2 DEF SkipScope, ReachInv
  <2>4. UNCHANGED <<graph, visited, scope, node, checked>>
    BY <1>1 DEF SkipScope
  <2>5. Start \in visited' \/ Queued(Start)'
    BY <2>1, <2>3, <2>4 DEF ReachInv
  <2>6. ASSUME NEW n \in checked', NEW m \in graph'.next[n]
        PROVE  m \in checked' \/ Queued(m)' \/ Walked(m)'
    <3>1. m \in checked \/ Queued(m)
      BY <2>2, <2>4, <2>6 DEF ReachInv
    <3> QED
      BY <3>1, <2>1, <2>3, <2>4
  <2>7. \A v \in visited' : v \in checked'
    BY <2>2, <2>4 DEF ReachInv
  <2> QED
    BY <1>0, <2>5, <2>6, <2>7 DEF ReachInv
<1>2. CASE VisitNew
  BY <1>0, <1>2, EnterScopeReach DEF VisitNew
<1>3. CASE VisitAgain
  BY <1>0, <1>3, EnterScopeReach DEF VisitAgain
<1>4. CASE CheckLeaf
  <2>1. Walked(node) /\ \A x : Walked(x) => x = node
    BY <1>4 DEF CheckLeaf, Walked
  <2>2. checked' = checked \cup {node} /\ UNCHANGED <<graph, queue, visited>>
    BY <1>4 DEF CheckLeaf
  <2>3. graph.next[node] = {}
    BY <1>4 DEF CheckLeaf, NextNodes
  <2>4. \A x : Queued(x)' <=> Queued(x)
    BY <2>2 DEF Queued
  <2>5. \A n \in checked' : \A m \in graph'.next[n] : m \in checked' \/ Queued(m)' \/ Walked(m)'
    BY <2>1, <2>2, <2>3, <2>4 DEF ReachInv
  <2>6. \A v \in visited' : v \in checked'
    BY <2>1, <2>2 DEF ReachInv
  <2>7. Start \in visited' \/ Queued(Start)'
    BY <2>2, <2>4 DEF ReachInv
  <2> QED
    BY <1>0, <2>5, <2>6, <2>7 DEF ReachInv
<1>5. CASE CheckOn
  <2>1. PICK m \in NextNodes : NextNodes = {m} /\ node' = m
    BY <1>5 DEF CheckOn
  <2>2. \A x : Walked(x) => x = node
    BY DEF Walked
  <2>3. checked' = checked \cup {node} /\ UNCHANGED <<graph, queue, visited, scope>> /\ scope # None
    BY <1>5 DEF CheckOn
  <2>4. Walked(m)' /\ graph.next[node] = {m}
    BY <2>1, <2>3 DEF Walked, NextNodes
  <2>5. \A x : Queued(x)' <=> Queued(x)
    BY <2>3 DEF Queued
  <2>6. \A n \in checked' : \A k \in graph'.next[n] : k \in checked' \/ Queued(k)' \/ Walked(k)'
    BY <2>2, <2>3, <2>4, <2>5 DEF ReachInv
  <2>7. \A v \in visited' : v \in checked'
    BY <2>2, <2>3 DEF ReachInv
  <2>8. Start \in visited' \/ Queued(Start)'
    BY <2>3, <2>5 DEF ReachInv
  <2> QED
    BY <1>0, <2>6, <2>7, <2>8 DEF ReachInv
<1>6. CASE CheckPush
  <2>1. PICK order \in [1..Cardinality(NextNodes) -> NextNodes] :
          /\ \A m \in NextNodes : \E i \in 1..Cardinality(NextNodes) : order[i] = m
          /\ queue' = queue \o order
    BY <1>6 DEF CheckPush
  <2>2. Cardinality(NextNodes) \in Nat /\ NextNodes \subseteq Node /\ queue \in Seq(Node)
    BY <1>g, GraphFacts DEF NextNodes, TypeOK
  <2>3. order \in Seq(Node) /\ Len(order) = Cardinality(NextNodes)
    <3>1. order \in [1..Cardinality(NextNodes) -> Node]
      BY <2>1, <2>2
    <3> QED
      BY <2>2, <3>1
  <2>4. /\ \A x : Queued(x) => Queued(x)'
        /\ \A m \in NextNodes : Queued(m)'
    <3>1. (\A x : Queued(x) => Queued(x)') /\ \A i \in 1..Cardinality(NextNodes) : Queued(order[i])'
      BY <2>1, <2>2, <2>3, PushedOn
    <3> QED
      BY <3>1, <2>1
  <2>5. \A x : Walked(x) => x = node
    BY DEF Walked
  <2>6. checked' = checked \cup {node} /\ UNCHANGED <<graph, visited>>
    BY <1>6 DEF CheckPush
  <2>7. \A n \in checked' : \A k \in graph'.next[n] : k \in checked' \/ Queued(k)' \/ Walked(k)'
    BY <2>4, <2>5, <2>6 DEF ReachInv, NextNodes
  <2>8. \A v \in visited' : v \in checked'
    BY <2>5, <2>6 DEF ReachInv
  <2>9. Start \in visited' \/ Queued(Start)'
    BY <2>4, <2>6 DEF ReachInv
  <2> QED
    BY <1>0, <2>7, <2>8, <2>9 DEF ReachInv
<1>7. CASE UNCHANGED vars
  BY <1>7, <1>0 DEF vars, ReachInv, Queued, Walked
<1> QED
  BY <1>1, <1>2, <1>3, <1>4, <1>5, <1>6, <1>7 DEF Next

\* When the queue of scopes runs empty, every node that control reaches from Start
\* was given to typecheckNode, whatever scopes were skipped on the way.
THEOREM AllReachableChecked == SafeSpec => []ReachableIsChecked
<1>1. Init => ReachInv
  <2> SUFFICES ASSUME Init PROVE ReachInv
    OBVIOUS
  <2>1. Queued(Start)
    BY DEF Init, Queued
  <2> QED
    BY <2>1, TypesInit DEF ReachInv, Init
<1>2. ReachInv /\ [Next]_vars => ReachInv'
  BY ReachKept
<1>3. ReachInv => ReachableIsChecked
  <2> SUFFICES ASSUME ReachInv, Done PROVE ReachableIsChecked
    BY DEF ReachableIsChecked
  <2>1. (\A x : ~Queued(x)) /\ \A x : ~Walked(x)
    BY DEF Done, Queued, Walked
  <2> QED
    BY <2>1 DEF ReachInv, ReachableIsChecked
<1> QED
  BY <1>1, <1>2, <1>3, PTL DEF SafeSpec

-----------------------------------------------------------------------------
(* What a scope knows holds where it is used *)

\* A node with one way in is dominated by whatever dominates the node before it.
LEMMA OneWayIn ==
  ASSUME graph \in Graphs, NEW d \in Node, NEW n \in Node, NEW m \in Node,
         d # Start, Prev(graph, m) = {n}, Dominates(d, n)
  PROVE  Dominates(d, m)
<1> SUFFICES ASSUME d # m PROVE Dominates(d, m)
  BY DEF Dominates
<1>1. m # Start /\ graph.next \in [Node -> SUBSET Node] /\ Start \in Node
  BY GraphFacts
<1>2. \A k \in Node : m \in graph.next[k] => k = n
  BY DEF Prev
<1>3. CASE d = n
  <2> DEFINE S == Node \ {d, m}
  <2>1. Start \in S /\ S \in SUBSET (Node \ {d, m})
    BY <1>1
  <2>2. \A k \in S : graph.next[k] \subseteq S \cup {d}
    BY <1>1, <1>2, <1>3
  <2> QED
    BY <2>1, <2>2 DEF Dominates
<1>4. CASE d # n
  <2>1. PICK T \in SUBSET (Node \ {d, n}) :
          Start \in T /\ \A k \in T : graph.next[k] \subseteq T \cup {d}
    BY <1>4 DEF Dominates
  <2> DEFINE S == T \ {m}
  <2>2. Start \in S /\ S \in SUBSET (Node \ {d, m})
    BY <1>1, <2>1
  <2>3. \A k \in S : graph.next[k] \subseteq S \cup {d}
    BY <1>2, <2>1
  <2> QED
    BY <2>2, <2>3 DEF Dominates
<1> QED
  BY <1>3, <1>4

\* Entering a scope, it knows only what its first node settles.
LEMMA EnterScopeKnown ==
  ASSUME KnownInv, queue # <<>>, EnterScope(Head(queue)), graph' \in Graphs /\ TypeOK'
  PROVE  KnownInv'
<1> DEFINE s == Head(queue)
<1>1. s \in Node
  BY QueueHead DEF KnownInv, TypeOK
<1>2. PICK f \in RefineTypes(s) : types' = [types EXCEPT ![s] = f]
  BY DEF EnterScope
<1>3. scope' = s /\ node' = s /\ graph' = graph
  BY DEF EnterScope
<1>4. ASSUME NEW n \in Node
      PROVE  DOMAIN types'[n] \subseteq DOMAIN graph'.truthy[n]
  <2>1. CASE n = s
    <3>1. types'[n] = f
      BY <2>1, <1>2, <1>1 DEF KnownInv, TypeOK
    <3> QED
      BY <3>1, <2>1, <1>1, <1>3, RefinedTypes DEF KnownInv
  <2>2. CASE n # s
    BY <2>2, <1>2, <1>3 DEF KnownInv, TypeOK
  <2> QED
    BY <2>1, <2>2
<1>5. Dominates(scope, node)'
  BY <1>3 DEF Dominates
<1> QED
  BY <1>4, <1>5 DEF KnownInv

\* Every step keeps what the scopes know within what their arms settle.
LEMMA KnownKept ==
  ASSUME KnownInv, [Next]_vars
  PROVE  KnownInv'
<1>0. graph' \in Graphs /\ TypeOK'
  BY TypesKept DEF KnownInv
<1>1. CASE SkipScope
  BY <1>0, <1>1 DEF SkipScope, KnownInv, Dominates
<1>2. CASE VisitNew
  BY <1>0, <1>2, EnterScopeKnown DEF VisitNew
<1>3. CASE VisitAgain
  BY <1>0, <1>3, EnterScopeKnown DEF VisitAgain
<1>4. CASE CheckLeaf
  BY <1>0, <1>4 DEF CheckLeaf, KnownInv
<1>5. CASE CheckOn
  <2>1. PICK m \in NextNodes : Prev(graph, m) = {node} /\ node' = m
    BY <1>5 DEF CheckOn
  <2>2. scope # None /\ UNCHANGED <<graph, types, scope>>
    BY <1>5 DEF CheckOn
  <2>3. m \in Node /\ node \in Node /\ scope \in Node
    BY <2>1, <2>2, GraphFacts DEF KnownInv, TypeOK, NextNodes
  <2>4. scope # Start => Dominates(scope, m)
    BY <2>1, <2>2, <2>3, OneWayIn DEF KnownInv
  <2>5. scope' # Start => Dominates(scope, node)'
    BY <2>1, <2>2, <2>4 DEF Dominates
  <2> QED
    BY <1>0, <2>2, <2>5 DEF KnownInv
<1>6. CASE CheckPush
  BY <1>0, <1>6 DEF CheckPush, KnownInv
<1>7. CASE UNCHANGED vars
  BY <1>0, <1>7 DEF vars, KnownInv, Dominates
<1> QED
  BY <1>1, <1>2, <1>3, <1>4, <1>5, <1>6, <1>7 DEF Next

\* typecheckNode sees a refined type only behind the arm that deduced it: no type
\* an arm of a branch learnt is used where the other arm leads too.
THEOREM RefinementsHold == SafeSpec => []RefinementsDominate
<1>1. Init => KnownInv
  <2> SUFFICES ASSUME Init PROVE KnownInv
    OBVIOUS
  <2>1. (\A n \in Node : DOMAIN types[n] = {}) /\ scope = None
    BY DEF Init
  <2> QED
    BY <2>1, TypesInit DEF KnownInv
<1>2. KnownInv /\ [Next]_vars => KnownInv'
  BY KnownKept
<1>3. KnownInv => RefinementsDominate
  <2> SUFFICES ASSUME KnownInv, scope # None, NEW x \in DOMAIN types[scope]
               PROVE  \E d \in Node : x \in DOMAIN graph.truthy[d] /\ Dominates(d, node)
    BY DEF RefinementsDominate
  <2>1. scope \in Node /\ x \in DOMAIN graph.truthy[scope]
    BY DEF KnownInv, TypeOK
  <2>2. scope # Start
    BY <2>1, GraphFacts DEF KnownInv
  <2> QED
    BY <2>1, <2>2 DEF KnownInv
<1> QED
  BY <1>1, <1>2, <1>3, PTL DEF SafeSpec
=============================================================================
