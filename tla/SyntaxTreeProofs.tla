----------------------------- MODULE SyntaxTreeProofs -------------------------------------
\* SyntaxTree's invariants, for every file Babel may return, every width of the index of
\* importChildArray and every order of the arguments. The importer calls itself, so the invariant
\* is about the whole stack of calls: what each has imported so far (CallInv), that the calls are
\* on the path from the file to the innermost object (DepthInv), and what a constructed node's
\* object has below it (NodesInv). From it: the import throws exactly on unknown syntax; with the
\* children of every node (ChildrenInv), the walk meets nodes only; with the facts that keep a
\* node from being made twice (OnceInv), the parents of what it meets lead to the file.
EXTENDS SyntaxTree, WellFoundedInduction, SequenceTheorems, TLAPS

Paths == Seq(STRING \X Nat)
Frames == [place : Paths, done : SUBSET Nat, current : Nat, index : Nat, length : Nat]
IsNode(node) ==
    node = [type |-> node.type, parent |-> node.parent, members |-> node.members]
Arrived == DOMAIN nodes \cup {stack[k].place : k \in DOMAIN stack}

\* The objects that an object holds, and those it holds in one attribute.
PartsOf(place) == {q \in Places : q # Root /\ Front(q) = place}
PartsIn(place, attr) == {q \in PartsOf(place) : Last(q)[1] = attr}
ArrayOf(place, attr) == ObjectAt(place).arrays[attr]

Typing ==
    /\ file \in Files /\ keep \in BOOLEAN
    /\ phase \in {"import", "walk", "done", "failed"}
    /\ visitor \in Visitors \cup {Null}
    /\ stack \in Seq(Frames)
    /\ nodes = [p \in DOMAIN nodes |-> nodes[p]] /\ DOMAIN nodes \subseteq Paths
    /\ \A p \in DOMAIN nodes : IsNode(nodes[p])
PhaseInv ==
    /\ phase = "import" <=> stack # << >>
    /\ phase \in {"walk", "done"} => Root \in DOMAIN nodes
    /\ phase \notin {"walk", "done"} => pending = << >> /\ seen = << >>
DepthInv == \A k \in DOMAIN stack : Len(stack[k].place) = Len(stack) - k

\* A call of importNode: what it has imported so far.
ArrayInv(c, a) ==
    /\ ImportsMany(a)
    /\ a.attr \in DOMAIN ObjectAt(c.place).arrays
    /\ c.length = Len(ArrayOf(c.place, a.attr))
    /\ \A q \in PartsIn(c.place, a.attr) : Last(q)[2] <= c.index => q \in Arrived
CallInv(c) ==
    LET type == ObjectAt(c.place).type
        args == Arguments(type)
    IN /\ c.place \in Places /\ type \in Kinds /\ (type = "Root" => c.place = Root)
       /\ c.index < IndexRange
       /\ c.done \subseteq {i \in DOMAIN args : ImportsNodes(args[i])}
       /\ \A i \in c.done : PartsIn(c.place, args[i].attr) \subseteq Arrived
       /\ c.current = 0 => c.index = 0 /\ c.length = 0
       /\ c.current # 0 => c.current \in DOMAIN args /\ ArrayInv(c, args[c.current])
CallsInv == \A k \in DOMAIN stack : CallInv(stack[k])

\* A node whose object the importer knows, with the nodes for the parts of its object.
Known(place) ==
    LET object == ObjectAt(place) IN
    place # Root =>
        /\ object.type \in DOMAIN ImportFunctions
        /\ \A i \in DOMAIN ImportFunctions[object.type] :
              WordIsKnown(object, ImportFunctions[object.type][i])
NodesInv == \A p \in DOMAIN nodes \cap Places : Known(p) /\ PartsOf(p) \subseteq DOMAIN nodes
RefusedInv == phase = "failed" => HasUnknown

ImportInv == Typing /\ PhaseInv /\ DepthInv /\ CallsInv /\ NodesInv /\ RefusedInv

\* The children of every node are nodes one step below it, and a walk has nodes in hand.
ChildrenOf(p) == Children(nodes[p].type, nodes[p].members)
NodesUnder(p) == {q \in DOMAIN nodes : q # Root /\ Front(q) = p}
ChildrenInv == \A p \in DOMAIN nodes : ChildrenOf(p) \in Seq(NodesUnder(p))
QueueInv == pending \in Seq(DOMAIN nodes) /\ seen \in Seq(DOMAIN nodes)
TypeInv == ImportInv /\ ChildrenInv /\ QueueInv

\* No node is made twice, as long as the index can count every array that is being imported
\* (where it cannot, importChildArray never ends, and there is no walk): what has arrived is below
\* what has arrived (AroundInv), a call is at a place without a node and what it has not yet
\* imported has not arrived (FreshInv), so the children of a node keep it as their parent.
Countable == phase # "failed" /\ \A k \in DOMAIN stack : stack[k].length < IndexRange
AroundInv == \A q \in Arrived \ {Root} : Front(q) \in Arrived
FreshInv(c) ==
    LET args == Arguments(ObjectAt(c.place).type) IN
    /\ c.place \notin DOMAIN nodes /\ c.current \notin c.done
    /\ \A i \in DOMAIN args \ c.done : \A q \in PartsIn(c.place, args[i].attr) :
          ImportsNodes(args[i]) /\ q \in Arrived => i = c.current /\ Last(q)[2] <= c.index
ParentInv == \A p \in DOMAIN nodes : \A q \in ToSet(ChildrenOf(p)) : nodes[q].parent = p
OnceInv == Countable => AroundInv /\ (\A k \in DOMAIN stack : FreshInv(stack[k])) /\ ParentInv
ParentsInv == TypeInv /\ OnceInv /\ ParentsLeadToTheRoot

------------------------------------------------------------------------------------------
\* A set of natural numbers has a least one.
LEMMA LeastNumber ==
  ASSUME NEW T \in SUBSET Nat, T # {}
  PROVE  \E n \in T : \A m \in T : n <= m
<1> DEFINE R == OpToRel(<, Nat)
<1>1. IsWellFoundedOn(R, Nat)
  BY NatLessThanWellFounded
<1>2. ASSUME NEW m \in Nat, NEW n \in Nat, m < n PROVE <<m, n>> \in R
  BY <1>2 DEF OpToRel
<1> HIDE DEF R
<1>3. PICK n \in T : \A m \in T : <<m, n>> \notin R
  BY <1>1, WFMin
<1>4. n \in Nat
  BY <1>3
<1>5. ASSUME NEW m \in T PROVE n <= m
  <2>1. m \in Nat /\ ~(m < n)
    BY <1>2, <1>3, <1>4
  <2> QED
    BY <1>4, <2>1
<1> QED
  BY <1>3, <1>5

\* A place below another one: its length, and what its last step says.
LEMMA UnderIsBelow ==
  ASSUME NEW p \in Paths, NEW attr \in STRING, NEW i \in Nat
  PROVE  /\ Under(p, attr, i) \in Paths /\ Under(p, attr, i) # Root
         /\ Len(Under(p, attr, i)) = Len(p) + 1
         /\ Front(Under(p, attr, i)) = p
         /\ Last(Under(p, attr, i)) = <<attr, i>>
<1> DEFINE u == Append(p, <<attr, i>>)
<1>1. <<attr, i>> \in STRING \X Nat
  OBVIOUS
<1>2. /\ u \in Paths /\ u # << >> /\ Len(u) = Len(p) + 1 /\ u[Len(p) + 1] = <<attr, i>>
      /\ \A k \in 1..Len(p) : u[k] = p[k]
  <2> DEFINE step == <<attr, i>>
  <2>1. step \in STRING \X Nat /\ p \in Seq(STRING \X Nat)
    BY <1>1 DEF Paths
  <2> HIDE DEF step
  <2>2. /\ Append(p, step) \in Seq(STRING \X Nat) /\ Append(p, step) # << >>
        /\ Len(Append(p, step)) = Len(p) + 1 /\ Append(p, step)[Len(p) + 1] = step
        /\ \A k \in 1..Len(p) : Append(p, step)[k] = p[k]
    BY <2>1, AppendProperties
  <2> QED
    BY <2>2 DEF Paths, step
<1>3. Len(p) \in Nat
  BY DEF Paths
<1>5. SubSeq(u, 1, Len(u) - 1) = p
  <2>1. /\ SubSeq(u, 1, Len(p)) \in Paths
        /\ Len(SubSeq(u, 1, Len(p))) = Len(p)
        /\ \A k \in 1..Len(p) : SubSeq(u, 1, Len(p))[k] = u[k]
    <3> HIDE DEF u
    <3> QED
      BY <1>2, <1>3, SubSeqProperties DEF Paths
  <2>2. \A k \in 1..Len(p) : SubSeq(u, 1, Len(p))[k] = p[k]
    BY <1>2, <2>1
  <2>3. SubSeq(u, 1, Len(p)) = p
    <3> HIDE DEF u
    <3> QED
      BY <2>1, <2>2, SeqEqual DEF Paths
  <2> QED
    BY <1>2, <1>3, <2>3
<1> QED
  BY <1>2, <1>5 DEF Under, Front, Last, Root

\* A place other than the file is below the one before its last step.
LEMMA BelowIsUnder ==
  ASSUME NEW q \in Paths, q # Root
  PROVE  /\ Front(q) \in Paths /\ Len(q) \in Nat /\ Len(q) >= 1
         /\ Len(Front(q)) = Len(q) - 1
         /\ Last(q)[1] \in STRING /\ Last(q)[2] \in Nat
         /\ q = Under(Front(q), Last(q)[1], Last(q)[2])
<1> DEFINE n == Len(q)
           f == SubSeq(q, 1, n - 1)
<1>1. n \in Nat /\ n # 0
  BY DEF Paths, Root
<1>2. /\ f \in Paths /\ Len(f) = n - 1 /\ \A k \in 1..(n - 1) : f[k] = q[k]
  <2>1. \A k \in 1..(n - 1) : q[k] \in STRING \X Nat
    BY <1>1 DEF Paths
  <2>2. /\ f \in Seq(STRING \X Nat)
        /\ Len(f) = IF 1 <= n - 1 THEN n - 1 - 1 + 1 ELSE 0
        /\ \A k \in 1..(n - 1 - 1 + 1) : f[k] = q[1 + k - 1]
    <3> HIDE DEF n
    <3> QED
      BY <1>1, <2>1, SubSeqProperties
  <2>3. n - 1 - 1 + 1 = n - 1 /\ \A k \in 1..(n - 1) : 1 + k - 1 = k
    BY <1>1
  <2> HIDE DEF f, n
  <2>4. Len(f) = n - 1
    BY <1>1, <2>2
  <2>5. \A k \in 1..(n - 1) : f[k] = q[k]
    BY <2>2, <2>3
  <2> QED
    BY <2>2, <2>4, <2>5 DEF Paths
<1>3. q[n] \in STRING \X Nat
  BY <1>1 DEF Paths
<1>4. q[n] = <<q[n][1], q[n][2]>> /\ q[n][1] \in STRING /\ q[n][2] \in Nat
  BY <1>3
<1>5. q = Append(f, q[n])
  <2> HIDE DEF f
  <2> DEFINE a == Append(f, q[n])
  <2>1. a \in Paths /\ Len(a) = n /\ a[n] = q[n] /\ \A k \in 1..(n - 1) : a[k] = f[k]
    BY <1>1, <1>2, <1>3, AppendProperties DEF Paths
  <2>2. \A k \in 1..n : a[k] = q[k]
    BY <1>1, <1>2, <2>1
  <2> HIDE DEF a
  <2>3. a = q
    BY <2>1, <2>2, SeqEqual DEF Paths
  <2> QED
    BY <2>3 DEF a
<1> QED
  BY <1>1, <1>2, <1>4, <1>5 DEF Under, Front, Last

\* Whether a node belongs to a comment is decided by the first step from the file.
LEMMA CommentsAreWhole ==
  ASSUME NEW q \in Paths, q # Root
  PROVE  /\ Front(q) # Root => (IsComment(q) <=> IsComment(Front(q)))
         /\ Front(q) = Root => (IsComment(q) <=> Last(q)[1] = "comments")
<1>1. Len(q) \in Nat /\ Len(q) >= 1 /\ Len(Front(q)) = Len(q) - 1 /\ Front(q) \in Paths
  BY BelowIsUnder
<1>2. CASE Front(q) = Root
  <2>1. Len(q) = 1
    BY <1>1, <1>2 DEF Root
  <2> QED
    BY <1>2, <2>1 DEF IsComment, Last
<1>3. CASE Front(q) # Root
  <2>1. Len(q) - 1 >= 1
    BY <1>1, <1>3 DEF Root, Paths
  <2>2. Front(q)[1] = q[1]
    BY <1>1, <2>1, SubSeqProperties DEF Front, Paths
  <2> QED
    BY <1>3, <2>2 DEF IsComment
<1> QED
  BY <1>2, <1>3

------------------------------------------------------------------------------------------
\* What the file's objects are, and how they hold each other.
LEMMA FileIsTree ==
  ASSUME file \in Files
  PROVE  /\ Root \in Places /\ ObjectAt(Root).type = "Root" /\ Places \subseteq Paths
         /\ DOMAIN file \subseteq Paths
         /\ \A q \in DOMAIN file \ {Root} :
               /\ Front(q) \in DOMAIN file
               /\ Holds(ObjectAt(Front(q)), Last(q)[1], Last(q)[2])
         /\ \A p \in DOMAIN file :
               LET object == ObjectAt(p) IN
               /\ \A a \in object.kids : a \in STRING /\ Under(p, a, 0) \in DOMAIN file
               /\ \A a \in DOMAIN object.arrays :
                     /\ a \in STRING /\ object.arrays[a] \in Seq(BOOLEAN)
                     /\ \A i \in DOMAIN object.arrays[a] :
                           object.arrays[a][i] => Under(p, a, i) \in DOMAIN file
               /\ object.type \in Kinds =>
                     /\ object.kids \subseteq Attributes(object.type, {"Child", "Maybe"})
                     /\ Attributes(object.type, {"Child"}) \subseteq object.kids
                     /\ DOMAIN object.arrays \subseteq Attributes(object.type, {"List", "ListIfAny"})
<1>1. Root \in DOMAIN file /\ file[Root].type = "Root" /\ DOMAIN file \subseteq Paths
  BY FilesAssumption DEF FilesAssumption, Paths
<1>2. \A q \in DOMAIN file \ {Root} :
         Front(q) \in DOMAIN file /\ Holds(file[Front(q)], Last(q)[1], Last(q)[2])
  BY FilesAssumption DEF FilesAssumption
<1>3. \A p \in DOMAIN file :
        /\ file[p].kids \cup DOMAIN file[p].arrays \subseteq STRING
        /\ \A a \in file[p].kids : Under(p, a, 0) \in DOMAIN file
        /\ \A a \in DOMAIN file[p].arrays :
              /\ file[p].arrays[a] \in Seq(BOOLEAN)
              /\ \A i \in DOMAIN file[p].arrays[a] :
                    file[p].arrays[a][i] => Under(p, a, i) \in DOMAIN file
        /\ file[p].type \in Kinds =>
              /\ Attributes(file[p].type, {"Child"}) \subseteq file[p].kids
              /\ file[p].kids \subseteq Attributes(file[p].type, {"Child", "Maybe"})
              /\ DOMAIN file[p].arrays \subseteq Attributes(file[p].type, {"List", "ListIfAny"})
  BY FilesAssumption DEF FilesAssumption
<1>4. Root \in Places
  BY <1>1 DEF Places, IsComment
<1> QED
  BY <1>1, <1>2, <1>3, <1>4 DEF Places, ObjectAt

\* The rows of a kind: no two import the same attribute, and the file's comments are imported only
\* when they are kept.
LEMMA RowsOfKind ==
  ASSUME NEW type \in Kinds, NEW comments \in BOOLEAN
  PROVE  LET args == RowsOf(type, comments) IN
         /\ RowsFit(type, args)
         /\ \A i \in DOMAIN args : args[i].attr \in STRING /\ args[i].op \in STRING
         /\ \A i, j \in DOMAIN args :
               ImportsNodes(args[i]) /\ ImportsNodes(args[j]) /\ args[i].attr = args[j].attr => i = j
         /\ DOMAIN args \subseteq Nat \ {0}
<1>1. RowsFit(type, RowsOf(type, comments))
  BY TablesAssumption DEF TablesAssumption
<1>2. RowsOf(type, comments) \in Seq(ArgumentRows)
  BY <1>1 DEF RowsFit
<1> DEFINE args == RowsOf(type, comments)
<1>3. \A i \in DOMAIN args : args[i] \in ArgumentRows /\ i \in Nat \ {0}
  BY <1>2
<1>4. \A i \in DOMAIN args : args[i].attr \in STRING /\ args[i].op \in STRING
  BY <1>3 DEF ArgumentRows
<1>5. \A i, j \in DOMAIN args :
         ImportsNodes(args[i]) /\ ImportsNodes(args[j]) /\ args[i].attr = args[j].attr => i = j
  BY <1>1 DEF RowsFit
<1> QED
  BY <1>1, <1>3, <1>4, <1>5

\* The file: its statements, and its comments when they are kept.
LEMMA RowsOfRoot ==
  ASSUME NEW comments \in BOOLEAN
  PROVE  LET args == RowsOf("Root", comments) IN
         /\ DOMAIN args = {1, 2}
         /\ args[1] = List("body")
         /\ comments => args[2].op = "List" /\ args[2].attr = "comments"
         /\ ~comments => args[2].op = "Nothing"
BY DEF RowsOf, RootImports, List, Nothing, Early, Argument

\* The attributes of an object that hold objects are those its kind imports nodes from.
LEMMA RowOfAttribute ==
  ASSUME NEW type \in Kinds, NEW ops, NEW attr \in Attributes(type, ops)
  PROVE  \E i \in DOMAIN RowsOf(type, TRUE) :
            RowsOf(type, TRUE)[i].attr = attr /\ RowsOf(type, TRUE)[i].op \in ops
BY DEF Attributes, ToSet

\* Without the comments, every other row is the same.
LEMMA RowWhenKept ==
  ASSUME NEW type \in Kinds, keep \in BOOLEAN, NEW i \in DOMAIN RowsOf(type, TRUE),
         keep \/ type # "Root" \/ RowsOf(type, TRUE)[i].attr # "comments"
  PROVE  i \in DOMAIN Arguments(type) /\ Arguments(type)[i] = RowsOf(type, TRUE)[i]
<1>1. CASE keep \/ type # "Root"
  BY <1>1 DEF Arguments, RowsOf
<1>2. CASE ~keep /\ type = "Root"
  <2>1. DOMAIN RowsOf("Root", TRUE) = {1, 2} /\ DOMAIN RowsOf("Root", FALSE) = {1, 2}
        /\ RowsOf("Root", TRUE)[1] = RowsOf("Root", FALSE)[1]
        /\ RowsOf("Root", TRUE)[2].attr = "comments"
    BY RowsOfRoot
  <2> QED
    BY <1>2, <2>1 DEF Arguments
<1> QED
  BY <1>1, <1>2

\* Every part of an object is in an attribute that its kind imports.
LEMMA EveryPartIsRead ==
  ASSUME file \in Files, keep \in BOOLEAN, NEW p \in Places, ObjectAt(p).type \in Kinds,
         ObjectAt(p).type = "Root" => p = Root, NEW q \in PartsOf(p)
  PROVE  \E i \in DOMAIN Arguments(ObjectAt(p).type) :
            LET a == Arguments(ObjectAt(p).type)[i] IN
            /\ ImportsNodes(a) /\ a.attr = Last(q)[1]
            /\ ImportsOne(a) => a.attr \in ObjectAt(p).kids
            /\ ImportsMany(a) => a.attr \in DOMAIN ObjectAt(p).arrays
<1> DEFINE object == ObjectAt(p)
           attr == Last(q)[1]
           all == RowsOf(object.type, TRUE)
<1>1. q \in Places /\ q \in DOMAIN file /\ q # Root /\ Front(q) = p /\ p \in DOMAIN file
  BY DEF PartsOf, Places
<1>2. Holds(object, attr, Last(q)[2]) /\ q \in Paths
  BY <1>1, FileIsTree
<1>3. attr \in object.kids \/ attr \in DOMAIN object.arrays
  BY <1>2 DEF Holds
<1>4. keep \/ object.type # "Root" \/ attr # "comments"
  <2>1. SUFFICES ASSUME ~keep, object.type = "Root" PROVE attr # "comments"
    OBVIOUS
  <2>2. ~IsComment(q) /\ Front(q) = Root
    BY <1>1, <2>1 DEF Places
  <2> QED
    BY <1>1, <1>2, <2>2, CommentsAreWhole
<1>5. /\ object.kids \subseteq Attributes(object.type, {"Child", "Maybe"})
      /\ DOMAIN object.arrays \subseteq Attributes(object.type, {"List", "ListIfAny"})
  BY <1>1, FileIsTree
<1>6. ASSUME NEW i \in DOMAIN all, all[i].attr = attr
      PROVE  i \in DOMAIN Arguments(object.type) /\ Arguments(object.type)[i] = all[i]
  BY <1>4, <1>6, RowWhenKept
<1>7. CASE attr \in object.kids
  <2>1. PICK i \in DOMAIN all : all[i].attr = attr /\ all[i].op \in {"Child", "Maybe"}
    BY <1>5, <1>7, RowOfAttribute
  <2>2. ImportsOne(all[i]) /\ ~ImportsMany(all[i])
    BY <2>1 DEF ImportsOne, ImportsMany
  <2> QED
    BY <1>6, <1>7, <2>1, <2>2 DEF ImportsNodes
<1>8. CASE attr \in DOMAIN object.arrays
  <2>1. PICK i \in DOMAIN all : all[i].attr = attr /\ all[i].op \in {"List", "ListIfAny"}
    BY <1>5, <1>8, RowOfAttribute
  <2>2. ~ImportsOne(all[i]) /\ ImportsMany(all[i])
    BY <2>1 DEF ImportsOne, ImportsMany
  <2> QED
    BY <1>6, <1>8, <2>1, <2>2 DEF ImportsNodes
<1> QED
  BY <1>3, <1>7, <1>8

\* The parts in one attribute: the one child, or the elements of the array.
LEMMA PartsOfArgument ==
  ASSUME file \in Files, keep \in BOOLEAN, NEW p \in Places, ObjectAt(p).type \in Kinds,
         ObjectAt(p).type = "Root" => p = Root,
         NEW i \in DOMAIN Arguments(ObjectAt(p).type),
         ImportsNodes(Arguments(ObjectAt(p).type)[i]),
         NEW q \in PartsIn(p, Arguments(ObjectAt(p).type)[i].attr)
  PROVE  LET a == Arguments(ObjectAt(p).type)[i] IN
         /\ ImportsOne(a) =>
               a.attr \in ObjectAt(p).kids /\ q = Under(p, a.attr, 0)
         /\ ImportsMany(a) =>
               /\ a.attr \in DOMAIN ObjectAt(p).arrays
               /\ Last(q)[2] \in DOMAIN ArrayOf(p, a.attr) /\ ArrayOf(p, a.attr)[Last(q)[2]]
               /\ q = Under(p, a.attr, Last(q)[2])
<1> DEFINE object == ObjectAt(p)
           args == Arguments(object.type)
           attr == args[i].attr
<1>1. q \in PartsOf(p) /\ Last(q)[1] = attr
  BY DEF PartsIn
<1>2. q \in DOMAIN file /\ q # Root /\ Front(q) = p
  BY <1>1 DEF PartsOf, Places
<1>3. Holds(object, attr, Last(q)[2]) /\ q \in Paths
  BY <1>1, <1>2, FileIsTree
<1>4. q = Under(p, attr, Last(q)[2])
  BY <1>1, <1>2, <1>3, BelowIsUnder
<1>5. PICK j \in DOMAIN args :
        /\ ImportsNodes(args[j]) /\ args[j].attr = attr
        /\ ImportsOne(args[j]) => attr \in object.kids
        /\ ImportsMany(args[j]) => attr \in DOMAIN object.arrays
  BY <1>1, EveryPartIsRead
<1>6. j = i
  BY <1>5, RowsOfKind DEF Arguments
<1>7. \A ops : attr \in Attributes(object.type, ops) =>
         \E k \in DOMAIN RowsOf(object.type, TRUE) :
            RowsOf(object.type, TRUE)[k].attr = attr /\ RowsOf(object.type, TRUE)[k].op \in ops
  BY RowOfAttribute
<1>8. ~(attr \in object.kids /\ attr \in DOMAIN object.arrays)
  <2>1. SUFFICES ASSUME attr \in object.kids, attr \in DOMAIN object.arrays PROVE FALSE
    OBVIOUS
  <2>2. /\ attr \in Attributes(object.type, {"Child", "Maybe"})
        /\ attr \in Attributes(object.type, {"List", "ListIfAny"})
    BY <2>1, FileIsTree DEF Places
  <2>3. PICK k \in DOMAIN RowsOf(object.type, TRUE) :
          RowsOf(object.type, TRUE)[k].attr = attr
          /\ RowsOf(object.type, TRUE)[k].op \in {"Child", "Maybe"}
    BY <1>7, <2>2
  <2>4. PICK m \in DOMAIN RowsOf(object.type, TRUE) :
          RowsOf(object.type, TRUE)[m].attr = attr
          /\ RowsOf(object.type, TRUE)[m].op \in {"List", "ListIfAny"}
    BY <1>7, <2>2
  <2>5. k = m
    BY <2>3, <2>4, RowsOfKind DEF ImportsNodes, ImportsOne, ImportsMany
  <2> QED
    BY <2>3, <2>4, <2>5
<1> QED
  BY <1>3, <1>4, <1>5, <1>6, <1>8 DEF Holds, ArrayOf

\* What an argument imports is a part of the object.
LEMMA ArgumentsArePartsOfFile ==
  ASSUME file \in Files, keep \in BOOLEAN, NEW p \in Places, ObjectAt(p).type \in Kinds,
         ObjectAt(p).type = "Root" => p = Root,
         NEW i \in DOMAIN Arguments(ObjectAt(p).type),
         ImportsNodes(Arguments(ObjectAt(p).type)[i])
  PROVE  LET a == Arguments(ObjectAt(p).type)[i] IN
         /\ a.attr \in ObjectAt(p).kids => Under(p, a.attr, 0) \in PartsIn(p, a.attr)
         /\ a.attr \in DOMAIN ObjectAt(p).arrays =>
               /\ ArrayOf(p, a.attr) \in Seq(BOOLEAN)
               /\ \A j \in DOMAIN ArrayOf(p, a.attr) :
                     ArrayOf(p, a.attr)[j] => Under(p, a.attr, j) \in PartsIn(p, a.attr)
<1> DEFINE object == ObjectAt(p)
           args == Arguments(object.type)
           attr == args[i].attr
<1>1. attr \in STRING /\ p \in Paths /\ p \in DOMAIN file
  BY RowsOfKind, FileIsTree DEF Arguments, Places
<1>2. ASSUME NEW j \in Nat, Under(p, attr, j) \in DOMAIN file
      PROVE  Under(p, attr, j) \in PartsIn(p, attr)
  <2> DEFINE q == Under(p, attr, j)
  <2>1. q \in Paths /\ q # Root /\ Front(q) = p /\ Last(q) = <<attr, j>>
    BY <1>1, UnderIsBelow
  <2> HIDE DEF q
  <2>2. keep \/ ~IsComment(q)
    <3>1. SUFFICES ASSUME ~keep PROVE ~IsComment(q)
      OBVIOUS
    <3>2. CASE p = Root
      <4>1. object.type = "Root"
        BY <3>2, FileIsTree
      <4>2. args = RowsOf("Root", FALSE)
        BY <3>1, <4>1 DEF Arguments
      <4>3. attr = "body"
        <5>1. i \in {1, 2} /\ args[1] = List("body") /\ args[2].op = "Nothing"
          BY <4>2, RowsOfRoot
        <5>2. i # 2
          BY <5>1 DEF ImportsNodes, ImportsOne, ImportsMany
        <5> QED
          BY <5>1, <5>2 DEF List, Argument
      <4> QED
        BY <2>1, <3>2, <4>3, CommentsAreWhole
    <3>3. CASE p # Root
      BY <2>1, <3>1, <3>3, CommentsAreWhole DEF Places
    <3> QED
      BY <3>2, <3>3
  <2>3. q \in DOMAIN file
    BY <1>2 DEF q
  <2>4. q \in PartsIn(p, attr)
    BY <2>1, <2>2, <2>3 DEF PartsIn, PartsOf, Places
  <2> QED
    BY <2>4 DEF q
<1>3. attr \in object.kids => Under(p, attr, 0) \in DOMAIN file
  BY <1>1, FileIsTree
<1>4. attr \in DOMAIN object.arrays =>
         /\ object.arrays[attr] \in Seq(BOOLEAN)
         /\ \A j \in DOMAIN object.arrays[attr] :
               object.arrays[attr][j] => j \in Nat /\ Under(p, attr, j) \in DOMAIN file
  BY <1>1, FileIsTree
<1> QED
  BY <1>2, <1>3, <1>4 DEF ArrayOf

------------------------------------------------------------------------------------------
\* The innermost call goes on, or calls the importer for a part of its object.
GoesOn(t) == stack' = <<t>> \o Tail(stack)
Enters(t, q) == stack' = <<Call(q)>> \o (<<t>> \o Tail(stack))
KeepsCall(t, more) == Arrived' = Arrived \cup more => CallInv(t)'

\* A call keeps what it has while more places arrive.
LEMMA CallsGrow ==
  ASSUME UNCHANGED <<file, keep>>, Arrived \subseteq Arrived', NEW c, CallInv(c)
  PROVE  CallInv(c)'
<1> DEFINE args == Arguments(ObjectAt(c.place).type)
<1>1. ObjectAt(c.place)' = ObjectAt(c.place) /\ args' = args /\ Places' = Places
  BY DEF ObjectAt, Arguments, Places
<1>2. /\ \A attr : PartsIn(c.place, attr)' = PartsIn(c.place, attr)
      /\ \A attr : ArrayOf(c.place, attr)' = ArrayOf(c.place, attr)
  BY <1>1 DEF PartsIn, PartsOf, ArrayOf
<1>3. \A i \in c.done : PartsIn(c.place, args[i].attr) \subseteq Arrived'
  BY DEF CallInv
<1>4. c.current # 0 => ArrayInv(c, args[c.current])'
  <2>1. SUFFICES ASSUME c.current # 0 PROVE ArrayInv(c, args[c.current])'
    OBVIOUS
  <2>2. ArrayInv(c, args[c.current])
    BY <2>1 DEF CallInv
  <2> QED
    BY <1>1, <1>2, <2>2 DEF ArrayInv
<1> QED
  BY <1>1, <1>2, <1>3, <1>4 DEF CallInv

\* The innermost call, and the calls around it.
LEMMA TopCall ==
  ASSUME ImportInv, Importing
  PROVE  /\ top \in Frames /\ top = stack[1] /\ CallInv(top)
         /\ Len(stack) \in Nat /\ Len(stack) >= 1 /\ Len(top.place) = Len(stack) - 1
         /\ Tail(stack) \in Seq(Frames) /\ Len(Tail(stack)) = Len(stack) - 1
         /\ \A k \in 1..(Len(stack) - 1) : Tail(stack)[k] = stack[k + 1]
         /\ top.place \in Places /\ top.place \in DOMAIN file /\ top.place \in Paths
         /\ topObject.type \in Kinds /\ (topObject.type = "Root" => top.place = Root)
         /\ topArguments = Arguments(ObjectAt(top.place).type)
<1>1. stack \in Seq(Frames) /\ stack # << >>
  BY DEF ImportInv, Typing, Importing
<1>2. Len(stack) \in Nat /\ Len(stack) >= 1 /\ 1 \in DOMAIN stack
  BY <1>1
<1>3. top = stack[1] /\ top \in Frames
  BY <1>1 DEF top
<1>4. CallInv(top) /\ Len(top.place) = Len(stack) - 1
  BY <1>2, <1>3 DEF ImportInv, CallsInv, DepthInv
<1>5. /\ Tail(stack) \in Seq(Frames) /\ Len(Tail(stack)) = Len(stack) - 1
      /\ \A k \in 1..Len(Tail(stack)) : Tail(stack)[k] = stack[k + 1]
  BY <1>1, HeadTailProperties
<1>6. /\ top.place \in Places /\ topObject.type \in Kinds
      /\ topObject.type = "Root" => top.place = Root
  BY <1>4 DEF CallInv, topObject
<1> QED
  BY <1>2, <1>3, <1>4, <1>5, <1>6 DEF Places, topArguments, topObject, Frames

\* The innermost call goes on with another argument or element.
LEMMA CallGoesOn ==
  ASSUME ImportInv, Importing, NEW t \in Frames, t.place = top.place
  PROVE  LET calls == <<t>> \o Tail(stack) IN
         /\ calls \in Seq(Frames) /\ Len(calls) = Len(stack) /\ calls[1] = t
         /\ \A k \in 2..Len(stack) : calls[k] = stack[k]
         /\ \A k \in DOMAIN stack : calls[k].place = stack[k].place
<1> DEFINE calls == <<t>> \o Tail(stack)
<1>1. stack \in Seq(Frames)
  BY DEF ImportInv, Typing
<1>2. calls \in Seq(Frames) /\ Len(calls) = Len(stack) /\ calls[1] = t
  BY TopCall
<1>3. ASSUME NEW k \in 2..Len(stack) PROVE calls[k] = stack[k]
  <2>1. k - 1 \in 1..(Len(stack) - 1) /\ k - 1 + 1 = k /\ k - 1 \in 1..Len(Tail(stack)) /\ k # 1
    BY TopCall
  <2>2. calls[k] = Tail(stack)[k - 1]
    BY <2>1, TopCall
  <2> QED
    BY <2>1, <2>2, TopCall
<1> HIDE DEF calls
<1>4. \A k \in DOMAIN stack : calls[k].place = stack[k].place
  <2>1. \A k \in DOMAIN stack : k = 1 \/ k \in 2..Len(stack)
    BY <1>1
  <2> QED
    BY <1>2, <1>3, <2>1, TopCall
<1> QED
  BY <1>2, <1>3, <1>4 DEF calls

\* The import goes on when the innermost call moves and nothing arrives.
LEMMA AdvanceCall ==
  ASSUME ImportInv, Importing, NEW t \in Frames, t.place = top.place, KeepsCall(t, {}),
         GoesOn(t), UNCHANGED <<file, keep, nodes, phase, visitor, pending, seen>>
  PROVE  ImportInv' /\ Arrived' = Arrived
<1>1. /\ stack' \in Seq(Frames) /\ Len(stack') = Len(stack) /\ stack'[1] = t
      /\ \A k \in 2..Len(stack) : stack'[k] = stack[k]
      /\ \A k \in DOMAIN stack : stack'[k].place = stack[k].place
  <2> DEFINE calls == <<t>> \o Tail(stack)
  <2>1. /\ calls \in Seq(Frames) /\ Len(calls) = Len(stack) /\ calls[1] = t
        /\ \A k \in 2..Len(stack) : calls[k] = stack[k]
        /\ \A k \in DOMAIN stack : calls[k].place = stack[k].place
    BY CallGoesOn
  <2>2. stack' = calls
    BY DEF GoesOn
  <2> HIDE DEF calls
  <2> QED
    BY <2>1, <2>2
<1>2. Len(stack) \in Nat /\ Len(stack) >= 1 /\ DOMAIN stack = 1..Len(stack) /\ DOMAIN stack' = DOMAIN stack
  <2>1. stack \in Seq(Frames) /\ stack' \in Seq(Frames)
    BY <1>1 DEF ImportInv, Typing
  <2>2. DOMAIN stack = 1..Len(stack) /\ DOMAIN stack' = 1..Len(stack')
    BY <2>1
  <2> QED
    BY <1>1, <2>2, TopCall
<1>3. Arrived' = Arrived
  <2>1. \A q : (\E k \in DOMAIN stack : stack'[k].place = q) <=> (\E k \in DOMAIN stack : stack[k].place = q)
    BY <1>1
  <2>2. {stack'[k].place : k \in DOMAIN stack'} = {stack[k].place : k \in DOMAIN stack}
    BY <1>2, <2>1
  <2> QED
    BY <2>2 DEF Arrived
<1>4. Typing'
  BY <1>1 DEF ImportInv, Typing
<1>5. PhaseInv'
  BY <1>1, <1>2 DEF ImportInv, PhaseInv, Importing
<1>6. DepthInv'
  BY <1>1, <1>2 DEF ImportInv, DepthInv
<1>7. CallsInv'
  <2>1. SUFFICES ASSUME NEW k \in DOMAIN stack, NEW d, d = stack'[k] PROVE CallInv(d)'
    BY <1>2 DEF CallsInv
  <2>2. CASE k = 1
    <3>1. CallInv(t)' /\ d = t
      BY <1>1, <1>3, <2>1, <2>2 DEF KeepsCall
    <3> QED
      BY <3>1
  <2>3. CASE k # 1
    <3>1. k \in 2..Len(stack)
      BY <1>2, <2>3
    <3>2. CallInv(d)
      BY <1>1, <2>1, <3>1 DEF ImportInv, CallsInv
    <3> QED
      BY <1>3, <3>2, CallsGrow
  <2> QED
    BY <2>2, <2>3
<1>8. NodesInv'
  BY DEF ImportInv, NodesInv, Known, ObjectAt, Places, PartsOf, WordIsKnown
<1>9. RefusedInv'
  BY DEF ImportInv, RefusedInv, HasUnknown, ObjectAt, Places, WordIsKnown
<1> QED
  BY <1>3, <1>4, <1>5, <1>6, <1>7, <1>8, <1>9 DEF ImportInv

\* The importer calls itself for a part of the innermost call's object.
LEMMA PartIsBelow ==
  ASSUME file \in Files, NEW p \in Places, NEW q \in PartsOf(p)
  PROVE  /\ q \in Places /\ q \in Paths /\ q # Root /\ Front(q) = p
         /\ Len(q) = Len(p) + 1 /\ Len(p) \in Nat
<1>1. q \in Places /\ q # Root /\ Front(q) = p
  BY DEF PartsOf
<1>2. q \in Paths /\ p \in Paths
  BY <1>1, FileIsTree
<1>3. Len(q) \in Nat /\ Len(p) = Len(q) - 1
  BY <1>1, <1>2, BelowIsUnder
<1>4. Len(p) \in Nat
  BY <1>2 DEF Paths
<1> QED
  BY <1>1, <1>2, <1>3, <1>4

\* A call in front of a stack of calls: where each is afterwards.
LEMMA CallEntered ==
  ASSUME NEW calls \in Seq(Frames), NEW c \in Frames
  PROVE  LET more == <<c>> \o calls IN
         /\ more \in Seq(Frames) /\ Len(more) = Len(calls) + 1 /\ more[1] = c
         /\ \A k \in 1..Len(calls) : more[k + 1] = calls[k]
         /\ \A k \in DOMAIN more : k = 1 \/ (k - 1 \in 1..Len(calls) /\ more[k] = calls[k - 1])
<1> DEFINE more == <<c>> \o calls
<1>1. Len(calls) \in Nat
  OBVIOUS
<1>2. more \in Seq(Frames) /\ Len(more) = Len(calls) + 1 /\ more[1] = c
  OBVIOUS
<1>3. \A k \in 2..(Len(calls) + 1) : more[k] = calls[k - 1]
  OBVIOUS
<1> HIDE DEF more
<1>4. DOMAIN more = 1..(Len(calls) + 1)
  BY <1>2
<1>5. ASSUME NEW k \in 1..Len(calls) PROVE more[k + 1] = calls[k]
  <2>1. k + 1 \in 2..(Len(calls) + 1) /\ k + 1 - 1 = k
    BY <1>1
  <2> QED
    BY <1>3, <2>1
<1>6. ASSUME NEW k \in DOMAIN more, k # 1
      PROVE  k - 1 \in 1..Len(calls) /\ more[k] = calls[k - 1]
  <2>1. k \in 2..(Len(calls) + 1)
    BY <1>1, <1>4, <1>6
  <2> QED
    BY <1>1, <1>3, <2>1
<1> QED
  BY <1>2, <1>5, <1>6 DEF more

\* The import goes on when a call of importNode begins for a part of the innermost object.
LEMMA EnterCall ==
  ASSUME ImportInv, Importing, NEW t \in Frames, t.place = top.place,
         NEW q \in PartsOf(top.place), ObjectAt(q).type \in DOMAIN ImportFunctions,
         Enters(t, q),
         UNCHANGED <<file, keep, nodes, phase, visitor, pending, seen>>,
         KeepsCall(t, {q})
  PROVE  ImportInv' /\ Arrived' = Arrived \cup {q}
<1> DEFINE calls == <<t>> \o Tail(stack)
<1>1. /\ calls \in Seq(Frames) /\ Len(calls) = Len(stack) /\ calls[1] = t
      /\ \A k \in 2..Len(stack) : calls[k] = stack[k]
      /\ \A k \in DOMAIN stack : calls[k].place = stack[k].place
  BY CallGoesOn
<1>2. /\ stack \in Seq(Frames) /\ Len(stack) \in Nat /\ Len(stack) >= 1
      /\ DOMAIN stack = 1..Len(stack)
  <2>1. stack \in Seq(Frames)
    BY DEF ImportInv, Typing
  <2> QED
    BY <2>1, TopCall
<1>3. q \in Places /\ q \in Paths /\ q # Root /\ Len(q) = Len(stack)
  <2>1. file \in Files /\ top.place \in Places
    BY TopCall DEF ImportInv, Typing
  <2>2. q \in Places /\ q \in Paths /\ q # Root /\ Len(q) = Len(top.place) + 1
    BY <2>1, PartIsBelow
  <2>3. Len(top.place) = Len(stack) - 1
    BY TopCall
  <2>4. \A m, n \in Nat : m = n - 1 => m + 1 = n
    OBVIOUS
  <2>5. Len(top.place) \in Nat
    BY <2>1, PartIsBelow
  <2>6. Len(top.place) + 1 = Len(stack)
    BY <1>2, <2>3, <2>4, <2>5
  <2> QED
    BY <2>2, <2>6
<1>4. Call(q) \in Frames
  BY <1>3 DEF Call, Frames
<1> HIDE DEF calls
<1>5. stack' = <<Call(q)>> \o calls
  BY DEF calls, Enters
<1>6. /\ stack' \in Seq(Frames) /\ Len(stack') = Len(stack) + 1 /\ stack'[1] = Call(q)
      /\ \A k \in 1..Len(stack) : stack'[k + 1] = calls[k]
      /\ \A k \in DOMAIN stack' : k = 1 \/ (k - 1 \in 1..Len(stack) /\ stack'[k] = calls[k - 1])
  <2> DEFINE more == <<Call(q)>> \o calls
  <2>1. /\ more \in Seq(Frames) /\ Len(more) = Len(calls) + 1 /\ more[1] = Call(q)
        /\ \A k \in 1..Len(calls) : more[k + 1] = calls[k]
        /\ \A k \in DOMAIN more : k = 1 \/ (k - 1 \in 1..Len(calls) /\ more[k] = calls[k - 1])
    BY <1>1, <1>4, CallEntered
  <2>2. stack' = more
    BY <1>5
  <2> HIDE DEF more
  <2> QED
    BY <1>1, <2>1, <2>2
<1> DEFINE s == stack'
<1>61. s = stack' /\ DOMAIN s = 1..(Len(stack) + 1)
  BY <1>6
<1>62. s[1].place = q /\ \A k \in 1..Len(stack) : s[k + 1].place = stack[k].place /\ k + 1 \in DOMAIN s
  <2>1. s[1].place = q
    BY <1>6, <1>61 DEF Call
  <2>2. \A k \in 1..Len(stack) : s[k + 1] = calls[k]
    BY <1>6, <1>61
  <2>3. \A k \in 1..Len(stack) : calls[k].place = stack[k].place
    BY <1>1, <1>2
  <2>4. \A n \in Nat : \A k \in 1..n : k + 1 \in 1..(n + 1)
    OBVIOUS
  <2>5. \A k \in 1..Len(stack) : k + 1 \in DOMAIN s
    BY <1>2, <1>61, <2>4
  <2> HIDE DEF s
  <2> QED
    BY <2>1, <2>2, <2>3, <2>5
<1>63. \A k \in DOMAIN s : k # 1 => k - 1 \in DOMAIN stack /\ s[k].place = stack[k - 1].place
  BY <1>1, <1>2, <1>6, <1>61
<1> HIDE DEF s
<1>7. Arrived' = Arrived \cup {q}
  <2>1. 1 \in DOMAIN s
    BY <1>2, <1>61
  <2>2. ASSUME NEW p
        PROVE  (\E k \in DOMAIN s : s[k].place = p)
                  <=> p = q \/ (\E k \in DOMAIN stack : stack[k].place = p)
    <3>1. ASSUME NEW k \in DOMAIN s, s[k].place = p
          PROVE  p = q \/ (\E j \in DOMAIN stack : stack[j].place = p)
      BY <1>62, <1>63, <3>1
    <3>2. ASSUME NEW j \in DOMAIN stack, stack[j].place = p PROVE \E k \in DOMAIN s : s[k].place = p
      BY <1>2, <1>62, <3>2
    <3> QED
      BY <1>62, <2>1, <3>1, <3>2
  <2>3. {s[k].place : k \in DOMAIN s} = {q} \cup {stack[k].place : k \in DOMAIN stack}
    BY <2>2
  <2>4. {s[k].place : k \in DOMAIN s} = {stack[k].place : k \in DOMAIN stack}'
    BY <1>61
  <2>5. (DOMAIN nodes)' = DOMAIN nodes
    OBVIOUS
  <2>6. Arrived' = (DOMAIN nodes)' \cup {stack[k].place : k \in DOMAIN stack}'
    BY DEF Arrived
  <2>7. Arrived = DOMAIN nodes \cup {stack[k].place : k \in DOMAIN stack}
    BY DEF Arrived
  <2> QED
    BY <2>3, <2>4, <2>5, <2>6, <2>7
<1>8. CallInv(t)'
  BY <1>7 DEF KeepsCall
<1>9. Typing'
  BY <1>6 DEF ImportInv, Typing
<1>10. PhaseInv'
  <2>1. stack' # << >>
    BY <1>2, <1>6
  <2> QED
    BY <2>1 DEF ImportInv, PhaseInv, Importing
<1>11. DepthInv'
  <2>1. SUFFICES ASSUME NEW k \in DOMAIN stack' PROVE Len(stack'[k].place) = Len(stack') - k
    BY DEF DepthInv
  <2>2. CASE k = 1
    BY <1>3, <1>6, <2>2 DEF Call
  <2>3. CASE k # 1
    <3>1. k - 1 \in DOMAIN stack /\ stack'[k].place = stack[k - 1].place /\ k \in Int
      BY <1>61, <1>63, <2>3
    <3>2. Len(stack[k - 1].place) = Len(stack) - (k - 1)
      BY <3>1 DEF ImportInv, DepthInv
    <3> QED
      BY <1>2, <1>6, <3>1, <3>2
  <2> QED
    BY <2>2, <2>3
<1>12. CallsInv'
  <2>1. SUFFICES ASSUME NEW k \in DOMAIN stack', NEW d, d = stack'[k] PROVE CallInv(d)'
    BY DEF CallsInv
  <2>2. CASE k = 1
    <3>1. d = Call(q)
      BY <1>6, <2>1, <2>2
    <3>2. CallInv(d)
      <4>1. /\ d.place = q /\ d.done = {} /\ d.current = 0 /\ d.index = 0 /\ d.length = 0
        BY <3>1 DEF Call
      <4>2. ObjectAt(q).type \in Kinds /\ ObjectAt(q).type # "Root"
        BY TablesAssumption DEF TablesAssumption, Kinds
      <4>3. 0 < IndexRange
        BY IndexRangeAssumption
      <4> QED
        BY <1>3, <4>1, <4>2, <4>3 DEF CallInv
    <3> QED
      BY <1>7, <3>2, CallsGrow
  <2>3. CASE k = 2
    <3>1. d = t
      BY <1>1, <1>6, <2>1, <2>3
    <3> QED
      BY <1>8, <3>1
  <2>4. CASE k # 1 /\ k # 2
    <3>1. k - 1 \in 2..Len(stack) /\ d = calls[k - 1]
      <4>1. k - 1 \in 1..Len(stack) /\ stack'[k] = calls[k - 1]
        BY <1>6, <2>4
      <4>2. \A n \in Nat, m \in Nat : m # 1 /\ m # 2 /\ m - 1 \in 1..n => m - 1 \in 2..n
        OBVIOUS
      <4>3. k \in Nat
        BY <1>2, <1>61
      <4> QED
        BY <1>2, <2>1, <2>4, <4>1, <4>2, <4>3
    <3>2. CallInv(d)
      BY <1>1, <1>2, <3>1 DEF ImportInv, CallsInv
    <3> QED
      BY <1>7, <3>2, CallsGrow
  <2> QED
    BY <2>2, <2>3, <2>4
<1>13. NodesInv'
  BY DEF ImportInv, NodesInv, Known, ObjectAt, Places, PartsOf, WordIsKnown
<1>14. RefusedInv'
  BY DEF ImportInv, RefusedInv, HasUnknown, ObjectAt, Places, WordIsKnown
<1> QED
  BY <1>7, <1>9, <1>10, <1>11, <1>12, <1>13, <1>14 DEF ImportInv

\* The importer throws.
LEMMA ImportThrows ==
  ASSUME ImportInv, Importing, HasUnknown, stack' = << >>, phase' = "failed",
         UNCHANGED <<file, keep, nodes, visitor, pending, seen>>
  PROVE  ImportInv'
<1>1. Typing' /\ PhaseInv' /\ DepthInv' /\ CallsInv'
  BY DEF ImportInv, Typing, PhaseInv, DepthInv, CallsInv, Importing
<1>2. NodesInv'
  BY DEF ImportInv, NodesInv, Known, ObjectAt, Places, PartsOf, WordIsKnown
<1>3. HasUnknown'
  BY DEF HasUnknown, ObjectAt, Places, WordIsKnown
<1> QED
  BY <1>1, <1>2, <1>3 DEF ImportInv, RefusedInv

------------------------------------------------------------------------------------------
\* What the innermost call may start is among the arguments it has left.
LEMMA NextIsLeft ==
  ASSUME ImportInv, Importing
  PROVE  NextArguments(top) \subseteq Left(top)
<1> DEFINE args == Arguments(ObjectAt(top.place).type)
           words == {i \in Left(top) : ~WordIsKnown(ObjectAt(top.place), args[i])}
           early == {i \in Left(top) : args[i].early}
<1>1. topObject.type \in Kinds /\ keep \in BOOLEAN /\ args = Arguments(topObject.type)
  BY TopCall DEF ImportInv, Typing, topObject
<1>2. early \subseteq Left(top) /\ words \subseteq Left(top)
  OBVIOUS
<1>3. Left(top) \subseteq Nat
  BY <1>1, RowsOfKind DEF Left, Arguments, topObject
<1>4. early # {} => (CHOOSE i \in early : \A j \in early : i <= j) \in early
  <2>1. SUFFICES ASSUME early # {} PROVE \E i \in early : \A j \in early : i <= j
    OBVIOUS
  <2>2. early \in SUBSET Nat
    BY <1>2, <1>3
  <2> HIDE DEF early
  <2> QED
    BY <2>1, <2>2, LeastNumber
<1>5. NextArguments(top) = CASE words # {} -> words
                             [] words = {} /\ early # {} -> {CHOOSE i \in early : \A j \in early : i <= j}
                             [] OTHER -> Left(top)
  BY DEF NextArguments
<1> HIDE DEF words, early
<1> QED
  BY <1>2, <1>4, <1>5

\* What Startable offers: an argument that is left, and takes a step.
LEMMA StartableArgument ==
  ASSUME ImportInv, NEW i \in Startable
  PROVE  /\ Importing /\ top.current = 0 /\ i \in DOMAIN topArguments /\ i \notin top.done
         /\ TakesSteps(topObject, topArguments[i])
         /\ i \in Nat \ {0}
<1>1. Importing /\ top.current = 0 /\ i \in NextArguments(top)
  BY DEF Startable
<1>2. i \in Left(top)
  BY <1>1, NextIsLeft
<1>3. i \in DOMAIN topArguments /\ i \notin top.done /\ TakesSteps(topObject, topArguments[i])
  BY <1>2 DEF Left, topArguments, topObject
<1>4. topObject.type \in Kinds /\ keep \in BOOLEAN
  BY <1>1, TopCall DEF ImportInv, Typing
<1> QED
  BY <1>1, <1>3, <1>4, RowsOfKind DEF topArguments, Arguments

\* The innermost call with one more argument or element.
DoneArrives(t) ==
    \A i \in t.done \ top.done :
        /\ i \in DOMAIN topArguments /\ ImportsNodes(topArguments[i])
        /\ PartsIn(top.place, topArguments[i].attr) \subseteq Arrived'
ElementsArrive(t) ==
    /\ t.current = 0 => t.index = 0 /\ t.length = 0
    /\ t.current # 0 =>
          LET a == topArguments[t.current] IN
          /\ t.current \in DOMAIN topArguments /\ ImportsMany(a)
          /\ a.attr \in DOMAIN topObject.arrays
          /\ t.length = Len(ArrayOf(top.place, a.attr))
          /\ \A q \in PartsIn(top.place, a.attr) : Last(q)[2] <= t.index => q \in Arrived'

CallMoves(t) ==
    /\ UNCHANGED <<file, keep>> /\ Arrived \subseteq Arrived'
    /\ t.place = top.place /\ t.index < IndexRange
    /\ DoneArrives(t) /\ ElementsArrive(t)

\* What CallMoves says is enough for the call after the step.
LEMMA CallChanges ==
  ASSUME ImportInv, Importing, NEW t \in Frames, CallMoves(t)
  PROVE  CallInv(t)'
<1> DEFINE args == Arguments(ObjectAt(t.place).type)
<1>0. UNCHANGED <<file, keep>> /\ Arrived \subseteq Arrived' /\ t.place = top.place /\ t.index < IndexRange
      /\ DoneArrives(t) /\ ElementsArrive(t)
  BY DEF CallMoves
<1>1. ObjectAt(t.place)' = ObjectAt(t.place) /\ args' = args /\ Places' = Places
  BY <1>0 DEF ObjectAt, Arguments, Places
<1>2. /\ \A attr : PartsIn(t.place, attr)' = PartsIn(t.place, attr)
      /\ \A attr : ArrayOf(t.place, attr)' = ArrayOf(t.place, attr)
  BY <1>1 DEF PartsIn, PartsOf, ArrayOf
<1>3. CallInv(top) /\ args = topArguments /\ ObjectAt(t.place) = topObject
  BY <1>0, TopCall DEF topObject
<1>4. /\ top.done \subseteq {i \in DOMAIN args : ImportsNodes(args[i])}
      /\ \A i \in top.done : PartsIn(t.place, args[i].attr) \subseteq Arrived
      /\ t.place \in Places /\ topObject.type \in Kinds /\ (topObject.type = "Root" => t.place = Root)
  BY <1>0, <1>3 DEF CallInv, topObject
<1>5. t.done \subseteq {i \in DOMAIN args : ImportsNodes(args[i])}
  BY <1>0, <1>3, <1>4 DEF DoneArrives
<1>6. \A i \in t.done : PartsIn(t.place, args[i].attr) \subseteq Arrived'
  BY <1>0, <1>3, <1>4 DEF DoneArrives
<1>7. t.current # 0 => t.current \in DOMAIN args /\ ArrayInv(t, args[t.current])'
  BY <1>0, <1>1, <1>2, <1>3 DEF ArrayInv, ElementsArrive
<1>8. t.current = 0 => t.index = 0 /\ t.length = 0
  BY <1>0 DEF ElementsArrive
<1> QED
  BY <1>0, <1>1, <1>2, <1>3, <1>4, <1>5, <1>6, <1>7, <1>8 DEF CallInv

------------------------------------------------------------------------------------------
\* The steps of the import.

\* The file itself has no child and no word.
LEMMA ChildOfKind ==
  ASSUME ImportInv, Importing, NEW i \in DOMAIN topArguments, topArguments[i].op \in {"Child", "Word", "WordIfAny"}
  PROVE  topObject.type \in DOMAIN ImportFunctions /\ top.place # Root
<1>1. topObject.type \in Kinds /\ (topObject.type = "Root" => top.place = Root) /\ keep \in BOOLEAN
  BY TopCall DEF ImportInv, Typing
<1>2. topObject.type # "Root"
  <2>1. SUFFICES ASSUME topObject.type = "Root" PROVE FALSE
    OBVIOUS
  <2>2. topArguments = RowsOf("Root", keep)
    BY <2>1 DEF topArguments, Arguments
  <2>3. /\ i \in {1, 2} /\ topArguments[1].op = "List"
        /\ keep => topArguments[2].op = "List"
        /\ ~keep => topArguments[2].op = "Nothing"
    BY <1>1, <2>2, RowsOfRoot DEF List, Argument
  <2> QED
    BY <2>3
<1>3. file \in Files
  BY DEF ImportInv, Typing
<1>4. top.place # Root
  BY <1>2, <1>3, FileIsTree DEF topObject
<1> QED
  BY <1>1, <1>2, <1>4 DEF Kinds

\* importNode on a part: a call begins, or the import throws on a type it does not know.
LEMMA ImportIsSafe ==
  ASSUME ImportInv, Importing, NEW t \in Frames, t.place = top.place,
         NEW q \in PartsOf(top.place), Import(<<t>> \o Tail(stack), q),
         UNCHANGED <<file, keep, nodes, visitor, pending, seen>>, KeepsCall(t, {q})
  PROVE  /\ ImportInv'
         /\ \/ phase' = "failed"
            \/ phase' = phase /\ Enters(t, q) /\ Arrived' = Arrived \cup {q}
<1>1. CASE ObjectAt(q).type \in DOMAIN ImportFunctions
  <2>1. Enters(t, q) /\ phase' = phase
    BY <1>1 DEF Import, Enters
  <2> QED
    BY <1>1, <2>1, EnterCall
<1>2. CASE ObjectAt(q).type \notin DOMAIN ImportFunctions
  <2>1. stack' = << >> /\ phase' = "failed"
    BY <1>2 DEF Import
  <2>2. q \in Places /\ q # Root
    BY DEF PartsOf
  <2>3. HasUnknown
    BY <1>2, <2>2 DEF HasUnknown
  <2> QED
    BY <2>1, <2>3, ImportThrows
<1> QED
  BY <1>1, <1>2

\* importChild: the child is the only part in its attribute.
LEMMA ChildStep ==
  ASSUME ImportInv, ImportChild
  PROVE  \E i \in Startable, t \in Frames, q \in PartsOf(top.place) :
            LET a == topArguments[i] IN
            /\ t = [top EXCEPT !.done = @ \cup {i}] /\ t.place = top.place
            /\ ImportsOne(a) /\ q = Under(top.place, a.attr, 0) /\ q \in PartsIn(top.place, a.attr)
            /\ Import(<<t>> \o Tail(stack), q) /\ KeepsCall(t, {q})
<1>1. PICK i \in Startable :
        LET a == topArguments[i] IN
        /\ a.op \in {"Child", "Maybe"}
        /\ Import(<<[top EXCEPT !.done = @ \cup {i}]>> \o Tail(stack), Under(top.place, a.attr, 0))
  BY DEF ImportChild
<1> DEFINE a == topArguments[i]
<1>21. PICK t : t = [top EXCEPT !.done = @ \cup {i}]
  OBVIOUS
<1>22. PICK q : q = Under(top.place, a.attr, 0)
  OBVIOUS
<1>2. /\ Importing /\ top.current = 0 /\ i \in DOMAIN topArguments /\ i \notin top.done
      /\ TakesSteps(topObject, a) /\ i \in Nat
  BY StartableArgument
<1>3. ImportsOne(a) /\ ImportsNodes(a) /\ ~ImportsMany(a)
  BY <1>1 DEF ImportsNodes, ImportsOne, ImportsMany
<1>4. /\ top \in Frames /\ CallInv(top) /\ top.place \in Places
      /\ topObject.type \in Kinds /\ (topObject.type = "Root" => top.place = Root)
      /\ topArguments = Arguments(ObjectAt(top.place).type) /\ topObject = ObjectAt(top.place)
      /\ file \in Files /\ keep \in BOOLEAN
  BY <1>2, TopCall DEF ImportInv, Typing, topObject
<1>5. a.attr \in topObject.kids
  <2>1. CASE a.op = "Child"
    <3>1. topObject.type \in DOMAIN ImportFunctions /\ topObject.type # "Root"
      BY <1>2, <2>1, ChildOfKind, TablesAssumption DEF TablesAssumption
    <3>2. a \in ToSet(RowsOf(topObject.type, TRUE))
      BY <1>2, <1>4, <3>1 DEF ToSet, RowsOf, Arguments
    <3>3. a.attr \in Attributes(topObject.type, {"Child"})
      BY <2>1, <3>2 DEF Attributes
    <3> QED
      BY <1>4, <3>3, FileIsTree DEF Places
  <2>2. CASE a.op = "Maybe"
    BY <1>2, <2>2 DEF TakesSteps, WordIsKnown
  <2> QED
    BY <1>1, <2>1, <2>2
<1>6. q \in PartsIn(top.place, a.attr)
  BY <1>2, <1>22, <1>3, <1>4, <1>5, ArgumentsArePartsOfFile
<1>7. PartsIn(top.place, a.attr) = {q}
  BY <1>2, <1>22, <1>3, <1>4, <1>6, PartsOfArgument
<1>8. /\ t \in Frames /\ t.place = top.place /\ t.done = top.done \cup {i} /\ t.current = 0
      /\ t.index = top.index /\ t.length = top.length
  BY <1>2, <1>21, <1>4 DEF Frames
<1>9. t.index = 0 /\ t.length = 0 /\ t.index < IndexRange
  BY <1>2, <1>4, <1>8 DEF CallInv
<1>10. file' = file /\ keep' = keep
  BY DEF ImportChild
<1>11. KeepsCall(t, {q})
  <2>1. SUFFICES ASSUME Arrived' = Arrived \cup {q} PROVE CallInv(t)'
    BY DEF KeepsCall
  <2>2. \A j \in t.done \ top.done : j = i
    BY <1>8
  <2>3. PartsIn(top.place, a.attr) \subseteq Arrived' /\ Arrived \subseteq Arrived'
    BY <1>7, <2>1
  <2>4. DoneArrives(t)
    BY <1>2, <1>3, <2>2, <2>3 DEF DoneArrives
  <2>5. ElementsArrive(t)
    BY <1>8, <1>9 DEF ElementsArrive
  <2>6. CallMoves(t)
    BY <1>8, <1>9, <1>10, <2>3, <2>4, <2>5 DEF CallMoves
  <2> QED
    BY <1>2, <1>8, <2>6, CallChanges
<1>12. q \in PartsOf(top.place)
  BY <1>6 DEF PartsIn
<1>13. Import(<<t>> \o Tail(stack), q)
  BY <1>1, <1>21, <1>22
<1> QED
  BY <1>21, <1>22, <1>3, <1>6, <1>8, <1>11, <1>12, <1>13

\* importChild and importChildOrNullptr.
LEMMA ChildIsSafe ==
  ASSUME ImportInv, ImportChild
  PROVE  ImportInv'
<1>1. PICK i \in Startable, t \in Frames, q \in PartsOf(top.place) :
        t.place = top.place /\ Import(<<t>> \o Tail(stack), q) /\ KeepsCall(t, {q})
  BY ChildStep
<1>2. Importing
  BY StartableArgument
<1>3. UNCHANGED <<file, keep, nodes, visitor, pending, seen>>
  BY DEF ImportChild
<1> QED
  BY <1>1, <1>2, <1>3, ImportIsSafe

\* A word that the importer does not know.
LEMMA WordIsSafe ==
  ASSUME ImportInv, RefuseWord
  PROVE  ImportInv'
<1>1. PICK i \in Startable : topArguments[i].op \in {"Word", "WordIfAny"}
  BY DEF RefuseWord
<1> DEFINE a == topArguments[i]
<1>2. Importing /\ i \in DOMAIN topArguments /\ TakesSteps(topObject, a)
  BY StartableArgument
<1>3. topObject.type \in DOMAIN ImportFunctions /\ top.place # Root
  BY <1>1, <1>2, ChildOfKind
<1>4. ~WordIsKnown(topObject, a)
  BY <1>1, <1>2 DEF TakesSteps
<1>5. topObject.type # "Root"
  BY <1>3, TablesAssumption DEF TablesAssumption
<1>6. topArguments = ImportFunctions[topObject.type] /\ topObject = ObjectAt(top.place)
  BY <1>5 DEF topArguments, topObject, Arguments, RowsOf
<1>7. top.place \in Places
  BY <1>2, TopCall
<1>8. HasUnknown
  BY <1>2, <1>3, <1>4, <1>6, <1>7 DEF HasUnknown
<1> QED
  BY <1>2, <1>8, ImportThrows DEF RefuseWord

\* importChildArray: the array begins.
LEMMA ArrayStartsSafely ==
  ASSUME ImportInv, StartArray
  PROVE  /\ ImportInv' /\ Arrived' = Arrived
         /\ \E i \in Startable, t \in Frames :
               /\ t.place = top.place /\ t.done = top.done /\ t.current = i
               /\ GoesOn(t)
<1>1. PICK i \in Startable :
        LET a == topArguments[i] IN
        /\ a.op \in {"List", "ListIfAny"}
        /\ stack' = <<[top EXCEPT !.current = i, !.length = Len(topObject.arrays[a.attr])]>> \o Tail(stack)
  BY DEF StartArray
<1> DEFINE a == topArguments[i]
<1>11. PICK t : t = [top EXCEPT !.current = i, !.length = Len(topObject.arrays[a.attr])]
  OBVIOUS
<1>2. /\ Importing /\ top.current = 0 /\ i \in DOMAIN topArguments
      /\ TakesSteps(topObject, a) /\ i \in Nat /\ i # 0
  BY StartableArgument
<1>3. ImportsMany(a) /\ ImportsNodes(a) /\ a.attr \in DOMAIN topObject.arrays
  BY <1>1, <1>2 DEF ImportsNodes, ImportsMany, TakesSteps, WordIsKnown
<1>4. /\ top \in Frames /\ CallInv(top) /\ top.place \in Places
      /\ topObject.type \in Kinds /\ (topObject.type = "Root" => top.place = Root)
      /\ topArguments = Arguments(ObjectAt(top.place).type) /\ topObject = ObjectAt(top.place)
      /\ file \in Files /\ keep \in BOOLEAN
  BY <1>2, TopCall DEF ImportInv, Typing, topObject
<1>5. ArrayOf(top.place, a.attr) \in Seq(BOOLEAN) /\ topObject.arrays[a.attr] = ArrayOf(top.place, a.attr)
  BY <1>2, <1>3, <1>4, ArgumentsArePartsOfFile DEF ArrayOf
<1>6. /\ t \in Frames /\ t.place = top.place /\ t.done = top.done /\ t.current = i
      /\ t.index = top.index /\ t.length = Len(ArrayOf(top.place, a.attr))
  <2>1. PICK n : n = Len(topObject.arrays[a.attr])
    OBVIOUS
  <2>2. n \in Nat /\ n = Len(ArrayOf(top.place, a.attr))
    BY <1>5, <2>1
  <2>3. t = [top EXCEPT !.current = i, !.length = n]
    BY <1>11, <2>1
  <2>4. /\ t \in Frames /\ t.place = top.place /\ t.done = top.done /\ t.current = i
        /\ t.index = top.index /\ t.length = n
    BY <1>2, <1>4, <2>2, <2>3 DEF Frames
  <2> QED
    BY <2>2, <2>4
<1>7. t.index = 0 /\ t.index < IndexRange
  BY <1>2, <1>4, <1>6 DEF CallInv
<1>8. UNCHANGED <<file, keep, nodes, phase, visitor, pending, seen>>
  BY DEF StartArray
<1>9. GoesOn(t)
  BY <1>1, <1>11 DEF GoesOn
<1>10. KeepsCall(t, {})
  <2>1. SUFFICES ASSUME Arrived' = Arrived PROVE CallInv(t)'
    BY DEF KeepsCall
  <2>2. DoneArrives(t)
    BY <1>6 DEF DoneArrives
  <2>3. ASSUME NEW q \in PartsIn(top.place, a.attr) PROVE ~(Last(q)[2] <= 0)
    <3>1. Last(q)[2] \in DOMAIN ArrayOf(top.place, a.attr)
      BY <1>2, <1>3, <1>4, PartsOfArgument
    <3>2. Last(q)[2] \in Nat /\ Last(q)[2] >= 1
      BY <1>5, <3>1
    <3> QED
      BY <3>2
  <2>4. ElementsArrive(t)
    BY <1>2, <1>3, <1>6, <1>7, <2>3 DEF ElementsArrive
  <2>5. CallMoves(t)
    BY <1>6, <1>7, <1>8, <2>1, <2>2, <2>4 DEF CallMoves
  <2> QED
    BY <1>2, <1>6, <2>5, CallChanges
<1>12. ImportInv' /\ Arrived' = Arrived
  BY <1>2, <1>6, <1>8, <1>9, <1>10, AdvanceCall
<1> QED
  BY <1>6, <1>9, <1>12

\* importChildArray: the next element, or the next again when the index starts over.
LEMMA NextIndexCounts ==
  ASSUME NEW i \in Nat, i < IndexRange
  PROVE  /\ NextIndex(i) \in Nat /\ NextIndex(i) < IndexRange
         /\ NextIndex(i) = i + 1 \/ NextIndex(i) = 0
         /\ i + 1 < IndexRange => NextIndex(i) = i + 1
BY IndexRangeAssumption DEF IndexRangeAssumption, NextIndex

\* importChildArray: what an element does to the innermost call, an object or a hole.
LEMMA ElementStep ==
  ASSUME ImportInv, ImportElement
  PROVE  LET a == topArguments[top.current] IN
         /\ Importing /\ top.current \in DOMAIN topArguments /\ ImportsMany(a)
         /\ a.attr \in DOMAIN topObject.arrays /\ top.index + 1 <= top.length
         /\ \E t, q :
              /\ t \in Frames
              /\ t = [top EXCEPT !.index = NextIndex(@)] /\ t.place = top.place
              /\ q = Under(top.place, a.attr, top.index + 1)
              /\ \/ GoesOn(t) /\ phase' = phase /\ KeepsCall(t, {})
                 \/ /\ Import(<<t>> \o Tail(stack), q) /\ KeepsCall(t, {q})
                    /\ q \in PartsIn(top.place, a.attr)
<1> DEFINE a == topArguments[top.current]
<1>21. PICK t : t = [top EXCEPT !.index = NextIndex(@)]
  OBVIOUS
<1>22. PICK q : q = Under(top.place, a.attr, top.index + 1)
  OBVIOUS
<1>1. Importing /\ top.current # 0 /\ top.index < top.length
  BY DEF ImportElement
<1>2. /\ top \in Frames /\ CallInv(top) /\ top.place \in Places
      /\ topObject.type \in Kinds /\ (topObject.type = "Root" => top.place = Root)
      /\ topArguments = Arguments(ObjectAt(top.place).type) /\ topObject = ObjectAt(top.place)
      /\ file \in Files /\ keep \in BOOLEAN
  BY <1>1, TopCall DEF ImportInv, Typing, topObject
<1>3. top.current \in DOMAIN topArguments /\ ArrayInv(top, a)
  BY <1>1, <1>2 DEF CallInv
<1>4. /\ ImportsMany(a) /\ ImportsNodes(a) /\ a.attr \in DOMAIN topObject.arrays
      /\ top.length = Len(ArrayOf(top.place, a.attr))
      /\ \A p \in PartsIn(top.place, a.attr) : Last(p)[2] <= top.index => p \in Arrived
  BY <1>2, <1>3 DEF ArrayInv, ImportsNodes
<1>5. ArrayOf(top.place, a.attr) \in Seq(BOOLEAN) /\ CurrentArray = ArrayOf(top.place, a.attr)
  BY <1>2, <1>3, <1>4, ArgumentsArePartsOfFile DEF ArrayOf, CurrentArray, CurrentAttr
<1>6. /\ top.index \in Nat /\ top.index < IndexRange /\ top.index + 1 \in DOMAIN CurrentArray
      /\ top.index + 1 <= top.length
  <2>1. top.index \in Nat /\ top.index < IndexRange
    BY <1>2 DEF Frames, CallInv
  <2>2. DOMAIN CurrentArray = 1..top.length /\ top.length \in Nat
    BY <1>4, <1>5
  <2> QED
    BY <1>1, <2>1, <2>2
<1>7. NextIndex(top.index) \in Nat /\ NextIndex(top.index) < IndexRange
  BY <1>6, NextIndexCounts
<1>8. /\ t \in Frames /\ t.place = top.place /\ t.done = top.done /\ t.current = top.current
      /\ t.index = NextIndex(top.index) /\ t.length = top.length
  BY <1>2, <1>21, <1>7 DEF Frames
<1>9. file' = file /\ keep' = keep
  BY DEF ImportElement
<1>10. ASSUME NEW p \in PartsIn(top.place, a.attr), Last(p)[2] <= NextIndex(top.index)
       PROVE  \/ p \in Arrived
              \/ CurrentArray[top.index + 1] /\ p = q
  <2>1. /\ Last(p)[2] \in DOMAIN ArrayOf(top.place, a.attr) /\ ArrayOf(top.place, a.attr)[Last(p)[2]]
        /\ p = Under(top.place, a.attr, Last(p)[2])
    BY <1>2, <1>3, <1>4, PartsOfArgument
  <2>2. Last(p)[2] \in Nat /\ Last(p)[2] >= 1
    BY <1>5, <2>1
  <2>3. Last(p)[2] <= top.index \/ Last(p)[2] = top.index + 1
    BY <1>6, <1>10, <2>2, NextIndexCounts
  <2> QED
    BY <1>22, <1>4, <1>5, <2>1, <2>3
<1>11. DoneArrives(t)
  BY <1>8 DEF DoneArrives
<1>12. ASSUME NEW more, Arrived' = Arrived \cup more, CurrentArray[top.index + 1] => q \in more
       PROVE  CallInv(t)'
  <2>1. \A p \in PartsIn(top.place, a.attr) : Last(p)[2] <= t.index => p \in Arrived'
    BY <1>8, <1>10, <1>12
  <2>2. ElementsArrive(t)
    BY <1>1, <1>3, <1>4, <1>8, <2>1 DEF ElementsArrive
  <2>3. Arrived \subseteq Arrived'
    BY <1>12
  <2>4. CallMoves(t)
    BY <1>7, <1>8, <1>9, <1>11, <2>2, <2>3 DEF CallMoves
  <2> QED
    BY <1>1, <1>8, <2>4, CallChanges
<1>13. CASE ~CurrentArray[top.index + 1]
  <2>1. GoesOn(t) /\ phase' = phase
    BY <1>13, <1>21 DEF ImportElement, GoesOn
  <2>2. KeepsCall(t, {})
    BY <1>12, <1>13 DEF KeepsCall
  <2> QED
    BY <1>1, <1>3, <1>4, <1>6, <1>8, <1>13, <1>21, <1>22, <2>1, <2>2
<1>14. CASE CurrentArray[top.index + 1]
  <2>1. Import(<<t>> \o Tail(stack), q)
    BY <1>14, <1>21, <1>22 DEF ImportElement, CurrentAttr
  <2>2. q \in PartsIn(top.place, a.attr)
    BY <1>2, <1>3, <1>4, <1>5, <1>6, <1>14, <1>22, ArgumentsArePartsOfFile
  <2>3. KeepsCall(t, {q})
    BY <1>12 DEF KeepsCall
  <2> QED
    BY <1>1, <1>3, <1>4, <1>6, <1>8, <1>21, <1>22, <2>1, <2>2, <2>3
<1> QED
  BY <1>13, <1>14

\* importChildArray: the next element.
LEMMA ElementIsSafe ==
  ASSUME ImportInv, ImportElement
  PROVE  ImportInv'
<1>1. Importing
  BY ElementStep
<1>2. PICK t, q :
        /\ t \in Frames
        /\ t.place = top.place
        /\ \/ GoesOn(t) /\ phase' = phase /\ KeepsCall(t, {})
           \/ /\ Import(<<t>> \o Tail(stack), q) /\ KeepsCall(t, {q})
              /\ q \in PartsIn(top.place, topArguments[top.current].attr)
  BY ElementStep
<1>3. UNCHANGED <<file, keep, nodes, visitor, pending, seen>>
  BY DEF ImportElement
<1>4. CASE GoesOn(t) /\ phase' = phase /\ KeepsCall(t, {})
  BY <1>1, <1>2, <1>3, <1>4, AdvanceCall
<1>5. CASE /\ Import(<<t>> \o Tail(stack), q) /\ KeepsCall(t, {q})
           /\ q \in PartsIn(top.place, topArguments[top.current].attr)
  <2>1. q \in PartsOf(top.place)
    BY <1>5 DEF PartsIn
  <2> QED
    BY <1>1, <1>2, <1>3, <1>5, <2>1, ImportIsSafe
<1> QED
  BY <1>2, <1>4, <1>5

\* importChildArray: the array ends, with all of its elements.
LEMMA ArrayEndsSafely ==
  ASSUME ImportInv, FinishArray
  PROVE  /\ ImportInv' /\ Arrived' = Arrived
         /\ \E t \in Frames :
               /\ t.place = top.place /\ t.done = top.done \cup {top.current} /\ t.current = 0
               /\ GoesOn(t)
<1> DEFINE a == topArguments[top.current]
<1>11. PICK t : t = [top EXCEPT !.done = @ \cup {top.current}, !.current = 0, !.index = 0, !.length = 0]
  OBVIOUS
<1>1. Importing /\ top.current # 0 /\ top.index >= top.length
  BY DEF FinishArray
<1>2. /\ top \in Frames /\ CallInv(top) /\ top.place \in Places
      /\ topObject.type \in Kinds /\ (topObject.type = "Root" => top.place = Root)
      /\ topArguments = Arguments(ObjectAt(top.place).type) /\ topObject = ObjectAt(top.place)
      /\ file \in Files /\ keep \in BOOLEAN
  BY <1>1, TopCall DEF ImportInv, Typing, topObject
<1>3. top.current \in DOMAIN topArguments /\ ArrayInv(top, a)
  BY <1>1, <1>2 DEF CallInv
<1>4. /\ ImportsMany(a) /\ ImportsNodes(a) /\ a.attr \in DOMAIN topObject.arrays
      /\ top.length = Len(ArrayOf(top.place, a.attr))
      /\ \A p \in PartsIn(top.place, a.attr) : Last(p)[2] <= top.index => p \in Arrived
  BY <1>2, <1>3 DEF ArrayInv, ImportsNodes
<1>5. ArrayOf(top.place, a.attr) \in Seq(BOOLEAN)
  BY <1>2, <1>3, <1>4, ArgumentsArePartsOfFile
<1>6. PartsIn(top.place, a.attr) \subseteq Arrived
  <2>1. SUFFICES ASSUME NEW p \in PartsIn(top.place, a.attr) PROVE Last(p)[2] <= top.index
    BY <1>4
  <2>2. Last(p)[2] \in DOMAIN ArrayOf(top.place, a.attr)
    BY <1>2, <1>3, <1>4, PartsOfArgument
  <2>3. Last(p)[2] \in 1..top.length /\ top.length \in Nat
    BY <1>4, <1>5, <2>2
  <2>4. top.index \in Nat
    BY <1>2 DEF Frames
  <2> QED
    BY <1>1, <2>3, <2>4
<1>7. /\ t \in Frames /\ t.place = top.place /\ t.done = top.done \cup {top.current} /\ t.current = 0
      /\ t.index = 0 /\ t.length = 0
  BY <1>2, <1>11 DEF Frames
<1>8. UNCHANGED <<file, keep, nodes, phase, visitor, pending, seen>>
  BY DEF FinishArray
<1>9. GoesOn(t)
  BY <1>11 DEF FinishArray, GoesOn
<1>10. KeepsCall(t, {})
  <2>1. SUFFICES ASSUME Arrived' = Arrived PROVE CallInv(t)'
    BY DEF KeepsCall
  <2>2. DoneArrives(t)
    BY <1>3, <1>4, <1>6, <1>7, <2>1 DEF DoneArrives
  <2>3. ElementsArrive(t)
    BY <1>7 DEF ElementsArrive
  <2>4. t.index < IndexRange
    BY <1>7, IndexRangeAssumption DEF IndexRangeAssumption
  <2>5. CallMoves(t)
    BY <1>7, <1>8, <2>1, <2>2, <2>3, <2>4 DEF CallMoves
  <2> QED
    BY <1>1, <1>7, <2>5, CallChanges
<1>12. ImportInv' /\ Arrived' = Arrived
  BY <1>1, <1>7, <1>8, <1>9, <1>10, AdvanceCall
<1> QED
  BY <1>7, <1>9, <1>12

\* A node is constructed when the nodes of its parts are.
LEMMA PartsArrived ==
  ASSUME ImportInv, Importing, top.current = 0, Left(top) = {}
  PROVE  Known(top.place) /\ PartsOf(top.place) \subseteq DOMAIN nodes
<1>1. /\ CallInv(top) /\ top.place \in Places /\ Len(top.place) = Len(stack) - 1
      /\ topObject.type \in Kinds /\ (topObject.type = "Root" => top.place = Root)
      /\ topArguments = Arguments(topObject.type) /\ topObject = ObjectAt(top.place)
      /\ file \in Files /\ keep \in BOOLEAN
  BY TopCall DEF ImportInv, Typing, topObject
<1>2. \A i \in DOMAIN topArguments : TakesSteps(topObject, topArguments[i]) => i \in top.done
  BY <1>1 DEF Left
<1>3. \A i \in top.done : ImportsNodes(topArguments[i])
                          /\ PartsIn(top.place, topArguments[i].attr) \subseteq Arrived
  BY <1>1 DEF CallInv
<1>4. Known(top.place)
  <2>1. SUFFICES ASSUME top.place # Root
                 PROVE  /\ topObject.type \in DOMAIN ImportFunctions
                        /\ \A i \in DOMAIN ImportFunctions[topObject.type] :
                              WordIsKnown(topObject, ImportFunctions[topObject.type][i])
    BY <1>1 DEF Known
  <2>2. topObject.type \in DOMAIN ImportFunctions /\ topObject.type # "Root"
    BY <1>1, <2>1 DEF Kinds
  <2>3. topArguments = ImportFunctions[topObject.type]
    BY <1>1, <2>2 DEF Arguments, RowsOf
  <2>4. ASSUME NEW i \in DOMAIN topArguments PROVE WordIsKnown(topObject, topArguments[i])
    <3>1. SUFFICES ASSUME ~WordIsKnown(topObject, topArguments[i]) PROVE FALSE
      OBVIOUS
    <3>2. ImportsNodes(topArguments[i])
      BY <1>2, <1>3, <3>1 DEF TakesSteps
    <3>3. topArguments[i].op \notin {"Word", "WordIfAny"}
      BY <3>2 DEF ImportsNodes, ImportsOne, ImportsMany
    <3> QED
      BY <3>1, <3>3 DEF WordIsKnown
  <2> QED
    BY <2>2, <2>3, <2>4
<1>5. ASSUME NEW q \in PartsOf(top.place) PROVE q \in DOMAIN nodes
  <2>1. PICK i \in DOMAIN topArguments :
          /\ ImportsNodes(topArguments[i]) /\ topArguments[i].attr = Last(q)[1]
          /\ ImportsOne(topArguments[i]) => topArguments[i].attr \in topObject.kids
          /\ ImportsMany(topArguments[i]) => topArguments[i].attr \in DOMAIN topObject.arrays
    BY <1>1, EveryPartIsRead
  <2>2. TakesSteps(topObject, topArguments[i])
    BY <2>1 DEF TakesSteps, ImportsNodes, ImportsOne, ImportsMany
  <2>3. q \in PartsIn(top.place, topArguments[i].attr)
    BY <2>1 DEF PartsIn
  <2>4. q \in Arrived
    BY <1>2, <1>3, <2>2, <2>3
  <2>5. Len(q) = Len(top.place) + 1 /\ Len(top.place) \in Nat
    BY <1>1, PartIsBelow
  <2>6. ASSUME NEW k \in DOMAIN stack, stack[k].place = q PROVE FALSE
    <3>1. Len(q) = Len(stack) - k
      BY <2>6 DEF ImportInv, DepthInv
    <3>2. k \in Nat /\ k >= 1 /\ Len(stack) \in Nat
      BY TopCall DEF ImportInv, Typing
    <3> QED
      BY <1>1, <2>5, <3>1, <3>2
  <2> QED
    BY <2>4, <2>6 DEF Arrived
<1> QED
  BY <1>4, <1>5

\* The nodes after a constructor has run: the new node, the name of a type parameter, and those
\* that were there. Nothing but the parent of an old node changes.
TopMembers == MembersOf(top.place, topObject)
TopNode == [type |-> topObject.type, parent |-> Null, members |-> TopMembers]
TopChildren == ToSet(Children(topObject.type, TopMembers))
TreeWithTop == Over(Over(Only(top.place, TopNode), MadeNodes(top.place, topObject)), nodes)
NamePlace == Under(top.place, "name", 0)
NameNode ==
    [type |-> "Identifier", parent |-> Null,
     members |-> [name |-> ValueOf(topObject, "name"), typeAnnotation |-> Null, optional |-> No]]
MadePlaces == IF topObject.type = "TypeParameter" THEN {NamePlace} ELSE {}

\* What TreeWithTop holds: the new node, the name, and the nodes before them.
LEMMA TreeIsExtended ==
  /\ DOMAIN TreeWithTop = {top.place} \cup MadePlaces \cup DOMAIN nodes
  /\ TreeWithTop[top.place] = TopNode
  /\ \A p \in MadePlaces : p # top.place => TreeWithTop[p] = NameNode
  /\ \A p \in DOMAIN nodes : p # top.place /\ p \notin MadePlaces => TreeWithTop[p] = nodes[p]
<1> DEFINE made == MadeNodes(top.place, topObject)
<1>1. DOMAIN made = MadePlaces /\ \A p \in MadePlaces : made[p] = NameNode
  <2>1. CASE topObject.type = "TypeParameter"
    <3>1. made = [p \in {NamePlace} |-> NameNode]
      BY <2>1 DEF MadeNodes, NameNode, NamePlace, Only
    <3> HIDE DEF made
    <3> QED
      BY <2>1, <3>1 DEF MadePlaces
  <2>2. CASE topObject.type # "TypeParameter"
    <3>1. made = << >>
      BY <2>2 DEF MadeNodes
    <3> HIDE DEF made
    <3>2. DOMAIN made = {}
      BY <3>1
    <3> QED
      BY <2>2, <3>2 DEF MadePlaces
  <2> QED
    BY <2>1, <2>2
<1> HIDE DEF made
<1>2. /\ DOMAIN TreeWithTop = {top.place} \cup DOMAIN made \cup DOMAIN nodes
      /\ \A p \in DOMAIN TreeWithTop :
            TreeWithTop[p] = IF p = top.place THEN TopNode
                             ELSE IF p \in DOMAIN made THEN made[p] ELSE nodes[p]
  <2> DEFINE o == Only(top.place, TopNode)
             m == Over(o, made)
             h == Over(m, nodes)
  <2>1. DOMAIN o = {top.place} /\ o[top.place] = TopNode
    BY DEF Only
  <2> HIDE DEF o
  <2>2. DOMAIN m = DOMAIN o \cup DOMAIN made
        /\ \A p \in DOMAIN m : m[p] = IF p \in DOMAIN o THEN o[p] ELSE made[p]
    BY DEF Over
  <2> HIDE DEF m
  <2>3. DOMAIN h = DOMAIN m \cup DOMAIN nodes
        /\ \A p \in DOMAIN h : h[p] = IF p \in DOMAIN m THEN m[p] ELSE nodes[p]
    BY DEF Over
  <2>4. TreeWithTop = h
    BY DEF TreeWithTop, made, m, o
  <2> HIDE DEF h
  <2> QED
    BY <2>1, <2>2, <2>3, <2>4
<1> QED
  BY <1>1, <1>2

\* The same after the new node has become the parent of its children.
LEMMA NodesAfterConstruct ==
  ASSUME ImportInv, Construct
  PROVE  /\ nodes' = [p \in DOMAIN nodes' |-> nodes'[p]]
         /\ DOMAIN nodes' = {top.place} \cup MadePlaces \cup DOMAIN nodes
         /\ \A p \in DOMAIN nodes' :
               /\ IsNode(nodes'[p])
               /\ nodes'[p].type = TreeWithTop[p].type
               /\ nodes'[p].members = TreeWithTop[p].members
               /\ nodes'[p].parent = IF p \in TopChildren THEN top.place ELSE TreeWithTop[p].parent
<1>1. nodes' = WithParent(TreeWithTop, top.place, TopChildren)
  BY DEF Construct, TreeWithTop, TopChildren, TopNode, TopMembers
<1>2. nodes' = [p \in DOMAIN TreeWithTop |->
                  IF p \in TopChildren THEN [TreeWithTop[p] EXCEPT !.parent = top.place]
                  ELSE TreeWithTop[p]]
  BY <1>1 DEF WithParent
<1>3. \A p \in DOMAIN TreeWithTop : IsNode(TreeWithTop[p])
  <2>1. IsNode(TopNode) /\ IsNode(NameNode)
    BY DEF IsNode, TopNode, NameNode
  <2>2. \A p \in DOMAIN nodes : IsNode(nodes[p])
    BY DEF ImportInv, Typing
  <2> QED
    BY <2>1, <2>2, TreeIsExtended
<1>4. \A node, place : IsNode(node) =>
         LET moved == [node EXCEPT !.parent = place] IN
         /\ IsNode(moved) /\ moved.type = node.type /\ moved.members = node.members
         /\ moved.parent = place
  <2>1. SUFFICES ASSUME NEW node, NEW place, NEW x, NEW y, NEW z,
                        node = [type |-> x, parent |-> y, members |-> z]
                 PROVE  LET moved == [node EXCEPT !.parent = place] IN
                        /\ IsNode(moved) /\ moved.type = node.type /\ moved.members = node.members
                        /\ moved.parent = place
    BY DEF IsNode
  <2>2. [node EXCEPT !.parent = place] = [type |-> x, parent |-> place, members |-> z]
    BY <2>1
  <2> QED
    BY <2>1, <2>2 DEF IsNode
<1>5. DOMAIN nodes' = DOMAIN TreeWithTop /\ nodes' = [p \in DOMAIN nodes' |-> nodes'[p]]
  BY <1>2
<1>6. ASSUME NEW p \in DOMAIN nodes'
      PROVE  /\ IsNode(nodes'[p])
             /\ nodes'[p].type = TreeWithTop[p].type
             /\ nodes'[p].members = TreeWithTop[p].members
             /\ nodes'[p].parent = IF p \in TopChildren THEN top.place ELSE TreeWithTop[p].parent
  <2>1. nodes'[p] = IF p \in TopChildren THEN [TreeWithTop[p] EXCEPT !.parent = top.place]
                    ELSE TreeWithTop[p]
    BY <1>2, <1>5
  <2>2. IsNode(TreeWithTop[p])
    BY <1>3, <1>5
  <2> QED
    BY <1>4, <2>1, <2>2
<1> QED
  BY <1>5, <1>6, TreeIsExtended

\* The name of a type parameter has no object in the file.
LEMMA NameIsMade ==
  ASSUME ImportInv, Importing, NEW p \in MadePlaces
  PROVE  /\ p \notin DOMAIN file /\ p = NamePlace /\ topObject.type = "TypeParameter"
         /\ p \in Paths /\ p # Root /\ Front(p) = top.place /\ p # top.place
<1>1. /\ topObject.type = "TypeParameter" /\ p = NamePlace
  BY DEF MadePlaces
<1>2. /\ top.place \in Paths /\ top.place \in DOMAIN file /\ topObject = ObjectAt(top.place)
      /\ topObject.type \in Kinds /\ file \in Files
  BY TopCall DEF ImportInv, Typing, topObject
<1>3. /\ p \in Paths /\ p # Root /\ Len(p) = Len(top.place) + 1
      /\ Front(p) = top.place /\ Last(p) = <<"name", 0>>
  <2>1. p = Under(top.place, "name", 0)
    BY <1>1 DEF NamePlace
  <2>2. "name" \in STRING
    <3>1. Constructors["TypeParameter"] \in Seq(STRING)
      BY <1>1, <1>2, TablesAssumption DEF TablesAssumption, RowsFit
    <3>2. "name" \in ToSet(Constructors["TypeParameter"])
      BY TablesAssumption DEF TablesAssumption
    <3> QED
      BY <3>1, <3>2 DEF ToSet
  <2>3. 0 \in Nat
    OBVIOUS
  <2> QED
    BY <1>2, <2>1, <2>2, <2>3, UnderIsBelow
<1>4. p # top.place
  <2>1. Len(top.place) \in Nat
    BY <1>2 DEF Paths
  <2>2. \A n \in Nat : n + 1 # n
    OBVIOUS
  <2> QED
    BY <1>3, <2>1, <2>2
<1>5. p \notin DOMAIN file
  <2>1. SUFFICES ASSUME p \in DOMAIN file PROVE FALSE
    OBVIOUS
  <2>2. Holds(topObject, "name", 0)
    <3>1. Holds(ObjectAt(Front(p)), Last(p)[1], Last(p)[2])
      BY <1>2, <1>3, <2>1, FileIsTree
    <3>2. Last(p)[1] = "name" /\ Last(p)[2] = 0
      BY <1>3
    <3> QED
      BY <1>2, <1>3, <3>1, <3>2
  <2>3. "name" \in topObject.kids
    <3>1. SUFFICES ASSUME "name" \in DOMAIN topObject.arrays, 0 \in DOMAIN topObject.arrays["name"]
                   PROVE FALSE
      BY <2>2 DEF Holds
    <3>2. topObject.arrays["name"] \in Seq(BOOLEAN)
      BY <1>2, <3>1, FileIsTree
    <3> QED
      BY <3>1, <3>2
  <2>4. "name" \in Attributes(topObject.type, {"Child", "Maybe"})
    BY <1>2, <2>3, FileIsTree
  <2>5. PICK i \in DOMAIN RowsOf(topObject.type, TRUE) :
          /\ RowsOf(topObject.type, TRUE)[i].attr = "name"
          /\ RowsOf(topObject.type, TRUE)[i].op \in {"Child", "Maybe"}
    <3>1. ASSUME NEW attr, attr = "name", NEW ops, ops = {"Child", "Maybe"}
          PROVE  \E i \in DOMAIN RowsOf(topObject.type, TRUE) :
                    RowsOf(topObject.type, TRUE)[i].attr = attr /\ RowsOf(topObject.type, TRUE)[i].op \in ops
      <4>1. attr \in Attributes(topObject.type, ops)
        BY <2>4, <3>1
      <4> QED
        BY <4>1 DEF Attributes, ToSet
    <3> QED
      BY <3>1
  <2>6. ImportsNodes(RowsOf(topObject.type, TRUE)[i])
    BY <2>5 DEF ImportsNodes, ImportsOne
  <2>7. RowsFit(topObject.type, RowsOf(topObject.type, TRUE))
    BY <1>2, TablesAssumption DEF TablesAssumption
  <2> QED
    BY <1>1, <2>5, <2>6, <2>7 DEF RowsFit
<1> QED
  BY <1>1, <1>3, <1>4, <1>5

\* The constructor: the call returns.
LEMMA CallReturns ==
  ASSUME ImportInv, Construct
  PROVE  /\ stack' \in Seq(Frames) /\ Len(stack') = Len(stack) - 1
         /\ Len(stack) \in Nat /\ Len(stack) >= 1
         /\ \A k \in DOMAIN stack' : k + 1 \in DOMAIN stack /\ stack'[k] = stack[k + 1]
         /\ Arrived' = Arrived \cup MadePlaces
         /\ top.place \in DOMAIN nodes' /\ DOMAIN nodes \subseteq DOMAIN nodes'
<1>1. Importing /\ stack' = Tail(stack)
  BY DEF Construct
<1>2. /\ Tail(stack) \in Seq(Frames) /\ Len(Tail(stack)) = Len(stack) - 1
      /\ \A k \in 1..(Len(stack) - 1) : Tail(stack)[k] = stack[k + 1]
      /\ Len(stack) \in Nat /\ Len(stack) >= 1 /\ top = stack[1]
  BY <1>1, TopCall
<1>3. stack \in Seq(Frames) /\ DOMAIN stack = 1..Len(stack) /\ DOMAIN stack' = 1..(Len(stack) - 1)
  <2>1. stack \in Seq(Frames)
    BY DEF ImportInv, Typing
  <2> QED
    BY <1>1, <1>2, <2>1
<1>4. \A n \in Nat : \A k \in 1..(n - 1) : k + 1 \in 1..n
  OBVIOUS
<1>5. \A k \in DOMAIN stack' : k + 1 \in DOMAIN stack /\ stack'[k] = stack[k + 1]
  BY <1>1, <1>2, <1>3, <1>4
<1>6. \A n \in Nat : \A k \in 1..n : k # 1 => k - 1 \in 1..(n - 1) /\ k - 1 + 1 = k
  OBVIOUS
<1>7. \A k \in DOMAIN stack : k = 1 \/ (k - 1 \in DOMAIN stack' /\ stack'[k - 1] = stack[k])
  BY <1>2, <1>3, <1>5, <1>6
<1>8. DOMAIN nodes' = {top.place} \cup MadePlaces \cup DOMAIN nodes
  BY NodesAfterConstruct
<1>9. ASSUME NEW p
      PROVE  p = top.place \/ (\E k \in DOMAIN stack' : stack'[k].place = p)
                <=> \E k \in DOMAIN stack : stack[k].place = p
  <2>1. ASSUME NEW k \in DOMAIN stack', stack'[k].place = p
        PROVE  \E j \in DOMAIN stack : stack[j].place = p
    BY <1>5, <2>1
  <2>2. ASSUME NEW j \in DOMAIN stack, stack[j].place = p
        PROVE  p = top.place \/ (\E k \in DOMAIN stack' : stack'[k].place = p)
    BY <1>2, <1>7, <2>2
  <2>3. 1 \in DOMAIN stack
    BY <1>2, <1>3
  <2> QED
    BY <1>2, <2>1, <2>2, <2>3
<1>10. {top.place} \cup {stack'[k].place : k \in DOMAIN stack'} = {stack[k].place : k \in DOMAIN stack}
  BY <1>9
<1>11. Arrived' = Arrived \cup MadePlaces
  <2>1. Arrived' = DOMAIN nodes' \cup {stack'[k].place : k \in DOMAIN stack'}
    BY DEF Arrived
  <2>2. Arrived = DOMAIN nodes \cup {stack[k].place : k \in DOMAIN stack}
    BY DEF Arrived
  <2> QED
    BY <1>8, <1>10, <2>1, <2>2
<1> QED
  BY <1>1, <1>2, <1>5, <1>8, <1>11

\* The constructor: the import goes on, or the tree is complete.
LEMMA ConstructIsSafe ==
  ASSUME ImportInv, Construct
  PROVE  ImportInv'
<1>1. /\ stack' \in Seq(Frames) /\ Len(stack') = Len(stack) - 1
      /\ Len(stack) \in Nat /\ Len(stack) >= 1
      /\ \A k \in DOMAIN stack' : k + 1 \in DOMAIN stack /\ stack'[k] = stack[k + 1]
      /\ Arrived' = Arrived \cup MadePlaces
      /\ top.place \in DOMAIN nodes' /\ DOMAIN nodes \subseteq DOMAIN nodes'
  BY CallReturns
<1>2. /\ Importing /\ top.current = 0 /\ Left(top) = {} /\ UNCHANGED <<file, keep, seen>>
      /\ \/ Len(stack) = 1 /\ phase' = "walk" /\ visitor' \in Visitors
         \/ Len(stack) # 1 /\ UNCHANGED <<phase, pending, visitor>>
  BY DEF Construct
<1>3. top.place \in Paths /\ top.place \in DOMAIN file /\ Len(top.place) = Len(stack) - 1 /\ phase = "import"
  BY <1>2, TopCall DEF Importing
<1>4. Typing'
  <2>1. DOMAIN nodes' \subseteq Paths /\ nodes' = [p \in DOMAIN nodes' |-> nodes'[p]]
        /\ \A p \in DOMAIN nodes' : IsNode(nodes'[p])
    BY <1>2, <1>3, NodesAfterConstruct, NameIsMade DEF ImportInv, Typing
  <2>2. \A p \in DOMAIN nodes' : IsNode(nodes[p])'
    BY <2>1 DEF IsNode
  <2>3. phase' \in {"import", "walk", "done", "failed"} /\ visitor' \in Visitors \cup {Null}
    BY <1>2, <1>3 DEF ImportInv, Typing
  <2> QED
    BY <1>1, <1>2, <2>1, <2>2, <2>3 DEF ImportInv, Typing
<1>5. PhaseInv'
  <2>1. CASE Len(stack) = 1
    <3>1. stack' = << >>
      BY <1>1, <2>1
    <3>2. top.place = Root
      BY <1>3, <2>1 DEF Paths, Root
    <3> QED
      BY <1>1, <1>2, <2>1, <3>1, <3>2 DEF PhaseInv
  <2>2. CASE Len(stack) # 1
    <3>1. stack' # << >>
      BY <1>1, <2>2
    <3> QED
      BY <1>2, <1>3, <2>2, <3>1 DEF PhaseInv, ImportInv
  <2> QED
    BY <2>1, <2>2
<1>6. DepthInv'
  <2>1. SUFFICES ASSUME NEW k \in DOMAIN stack' PROVE Len(stack'[k].place) = Len(stack') - k
    BY DEF DepthInv
  <2>2. k + 1 \in DOMAIN stack /\ stack'[k] = stack[k + 1] /\ k \in Nat
    BY <1>1
  <2>3. Len(stack[k + 1].place) = Len(stack) - (k + 1)
    BY <2>2 DEF ImportInv, DepthInv
  <2>4. \A n \in Nat : n - (k + 1) = n - 1 - k
    BY <2>2
  <2> QED
    BY <1>1, <2>2, <2>3, <2>4
<1>7. CallsInv'
  <2>1. SUFFICES ASSUME NEW k \in DOMAIN stack', NEW d, d = stack'[k] PROVE CallInv(d)'
    BY DEF CallsInv
  <2>2. CallInv(d)
    BY <1>1, <2>1 DEF ImportInv, CallsInv
  <2> QED
    BY <1>1, <1>2, <2>2, CallsGrow
<1>8. NodesInv'
  <2>1. SUFFICES ASSUME NEW p \in DOMAIN nodes' \cap Places
                 PROVE  Known(p) /\ PartsOf(p) \subseteq DOMAIN nodes'
    BY <1>2 DEF NodesInv, Known, ObjectAt, Places, PartsOf, WordIsKnown
  <2>2. CASE p = top.place
    BY <1>1, <1>2, <2>2, PartsArrived
  <2>3. CASE p \in DOMAIN nodes
    BY <1>1, <2>1, <2>3 DEF ImportInv, NodesInv
  <2>4. p \notin MadePlaces
    BY <1>2, <2>1, NameIsMade DEF Places
  <2> QED
    BY <2>1, <2>2, <2>3, <2>4, NodesAfterConstruct
<1>9. RefusedInv'
  BY <1>2, <1>3 DEF RefusedInv
<1> QED
  BY <1>4, <1>5, <1>6, <1>7, <1>8, <1>9 DEF ImportInv

\* The walk changes no node and no call.
LEMMA WalkIsSafe ==
  ASSUME ImportInv, phase = "walk", phase' \in {"walk", "done"},
         UNCHANGED <<file, keep, stack, nodes, visitor>>
  PROVE  ImportInv'
<1>1. Typing' /\ PhaseInv' /\ DepthInv'
  BY DEF ImportInv, Typing, PhaseInv, DepthInv
<1>2. CallsInv'
  <2>1. Arrived' = Arrived
    BY DEF Arrived
  <2>2. SUFFICES ASSUME NEW k \in DOMAIN stack, NEW d, d = stack[k] PROVE CallInv(d)'
    BY DEF CallsInv
  <2>3. CallInv(d)
    BY <2>2 DEF ImportInv, CallsInv
  <2> QED
    BY <2>1, <2>3, CallsGrow
<1>3. NodesInv' /\ RefusedInv'
  BY DEF ImportInv, NodesInv, RefusedInv, Known, ObjectAt, Places, PartsOf, WordIsKnown
<1> QED
  BY <1>1, <1>2, <1>3 DEF ImportInv

\* Nothing happens.
LEMMA ImportStutters ==
  ASSUME ImportInv, UNCHANGED vars
  PROVE  ImportInv'
<1>1. Typing' /\ PhaseInv' /\ DepthInv'
  BY DEF ImportInv, Typing, PhaseInv, DepthInv, vars
<1>2. CallsInv'
  <2>1. Arrived' = Arrived /\ UNCHANGED <<file, keep, stack>>
    BY DEF Arrived, vars
  <2>2. SUFFICES ASSUME NEW k \in DOMAIN stack, NEW d, d = stack[k] PROVE CallInv(d)'
    BY <2>1 DEF CallsInv
  <2>3. CallInv(d)
    BY <2>2 DEF ImportInv, CallsInv
  <2> QED
    BY <2>1, <2>3, CallsGrow
<1>3. NodesInv' /\ RefusedInv'
  BY DEF ImportInv, NodesInv, RefusedInv, Known, ObjectAt, Places, PartsOf, WordIsKnown, HasUnknown,
         vars
<1> QED
  BY <1>1, <1>2, <1>3 DEF ImportInv

\* The import starts with a call for the file.
LEMMA ImportStarts ==
  ASSUME Init
  PROVE  ImportInv
<1>1. /\ file \in Files /\ keep \in BOOLEAN /\ visitor = Null /\ nodes = << >> /\ phase = "import"
      /\ pending = << >> /\ seen = << >> /\ stack = <<Call(Root)>>
  BY DEF Init
<1>2. Root \in Paths
  BY DEF Root, Paths
<1>3. /\ Call(Root) \in Frames /\ Call(Root).place = Root /\ Call(Root).done = {}
      /\ Call(Root).current = 0 /\ Call(Root).index = 0 /\ Call(Root).length = 0
  BY <1>2 DEF Call, Frames
<1>4. stack \in Seq(Frames) /\ Len(stack) = 1 /\ DOMAIN stack = {1} /\ stack[1] = Call(Root)
  BY <1>1, <1>3
<1>5. DOMAIN nodes = {}
  BY <1>1
<1>6. Typing /\ PhaseInv
  BY <1>1, <1>4, <1>5 DEF Typing, PhaseInv
<1>7. DepthInv
  BY <1>3, <1>4 DEF DepthInv, Root
<1>8. CallsInv
  <2>1. Root \in Places /\ ObjectAt(Root).type = "Root"
    BY <1>1, FileIsTree
  <2>2. 0 < IndexRange
    BY IndexRangeAssumption
  <2>3. CallInv(Call(Root))
    BY <1>3, <2>1, <2>2 DEF CallInv, Kinds
  <2> QED
    BY <1>4, <2>3 DEF CallsInv
<1> QED
  BY <1>1, <1>5, <1>6, <1>7, <1>8 DEF ImportInv, NodesInv, RefusedInv

\* Every step of the import and of the walk.
LEMMA ImportGoesOn ==
  ASSUME ImportInv, [Next]_vars
  PROVE  ImportInv'
<1>1. CASE ImportChild
  BY <1>1, ChildIsSafe
<1>2. CASE RefuseWord
  BY <1>2, WordIsSafe
<1>3. CASE StartArray
  BY <1>3, ArrayStartsSafely
<1>4. CASE ImportElement
  BY <1>4, ElementIsSafe
<1>5. CASE FinishArray
  BY <1>5, ArrayEndsSafely
<1>6. CASE Construct
  BY <1>6, ConstructIsSafe
<1>7. CASE Visit
  BY <1>7, WalkIsSafe DEF Visit
<1>8. CASE EndWalk
  BY <1>8, WalkIsSafe DEF EndWalk
<1>9. CASE UNCHANGED vars
  BY <1>9, ImportStutters
<1> QED
  BY <1>1, <1>2, <1>3, <1>4, <1>5, <1>6, <1>7, <1>8, <1>9 DEF Next

\* The importer, whatever the order of the arguments: the calls in progress are on the path from
\* the file to the innermost one's object, what a call has imported has arrived, and a node is
\* constructed when all parts of its object are.
THEOREM ImportInvariant == Spec => []ImportInv
<1>1. Init => ImportInv
  BY ImportStarts
<1>2. ImportInv /\ [Next]_vars => ImportInv'
  BY ImportGoesOn
<1> QED
  BY <1>1, <1>2, PTL DEF Spec

------------------------------------------------------------------------------------------
\* A tree whose file is a node is complete: a missing node whose path is the shortest would be
\* missing from the nodes of the object around it, which is there.
LEMMA TreeIsComplete ==
  ASSUME ImportInv, Root \in DOMAIN nodes
  PROVE  Places \subseteq DOMAIN nodes
<1> DEFINE Missing == {q \in Places : q \notin DOMAIN nodes}
           Lengths == {Len(q) : q \in Missing}
<1>1. file \in Files /\ Root \in Places /\ Places \subseteq Paths
  <2>1. file \in Files
    BY DEF ImportInv, Typing
  <2> QED
    BY <2>1, FileIsTree
<1>2. SUFFICES ASSUME Missing # {} PROVE FALSE
  OBVIOUS
<1>3. \A q \in Missing : Len(q) \in Nat
  BY <1>1 DEF Paths
<1>4. Lengths \in SUBSET Nat /\ Lengths # {}
  BY <1>2, <1>3
<1>5. PICK n \in Lengths : \A m \in Lengths : n <= m
  <2> HIDE DEF Lengths
  <2> QED
    BY <1>4, LeastNumber
<1>6. PICK q \in Missing : n = Len(q)
  BY <1>5
<1>7. q # Root /\ q \in Places /\ q \in Paths /\ q \notin DOMAIN nodes
  BY <1>1, <1>6
<1>8. Len(Front(q)) = Len(q) - 1 /\ Len(q) \in Nat /\ Front(q) \in Paths
  BY <1>7, BelowIsUnder
<1>9. Front(q) \in Places
  <2>1. Front(q) \in DOMAIN file
    BY <1>1, <1>7, FileIsTree DEF Places
  <2>2. CASE keep
    BY <2>1, <2>2 DEF Places
  <2>3. CASE Front(q) = Root
    BY <1>1, <2>3
  <2>4. CASE ~keep /\ Front(q) # Root
    <3>1. ~IsComment(Front(q))
      BY <1>7, <2>4, CommentsAreWhole DEF Places
    <3> QED
      BY <2>1, <3>1 DEF Places
  <2> QED
    BY <2>2, <2>3, <2>4
<1>10. Front(q) \in DOMAIN nodes
  <2>1. SUFFICES ASSUME Front(q) \notin DOMAIN nodes PROVE FALSE
    OBVIOUS
  <2>2. Len(Front(q)) \in Lengths
    BY <1>9, <2>1
  <2>3. Len(q) <= Len(q) - 1
    BY <1>5, <1>6, <1>8, <2>2
  <2> QED
    BY <1>8, <2>3
<1>11. q \in PartsOf(Front(q))
  BY <1>7 DEF PartsOf
<1> QED
  BY <1>7, <1>9, <1>10, <1>11 DEF ImportInv, NodesInv

\* The importer throws exactly on syntax it does not know: for every file Babel may return, every
\* width of the index and every order of the arguments (importNode and the import functions).
THEOREM UnknownIsRefused == Spec => []UnknownSyntaxIsRefused
<1>1. ImportInv => UnknownSyntaxIsRefused
  <2>1. SUFFICES ASSUME ImportInv PROVE UnknownSyntaxIsRefused
    OBVIOUS
  <2>2. phase = "failed" => HasUnknown
    BY <2>1 DEF ImportInv, RefusedInv
  <2>3. ASSUME phase \in {"walk", "done"} PROVE ~HasUnknown
    <3>1. Places \subseteq DOMAIN nodes
      BY <2>1, <2>3, TreeIsComplete DEF ImportInv, PhaseInv
    <3>2. \A p \in Places : Known(p)
      BY <2>1, <3>1 DEF ImportInv, NodesInv
    <3> QED
      BY <3>2 DEF HasUnknown, Known
  <2> QED
    BY <2>2, <2>3 DEF UnknownSyntaxIsRefused
<1> QED
  BY <1>1, ImportInvariant, PTL

------------------------------------------------------------------------------------------
\* The nodes a walk hands over.
LEMMA SequencesGrow ==
  ASSUME NEW A, NEW B, A \subseteq B, NEW s \in Seq(A)
  PROVE  s \in Seq(B)
OBVIOUS

\* FlattenSeq builds a function along its argument: it has a value at every index, which is the
\* sequences so far, one after the other.
FlattensAs(ss, h) ==
    /\ FlattenSeq(ss) = h[Len(ss)]
    /\ \A i \in 1..Len(ss) : h[i] = IF i = 1 THEN ss[i] ELSE h[i - 1] \o ss[i]
LEMMA FlattenSteps ==
  ASSUME NEW S, NEW ss \in Seq(Seq(S)), Len(ss) # 0
  PROVE  \E h : FlattensAs(ss, h) /\ \A i \in 1..Len(ss) : h[i] \in Seq(S)
<1> DEFINE n == Len(ss)
<1>1. n \in Nat /\ \A i \in 1..n : ss[i] \in Seq(S)
  OBVIOUS
<1>2. n # 0
  OBVIOUS
<1> DEFINE Solves(f, m) == \A i \in 1..m : f[i] = IF i = 1 THEN ss[i] ELSE f[i - 1] \o ss[i]
           Open == {m \in 0..n : ~\E f \in [1..m -> Seq(S)] : Solves(f, m)}
<1>3. ASSUME NEW m \in 1..n, NEW f \in [1..(m - 1) -> Seq(S)], Solves(f, m - 1)
      PROVE  \E g \in [1..m -> Seq(S)] : Solves(g, m)
  <2> DEFINE g == [i \in 1..m |-> IF i < m THEN f[i] ELSE IF i = 1 THEN ss[i] ELSE f[i - 1] \o ss[i]]
  <2>1. m \in Nat /\ m - 1 \in Nat /\ \A i \in 1..m : i < m => i \in 1..(m - 1)
    BY <1>1
  <2>2. ASSUME NEW i \in 1..m PROVE g[i] \in Seq(S)
    <3>1. CASE i < m
      BY <2>1, <3>1
    <3>2. CASE ~(i < m)
      <4>1. i = m /\ ss[i] \in Seq(S) /\ (i # 1 => i - 1 \in 1..(m - 1))
        BY <1>1, <2>1, <3>2
      <4>2. i # 1 => f[i - 1] \in Seq(S)
        BY <4>1
      <4> QED
        BY <4>1, <4>2
    <3> QED
      BY <3>1, <3>2
  <2>3. ASSUME NEW i \in 1..m PROVE g[i] = IF i = 1 THEN ss[i] ELSE g[i - 1] \o ss[i]
    <3>1. CASE i = 1
      <4>1. 1 < m => 1 \in 1..(m - 1)
        BY <2>1
      <4>2. ASSUME 1 \in 1..(m - 1) PROVE f[1] = ss[1]
        <5>1. f[1] = IF 1 = 1 THEN ss[1] ELSE f[1 - 1] \o ss[1]
          BY <1>3, <4>2
        <5> QED
          BY <5>1
      <4> QED
        BY <3>1, <4>1, <4>2
    <3>2. CASE i # 1
      <4>1. i - 1 \in 1..(m - 1) /\ i - 1 \in 1..m /\ i - 1 < m
        BY <2>1, <3>2
      <4>2. g[i - 1] = f[i - 1]
        BY <4>1
      <4>3. i < m => f[i] = f[i - 1] \o ss[i]
        BY <1>3, <2>1, <3>2
      <4> QED
        BY <3>2, <4>2, <4>3
    <3> QED
      BY <3>1, <3>2
  <2> HIDE DEF g
  <2>4. g \in [1..m -> Seq(S)]
    BY <2>2 DEF g
  <2> QED
    BY <2>3, <2>4
<1>4. Open = {}
  <2>1. SUFFICES ASSUME Open # {} PROVE FALSE
    OBVIOUS
  <2>2. Open \subseteq Nat /\ Open \subseteq 0..n
    BY <1>1
  <2>3. PICK m \in Open : \A k \in Open : m <= k
    BY <2>1, <2>2, LeastNumber
  <2>4. m # 0
    <3>1. [i \in 1..0 |-> <<>>] \in [1..0 -> Seq(S)] /\ Solves([i \in 1..0 |-> <<>>], 0)
      OBVIOUS
    <3> QED
      BY <2>3, <3>1
  <2>5. m \in 1..n /\ m - 1 \in 0..n /\ m - 1 \notin Open
    <3>1. m \in 0..n
      BY <2>2, <2>3
    <3>2. m \in 1..n /\ m - 1 \in 0..n /\ ~(m <= m - 1)
      BY <1>1, <2>4, <3>1
    <3> HIDE DEF Open
    <3> QED
      BY <2>3, <3>2
  <2>6. PICK f \in [1..(m - 1) -> Seq(S)] : Solves(f, m - 1)
    BY <2>5
  <2>7. \E g \in [1..m -> Seq(S)] : Solves(g, m)
    BY <1>3, <2>5, <2>6
  <2> QED
    BY <2>3, <2>7
<1>5. PICK f \in [1..n -> Seq(S)] : Solves(f, n)
  <2>1. n \in 0..n
    BY <1>1
  <2>2. n \notin Open
    <3> HIDE DEF Open
    <3> QED
      BY <1>4
  <2> QED
    BY <2>1, <2>2
<1>6. f = [i \in 1..n |-> IF i = 1 THEN ss[i] ELSE f[i - 1] \o ss[i]]
  BY <1>5
<1>7. PICK h : /\ h = [i \in 1..n |-> IF i = 1 THEN ss[i] ELSE h[i - 1] \o ss[i]]
               /\ FlattenSeq(ss) = h[n]
  BY <1>2, <1>6 DEF FlattenSeq
<1> DEFINE Other == {i \in 1..n : h[i] \notin Seq(S)}
<1>8. Other = {}
  <2>1. SUFFICES ASSUME Other # {} PROVE FALSE
    OBVIOUS
  <2>2. Other \in SUBSET Nat
    BY <1>1
  <2>3. PICK i \in Other : \A k \in Other : i <= k
    BY <2>1, <2>2, LeastNumber
  <2>4. i \in 1..n /\ h[i] \notin Seq(S) /\ h[i] = IF i = 1 THEN ss[i] ELSE h[i - 1] \o ss[i]
    BY <1>7, <2>3
  <2>5. CASE i = 1
    BY <1>1, <2>4, <2>5
  <2>6. CASE i # 1
    <3>1. i - 1 \in 1..n /\ i - 1 < i
      BY <1>1, <2>4, <2>6
    <3>2. h[i - 1] \in Seq(S)
      BY <2>3, <2>4, <3>1
    <3> QED
      BY <1>1, <2>4, <2>6, <3>2
  <2> QED
    BY <2>5, <2>6
<1>9. FlattensAs(ss, h) /\ \A i \in 1..n : h[i] \in Seq(S)
  BY <1>7, <1>8 DEF FlattensAs
<1> QED
  BY <1>9

\* Sequences of a set, one after the other, are a sequence of that set.
LEMMA Flattening ==
  ASSUME NEW S, NEW ss \in Seq(Seq(S))
  PROVE  FlattenSeq(ss) \in Seq(S)
<1>1. Len(ss) \in Nat
  OBVIOUS
<1>2. CASE Len(ss) = 0
  BY <1>2 DEF FlattenSeq
<1>3. CASE Len(ss) # 0
  <2>1. PICK h : FlattensAs(ss, h) /\ \A i \in 1..Len(ss) : h[i] \in Seq(S)
    BY <1>3, FlattenSteps
  <2>2. Len(ss) \in 1..Len(ss)
    BY <1>1, <1>3
  <2> QED
    BY <2>1, <2>2 DEF FlattensAs
<1> QED
  BY <1>2, <1>3

\* applyNode and applyArray on members that are nodes, or missing.
LEMMA HandedNodes ==
  ASSUME NEW S, NEW members, NEW w \in WalkRows,
         w.many => members[w.member] \in Seq(S \cup {Null}),
         ~w.many => members[w.member] \in S \cup {Null}
  PROVE  Handed(members, w) \in Seq(S)
<1>1. w.many \in BOOLEAN
  BY DEF WalkRows
<1>2. << >> \in Seq(S)
  OBVIOUS
<1>3. ASSUME NEW child \in S \cup {Null} PROVE Present(child) \in Seq(S)
  BY DEF Present
<1>4. CASE w.many
  <2>1. PICK m : m = members[w.member]
    OBVIOUS
  <2>2. m \in Seq(S \cup {Null})
    BY <1>4, <2>1
  <2>3. \A i \in DOMAIN m : Present(m[i]) \in Seq(S)
    BY <1>3, <2>2
  <2>4. [i \in DOMAIN m |-> Present(m[i])] \in Seq(Seq(S))
    BY <2>2, <2>3
  <2>5. Handed(members, w) = FlattenSeq([i \in DOMAIN m |-> Present(m[i])])
    BY <1>4, <2>1 DEF Handed
  <2> QED
    BY <2>4, <2>5, Flattening
<1>5. CASE ~w.many
  <2>1. Handed(members, w) = << >> \/ Handed(members, w) = Present(members[w.member])
    BY <1>5 DEF Handed
  <2> QED
    BY <1>2, <1>3, <1>5, <2>1
<1> QED
  BY <1>1, <1>4, <1>5

\* applyChildren on members that are nodes, or missing.
LEMMA ChildrenNodes ==
  ASSUME NEW S, NEW type, NEW members, NEW class, class = Walker[type],
         class \in DOMAIN Walks =>
            /\ Walks[class] \in Seq(WalkRows)
            /\ \A n \in DOMAIN Walks[class] :
                  /\ Walks[class][n].many => members[Walks[class][n].member] \in Seq(S \cup {Null})
                  /\ ~Walks[class][n].many => members[Walks[class][n].member] \in S \cup {Null}
  PROVE  Children(type, members) \in Seq(S)
<1>1. CASE class \notin DOMAIN Walks
  <2>1. Children(type, members) = << >>
    BY <1>1 DEF Children
  <2> QED
    BY <2>1
<1>2. CASE class \in DOMAIN Walks
  <2>1. PICK rows : rows = Walks[class]
    OBVIOUS
  <2>2. rows \in Seq(WalkRows)
    BY <1>2, <2>1
  <2>3. ASSUME NEW n \in DOMAIN rows PROVE Handed(members, rows[n]) \in Seq(S)
    <3>1. rows[n] \in WalkRows
      BY <2>2
    <3>2. /\ rows[n].many => members[rows[n].member] \in Seq(S \cup {Null})
          /\ ~rows[n].many => members[rows[n].member] \in S \cup {Null}
      BY <1>2, <2>1
    <3> QED
      BY <3>1, <3>2, HandedNodes
  <2>4. [n \in DOMAIN rows |-> Handed(members, rows[n])] \in Seq(Seq(S))
    BY <2>2, <2>3
  <2>5. Children(type, members) = FlattenSeq([n \in DOMAIN rows |-> Handed(members, rows[n])])
    BY <1>2, <2>1 DEF Children
  <2> QED
    BY <2>4, <2>5, Flattening
<1> QED
  BY <1>1, <1>2

\* What an argument is, once it is imported: a part of the object, an array of parts, or missing.
LEMMA ImportedParts ==
  ASSUME ImportInv, Importing, NEW i \in DOMAIN topArguments,
         NEW v, v = Imported(top.place, topObject, topArguments[i])
  PROVE  /\ ImportsOne(topArguments[i]) => v \in PartsOf(top.place) \cup {Null}
         /\ ImportsMany(topArguments[i]) \/ topArguments[i].op = "Nothing"
               => v \in Seq(PartsOf(top.place) \cup {Null})
<1> DEFINE a == topArguments[i]
<1>1. /\ top.place \in Places /\ top.place \in DOMAIN file
      /\ topObject.type \in Kinds /\ (topObject.type = "Root" => top.place = Root)
      /\ topArguments = Arguments(ObjectAt(top.place).type) /\ topObject = ObjectAt(top.place)
      /\ file \in Files /\ keep \in BOOLEAN
  BY TopCall DEF ImportInv, Typing, topObject
<1>2. ASSUME a.op = "Child" PROVE a.attr \in topObject.kids
  <2>1. topObject.type \in DOMAIN ImportFunctions /\ topObject.type # "Root"
    BY <1>2, ChildOfKind, TablesAssumption DEF TablesAssumption
  <2>2. a \in ToSet(RowsOf(topObject.type, TRUE))
    BY <1>1, <2>1 DEF ToSet, RowsOf, Arguments
  <2>3. a.attr \in Attributes(topObject.type, {"Child"})
    BY <1>2, <2>2 DEF Attributes
  <2> QED
    BY <1>1, <2>3, FileIsTree
<1>3. ASSUME ImportsNodes(a)
      PROVE  /\ a.attr \in topObject.kids => Under(top.place, a.attr, 0) \in PartsOf(top.place)
             /\ a.attr \in DOMAIN topObject.arrays =>
                   /\ topObject.arrays[a.attr] \in Seq(BOOLEAN)
                   /\ \A j \in DOMAIN topObject.arrays[a.attr] :
                         topObject.arrays[a.attr][j] => Under(top.place, a.attr, j) \in PartsOf(top.place)
  BY <1>1, <1>3, ArgumentsArePartsOfFile DEF PartsIn, ArrayOf
<1>4. ASSUME ImportsOne(a) PROVE v \in PartsOf(top.place) \cup {Null}
  <2>1. ImportsNodes(a)
    BY <1>4 DEF ImportsNodes
  <2>2. CASE a.op = "Child"
    BY <1>2, <1>3, <2>1, <2>2 DEF Imported
  <2>3. CASE a.op = "Maybe"
    BY <1>3, <2>1, <2>3 DEF Imported
  <2> QED
    BY <1>4, <2>2, <2>3 DEF ImportsOne
<1>5. ASSUME ImportsMany(a) PROVE v \in Seq(PartsOf(top.place) \cup {Null})
  <2>1. ImportsNodes(a)
    BY <1>5 DEF ImportsNodes
  <2>2. a.op \in {"List", "ListIfAny"}
    BY <1>5 DEF ImportsMany
  <2>3. CASE a.attr \notin DOMAIN topObject.arrays
    <3>1. v = << >>
      BY <2>2, <2>3 DEF Imported
    <3> QED
      BY <3>1
  <2>4. CASE a.attr \in DOMAIN topObject.arrays
    <3>1. PICK array : array = topObject.arrays[a.attr]
      OBVIOUS
    <3>2. v = [j \in DOMAIN array |-> IF array[j] THEN Under(top.place, a.attr, j) ELSE Null]
      BY <2>2, <2>4, <3>1 DEF Imported, Elements
    <3>3. array \in Seq(BOOLEAN)
          /\ \A j \in DOMAIN array : array[j] => Under(top.place, a.attr, j) \in PartsOf(top.place)
      BY <1>3, <2>1, <2>4, <3>1
    <3>4. \A j \in DOMAIN array : v[j] \in PartsOf(top.place) \cup {Null}
      BY <3>2, <3>3
    <3>5. DOMAIN v = 1..Len(array) /\ Len(array) \in Nat
      BY <3>2, <3>3
    <3> QED
      BY <3>2, <3>4, <3>5
  <2> QED
    BY <2>3, <2>4
<1>6. ASSUME a.op = "Nothing" PROVE v \in Seq(PartsOf(top.place) \cup {Null})
  <2>1. v = << >>
    BY <1>6 DEF Imported
  <2> QED
    BY <2>1
<1> QED
  BY <1>4, <1>5, <1>6

\* Where a new node's members come from: the parameter of the same position in the constructor.
LEMMA TopMember ==
  ASSUME ImportInv, Importing, NEW m \in ToSet(Constructors[topObject.type])
  PROVE  IF topObject.type = "TypeParameter" /\ m = "name" THEN TopMembers[m] = NamePlace
         ELSE \E i \in DOMAIN topArguments :
                 /\ Constructors[topObject.type][i] = m
                 /\ TopMembers[m] = Imported(top.place, topObject, topArguments[i])
<1> DEFINE params == Constructors[topObject.type]
           args == Arguments(topObject.type)
           constants == IF topObject.type \in DOMAIN ConstantMembers
                        THEN ConstantMembers[topObject.type] ELSE << >>
           given == [x \in ToSet(params) |->
                       IF topObject.type = "TypeParameter" /\ x = "name" THEN Under(top.place, x, 0)
                       ELSE Imported(top.place, topObject, args[CHOOSE i \in DOMAIN params : params[i] = x])]
           stored == Stored(top.place, topObject)
<1>1. stored = Over(given, constants)
  BY DEF Stored
<1>2. m \in DOMAIN given /\ stored[m] = given[m] /\ m \in DOMAIN stored
  <2> HIDE DEF constants
  <2>1. m \in DOMAIN given
    OBVIOUS
  <2> HIDE DEF given
  <2> QED
    BY <1>1, <2>1 DEF Over
<1>3. TopMembers[m] = given[m]
  <2> HIDE DEF given, constants
  <2>1. CASE topObject.type = "ImportSpecifier"
    <3> DEFINE more == [localEqualsImported |->
            nodes[stored.local].members.name = nodes[stored.imported].members.name]
    <3>1. TopMembers = Over(stored, more)
      BY <2>1 DEF TopMembers, MembersOf
    <3> HIDE DEF more, stored
    <3> QED
      BY <1>2, <3>1 DEF Over
  <2>2. CASE topObject.type # "ImportSpecifier"
    BY <1>2, <2>2 DEF TopMembers, MembersOf
  <2> QED
    BY <2>1, <2>2
<1>4. CASE topObject.type = "TypeParameter" /\ m = "name"
  BY <1>2, <1>3, <1>4 DEF NamePlace
<1>5. CASE ~(topObject.type = "TypeParameter" /\ m = "name")
  <2>1. PICK i : i = CHOOSE j \in DOMAIN params : params[j] = m
    OBVIOUS
  <2>2. i \in DOMAIN params /\ params[i] = m
    <3>1. \E j \in DOMAIN params : params[j] = m
      BY DEF ToSet
    <3> QED
      BY <2>1, <3>1
  <2>3. topObject.type \in Kinds /\ keep \in BOOLEAN
    BY TopCall DEF ImportInv, Typing
  <2>4. DOMAIN args = DOMAIN params
    BY <2>3, RowsOfKind DEF RowsFit, Arguments
  <2>5. TopMembers[m] = Imported(top.place, topObject, args[i])
    BY <1>2, <1>3, <1>5, <2>1
  <2> QED
    BY <1>5, <2>2, <2>4, <2>5 DEF topArguments
<1> QED
  BY <1>4, <1>5

\* A new node's children are the parts of its object, and the name of a type parameter.
LEMMA TopChildrenAreBelow ==
  ASSUME ImportInv, Importing
  PROVE  Children(topObject.type, TopMembers) \in Seq(PartsOf(top.place) \cup MadePlaces)
<1> DEFINE S == PartsOf(top.place) \cup MadePlaces
           class == Walker[topObject.type]
<1>1. topObject.type \in Kinds /\ keep \in BOOLEAN
  BY TopCall DEF ImportInv, Typing
<1>2. RowsFit(topObject.type, topArguments)
  BY <1>1, RowsOfKind DEF topArguments, Arguments
<1>3. class \in DOMAIN Walks =>
         /\ Walks[class] \in Seq(WalkRows)
         /\ \A n \in DOMAIN Walks[class] : WalkFits(topObject.type, topArguments, Walks[class][n])
  BY <1>2 DEF RowsFit
<1>4. ASSUME NEW w, WalkFits(topObject.type, topArguments, w)
      PROVE  /\ w.many => TopMembers[w.member] \in Seq(S \cup {Null})
             /\ ~w.many => TopMembers[w.member] \in S \cup {Null}
  <2>1. w.member \in ToSet(Constructors[topObject.type])
    BY <1>4 DEF WalkFits
  <2>2. CASE topObject.type = "TypeParameter" /\ w.member = "name"
    <3>1. ~w.many
      BY <1>4, <2>2 DEF WalkFits
    <3>2. TopMembers[w.member] = NamePlace
      BY <2>1, <2>2, TopMember
    <3> QED
      BY <2>2, <3>1, <3>2 DEF MadePlaces
  <2>3. CASE ~(topObject.type = "TypeParameter" /\ w.member = "name")
    <3>1. PICK i \in DOMAIN topArguments :
            /\ Constructors[topObject.type][i] = w.member
            /\ TopMembers[w.member] = Imported(top.place, topObject, topArguments[i])
      BY <2>1, <2>3, TopMember
    <3>2. IF w.many THEN ImportsMany(topArguments[i]) \/ topArguments[i].op = "Nothing"
          ELSE ImportsOne(topArguments[i])
      BY <1>4, <2>3, <3>1 DEF WalkFits
    <3>3. PICK v : v = TopMembers[w.member]
      OBVIOUS
    <3>4. v = Imported(top.place, topObject, topArguments[i])
      BY <3>1, <3>3
    <3>5. /\ ImportsOne(topArguments[i]) => v \in PartsOf(top.place) \cup {Null}
          /\ ImportsMany(topArguments[i]) \/ topArguments[i].op = "Nothing"
                => v \in Seq(PartsOf(top.place) \cup {Null})
      BY <3>4, ImportedParts
    <3>6. PartsOf(top.place) \cup {Null} \subseteq S \cup {Null}
      OBVIOUS
    <3>7. v \in Seq(PartsOf(top.place) \cup {Null}) => v \in Seq(S \cup {Null})
      BY <3>6, SequencesGrow
    <3> QED
      BY <3>2, <3>3, <3>5, <3>6, <3>7
  <2> QED
    BY <2>2, <2>3
<1>5. PICK set : set = S
  OBVIOUS
<1>6. Children(topObject.type, TopMembers) \in Seq(set)
  <2> HIDE DEF S
  <2>1. class \in DOMAIN Walks =>
            /\ Walks[class] \in Seq(WalkRows)
            /\ \A n \in DOMAIN Walks[class] :
                  /\ Walks[class][n].many => TopMembers[Walks[class][n].member] \in Seq(set \cup {Null})
                  /\ ~Walks[class][n].many => TopMembers[Walks[class][n].member] \in set \cup {Null}
    BY <1>3, <1>4, <1>5
  <2> QED
    BY <2>1, ChildrenNodes
<1> QED
  BY <1>5, <1>6

\* The name of a type parameter has no child.
LEMMA NameHasNoChild == Children("Identifier", NameNode.members) \in Seq({})
<1> DEFINE class == Walker["Identifier"]
<1>1. PICK members, row : members = NameNode.members /\ row = One("typeAnnotation")
  OBVIOUS
<1>2. Walks[class] = <<row>>
  BY <1>1, TablesAssumption DEF TablesAssumption
<1>3. row.many = FALSE /\ members[row.member] = Null
  BY <1>1 DEF One, NameNode
<1>4. class \in DOMAIN Walks => Walks[class] \in Seq(WalkRows)
  BY TablesAssumption DEF TablesAssumption, RowsFit
<1>5. PICK type, none : type = "Identifier" /\ none = {}
  OBVIOUS
<1>6. \A n \in DOMAIN Walks[class] :
         /\ Walks[class][n].many => members[Walks[class][n].member] \in Seq(none \cup {Null})
         /\ ~Walks[class][n].many => members[Walks[class][n].member] \in none \cup {Null}
  BY <1>2, <1>3
<1>7. Children(type, members) \in Seq(none)
  BY <1>4, <1>5, <1>6, ChildrenNodes
<1> QED
  BY <1>1, <1>5, <1>7

\* The constructor: the children of every node are nodes below it, of the new ones too.
LEMMA ConstructKeepsChildren ==
  ASSUME ImportInv, ChildrenInv, Construct
  PROVE  ChildrenInv'
<1>1. Importing /\ top.current = 0 /\ Left(top) = {}
  BY DEF Construct
<1>2. /\ DOMAIN nodes' = {top.place} \cup MadePlaces \cup DOMAIN nodes
      /\ \A p \in DOMAIN nodes' :
            nodes'[p].type = TreeWithTop[p].type /\ nodes'[p].members = TreeWithTop[p].members
  BY NodesAfterConstruct
<1>3. SUFFICES ASSUME NEW p \in DOMAIN nodes'
               PROVE  Children(nodes'[p].type, nodes'[p].members)
                         \in Seq({q \in DOMAIN nodes' : q # Root /\ Front(q) = p})
  BY DEF ChildrenInv, ChildrenOf, NodesUnder
<1> DEFINE Under1 == {q \in DOMAIN nodes' : q # Root /\ Front(q) = p}
<1>4. Children(nodes'[p].type, nodes'[p].members) = Children(TreeWithTop[p].type, TreeWithTop[p].members)
  BY <1>2
<1>5. CASE p = top.place
  <2>1. TreeWithTop[p].type = topObject.type /\ TreeWithTop[p].members = TopMembers
    BY <1>5, TreeIsExtended DEF TopNode
  <2>2. PartsOf(top.place) \subseteq Under1
    <3>1. PartsOf(top.place) \subseteq DOMAIN nodes
      BY <1>1, PartsArrived
    <3> QED
      BY <1>2, <1>5, <3>1 DEF PartsOf
  <2>3. MadePlaces \subseteq Under1
    BY <1>1, <1>2, <1>5, NameIsMade
  <2> HIDE DEF Under1
  <2>4. PartsOf(top.place) \cup MadePlaces \subseteq Under1
    BY <2>2, <2>3
  <2>5. Children(topObject.type, TopMembers) \in Seq(PartsOf(top.place) \cup MadePlaces)
    BY <1>1, TopChildrenAreBelow
  <2>6. Children(topObject.type, TopMembers) \in Seq(Under1)
    BY <2>4, <2>5, SequencesGrow
  <2> QED
    BY <1>4, <2>1, <2>6 DEF Under1
<1>6. CASE p # top.place /\ p \in MadePlaces
  <2>1. TreeWithTop[p] = NameNode
    BY <1>6, TreeIsExtended
  <2>2. TreeWithTop[p].type = "Identifier"
    BY <2>1 DEF NameNode
  <2>3. Children(TreeWithTop[p].type, TreeWithTop[p].members) \in Seq({})
    BY <2>1, <2>2, NameHasNoChild
  <2> HIDE DEF Under1
  <2>4. Children(TreeWithTop[p].type, TreeWithTop[p].members) \in Seq(Under1)
    BY <2>3, SequencesGrow
  <2> QED
    BY <1>4, <2>4 DEF Under1
<1>7. CASE p # top.place /\ p \notin MadePlaces
  <2>1. p \in DOMAIN nodes /\ TreeWithTop[p] = nodes[p]
    BY <1>2, <1>7, TreeIsExtended
  <2>2. ChildrenOf(p) \in Seq(NodesUnder(p))
    BY <2>1 DEF ChildrenInv
  <2>3. NodesUnder(p) \subseteq Under1
    BY <1>2 DEF NodesUnder
  <2> HIDE DEF Under1
  <2>4. ChildrenOf(p) \in Seq(Under1)
    BY <2>2, <2>3, SequencesGrow
  <2> QED
    BY <1>4, <2>1, <2>4 DEF Under1, ChildrenOf
<1> QED
  BY <1>5, <1>6, <1>7

\* The walk: what is pending, and what the callback has seen, are nodes.
LEMMA VisitKeepsQueue ==
  ASSUME TypeInv, Visit
  PROVE  QueueInv'
<1>1. pending \in Seq(DOMAIN nodes) /\ seen \in Seq(DOMAIN nodes) /\ pending # << >> /\ UNCHANGED nodes
  BY DEF TypeInv, QueueInv, Visit
<1>2. Head(pending) \in DOMAIN nodes /\ Tail(pending) \in Seq(DOMAIN nodes)
  BY <1>1, HeadTailProperties
<1>3. ChildrenOf(Head(pending)) \in Seq(DOMAIN nodes)
  <2>1. ChildrenOf(Head(pending)) \in Seq(NodesUnder(Head(pending)))
    BY <1>2 DEF TypeInv, ChildrenInv
  <2>2. NodesUnder(Head(pending)) \subseteq DOMAIN nodes
    BY DEF NodesUnder
  <2> QED
    BY <2>1, <2>2, SequencesGrow
<1>4. seen' = seen \/ seen' = Append(seen, Head(pending))
  BY DEF Visit
<1>5. seen' \in Seq(DOMAIN nodes)
  BY <1>1, <1>2, <1>4
<1>6. PICK rest, mine : rest = Tail(pending) /\ mine = ChildrenOf(Head(pending))
  OBVIOUS
<1>7. pending' = mine \o rest \/ pending' = << >> \o rest
  BY <1>6 DEF Visit, ChildrenOf
<1>8. pending' \in Seq(DOMAIN nodes)
  <2>1. ASSUME NEW S, NEW x \in Seq(S), NEW y \in Seq(S) PROVE x \o y \in Seq(S)
    OBVIOUS
  <2>2. mine \in Seq(DOMAIN nodes) /\ rest \in Seq(DOMAIN nodes) /\ << >> \in Seq(DOMAIN nodes)
    BY <1>2, <1>3, <1>6
  <2>3. mine \o rest \in Seq(DOMAIN nodes) /\ << >> \o rest \in Seq(DOMAIN nodes)
    BY <2>1, <2>2
  <2> QED
    BY <1>7, <2>3
<1> QED
  BY <1>1, <1>5, <1>8 DEF QueueInv

\* Every step keeps children and pending nodes in the tree.
LEMMA TypesGoOn ==
  ASSUME TypeInv, [Next]_vars
  PROVE  TypeInv'
<1>1. ImportInv'
  BY ImportGoesOn DEF TypeInv
<1>2. ASSUME UNCHANGED nodes PROVE ChildrenInv'
  BY <1>2 DEF TypeInv, ChildrenInv, ChildrenOf, NodesUnder
<1>3. ASSUME UNCHANGED <<nodes, pending, seen>> PROVE TypeInv'
  BY <1>1, <1>2, <1>3 DEF TypeInv, QueueInv
<1>4. CASE ImportChild \/ RefuseWord \/ StartArray \/ ImportElement \/ FinishArray
  BY <1>3, <1>4 DEF ImportChild, RefuseWord, StartArray, ImportElement, FinishArray
<1>5. CASE Construct
  <2>1. ChildrenInv'
    BY <1>5, ConstructKeepsChildren DEF TypeInv
  <2>2. /\ top.place \in DOMAIN nodes' /\ DOMAIN nodes \subseteq DOMAIN nodes'
        /\ Len(stack) = 1 => top.place = Root
    <3>1. Importing
      BY <1>5 DEF Construct
    <3>2. top.place \in Paths /\ Len(top.place) = Len(stack) - 1
      BY <3>1, TopCall DEF TypeInv
    <3>3. ASSUME Len(stack) = 1 PROVE top.place = Root
      <4>1. Len(top.place) = 0
        BY <3>2, <3>3
      <4> QED
        BY <3>2, <4>1 DEF Paths, Root
    <3> QED
      BY <1>5, <3>3, CallReturns DEF TypeInv
  <2>3. seen' \in Seq(DOMAIN nodes')
    <3>1. seen' = seen /\ seen \in Seq(DOMAIN nodes)
      BY <1>5 DEF Construct, TypeInv, QueueInv
    <3> QED
      BY <2>2, <3>1, SequencesGrow
  <2>4. pending' \in Seq(DOMAIN nodes')
    <3>1. CASE Len(stack) = 1
      <4>1. pending' = <<Root>>
        BY <1>5, <3>1 DEF Construct
      <4> QED
        BY <2>2, <3>1, <4>1
    <3>2. CASE Len(stack) # 1
      <4>1. pending' = pending /\ pending \in Seq(DOMAIN nodes)
        BY <1>5, <3>2 DEF Construct, TypeInv, QueueInv
      <4> QED
        BY <2>2, <4>1, SequencesGrow
    <3> QED
      BY <3>1, <3>2
  <2> QED
    BY <1>1, <2>1, <2>3, <2>4 DEF TypeInv, QueueInv
<1>6. CASE Visit
  <2>1. UNCHANGED nodes
    BY <1>6 DEF Visit
  <2> QED
    BY <1>1, <1>2, <1>6, <2>1, VisitKeepsQueue DEF TypeInv
<1>7. CASE EndWalk
  BY <1>3, <1>7 DEF EndWalk
<1>8. CASE UNCHANGED vars
  BY <1>3, <1>8 DEF vars
<1> QED
  BY <1>4, <1>5, <1>6, <1>7, <1>8 DEF Next

\* There is no node at the start.
LEMMA TypesStart ==
  ASSUME Init
  PROVE  TypeInv
<1>1. ImportInv
  BY ImportStarts
<1>2. nodes = << >> /\ pending = << >> /\ seen = << >>
  BY DEF Init
<1>3. DOMAIN nodes = {}
  BY <1>2
<1> QED
  BY <1>1, <1>2, <1>3 DEF TypeInv, ChildrenInv, QueueInv

\* The tree: the importer's invariant, and every node's children are nodes below it.
THEOREM TreeInvariant == Spec => []TypeInv
<1>1. Init => TypeInv
  BY TypesStart
<1>2. TypeInv /\ [Next]_vars => TypeInv'
  BY TypesGoOn
<1> QED
  BY <1>1, <1>2, PTL DEF Spec

\* The calls in progress are at objects of the file, and no node is constructed before the nodes
\* it stores: applyChildren never hands over a node that does not exist.
THEOREM TypeCorrect == Spec => []TypeOK
<1>1. TypeInv => TypeOK
  <2>1. SUFFICES ASSUME TypeInv PROVE TypeOK
    OBVIOUS
  <2>2. /\ keep \in BOOLEAN /\ phase \in {"import", "walk", "done", "failed"}
        /\ visitor \in Visitors \cup {Null} /\ stack \in Seq(Frames)
    BY <2>1 DEF TypeInv, ImportInv, Typing
  <2>3. ASSUME NEW k \in DOMAIN stack
        PROVE  stack[k].place \in Places /\ stack[k].index \in 0 .. IndexRange - 1
    <3>1. CallInv(stack[k])
      BY <2>1 DEF TypeInv, ImportInv, CallsInv
    <3>2. stack[k] \in Frames
      BY <2>2
    <3>3. stack[k].index \in Nat
      BY <3>2 DEF Frames
    <3> QED
      BY <3>1, <3>3, IndexRangeAssumption DEF CallInv
  <2>4. ASSUME NEW p \in DOMAIN nodes PROVE ToSet(ChildrenOf(p)) \subseteq DOMAIN nodes
    <3>1. ChildrenOf(p) \in Seq(NodesUnder(p))
      BY <2>1 DEF TypeInv, ChildrenInv
    <3>2. NodesUnder(p) \subseteq DOMAIN nodes
      BY DEF NodesUnder
    <3> QED
      BY <3>1, <3>2 DEF ToSet
  <2>5. ToSet(pending) \cup ToSet(seen) \subseteq DOMAIN nodes
    BY <2>1 DEF TypeInv, QueueInv, ToSet
  <2> QED
    BY <2>2, <2>3, <2>4, <2>5 DEF TypeOK, ChildrenOf
<1> QED
  BY <1>1, TreeInvariant, PTL

------------------------------------------------------------------------------------------
\* Every node is made once, as long as the index can count the arrays.

\* A call keeps its place and what it has left, when what arrives is no part of its object.
LEMMA FreshStays ==
  ASSUME UNCHANGED <<file, keep>>, NEW c, FreshInv(c), c.place \notin DOMAIN nodes',
         \A q \in Arrived' \ Arrived : q \notin PartsOf(c.place)
  PROVE  FreshInv(c)'
<1> DEFINE args == Arguments(ObjectAt(c.place).type)
<1>1. args' = args /\ \A attr : PartsIn(c.place, attr)' = PartsIn(c.place, attr)
  BY DEF ObjectAt, Arguments, PartsIn, PartsOf, Places
<1>2. \A i \in DOMAIN args \ c.done : \A q \in PartsIn(c.place, args[i].attr) :
         ImportsNodes(args[i]) /\ q \in Arrived' => i = c.current /\ Last(q)[2] <= c.index
  BY DEF FreshInv, PartsIn
<1>3. c.current \notin c.done
  BY DEF FreshInv
<1> QED
  BY <1>1, <1>2, <1>3 DEF FreshInv

\* The same of the innermost call, with another argument or element.
Awaits(t) ==
    /\ t.current \notin t.done
    /\ \A i \in DOMAIN topArguments \ t.done : \A q \in PartsIn(top.place, topArguments[i].attr) :
          ImportsNodes(topArguments[i]) /\ q \in Arrived' => i = t.current /\ Last(q)[2] <= t.index
KeepsFresh(t) == FreshInv(top) => FreshInv(t)'
\* What Awaits says is enough for the call after the step.
LEMMA FreshMoves ==
  ASSUME UNCHANGED <<file, keep, nodes>>, NEW t, t.place = top.place, FreshInv(top) => Awaits(t)
  PROVE  KeepsFresh(t)
<1> DEFINE args == Arguments(ObjectAt(t.place).type)
<1>0. SUFFICES ASSUME FreshInv(top) PROVE FreshInv(t)'
  BY DEF KeepsFresh
<1>1. args' = args /\ \A attr : PartsIn(t.place, attr)' = PartsIn(t.place, attr)
  BY DEF ObjectAt, Arguments, PartsIn, PartsOf, Places
<1>2. args = topArguments /\ t.place \notin DOMAIN nodes'
  BY <1>0 DEF topArguments, topObject, FreshInv
<1>3. t.current \notin t.done
  BY <1>0 DEF Awaits
<1>4. \A i \in DOMAIN args \ t.done : \A q \in PartsIn(t.place, args[i].attr) :
         ImportsNodes(args[i]) /\ q \in Arrived' => i = t.current /\ Last(q)[2] <= t.index
  BY <1>0, <1>2 DEF Awaits
<1> QED
  BY <1>1, <1>2, <1>3, <1>4 DEF FreshInv

\* No node is made twice when the innermost call moves and nothing arrives.
LEMMA OnceGoesOn ==
  ASSUME ImportInv, Importing, OnceInv, NEW t \in Frames, t.place = top.place, GoesOn(t),
         Arrived' = Arrived, UNCHANGED <<file, keep, nodes, phase>>,
         Countable' => top.length < IndexRange, KeepsFresh(t)
  PROVE  OnceInv'
<1>1. SUFFICES ASSUME Countable' PROVE (AroundInv /\ (\A k \in DOMAIN stack : FreshInv(stack[k])) /\ ParentInv)'
  BY DEF OnceInv
<1>2. /\ stack' \in Seq(Frames) /\ Len(stack') = Len(stack) /\ stack'[1] = t
      /\ \A k \in 2..Len(stack) : stack'[k] = stack[k]
  <2> DEFINE calls == <<t>> \o Tail(stack)
  <2>1. /\ calls \in Seq(Frames) /\ Len(calls) = Len(stack) /\ calls[1] = t
        /\ \A k \in 2..Len(stack) : calls[k] = stack[k]
    BY CallGoesOn
  <2>2. stack' = calls
    BY DEF GoesOn
  <2> HIDE DEF calls
  <2> QED
    BY <2>1, <2>2
<1>3. /\ Len(stack) \in Nat /\ DOMAIN stack = 1..Len(stack) /\ DOMAIN stack' = DOMAIN stack
      /\ \A k \in DOMAIN stack : k = 1 \/ k \in 2..Len(stack)
  <2>1. stack \in Seq(Frames)
    BY DEF ImportInv, Typing
  <2> QED
    BY <1>2, <2>1
<1>4. Countable
  <2>1. ASSUME NEW k \in DOMAIN stack PROVE stack[k].length < IndexRange
    <3>1. k = 1 \/ stack[k] = stack'[k]
      BY <1>2, <1>3
    <3>2. \A j \in DOMAIN stack' : stack'[j].length < IndexRange
      BY <1>1 DEF Countable
    <3> QED
      BY <1>1, <1>3, <3>1, <3>2, TopCall
  <2> QED
    BY <1>1, <2>1 DEF Countable
<1>5. AroundInv /\ (\A k \in DOMAIN stack : FreshInv(stack[k])) /\ ParentInv
  BY <1>4 DEF OnceInv
<1>6. AroundInv' /\ ParentInv'
  BY <1>5 DEF AroundInv, ParentInv, ChildrenOf
<1>7. ASSUME NEW k \in DOMAIN stack, NEW d, d = stack'[k] PROVE FreshInv(d)'
  <2>1. CASE k = 1
    <3>1. d = t /\ FreshInv(top)
      BY <1>2, <1>3, <1>5, <1>7, <2>1, TopCall
    <3>2. FreshInv(t)'
      BY <3>1 DEF KeepsFresh
    <3> QED
      BY <3>1, <3>2
  <2>2. CASE k # 1
    <3>1. FreshInv(d)
      BY <1>2, <1>3, <1>5, <1>7, <2>2
    <3>2. d.place \notin DOMAIN nodes'
      BY <3>1 DEF FreshInv
    <3> QED
      BY <3>1, <3>2, FreshStays
  <2> QED
    BY <2>1, <2>2
<1>8. \A k \in DOMAIN stack' : FreshInv(stack[k])'
  BY <1>3, <1>7
<1> QED
  BY <1>6, <1>8

\* The calls when the importer calls itself.
LEMMA CallsAfterEntering ==
  ASSUME ImportInv, Importing, NEW t \in Frames, t.place = top.place, NEW q \in Paths, Enters(t, q)
  PROVE  /\ 1 \in DOMAIN stack' /\ stack'[1] = Call(q) /\ 2 \in DOMAIN stack' /\ stack'[2] = t
         /\ \A k \in DOMAIN stack \ {1} : k + 1 \in DOMAIN stack' /\ stack'[k + 1] = stack[k]
         /\ \A k \in DOMAIN stack' :
               \/ k = 1 \/ k = 2
               \/ k - 1 \in DOMAIN stack /\ k - 1 # 1 /\ stack'[k] = stack[k - 1]
<1> DEFINE calls == <<t>> \o Tail(stack)
<1>1. /\ calls \in Seq(Frames) /\ Len(calls) = Len(stack) /\ calls[1] = t
      /\ \A k \in 2..Len(stack) : calls[k] = stack[k]
  BY CallGoesOn
<1>2. stack \in Seq(Frames) /\ Len(stack) \in Nat /\ Len(stack) >= 1 /\ DOMAIN stack = 1..Len(stack)
  <2>1. stack \in Seq(Frames)
    BY DEF ImportInv, Typing
  <2> QED
    BY <2>1, TopCall
<1>3. Call(q) \in Frames
  BY DEF Call, Frames
<1> HIDE DEF calls
<1>4. PICK c : c = Call(q)
  OBVIOUS
<1> DEFINE more == <<c>> \o calls
<1>5. /\ more \in Seq(Frames) /\ Len(more) = Len(calls) + 1 /\ more[1] = c
      /\ \A k \in 1..Len(calls) : more[k + 1] = calls[k]
      /\ \A k \in DOMAIN more : k = 1 \/ (k - 1 \in 1..Len(calls) /\ more[k] = calls[k - 1])
  BY <1>1, <1>3, <1>4, CallEntered
<1>6. stack' = more
  BY <1>4 DEF calls, Enters
<1> HIDE DEF more
<1>7. DOMAIN more = 1..(Len(stack) + 1)
  BY <1>1, <1>2, <1>5
<1>8. 1 \in DOMAIN more /\ 2 \in DOMAIN more /\ more[2] = t
  <2>1. 1 \in 1..Len(calls) /\ 1 + 1 = 2
    BY <1>1, <1>2
  <2> QED
    BY <1>1, <1>2, <1>5, <1>7, <2>1
<1>9. ASSUME NEW k \in DOMAIN stack, k # 1
      PROVE  k + 1 \in DOMAIN more /\ more[k + 1] = stack[k]
  <2>1. k \in 1..Len(stack) /\ k \in 2..Len(stack) /\ k + 1 \in 1..(Len(stack) + 1)
    BY <1>2, <1>9
  <2>2. more[k + 1] = calls[k]
    BY <1>1, <1>5, <2>1
  <2> QED
    BY <1>1, <1>7, <2>1, <2>2
<1>10. ASSUME NEW k \in DOMAIN more, k # 1, k # 2
       PROVE  k - 1 \in DOMAIN stack /\ k - 1 # 1 /\ more[k] = stack[k - 1]
  <2>1. k - 1 \in 1..Len(stack) /\ k - 1 \in 2..Len(stack) /\ k - 1 # 1
    BY <1>2, <1>7, <1>10
  <2>2. more[k] = calls[k - 1]
    BY <1>5, <1>10
  <2> QED
    BY <1>1, <1>2, <2>1, <2>2
<1> QED
  BY <1>4, <1>5, <1>6, <1>8, <1>9, <1>10

\* The parts of an object are below it, and of no other.
LEMMA OtherCallsAreAround ==
  ASSUME ImportInv, Importing, NEW k \in DOMAIN stack, k # 1
  PROVE  stack[k].place # top.place
<1>1. stack \in Seq(Frames)
  BY DEF ImportInv, Typing
<1>2. k \in Nat /\ Len(stack) \in Nat
  BY <1>1
<1>3. Len(stack[k].place) = Len(stack) - k
  BY DEF ImportInv, DepthInv
<1>4. Len(top.place) = Len(stack) - 1
  BY TopCall
<1>5. Len(stack) - k # Len(stack) - 1
  BY <1>2
<1> QED
  BY <1>3, <1>4, <1>5

\* No node is made twice when a call begins: nothing has arrived at or below its place.
LEMMA OnceEnters ==
  ASSUME ImportInv, Importing, OnceInv, NEW t \in Frames, t.place = top.place,
         NEW q \in PartsOf(top.place), Enters(t, q), Arrived' = Arrived \cup {q},
         UNCHANGED <<file, keep, nodes, phase>>, t.length = top.length, KeepsFresh(t),
         FreshInv(top) /\ Countable => q \notin Arrived
  PROVE  OnceInv'
<1>1. SUFFICES ASSUME Countable' PROVE (AroundInv /\ (\A k \in DOMAIN stack : FreshInv(stack[k])) /\ ParentInv)'
  BY DEF OnceInv
<1>2. q \in Places /\ q \in Paths /\ q # Root /\ Front(q) = top.place /\ file \in Files
  <2>1. file \in Files /\ top.place \in Places
    BY TopCall DEF ImportInv, Typing
  <2> QED
    BY <2>1, PartIsBelow
<1>3. /\ 1 \in DOMAIN stack' /\ stack'[1] = Call(q) /\ 2 \in DOMAIN stack' /\ stack'[2] = t
      /\ \A k \in DOMAIN stack \ {1} : k + 1 \in DOMAIN stack' /\ stack'[k + 1] = stack[k]
      /\ \A k \in DOMAIN stack' :
            \/ k = 1 \/ k = 2
            \/ k - 1 \in DOMAIN stack /\ k - 1 # 1 /\ stack'[k] = stack[k - 1]
  BY <1>2, CallsAfterEntering
<1>4. 1 \in DOMAIN stack /\ top = stack[1]
  <2>1. stack \in Seq(Frames)
    BY DEF ImportInv, Typing
  <2> QED
    BY <2>1, TopCall
<1>5. Countable
  <2>1. \A k \in DOMAIN stack' : stack'[k].length < IndexRange
    BY <1>1 DEF Countable
  <2>2. ASSUME NEW k \in DOMAIN stack PROVE stack[k].length < IndexRange
    <3>1. CASE k = 1
      BY <1>3, <1>4, <2>1, <3>1
    <3>2. CASE k # 1
      <4>1. k + 1 \in DOMAIN stack' /\ stack'[k + 1] = stack[k]
        BY <1>3, <3>2
      <4> QED
        BY <2>1, <4>1
    <3> QED
      BY <3>1, <3>2
  <2> QED
    BY <1>1, <2>2 DEF Countable
<1>6. AroundInv /\ (\A k \in DOMAIN stack : FreshInv(stack[k])) /\ ParentInv
  BY <1>5 DEF OnceInv
<1>7. FreshInv(top) /\ q \notin Arrived
  BY <1>4, <1>5, <1>6
<1>8. ParentInv'
  BY <1>6 DEF ParentInv, ChildrenOf
<1>9. AroundInv'
  <2>1. top.place \in Arrived
    BY <1>4 DEF Arrived
  <2> QED
    BY <1>2, <1>6, <2>1 DEF AroundInv
<1>10. ASSUME NEW c, c = Call(q) PROVE FreshInv(c)'
  <2>1. c.place = q /\ c.current = 0 /\ c.done = {}
    BY <1>10 DEF Call
  <2>2. q \notin DOMAIN nodes'
    BY <1>7 DEF Arrived
  <2>3. ASSUME NEW r \in PartsOf(q) PROVE r \notin Arrived'
    <3>1. r # Root /\ Front(r) = q
      BY DEF PartsOf
    <3>2. r # q
      <4>1. Len(r) = Len(q) + 1 /\ Len(q) \in Nat
        BY <1>2, PartIsBelow
      <4> QED
        BY <4>1
    <3>3. r \notin Arrived
      BY <1>6, <1>7, <3>1 DEF AroundInv
    <3> QED
      BY <3>2, <3>3
  <2>4. PartsOf(q)' = PartsOf(q)
    BY DEF PartsOf, Places
  <2> QED
    BY <2>1, <2>2, <2>3, <2>4 DEF FreshInv, PartsIn
<1>11. ASSUME NEW k \in DOMAIN stack', NEW d, d = stack'[k] PROVE FreshInv(d)'
  <2>1. CASE k = 1
    BY <1>3, <1>10, <1>11, <2>1
  <2>2. CASE k = 2
    <3>1. FreshInv(t)' /\ d = t
      BY <1>3, <1>7, <1>11, <2>2 DEF KeepsFresh
    <3> QED
      BY <3>1
  <2>3. CASE k # 1 /\ k # 2
    <3>1. k - 1 \in DOMAIN stack /\ k - 1 # 1 /\ d = stack[k - 1]
      BY <1>3, <1>11, <2>3
    <3>2. FreshInv(d)
      BY <1>6, <3>1
    <3>3. d.place \notin DOMAIN nodes'
      BY <3>2 DEF FreshInv
    <3>4. d.place # top.place
      BY <3>1, OtherCallsAreAround
    <3>5. q \notin PartsOf(d.place)
      BY <1>2, <3>4 DEF PartsOf
    <3> QED
      BY <3>2, <3>3, <3>5, FreshStays
  <2> QED
    BY <2>1, <2>2, <2>3
<1>12. \A k \in DOMAIN stack' : FreshInv(stack[k])'
  BY <1>11
<1> QED
  BY <1>8, <1>9, <1>12

\* What has arrived of the innermost call's object, besides what is done, belongs to the array that
\* is being imported.
LEMMA ArrivedAtTop ==
  ASSUME ImportInv, Importing, FreshInv(top), NEW i \in DOMAIN topArguments \ top.done,
         NEW q \in PartsIn(top.place, topArguments[i].attr), ImportsNodes(topArguments[i]),
         q \in Arrived
  PROVE  i = top.current /\ i # 0 /\ Last(q)[2] <= top.index
<1>1. topObject.type \in Kinds /\ keep \in BOOLEAN
  BY TopCall DEF ImportInv, Typing
<1>2. i # 0
  BY <1>1, RowsOfKind DEF topArguments, Arguments
<1>3. topArguments = Arguments(ObjectAt(top.place).type)
  BY TopCall
<1>4. i = top.current /\ Last(q)[2] <= top.index
  BY <1>3 DEF FreshInv
<1> QED
  BY <1>2, <1>4

\* No part of an object is imported by two arguments.
LEMMA ArgumentsDiffer ==
  ASSUME ImportInv, Importing, NEW i \in DOMAIN topArguments, NEW j \in DOMAIN topArguments,
         ImportsNodes(topArguments[i]), ImportsNodes(topArguments[j]),
         NEW q \in PartsIn(top.place, topArguments[i].attr), q \in PartsIn(top.place, topArguments[j].attr)
  PROVE  i = j
<1>1. topObject.type \in Kinds /\ keep \in BOOLEAN
  BY TopCall DEF ImportInv, Typing
<1>2. topArguments[i].attr = topArguments[j].attr
  BY DEF PartsIn
<1> QED
  BY <1>1, <1>2, RowsOfKind DEF topArguments, Arguments

\* importChild.
LEMMA ChildOnce ==
  ASSUME ImportInv, OnceInv, ImportChild
  PROVE  OnceInv'
<1>1. PICK i \in Startable, t \in Frames, q \in PartsOf(top.place) :
        /\ t = [top EXCEPT !.done = @ \cup {i}] /\ t.place = top.place
        /\ ImportsOne(topArguments[i]) /\ q \in PartsIn(top.place, topArguments[i].attr)
        /\ Import(<<t>> \o Tail(stack), q) /\ KeepsCall(t, {q})
  BY ChildStep
<1>2. /\ Importing /\ top.current = 0 /\ i \in DOMAIN topArguments /\ i \notin top.done
      /\ i \in Nat \ {0}
  BY StartableArgument
<1>3. UNCHANGED <<file, keep, nodes, visitor, pending, seen>>
  BY DEF ImportChild
<1>4. CASE phase' = "failed"
  BY <1>4 DEF OnceInv, Countable
<1>5. CASE phase' = phase /\ Enters(t, q) /\ Arrived' = Arrived \cup {q}
  <2>1. ImportsNodes(topArguments[i])
    BY <1>1 DEF ImportsNodes
  <2>2. top \in Frames
    BY <1>2, TopCall
  <2>3. t.done = top.done \cup {i} /\ t.current = 0 /\ t.length = top.length
    BY <1>1, <1>2, <2>2 DEF Frames
  <2>4. FreshInv(top) => q \notin Arrived
    BY <1>1, <1>2, <2>1, ArrivedAtTop
  <2>5. ASSUME FreshInv(top) PROVE Awaits(t)
    <3>1. t.current \notin t.done
      BY <1>2, <2>3, <2>5 DEF FreshInv
    <3>2. ASSUME NEW j \in DOMAIN topArguments \ t.done,
                 NEW r \in PartsIn(top.place, topArguments[j].attr),
                 ImportsNodes(topArguments[j]), r \in Arrived'
          PROVE  FALSE
      <4>1. j \in DOMAIN topArguments \ top.done /\ j # i
        BY <2>3
      <4>2. CASE r \in Arrived
        BY <1>2, <2>5, <3>2, <4>1, <4>2, ArrivedAtTop
      <4>3. CASE r = q
        BY <1>1, <1>2, <2>1, <3>2, <4>1, <4>3, ArgumentsDiffer
      <4> QED
        BY <1>5, <3>2, <4>2, <4>3
    <3> QED
      BY <3>1, <3>2 DEF Awaits
  <2>6. KeepsFresh(t)
    BY <1>1, <1>3, <2>5, FreshMoves
  <2> QED
    BY <1>1, <1>2, <1>3, <1>5, <2>3, <2>4, <2>6, OnceEnters
<1> QED
  BY <1>1, <1>2, <1>3, <1>4, <1>5, ImportIsSafe

\* importChildArray.
LEMMA ArrayStartsOnce ==
  ASSUME ImportInv, OnceInv, StartArray
  PROVE  OnceInv'
<1>1. PICK i \in Startable, t \in Frames :
        t.place = top.place /\ t.done = top.done /\ t.current = i /\ GoesOn(t)
  BY ArrayStartsSafely
<1>2. /\ Importing /\ top.current = 0 /\ i \in DOMAIN topArguments /\ i \notin top.done
      /\ i \in Nat \ {0} /\ Arrived' = Arrived /\ UNCHANGED <<file, keep, nodes, phase>>
  BY StartableArgument, ArrayStartsSafely DEF StartArray
<1>3. top.length < IndexRange
  <2>1. top.length = 0
    BY <1>2, TopCall DEF CallInv
  <2> QED
    BY <2>1, IndexRangeAssumption DEF IndexRangeAssumption
<1>4. ASSUME FreshInv(top) PROVE Awaits(t)
  <2>1. ASSUME NEW j \in DOMAIN topArguments \ t.done,
               NEW r \in PartsIn(top.place, topArguments[j].attr),
               ImportsNodes(topArguments[j]), r \in Arrived'
        PROVE  FALSE
    BY <1>1, <1>2, <1>4, <2>1, ArrivedAtTop
  <2> QED
    BY <1>1, <1>2, <2>1 DEF Awaits
<1>5. KeepsFresh(t)
  BY <1>1, <1>2, <1>4, FreshMoves
<1> QED
  BY <1>1, <1>2, <1>3, <1>5, OnceGoesOn

\* importChildArray: the array ends. Its index can only reach a length that it can count.
LEMMA ArrayEndsOnce ==
  ASSUME ImportInv, OnceInv, FinishArray
  PROVE  OnceInv'
<1>1. PICK t \in Frames :
        t.place = top.place /\ t.done = top.done \cup {top.current} /\ t.current = 0 /\ GoesOn(t)
  BY ArrayEndsSafely
<1>2. /\ Importing /\ top.current # 0 /\ top.index >= top.length
      /\ Arrived' = Arrived /\ UNCHANGED <<file, keep, nodes, phase>>
  BY ArrayEndsSafely DEF FinishArray
<1>3. CallInv(top) /\ top \in Frames /\ topObject.type \in Kinds /\ keep \in BOOLEAN
      /\ topArguments = Arguments(ObjectAt(top.place).type)
  BY <1>2, TopCall DEF ImportInv, Typing
<1>4. top.length < IndexRange
  <2>1. top.index < IndexRange /\ top.index \in Nat /\ top.length \in Nat
    BY <1>3 DEF CallInv, Frames
  <2> QED
    BY <1>2, <2>1, IndexRangeAssumption DEF IndexRangeAssumption
<1>5. 0 \notin DOMAIN topArguments
  BY <1>3, RowsOfKind DEF topArguments, Arguments
<1>6. 0 \notin t.done
  <2>1. top.done \subseteq DOMAIN topArguments
    BY <1>3 DEF CallInv
  <2> QED
    BY <1>1, <1>2, <1>5, <2>1
<1>7. ASSUME FreshInv(top) PROVE Awaits(t)
  <2>1. ASSUME NEW j \in DOMAIN topArguments \ t.done,
               NEW r \in PartsIn(top.place, topArguments[j].attr),
               ImportsNodes(topArguments[j]), r \in Arrived'
        PROVE  FALSE
    BY <1>1, <1>2, <1>7, <2>1, ArrivedAtTop
  <2> QED
    BY <1>1, <1>6, <2>1 DEF Awaits
<1>8. KeepsFresh(t)
  BY <1>1, <1>2, <1>7, FreshMoves
<1> QED
  BY <1>1, <1>2, <1>4, <1>8, OnceGoesOn

\* importChildArray: the next element, which is another one as long as the index can count.
LEMMA ElementOnce ==
  ASSUME ImportInv, OnceInv, ImportElement
  PROVE  OnceInv'
<1> DEFINE a == topArguments[top.current]
<1>1. /\ Importing /\ top.current \in DOMAIN topArguments /\ ImportsMany(a)
      /\ top.index + 1 <= top.length
  BY ElementStep
<1>2. PICK t, q :
        /\ t \in Frames
        /\ t = [top EXCEPT !.index = NextIndex(@)] /\ t.place = top.place
        /\ q = Under(top.place, a.attr, top.index + 1)
        /\ \/ GoesOn(t) /\ phase' = phase /\ KeepsCall(t, {})
           \/ /\ Import(<<t>> \o Tail(stack), q) /\ KeepsCall(t, {q})
              /\ q \in PartsIn(top.place, a.attr)
  BY ElementStep
<1>3. UNCHANGED <<file, keep, nodes, visitor, pending, seen>>
  BY DEF ImportElement
<1>4. top \in Frames /\ top.place \in Paths /\ top.index \in Nat /\ top.length \in Nat
      /\ top.index < IndexRange
  BY <1>1, TopCall DEF Frames, CallInv
<1>5. /\ t.done = top.done /\ t.current = top.current /\ t.length = top.length
      /\ t.index = NextIndex(top.index)
  BY <1>2, <1>4 DEF Frames
<1>6. ASSUME top.length < IndexRange PROVE t.index = top.index + 1
  <2>1. top.index + 1 < IndexRange
    BY <1>1, <1>4, <1>6, IndexRangeAssumption DEF IndexRangeAssumption
  <2> QED
    BY <1>4, <1>5, <2>1, NextIndexCounts
<1>7. ASSUME NEW more, Arrived' = Arrived \cup more, top.length < IndexRange, FreshInv(top),
             \A r \in more : r = q /\ q \in PartsIn(top.place, a.attr)
      PROVE  Awaits(t)
  <2>1. ASSUME NEW j \in DOMAIN topArguments \ t.done,
               NEW r \in PartsIn(top.place, topArguments[j].attr),
               ImportsNodes(topArguments[j]), r \in Arrived'
        PROVE  j = t.current /\ Last(r)[2] <= t.index
    <3>1. CASE r \in Arrived
      <4>1. j = top.current /\ Last(r)[2] <= top.index
        BY <1>1, <1>5, <1>7, <2>1, <3>1, ArrivedAtTop
      <4>2. Last(r)[2] \in Nat
        <5>1. r \in Paths /\ r # Root
          BY FileIsTree DEF PartsIn, PartsOf, ImportInv, Typing
        <5> QED
          BY <5>1, BelowIsUnder
      <4> QED
        BY <1>4, <1>5, <1>6, <1>7, <4>1, <4>2
    <3>2. CASE r \in more
      <4>1. r = q /\ q \in PartsIn(top.place, a.attr) /\ ImportsNodes(a)
        BY <1>1, <1>7, <3>2 DEF ImportsNodes
      <4>2. j = top.current
        BY <1>1, <2>1, <4>1, ArgumentsDiffer
      <4>3. Last(q) = <<a.attr, top.index + 1>>
        <5>1. a.attr \in STRING
          BY <1>1, TopCall, RowsOfKind DEF topArguments, Arguments, ImportInv, Typing
        <5> QED
          BY <1>2, <1>4, <5>1, UnderIsBelow
      <4> QED
        BY <1>4, <1>5, <1>6, <1>7, <4>1, <4>2, <4>3
    <3> QED
      BY <1>7, <2>1, <3>1, <3>2
  <2> QED
    BY <1>5, <1>7, <2>1 DEF Awaits, FreshInv
<1>8. CASE GoesOn(t) /\ phase' = phase /\ KeepsCall(t, {})
  <2>1. Arrived' = Arrived
    BY <1>1, <1>2, <1>3, <1>8, AdvanceCall
  <2>2. CASE top.length < IndexRange
    <3>1. KeepsFresh(t)
      <4>1. FreshInv(top) => Awaits(t)
        <5>1. PICK none : none = {}
          OBVIOUS
        <5>2. Arrived' = Arrived \cup none /\ \A r \in none : r = q /\ q \in PartsIn(top.place, a.attr)
          BY <2>1, <5>1
        <5> QED
          BY <1>7, <2>2, <5>2
      <4> QED
        BY <1>2, <1>3, <4>1, FreshMoves
    <3> QED
      BY <1>1, <1>2, <1>3, <1>8, <2>1, <2>2, <3>1, OnceGoesOn
  <2>3. CASE ~(top.length < IndexRange)
    <3>1. \E k \in DOMAIN stack' : stack'[k] = t
      <4> DEFINE calls == <<t>> \o Tail(stack)
      <4>1. calls \in Seq(Frames) /\ Len(calls) = Len(stack) /\ calls[1] = t
        BY <1>1, <1>2, CallGoesOn
      <4>2. stack' = calls
        BY <1>8 DEF GoesOn
      <4>3. Len(stack) \in Nat /\ Len(stack) >= 1
        BY <1>1, TopCall
      <4> HIDE DEF calls
      <4>4. 1 \in DOMAIN calls
        BY <4>1, <4>3
      <4> QED
        BY <4>1, <4>2, <4>4
    <3> QED
      BY <1>5, <2>3, <3>1 DEF OnceInv, Countable
  <2> QED
    BY <2>2, <2>3
<1>9. CASE /\ Import(<<t>> \o Tail(stack), q) /\ KeepsCall(t, {q})
           /\ q \in PartsIn(top.place, a.attr)
  <2>1. q \in PartsOf(top.place)
    BY <1>9 DEF PartsIn
  <2>2. CASE phase' = "failed"
    BY <2>2 DEF OnceInv, Countable
  <2>3. CASE phase' = phase /\ Enters(t, q) /\ Arrived' = Arrived \cup {q}
    <3>1. CASE top.length < IndexRange
      <4>1. FreshInv(top) => Awaits(t)
        BY <1>7, <1>9, <2>3, <3>1
      <4>2. KeepsFresh(t)
        BY <1>2, <1>3, <4>1, FreshMoves
      <4>3. ASSUME FreshInv(top) PROVE q \notin Arrived
        <5>1. SUFFICES ASSUME q \in Arrived PROVE FALSE
          OBVIOUS
        <5>2. top.current \in DOMAIN topArguments \ top.done /\ ImportsNodes(a)
          BY <1>1, <4>3 DEF FreshInv, ImportsNodes
        <5>3. Last(q)[2] <= top.index
          BY <1>1, <1>9, <4>3, <5>1, <5>2, ArrivedAtTop
        <5>4. Last(q) = <<a.attr, top.index + 1>>
          <6>1. a.attr \in STRING
            BY <1>1, TopCall, RowsOfKind DEF topArguments, Arguments, ImportInv, Typing
          <6> QED
            BY <1>2, <1>4, <6>1, UnderIsBelow
        <5> QED
          BY <1>4, <5>3, <5>4
      <4> QED
        BY <1>1, <1>2, <1>3, <1>5, <2>1, <2>3, <4>2, <4>3, OnceEnters
    <3>2. CASE ~(top.length < IndexRange)
      <4>1. q \in Paths
        <5>1. file \in Files /\ top.place \in Places
          BY <1>1, TopCall DEF ImportInv, Typing
        <5> QED
          BY <2>1, <5>1, PartIsBelow
      <4>2. 2 \in DOMAIN stack' /\ stack'[2] = t
        BY <1>1, <1>2, <2>3, <4>1, CallsAfterEntering
      <4> QED
        BY <1>5, <3>2, <4>2 DEF OnceInv, Countable
    <3> QED
      BY <3>1, <3>2
  <2> QED
    BY <1>1, <1>2, <1>3, <1>9, <2>1, <2>2, <2>3, ImportIsSafe
<1> QED
  BY <1>2, <1>8, <1>9

\* The constructor: a new node's children are those of no node before it.
LEMMA ConstructOnce ==
  ASSUME ImportInv, ChildrenInv, OnceInv, Construct
  PROVE  OnceInv'
<1>1. SUFFICES ASSUME Countable' PROVE (AroundInv /\ (\A k \in DOMAIN stack : FreshInv(stack[k])) /\ ParentInv)'
  BY DEF OnceInv
<1>2. Importing /\ top.current = 0 /\ Left(top) = {} /\ UNCHANGED <<file, keep>> /\ phase = "import"
  BY DEF Construct, Importing
<1>3. /\ stack' \in Seq(Frames) /\ Len(stack') = Len(stack) - 1
      /\ Len(stack) \in Nat /\ Len(stack) >= 1
      /\ \A k \in DOMAIN stack' : k + 1 \in DOMAIN stack /\ stack'[k] = stack[k + 1]
      /\ Arrived' = Arrived \cup MadePlaces
      /\ top.place \in DOMAIN nodes' /\ DOMAIN nodes \subseteq DOMAIN nodes'
  BY CallReturns
<1>4. stack' = Tail(stack) /\ top = stack[1] /\ 1 \in DOMAIN stack /\ stack \in Seq(Frames)
      /\ top.place \in Places
  <2>1. stack \in Seq(Frames)
    BY DEF ImportInv, Typing
  <2>2. 1 \in DOMAIN stack
    BY <1>3, <2>1
  <2> QED
    BY <1>2, <2>1, <2>2, TopCall DEF Construct
<1>5. top.length = 0 /\ 0 < IndexRange
  BY <1>2, TopCall, IndexRangeAssumption DEF CallInv, IndexRangeAssumption
<1>6. ASSUME NEW k \in DOMAIN stack, k # 1
      PROVE  k - 1 \in DOMAIN stack' /\ stack'[k - 1] = stack[k]
  <2>1. k \in 1..Len(stack) /\ DOMAIN stack' = 1..(Len(stack) - 1)
    BY <1>3, <1>4
  <2>2. k - 1 \in DOMAIN stack' /\ k - 1 + 1 = k
    BY <1>3, <1>6, <2>1
  <2> QED
    BY <1>3, <2>2
<1>7. Countable
  <2>1. ASSUME NEW k \in DOMAIN stack PROVE stack[k].length < IndexRange
    <3>1. CASE k = 1
      BY <1>4, <1>5, <3>1
    <3>2. CASE k # 1
      BY <1>1, <1>6, <3>2 DEF Countable
    <3> QED
      BY <3>1, <3>2
  <2> QED
    BY <1>2, <2>1 DEF Countable
<1>8. AroundInv /\ (\A k \in DOMAIN stack : FreshInv(stack[k])) /\ ParentInv
  BY <1>7 DEF OnceInv
<1>9. top.place \notin DOMAIN nodes
  BY <1>4, <1>8 DEF FreshInv
<1>10. \A p \in MadePlaces : p \notin DOMAIN file /\ p # Root /\ Front(p) = top.place /\ p # top.place
  BY <1>2, NameIsMade
<1>11. /\ DOMAIN nodes' = {top.place} \cup MadePlaces \cup DOMAIN nodes
       /\ \A p \in DOMAIN nodes' :
             /\ nodes'[p].type = TreeWithTop[p].type
             /\ nodes'[p].members = TreeWithTop[p].members
             /\ nodes'[p].parent = IF p \in TopChildren THEN top.place ELSE TreeWithTop[p].parent
  BY NodesAfterConstruct
<1>12. AroundInv'
  <2>1. SUFFICES ASSUME NEW q \in Arrived' \ {Root} PROVE Front(q) \in Arrived'
    BY DEF AroundInv
  <2>2. CASE q \in Arrived
    BY <1>3, <1>8, <2>1, <2>2 DEF AroundInv
  <2>3. CASE q \in MadePlaces
    <3>1. top.place \in Arrived
      BY <1>4 DEF Arrived
    <3> QED
      BY <1>3, <1>10, <2>3, <3>1
  <2> QED
    BY <1>3, <2>1, <2>2, <2>3
<1>13. ASSUME NEW k \in DOMAIN stack', NEW c, c = stack'[k] PROVE FreshInv(c)'
  <2>1. k + 1 \in DOMAIN stack /\ c = stack[k + 1] /\ k + 1 # 1
    <3>1. k \in 1..(Len(stack) - 1)
      BY <1>3
    <3> QED
      BY <1>3, <1>13, <3>1
  <2>2. FreshInv(c) /\ c.place # top.place /\ c.place \in Places
    <3>1. CallInv(c)
      BY <2>1 DEF ImportInv, CallsInv
    <3>2. FreshInv(c)
      BY <1>8, <2>1
    <3>3. c.place # top.place
      BY <1>2, <2>1, OtherCallsAreAround
    <3> QED
      BY <3>1, <3>2, <3>3 DEF CallInv
  <2>3. c.place \notin DOMAIN nodes'
    BY <1>10, <1>11, <2>2 DEF FreshInv, Places
  <2>4. \A q \in Arrived' \ Arrived : q \notin PartsOf(c.place)
    BY <1>3, <1>10 DEF PartsOf, Places
  <2> QED
    BY <1>2, <2>2, <2>3, <2>4, FreshStays
<1>14. \A k \in DOMAIN stack' : FreshInv(stack[k])'
  BY <1>13
<1>15. TopChildren \subseteq PartsOf(top.place) \cup MadePlaces
  <2>1. Children(topObject.type, TopMembers) \in Seq(PartsOf(top.place) \cup MadePlaces)
    BY <1>2, TopChildrenAreBelow
  <2> QED
    BY <2>1 DEF TopChildren, ToSet
<1>16. \A q \in TopChildren : q \in DOMAIN nodes' /\ Front(q) = top.place
  <2>1. PartsOf(top.place) \subseteq DOMAIN nodes
    BY <1>2, PartsArrived
  <2> QED
    BY <1>10, <1>11, <1>15, <2>1 DEF PartsOf
<1>17. ParentInv'
  <2>1. SUFFICES ASSUME NEW p \in DOMAIN nodes',
                        NEW q \in ToSet(Children(nodes'[p].type, nodes'[p].members))
                 PROVE  nodes'[q].parent = p
    BY DEF ParentInv, ChildrenOf
  <2>2. Children(nodes'[p].type, nodes'[p].members) = Children(TreeWithTop[p].type, TreeWithTop[p].members)
    BY <1>11
  <2>3. CASE p = top.place
    <3>1. TreeWithTop[p].type = topObject.type /\ TreeWithTop[p].members = TopMembers
      BY <2>3, TreeIsExtended DEF TopNode
    <3>2. q \in TopChildren
      BY <2>1, <2>2, <3>1 DEF TopChildren
    <3> QED
      BY <1>11, <1>16, <2>3, <3>2
  <2>4. CASE p # top.place /\ p \in MadePlaces
    <3>1. TreeWithTop[p] = NameNode /\ NameNode.type = "Identifier"
      BY <2>4, TreeIsExtended DEF NameNode
    <3>2. q \in ToSet(Children("Identifier", NameNode.members))
      BY <2>1, <2>2, <3>1
    <3> QED
      BY <3>2, NameHasNoChild DEF ToSet
  <2>5. CASE p # top.place /\ p \notin MadePlaces
    <3>1. p \in DOMAIN nodes /\ TreeWithTop[p] = nodes[p]
      BY <1>11, <2>5, TreeIsExtended
    <3>2. q \in ToSet(ChildrenOf(p))
      BY <2>1, <2>2, <3>1 DEF ChildrenOf
    <3>3. nodes[q].parent = p
      BY <1>8, <3>1, <3>2 DEF ParentInv
    <3>4. q \in DOMAIN nodes /\ Front(q) = p
      <4>1. ChildrenOf(p) \in Seq(NodesUnder(p))
        BY <3>1 DEF ChildrenInv
      <4> QED
        BY <3>2, <4>1 DEF ToSet, NodesUnder
    <3>5. q \notin TopChildren /\ q \notin MadePlaces /\ q # top.place
      BY <1>9, <1>10, <1>16, <2>5, <3>4
    <3>6. TreeWithTop[q] = nodes[q] /\ q \in DOMAIN nodes'
      BY <1>3, <3>4, <3>5, TreeIsExtended
    <3> QED
      BY <1>11, <3>3, <3>5, <3>6
  <2> QED
    BY <2>3, <2>4, <2>5
<1> QED
  BY <1>12, <1>14, <1>17

\* The walk makes no node and moves none.
LEMMA OnceStays ==
  ASSUME OnceInv, UNCHANGED <<file, keep, stack, nodes>>, phase' = "failed" \/ phase # "failed"
  PROVE  OnceInv'
<1>1. SUFFICES ASSUME Countable' PROVE (AroundInv /\ (\A k \in DOMAIN stack : FreshInv(stack[k])) /\ ParentInv)'
  BY DEF OnceInv
<1>2. Countable
  BY <1>1 DEF Countable
<1>3. AroundInv /\ (\A k \in DOMAIN stack : FreshInv(stack[k])) /\ ParentInv
  BY <1>2 DEF OnceInv
<1>4. Arrived' = Arrived
  BY DEF Arrived
<1>5. AroundInv' /\ ParentInv'
  BY <1>3, <1>4 DEF AroundInv, ParentInv, ChildrenOf
<1>6. ASSUME NEW k \in DOMAIN stack, NEW c, c = stack[k] PROVE FreshInv(c)'
  <2>1. FreshInv(c)
    BY <1>3, <1>6
  <2>2. c.place \notin DOMAIN nodes'
    BY <2>1 DEF FreshInv
  <2> QED
    BY <1>4, <2>1, <2>2, FreshStays
<1>7. \A k \in DOMAIN stack : FreshInv(stack[k])'
  BY <1>6
<1> QED
  BY <1>5, <1>7

\* Every step of the import and of the walk.
LEMMA OnceInEveryStep ==
  ASSUME TypeInv, OnceInv, [Next]_vars
  PROVE  OnceInv'
<1>0. ImportInv /\ ChildrenInv
  BY DEF TypeInv
<1>1. CASE ImportChild
  BY <1>0, <1>1, ChildOnce
<1>2. CASE RefuseWord
  BY <1>2 DEF RefuseWord, OnceInv, Countable
<1>3. CASE StartArray
  BY <1>0, <1>3, ArrayStartsOnce
<1>4. CASE ImportElement
  BY <1>0, <1>4, ElementOnce
<1>5. CASE FinishArray
  BY <1>0, <1>5, ArrayEndsOnce
<1>6. CASE Construct
  BY <1>0, <1>6, ConstructOnce
<1>7. CASE Visit \/ EndWalk
  <2>1. phase # "failed" /\ UNCHANGED <<file, keep, stack, nodes>>
    BY <1>7 DEF Visit, EndWalk
  <2> QED
    BY <2>1, OnceStays
<1>8. CASE UNCHANGED vars
  <2>1. UNCHANGED <<file, keep, stack, nodes, phase>>
    BY <1>8 DEF vars
  <2>2. CASE phase = "failed"
    BY <2>1, <2>2 DEF OnceInv, Countable
  <2>3. CASE phase # "failed"
    BY <2>1, <2>3, OnceStays
  <2> QED
    BY <2>2, <2>3
<1> QED
  BY <1>1, <1>2, <1>3, <1>4, <1>5, <1>6, <1>7, <1>8 DEF Next

\* Nothing has arrived at the start but the call for the file.
LEMMA OnceStarts ==
  ASSUME Init
  PROVE  OnceInv
<1>1. nodes = << >> /\ stack = <<Call(Root)>> /\ file \in Files
  BY DEF Init
<1>2. PICK c : c = Call(Root)
  OBVIOUS
<1>3. stack = <<c>> /\ c.place = Root /\ c.done = {} /\ c.current = 0
  BY <1>1, <1>2 DEF Call
<1>4. DOMAIN nodes = {} /\ DOMAIN stack = {1} /\ stack[1] = c
  BY <1>1, <1>3
<1>5. Arrived = {Root}
  BY <1>3, <1>4 DEF Arrived
<1>6. AroundInv /\ ParentInv
  BY <1>4, <1>5 DEF AroundInv, ParentInv
<1>7. FreshInv(c)
  BY <1>3, <1>4, <1>5 DEF FreshInv, PartsIn, PartsOf
<1> QED
  BY <1>4, <1>6, <1>7 DEF OnceInv

\* The path to a node below another one.
LEMMA PrefixesBelow ==
  ASSUME NEW q \in Paths, q # Root
  PROVE  Prefixes(q) \subseteq Prefixes(Front(q)) \cup {q}
<1>1. Len(q) \in Nat /\ Len(q) >= 1 /\ Len(Front(q)) = Len(q) - 1 /\ Front(q) \in Paths
  BY BelowIsUnder
<1>2. SUFFICES ASSUME NEW n \in 0..Len(q), SubSeq(q, 1, n) # q
               PROVE  \E m \in 0..Len(Front(q)) : SubSeq(q, 1, n) = SubSeq(Front(q), 1, m)
  BY DEF Prefixes
<1>3. n # Len(q)
  BY <1>2 DEF Paths
<1>4. n \in 0..(Len(q) - 1) /\ n \in Nat
  BY <1>1, <1>3
<1>5. SubSeq(q, 1, n) = SubSeq(Front(q), 1, n)
  BY <1>1, <1>4 DEF Front, Paths
<1> QED
  BY <1>1, <1>4, <1>5

\* The node a walk comes to is below one whose parents lead to the file.
LEMMA VisitLeadsToTheRoot ==
  ASSUME TypeInv, OnceInv, ParentsLeadToTheRoot, Visit
  PROVE  ParentsLeadToTheRoot'
<1>1. phase = "walk" /\ pending # << >> /\ UNCHANGED <<file, keep, stack, nodes, phase>>
  BY DEF Visit
<1>2. ParentInv
  <2>1. stack = << >>
    BY <1>1 DEF TypeInv, ImportInv, PhaseInv
  <2>2. DOMAIN stack = {}
    BY <2>1
  <2>3. Countable
    BY <1>1, <2>2 DEF Countable
  <2> QED
    BY <2>3 DEF OnceInv
<1> DEFINE here == Head(pending)
           Leads(place) == \A p \in Prefixes(place) \ {Root} : nodes[p].parent = Front(p)
<1>3. /\ pending \in Seq(DOMAIN nodes) /\ seen \in Seq(DOMAIN nodes)
      /\ here \in DOMAIN nodes /\ Tail(pending) \in Seq(DOMAIN nodes)
      /\ here \in ToSet(pending) /\ ToSet(Tail(pending)) \subseteq ToSet(pending)
  <2>1. pending \in Seq(DOMAIN nodes) /\ seen \in Seq(DOMAIN nodes)
    BY DEF TypeInv, QueueInv
  <2>2. /\ here \in DOMAIN nodes /\ Tail(pending) \in Seq(DOMAIN nodes)
        /\ Len(Tail(pending)) = Len(pending) - 1
        /\ \A k \in 1..Len(Tail(pending)) : Tail(pending)[k] = pending[k + 1]
    BY <1>1, <2>1, HeadTailProperties
  <2>3. 1 \in DOMAIN pending /\ here = pending[1]
    BY <1>1, <2>1
  <2>4. ASSUME NEW k \in DOMAIN Tail(pending) PROVE Tail(pending)[k] \in ToSet(pending)
    <3>1. Len(pending) \in Nat /\ DOMAIN pending = 1..Len(pending) /\ k \in 1..(Len(pending) - 1)
      BY <2>1, <2>2
    <3>2. k + 1 \in DOMAIN pending
      BY <3>1
    <3> QED
      BY <2>2, <3>1, <3>2 DEF ToSet
  <2> QED
    BY <2>1, <2>2, <2>3, <2>4 DEF ToSet
<1>4. \A place \in ToSet(pending) \cup ToSet(seen) : Leads(place)
  BY <1>1 DEF ParentsLeadToTheRoot
<1> HIDE DEF here
<1>5. ASSUME NEW q \in ToSet(ChildrenOf(here)) PROVE Leads(q)
  <2>1. q \in DOMAIN nodes /\ q # Root /\ Front(q) = here
    <3>1. ChildrenOf(here) \in Seq(NodesUnder(here))
      BY <1>3 DEF TypeInv, ChildrenInv
    <3> QED
      BY <3>1 DEF ToSet, NodesUnder
  <2>2. q \in Paths
    BY <2>1 DEF TypeInv, ImportInv, Typing
  <2>3. nodes[q].parent = here
    BY <1>2, <1>3 DEF ParentInv
  <2> QED
    BY <1>3, <1>4, <2>1, <2>2, <2>3, PrefixesBelow
<1>6. ASSUME NEW place \in ToSet(pending') \cup ToSet(seen') PROVE Leads(place)
  <2>1. CASE place \in ToSet(seen')
    <3>1. seen' = seen \/ seen' = Append(seen, here)
      BY DEF Visit, here
    <3>2. ToSet(seen') \subseteq ToSet(seen) \cup {here}
      BY <1>3, <3>1 DEF ToSet
    <3> QED
      BY <1>3, <1>4, <2>1, <3>2
  <2>2. CASE place \in ToSet(pending')
    <3>1. PICK mine, rest : mine = ChildrenOf(here) /\ rest = Tail(pending)
      OBVIOUS
    <3>2. pending' = mine \o rest \/ pending' = << >> \o rest
      BY <3>1 DEF Visit, ChildrenOf, here
    <3>3. mine \in Seq(DOMAIN nodes) /\ rest \in Seq(DOMAIN nodes)
      <4>1. mine \in Seq(NodesUnder(here)) /\ NodesUnder(here) \subseteq DOMAIN nodes
        BY <1>3, <3>1 DEF TypeInv, ChildrenInv, NodesUnder
      <4> QED
        BY <1>3, <3>1, <4>1, SequencesGrow
    <3>4. ASSUME NEW S, NEW x \in Seq(S), NEW y \in Seq(S)
          PROVE  ToSet(x \o y) \subseteq ToSet(x) \cup ToSet(y)
      BY DEF ToSet
    <3>5. place \in ToSet(mine) \cup ToSet(rest)
      <4>1. ToSet(mine \o rest) \subseteq ToSet(mine) \cup ToSet(rest)
        BY <3>3, <3>4
      <4>2. << >> \in Seq(DOMAIN nodes) /\ ToSet(<< >>) = {}
        BY DEF ToSet
      <4>3. ToSet(<< >> \o rest) \subseteq ToSet(<< >>) \cup ToSet(rest)
        BY <3>3, <3>4, <4>2
      <4> QED
        BY <2>2, <3>2, <4>1, <4>2, <4>3
    <3> QED
      BY <1>3, <1>4, <1>5, <3>1, <3>5
  <2> QED
    BY <1>6, <2>1, <2>2
<1> QED
  BY <1>1, <1>6 DEF ParentsLeadToTheRoot

\* Every step keeps the parents of the nodes a walk has met or has pending.
LEMMA ParentsLeadOn ==
  ASSUME TypeInv, OnceInv, ParentsLeadToTheRoot, [Next]_vars
  PROVE  ParentsLeadToTheRoot'
<1>1. ASSUME phase' \notin {"walk", "done"} PROVE ParentsLeadToTheRoot'
  BY <1>1 DEF ParentsLeadToTheRoot
<1>2. CASE ImportChild \/ RefuseWord \/ StartArray \/ ImportElement \/ FinishArray
  <2>1. phase = "import"
    <3>1. CASE ImportChild \/ RefuseWord \/ StartArray
      BY <3>1 DEF ImportChild, RefuseWord, StartArray, Startable, Importing
    <3>2. CASE ImportElement \/ FinishArray
      BY <3>2 DEF ImportElement, FinishArray, Importing
    <3> QED
      BY <1>2, <3>1, <3>2
  <2>2. phase' = phase \/ phase' = "failed"
    BY <1>2 DEF ImportChild, RefuseWord, StartArray, ImportElement, FinishArray, Import
  <2> QED
    BY <1>1, <2>1, <2>2
<1>3. CASE Construct
  <2>1. CASE Len(stack) = 1
    <3>1. pending' = <<Root>> /\ seen' = seen /\ phase = "import"
      BY <1>3, <2>1 DEF Construct, Importing
    <3>2. seen = << >>
      BY <3>1 DEF TypeInv, ImportInv, PhaseInv
    <3>3. ToSet(pending') \cup ToSet(seen') = {Root}
      BY <3>1, <3>2 DEF ToSet
    <3>4. Prefixes(Root) = {Root}
      <4>1. Root \in Seq(STRING) /\ Len(Root) = 0
        BY DEF Root
      <4>2. SubSeq(Root, 1, 0) \in Seq(STRING) /\ Len(SubSeq(Root, 1, 0)) = 0
        BY <4>1, SubSeqProperties
      <4>3. SubSeq(Root, 1, 0) = Root
        BY <4>1, <4>2, SeqEqual
      <4>4. 0..Len(Root) = {0}
        BY <4>1
      <4>5. PICK lengths : lengths = 0..Len(Root)
        OBVIOUS
      <4>6. Prefixes(Root) = {SubSeq(Root, 1, l) : l \in lengths}
        BY <4>5 DEF Prefixes
      <4>7. lengths = {0}
        BY <4>4, <4>5
      <4> QED
        BY <4>3, <4>6, <4>7
    <3> QED
      BY <3>3, <3>4 DEF ParentsLeadToTheRoot
  <2>2. CASE Len(stack) # 1
    <3>1. phase' = "import"
      BY <1>3, <2>2 DEF Construct, Importing
    <3> QED
      BY <1>1, <3>1
  <2> QED
    BY <2>1, <2>2
<1>4. CASE Visit
  BY <1>4, VisitLeadsToTheRoot
<1>5. CASE EndWalk
  BY <1>5 DEF EndWalk, ParentsLeadToTheRoot
<1>6. CASE UNCHANGED vars
  BY <1>6 DEF vars, ParentsLeadToTheRoot
<1> QED
  BY <1>2, <1>3, <1>4, <1>5, <1>6 DEF Next

\* The parents of every node a walk meets are the nodes around it, up to the file, whichever order
\* the arguments were imported in: getParentModule ends at the file and never follows a null.
THEOREM ParentsLead == Spec => []ParentsLeadToTheRoot
<1>1. Init => ParentsInv
  <2>1. SUFFICES ASSUME Init PROVE ParentsInv
    OBVIOUS
  <2>2. ParentsLeadToTheRoot
    BY <2>1 DEF Init, ParentsLeadToTheRoot
  <2> QED
    BY <2>1, <2>2, TypesStart, OnceStarts DEF ParentsInv
<1>2. ParentsInv /\ [Next]_vars => ParentsInv'
  BY TypesGoOn, OnceInEveryStep, ParentsLeadOn DEF ParentsInv
<1>3. ParentsInv => ParentsLeadToTheRoot
  BY DEF ParentsInv
<1> QED
  BY <1>1, <1>2, <1>3, PTL DEF Spec
==========================================================================================
