---------------------------- MODULE GraphBuilder ----------------------------
(***************************************************************************)
(* The graph of a function: GraphBuilder (src/graph/), which walks the     *)
(* syntax tree, lays out nodes behind the current basic block, and numbers *)
(* the values of the function's variables with phis where blocks meet.     *)
(* ControlFlow has the trees and what they do.  An expression is one node, *)
(* whatever it computes; a case label is a literal, which is no node of    *)
(* the control flow.                                                       *)
(***************************************************************************)
EXTENDS ControlFlow, FiniteSets, SequencesExt

CONSTANTS
  Programs,     \* the function bodies: blocks
  Variables     \* what they declare at their top

VARIABLES
  body,     \* the body of the function
  graph     \* its graph, or NoGraph before it is built

vars == <<body, graph>>

\* Node i has a type, the nodes that follow (next) and, a phi, its inputs. Node 1
\* is StartNode, node 2 Undefined, and 0 is no node. label tells what of the tree a
\* node runs, or is <<>>. A block has the blocks before it, the last node of its
\* control flow (next), its flags, the values of variables it knows and the phis
\* to be completed; cur is the current one. breaks, continues and catches are
\* pendingBreakBlocks, pendingContinueBlocks and catchStack. asserts are the
\* assertions that failed (the build goes on, as without them), skipped the
\* statements taken for unreachable, reads what the identifiers read.
StartNode == 1
Undefined == 2
NewBlock(prevs) ==
  [prevs |-> prevs, next |-> StartNode, filled |-> FALSE, sealed |-> FALSE, values |-> <<>>,
   phis |-> <<>>]
NoGraph ==
  [type |-> <<"Start", "Undefined">>, label |-> <<<<>>, <<<<>>, "undefined">>>>,
   next |-> <<<<>>, <<>>>>, inputs |-> <<<<>>, <<>>>>,
   blocks |-> <<NewBlock(<<>>)>>, cur |-> 1,
   breaks |-> <<>>, continues |-> <<>>, catches |-> <<>>,
   asserts |-> {}, skipped |-> {}, reads |-> {}]

------------------------------------------------------------------------------
(* Nodes and blocks *)

Current(g) == g.blocks[g.cur]
NextOf(g, b) == g.blocks[b].next
Asserted(g, what, holds) == IF holds THEN g ELSE [g EXCEPT !.asserts = @ \cup {what}]

\* addNode(node, prevs), in no block.
AddNode(g, type, label, prevs) ==
  LET new == Len(g.type) + 1
  IN  [g EXCEPT !.type = Append(@, type), !.label = Append(@, label),
                !.inputs = Append(@, <<>>),
                !.next = Append([i \in DOMAIN @ |-> IF i \in prevs THEN Append(@[i], new)
                                                    ELSE @[i]], <<>>)]

\* addNode(node, prevs) of the current block.
NodeBehind(g, type, label, prevs) ==
  [AddNode(Asserted(g, "!isFilled()", ~Current(g).filled), type, label, prevs)
     EXCEPT !.blocks[g.cur].next = Len(g.type) + 1]

\* addNode(node, block->getNext()).
NodeOf(g, type, label) ==
  NodeBehind(Asserted(g, "prev != 0 || !nodes[0].nextCount()",
                     Current(g).next = StartNode => g.next[StartNode] = <<>>),
             type, label, {Current(g).next})

ControlNode(g, type) == NodeOf(g, type, <<>>)

Edge(g, from, to) == [g EXCEPT !.next[from] = Append(@, to)]

Fill(g) == [g EXCEPT !.blocks[g.cur].filled = TRUE]

\* addBasicBlock, and the new block is the current one.
Block(g, prevs) ==
  [g EXCEPT !.blocks = Append(@, NewBlock(prevs)), !.cur = Len(g.blocks) + 1]

\* What goes on after this block: nothing, once it is filled.
Open(g) == IF Current(g).filled THEN <<>> ELSE <<g.cur>>

AddPrevForgotten(g, b, prev) == g    \* a slip: the edge of the nodes only

AddPrevBlock(g, b, prev) ==
  LET block == g.blocks[b]
  IN  Asserted(Asserted([g EXCEPT !.blocks[b].prevs = Append(@, prev)],
                      "!isSealed()", ~block.sealed),
              "prev is new", prev \notin {block.prevs[i] : i \in DOMAIN block.prevs})

------------------------------------------------------------------------------
(* The values of variables: an operator on a value gives the graph and the  *)
(* value, a node or 0.                                                      *)

Knows(g, b, v) == v \in DOMAIN g.blocks[b].values
ValueAt(g, b, v) == g.blocks[b].values[v]

WriteVariable(g, b, v, value) ==
  [g EXCEPT !.blocks[b].values = (v :> value) @@ @]

\* Over the empty blocks that took over the next of the block before.
RECURSIVE Owner(_, _)
Owner(g, b) ==
  LET prevs == g.blocks[b].prevs
  IN  IF Len(prevs) = 1 /\ NextOf(g, b) = NextOf(g, prevs[1]) THEN Owner(g, prevs[1]) ELSE b

\* From a merge over the phis that follow it.
RECURSIVE LastPhi(_, _)
LastPhi(g, n) ==
  IF Len(g.next[n]) = 1 /\ g.type[g.next[n][1]] = "Phi" THEN LastPhi(g, g.next[n][1]) ELSE n

\* Who ended at node from, of block b and the empty blocks behind it from the c-th
\* on, ends at node to.
RECURSIVE MoveEnds(_, _, _, _, _)
MoveEnds(g, b, c, from, to) ==
  IF c > Len(g.blocks) THEN g
  ELSE MoveEnds(IF NextOf(g, c) # from THEN g
                ELSE [Asserted(g, "Empty blocks should only ever have us as prev",
                               b = c \/ g.blocks[c].prevs = <<b>>) EXCEPT !.blocks[c].next = to],
                b, c + 1, from, to)

\* The phi comes between point and the one node behind it.
NodeAfter(g, point, phi, inputs) ==
  LET after == g.next[point]
  IN  [AddNode(Asserted(g, "nextCount() == 1", Len(after) <= 1), "Phi", <<>>, {})
         EXCEPT !.inputs[phi] = inputs,
                !.next[phi] = IF after = <<>> THEN <<>> ELSE <<Head(after)>>,
                !.next[point] = <<phi>> \o SubSeq(after, 2, Len(after))]

InsertPhi(g, b, point, phi, inputs) ==
  [graph |-> IF NextOf(g, b) # point THEN NodeAfter(g, point, phi, inputs)
             ELSE MoveEnds(NodeAfter(g, point, phi, inputs), b, b, point, phi),
   value |-> phi]

\* A phi goes behind the merge of its block.
MergeOf(g, b) == g.next[NextOf(g, Owner(g, g.blocks[b].prevs[1]))][1]
AddPhiTo(g, b, merge, inputs) ==
  InsertPhi(Asserted(g, "merge is a Merge", g.type[merge] = "Merge"),
            b, LastPhi(g, merge), Len(g.type) + 1, inputs)
AddPhi(g, b, inputs) == AddPhiTo(g, b, MergeOf(g, b), inputs)

\* One recursion for all that walks the tree and the graph so far: a statement, the
\* names of an expression and a block to seal are the work it gets.
RECURSIVE Process(_, _, _)
RECURSIVE ReadNonlocalVariable(_, _, _)

\* The values of v at the ends of these blocks, behind what r has.
RECURSIVE ReadInputs(_, _, _)
AddInput(r, s) == [graph |-> s.graph, inputs |-> Append(r.inputs, s.value)]
ReadInputs(r, prevs, v) ==
  IF prevs = <<>> THEN r
  ELSE ReadInputs(AddInput(r, ReadNonlocalVariable(r.graph, Head(prevs), v)), Tail(prevs), v)
Inputs(g, b, v) == ReadInputs([graph |-> g, inputs |-> <<>>], g.blocks[b].prevs, v)

\* A 0 comes from a loop in the walk, and is left out.
NonZero(r) == [r EXCEPT !.inputs = SelectSeq(@, LAMBDA n : n # 0)]
PhiOver(r, b) ==
  IF r.inputs = <<>> THEN [graph |-> r.graph, value |-> 0]
  ELSE IF \A i \in DOMAIN r.inputs : r.inputs[i] = r.inputs[1]
       THEN [graph |-> r.graph, value |-> r.inputs[1]]
  ELSE AddPhi(r.graph, b, r.inputs)
CompleteSimplePhi(g, b, v) == PhiOver(NonZero(Inputs(WriteVariable(g, b, v, 0), b, v)), b)

NotePhi(r, b, v) == [r EXCEPT !.graph.blocks[b].phis = Append(@, <<v, r.value>>)]
AddIncompletePhi(g, b, v) == NotePhi(AddPhi(g, b, <<>>), b, v)

Keep(r, b, v) == [r EXCEPT !.graph = WriteVariable(r.graph, b, v, r.value)]

ReadNonlocalVariable(g, b, v) ==
  IF Knows(g, b, v) THEN [graph |-> g, value |-> ValueAt(g, b, v)]
  ELSE Keep(IF ~g.blocks[b].sealed THEN AddIncompletePhi(g, b, v)
            ELSE IF Len(g.blocks[b].prevs) = 1
                 THEN ReadNonlocalVariable(g, g.blocks[b].prevs[1], v)
            ELSE CompleteSimplePhi(g, b, v),
            b, v)

\* seal: the phis of block b get an input from each block before it.
Completed(r, phi) == [r.graph EXCEPT !.inputs[phi] = r.inputs]
RECURSIVE CompletePhis(_, _, _)
CompletePhis(g, b, phis) ==
  IF phis = <<>> THEN g
  ELSE CompletePhis(Completed(Inputs(g, b, Head(phis)[1]), Head(phis)[2]), b, Tail(phis))
SealBlock(g, b) ==
  [CompletePhis(Asserted(g, "!isSealed()", ~g.blocks[b].sealed), b, g.blocks[b].phis)
     EXCEPT !.blocks[b].phis = <<>>, !.blocks[b].sealed = TRUE]

Seal(g, b) == Process(g, [k |-> "seal", s |-> b, v |-> <<>>], <<>>)
SealCurrent(g) == Seal(g, g.cur)

\* processIdentifierNode, for the names in the expression with this label.
NoteRead(r, v, label) ==
  [Asserted(r.graph, "value != 0", r.value # 0) EXCEPT
     !.reads = @ \cup {[at |-> label, var |-> v, value |-> r.value]}]
RECURSIVE ReadNames(_, _, _)
ReadNames(g, names, label) ==
  IF names = <<>> THEN g
  ELSE ReadNames(NoteRead(ReadNonlocalVariable(g, g.cur, Head(names)), Head(names), label),
                 Tail(names), label)

Read(g, names, label) == Process(g, [k |-> "read", s |-> <<>>, v |-> names], label)

Write(g, names, value) ==
  [g EXCEPT !.blocks[g.cur].values = [v \in Range(names) |-> value] @@ @]

\* The expression of a statement, or the condition of a branch.
Expression(g, names, label) == NodeOf(Read(g, names, label), "Expr", label)

------------------------------------------------------------------------------
(* Blocks of the constructs *)

\* The block where prevs meet; nothing reaches it if there are none.
Merge(g, prevs) ==
  IF prevs = <<>> THEN Fill(SealCurrent(Block(g, prevs)))
  ELSE SealCurrent(NodeBehind(Block(g, prevs), "Merge", <<>>,
                              {NextOf(g, prevs[i]) : i \in DOMAIN prevs}))

\* A block for another scope, with the next of the current one, which is filled.
Behind(g, node) == [g EXCEPT !.blocks[g.cur].next = node]
TakeOver(g) == SealCurrent(Behind(Block(Fill(g), <<g.cur>>), Current(g).next))

\* The block behind one way out of block b.
Way(g, b, type, label) ==
  NodeBehind(SealCurrent(Block(g, <<b>>)), type, label, {NextOf(g, b)})
Arm(g, b, type) == Way(g, b, type, <<>>)

EnterLoop(g) == [g EXCEPT !.breaks = Append(@, <<>>), !.continues = Append(@, <<>>)]
EnterSwitch(g) == [g EXCEPT !.breaks = Append(@, <<>>)]

\* The end of block b jumps back to the merge node of a loop, which starts block to.
JumpBack(g, b, to, merge) == AddPrevBlock(Edge(g, NextOf(g, b), merge), to, b)

(* Slips of this code, to test the checks below against.                    *)

TieContinuesForgotten(g, to, merge) == Seal([g EXCEPT !.continues = Front(@)], to)

\* The exit of the loop is not one of the ways that meet.
TieBreaksOnly(g, open) ==
  LET h == [g EXCEPT !.breaks = Front(@)]
  IN  IF Last(g.breaks) = <<>> THEN h ELSE Merge(h, Last(g.breaks))

\* The break statements jump to the exit instead of meeting it.
RECURSIVE JumpTo(_, _, _)
JumpTo(g, from, node) ==
  IF from = <<>> THEN g ELSE JumpTo(Edge(g, NextOf(g, Head(from)), node), Tail(from), node)
TieBreaksToExit(g, open) ==
  LET h == [g EXCEPT !.breaks = Front(@)]
  IN  IF open = <<>> THEN Merge(h, Last(g.breaks)) ELSE JumpTo(h, Last(g.breaks), Current(h).next)

\* The pending continue statements of the loop jump to its merge node.
RECURSIVE JumpsBack(_, _, _, _)
JumpsBack(g, from, to, merge) ==
  IF from = <<>> THEN g
  ELSE JumpsBack(JumpBack(g, Head(from), to, merge), Tail(from), to, merge)
TieContinues(g, to, merge) ==
  Seal([JumpsBack(g, Last(g.continues), to, merge) EXCEPT !.continues = Front(@)], to)

\* The pending break statements meet what is left open.
TieBreaks(g, open) ==
  LET h == [g EXCEPT !.breaks = Front(@)]
  IN  IF Last(g.breaks) = <<>> THEN h ELSE Merge(h, Last(g.breaks) \o open)

------------------------------------------------------------------------------
(* Statements: the graph g with statement s, found at p in the tree, behind *)
(* its current block.                                                       *)

\* The children from the i-th on; in a block, up to one that fills it.
RECURSIVE ProcessFrom(_, _, _, _, _)
ProcessFrom(g, s, p, i, stop) ==
  IF i > Len(s) THEN g
  ELSE IF stop /\ i > 1 /\ Current(g).filled
       THEN [g EXCEPT !.skipped = @ \cup {p \o <<j>> : j \in i..Len(s)}]
  ELSE ProcessFrom(Process(g, s[i], p \o <<i>>), s, p, i + 1, stop)

LeaveScope(g) == IF Current(g).filled THEN g ELSE TakeOver(g)
ProcessBlockStatement(g, s, p) == LeaveScope(ProcessFrom(TakeOver(g), s.s, p, 1, TRUE))

Assign(g, s) == IF s.k = "expr" THEN g ELSE Write(g, s.v, Current(g).next)
ProcessExpressionStatement(g, s, p) ==
  Assign(Expression(g, IF s.k = "set" THEN <<>> ELSE s.v, <<p, "run">>), s)

ProcessReturnStatement(g, s, p) == Fill(NodeOf(g, "Return", <<p, "run">>))

Throw(g) ==
  IF g.catches = <<>> THEN ControlNode(g, "Throw") ELSE Edge(g, Current(g).next, Last(g.catches))
ProcessThrowStatement(g, s, p) == Fill(Throw(NodeOf(g, "PrepareException", <<p, "run">>)))

ProcessBreakStatement(g, s, p) ==
  LET h == ControlNode(g, "Break")
  IN  Fill([h EXCEPT !.breaks[Len(h.breaks)] = Append(@, h.cur)])

ProcessContinueStatement(g, s, p) ==
  LET h == ControlNode(g, "Continue")
  IN  Fill([h EXCEPT !.continues[Len(h.continues)] = Append(@, h.cur)])

\* The arms of a branch behind the condition, and the block where they meet.
Condition(g, s, p) == ControlNode(Expression(g, s.v, <<p, "test">>), "If")
Then(g, s, p) == Process(Arm(g, g.cur, "IfTrue"), s.s[1], p \o <<1>>)
Else(g, from, s, p) == Process(Arm(g, from, "IfFalse"), s.s[2], p \o <<2>>)

MergeArms(then, else) == Merge(else, Open(then) \o Open(else))
IfElse(then, from, s, p) == MergeArms(then, Else(then, from, s, p))
IfThen(cond, s, p) == IfElse(Then(cond, s, p), cond.cur, s, p)
ProcessIfStatement(g, s, p) == IfThen(Condition(g, s, p), s, p)

\* Its value is a phi over the last nodes of the arms, which are expressions.
Value(g, inputs) == AddPhi(g, g.cur, inputs).graph
MergeValues(then, else) ==
  Value(Merge(else, <<then.cur, else.cur>>), <<Current(then).next, Current(else).next>>)
ValueElse(then, from, s, p) == MergeValues(then, Else(then, from, s, p))
ValueThen(cond, s, p) == ValueElse(Then(cond, s, p), cond.cur, s, p)
ProcessConditionalExpression(g, s, p) == ValueThen(Condition(g, s, p), s, p)

\* A loop starts with a merge node, in a block that is sealed once the way round is
\* there: from the body and from the continue statements. start is the graph up to
\* that merge, inside the one up to the end of the body.
Header(g) == NodeBehind(Block(g, <<g.cur>>), "Merge", <<>>, {Current(g).next})
Test(g, s, p) == ControlNode(Expression(g, s.v, <<p, "test">>), "Loop")
LoopBody(g, s, p) == Process(Arm(EnterLoop(g), g.cur, "IfTrue"), s.s[1], p \o <<1>>)

MergeNode(start) == Current(start).next
BackTo(start, g) == JumpBack(g, g.cur, start.cur, MergeNode(start))
GoRound(start, inside) ==
  TieContinues(IF Current(inside).filled THEN inside ELSE BackTo(start, inside),
               start.cur, MergeNode(start))

TieBreaksHere(g) == TieBreaks(g, <<g.cur>>)
LeaveLoop(g, from) == TieBreaksHere(Arm(g, from, "IfFalse"))

WhileFrom(start, s, p) ==
  LeaveLoop(GoRound(start, LoopBody(Test(start, s, p), s, p)), start.cur)
ProcessWhileStatement(g, s, p) == WhileFrom(Header(g), s, p)

\* The init and the update are calls without a variable.
Update(g, p) == IF Current(g).filled THEN g ELSE NodeOf(g, "Expr", <<p, "update">>)
ForFrom(start, s, p) ==
  LeaveLoop(GoRound(start, Update(LoopBody(Test(start, s, p), s, p), p)), start.cur)
ProcessForStatement(g, s, p) ==
  ForFrom(Header(Fill(NodeOf(TakeOver(g), "Expr", <<p, "init">>))), s, p)

\* for (v of o): o is a name of the outside, which every round reads again; in the
\* body, v is written with the loop node as its value.
ForOf(g, p) == NodeOf(ControlNode(g, "LoadValue"), "ForOfLoop", <<p, "test">>)
BoundBody(loop, s, p) ==
  Process(Write(Way(EnterLoop(loop), loop.cur, "IfTrue", <<p, "bind">>), s.v, Current(loop).next),
          s.s[1], p \o <<1>>)
ForOfFrom(start, s, p) == LeaveLoop(GoRound(start, BoundBody(ForOf(start, p), s, p)), start.cur)
ProcessForOfStatement(g, s, p) == ForOfFrom(Header(g), s, p)

\* A filled body has no test behind it. The block for the exit is still in the
\* scope of the loop.
Again(start, g) == Arm(BackTo(start, Arm(g, g.cur, "IfTrue")), g.cur, "IfFalse")
LeaveDo(g) ==
  IF Last(g.breaks) = <<>> /\ ~Current(g).filled THEN TakeOver(TieBreaks(g, <<>>))
  ELSE TieBreaks(g, Open(g))
DoAround(start, inside, s, p) ==
  LeaveDo(TieContinues(IF Current(inside).filled THEN inside ELSE Again(start, Test(inside, s, p)),
                       start.cur, MergeNode(start)))
DoFrom(start, s, p) == DoAround(start, Process(start, s.s[1], p \o <<1>>), s, p)
ProcessDoWhileStatement(g, s, p) == DoFrom(Header(EnterLoop(g)), s, p)

\* The block of the handler sees the variables of the block before the try, and its
\* own parameter, which is the exception.
Handled(tried, catch, s, p) ==
  MergeArms(tried, Process([tried EXCEPT !.cur = catch, !.catches = Front(@)], s.s[2], p \o <<2>>))
Tried(catch, try, s, p) ==
  Handled(Process([catch EXCEPT !.cur = try, !.catches = Append(@, Current(catch).next)],
                  s.s[1], p \o <<1>>), catch.cur, s, p)
CatchHeader(g, from, s, p) ==
  LET catch == NodeBehind(SealCurrent(Block(g, <<from>>)), "CatchException", <<p, "catch">>, {})
  IN  Write(catch, s.v, Current(catch).next)
TryFrom(try, from, s, p) == Tried(CatchHeader(try, from, s, p), try.cur, s, p)
ProcessTryStatement(g, s, p) == TryFrom(Arm(g, g.cur, "Try"), g.cur, s, p)

\* The cases from the i-th on, of the switch node that ends block sw; g is what
\* comes before, whose end the case is a way on from too when it is open.
Enter(g, before, sw, through) ==
  IF through = <<>> THEN g
  ELSE NodeBehind(AddPrevBlock(g, g.cur, before.cur), "Merge", <<>>,
                  {NextOf(before, sw), Current(before).next})
CaseFrom(g, sw, through) ==
  ControlNode(SealCurrent(Enter(Behind(Block(g, <<sw>>), NextOf(g, sw)), g, sw, through)), "Case")
RECURSIVE ProcessCases(_, _, _, _, _)
ProcessCases(g, s, p, sw, i) ==
  IF i > Len(s) THEN g
  ELSE ProcessCases(ProcessFrom(CaseFrom(g, sw, IF i = 1 THEN <<>> ELSE Open(g)),
                                s[i].s, p \o <<i>>, 1, FALSE),
                    s, p, sw, i + 1)

\* Without a case, the block that follows has no node to go on from but the
\* default, 0, which is the Start node.
LeaveSwitch(g) == Merge([g EXCEPT !.breaks = Front(@)], Open(g) \o Last(g.breaks))
SwitchOn(sw, s, p) ==
  IF s.s = <<>> THEN SealCurrent(Block(sw, <<sw.cur>>))
  ELSE LeaveSwitch(ProcessCases(EnterSwitch(sw), s.s, p, sw.cur, 1))
ProcessSwitchStatement(g, s, p) ==
  SwitchOn(Fill(ControlNode(Expression(TakeOver(g), s.v, <<p, "test">>), "Switch")), s, p)

Process(g, s, p) ==
  CASE s.k = "seal"     -> SealBlock(g, s.s)
    [] s.k = "read"     -> ReadNames(g, s.v, p)
    [] s.k \in Expressions -> ProcessExpressionStatement(g, s, p)
    [] s.k = "empty"    -> g
    [] s.k = "block"    -> ProcessBlockStatement(g, s, p)
    [] s.k = "return"   -> ProcessReturnStatement(g, s, p)
    [] s.k = "throw"    -> ProcessThrowStatement(g, s, p)
    [] s.k = "break"    -> ProcessBreakStatement(g, s, p)
    [] s.k = "continue" -> ProcessContinueStatement(g, s, p)
    [] s.k = "if"       -> ProcessIfStatement(g, s, p)
    [] s.k = "cond"     -> ProcessConditionalExpression(g, s, p)
    [] s.k = "while"    -> ProcessWhileStatement(g, s, p)
    [] s.k = "do"       -> ProcessDoWhileStatement(g, s, p)
    [] s.k = "for"      -> ProcessForStatement(g, s, p)
    [] s.k = "of"       -> ProcessForOfStatement(g, s, p)
    [] s.k = "try"      -> ProcessTryStatement(g, s, p)
    [] s.k = "switch"   -> ProcessSwitchStatement(g, s, p)

Followers(g, n) == {g.next[n][i] : i \in DOMAIN g.next[n]}
Prevs(g, n) == {m \in DOMAIN g.next : n \in Followers(g, m)}
Phis(g) == {n \in DOMAIN g.type : g.type[n] = "Phi"}

\* The root block, and the one of the body, in which the variables are hoisted.
Hoist(g) == [g EXCEPT !.blocks[g.cur].values = [v \in Variables |-> Undefined]]
Rooted == Hoist(SealCurrent(Block(SealCurrent(NoGraph), <<1>>)))

\* What the end of buildFromAst and the checks of the nodes assert.
Untied(g, leaves) == {g.type[n] : n \in leaves} \cap {"Break", "Continue", "PrepareException"}
Checked(g, leaves) ==
  Asserted(Asserted(Asserted([g EXCEPT !.asserts = @ \cup Untied(g, leaves)],
    "pending.empty()", g.breaks \o g.continues = <<>>),
    "getInput(j) != 0", \A n \in Phis(g) : g.inputs[n] # <<>> /\ ~Contains(g.inputs[n], 0)),
    "all blocks are sealed", \A i \in DOMAIN g.blocks : g.blocks[i].sealed)

\* buildFromAst: the body, then End behind every leaf.  A function without any
\* node has no End either: Start has no node before it, and the graph is never of
\* size 1, for the Undefined node counts.
Leaves(g) == {n \in DOMAIN g.next : g.next[n] = <<>> /\ Prevs(g, n) # {}}
EndBehind(g, leaves) == IF leaves = {} THEN g ELSE AddNode(g, "End", End, leaves)
Finish(g, leaves) == EndBehind(Checked(g, leaves), leaves)
Finished(g) == Finish(g, Leaves(g))
BuildFromAst(b) == Finished(Process(Rooted, b, <<>>))

Init == body \in Programs /\ graph = NoGraph

Build ==
  /\ graph = NoGraph
  /\ graph' = BuildFromAst(body)
  /\ UNCHANGED body

Next == Build

Spec == Init /\ [][Next]_vars

------------------------------------------------------------------------------
(* What the graph says, to compare with what JavaScript says of the tree    *)

\* The labelled nodes that follow, over the ones without a label.
RECURSIVE Silent(_, _)
Silent(g, ns) ==
  LET more == ns \cup UNION {Followers(g, n) : n \in {m \in ns : g.label[m] = <<>>}}
  IN  IF more = ns THEN ns ELSE Silent(g, more)

After(g, n) == {g.label[m] : m \in Silent(g, Followers(g, n))} \ {<<>>}

MeaningOfGraph(g) ==
  LET pairs == UNION {{g.label[n]} \X After(g, n) : n \in DOMAIN g.label}
      reached == Reached(pairs, After(g, StartNode))
  IN  [first |-> After(g, StartNode), pairs |-> {e \in pairs : e[1] \in reached}]

\* The nodes that a value may come from, through the phis.
RECURSIVE Sources(_, _)
Sources(g, ns) ==
  LET more == ns \cup UNION {{g.inputs[n][i] : i \in DOMAIN g.inputs[n]} : n \in ns \cap Phis(g)}
  IN  IF more = ns THEN ns \ Phis(g) ELSE Sources(g, more)

------------------------------------------------------------------------------
(* Correctness *)

Built == graph # NoGraph

\* The graph runs the expressions of the function in the orders that the
\* function does, each way through ifs, loops, jumps, exceptions and cases.
GraphMeansTree == Built => MeaningOfGraph(graph) = Meaning(body)

\* An identifier reads exactly the writes of its variable that reach it, however
\* they come together: through the phis of loops whose way back is not there yet
\* when they are made, and whatever the placeholders of a walk left behind.
ReadsMeanDefinitions ==
  Built => LET m == Meaning(body)
           IN  \A r \in graph.reads :
                 {graph.label[n][1] : n \in Sources(graph, {r.value})} =
                   Definitions(body, m, r.at, r.var)

\* The assertions of graph.cpp, basicblock.cpp and buildFromAst hold: no node goes
\* into a filled block, Start has one way out, every jump and throw is tied up, a
\* phi goes behind a merge and has all its inputs.
AssertionsHold == graph.asserts = {}

\* What the type checker relies on: an arm has its If or Loop as the only node
\* before it (it reads getPrev(0)), only they and Switch go several ways.
ArmsHaveTheirBranch ==
  Built => \A n \in DOMAIN graph.next :
    /\ graph.type[n] \in {"IfTrue", "IfFalse"} =>
         \E m \in DOMAIN graph.next :
           Prevs(graph, n) = {m} /\ graph.type[m] \in {"If", "Loop", "ForOfLoop"}
    /\ Len(graph.next[n]) > 1 => graph.type[n] \in {"If", "Loop", "ForOfLoop", "Switch"}

\* processAstNode stops in a block "if there is any more code it must be
\* unreachable": nothing that was skipped is ever run.
SkippedIsUnreachable ==
  Built => \A e \in Meaning(body).pairs : \A p \in graph.skipped :
             \A l \in {e[1], e[2]} : ~IsPrefix(p, l[1])
=============================================================================
