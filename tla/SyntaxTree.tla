------------------------------------ MODULE SyntaxTree ---------------------------------------
\* The syntax tree of one source file: importBabylonAst (src/ast/import.cpp) turns the objects
\* Babel made into nodes (src/ast/ast.hpp, ast.cpp), and walkAst (src/ast/walk.cpp) hands them to
\* the passes. The recursion of the importer is an explicit stack, so that its steps show: which
\* argument is imported next, what throws, when a node gets its members and its children their
\* parent. The kinds of nodes differ only in their rows of the four tables.
EXTENDS ImportTable, ConstructorTable, ClassTable, WalkTable, SequencesExt

CONSTANTS
    Files,       \* files: what Babel returns for each, place -> object
    Visitors,    \* the passes that may walk the tree: names of predicates of Decision
    IndexRange,  \* how many values the index of importChildArray can take (a uint16_t)
    Null         \* a missing child: null in Babel's object, nullptr in the tree

VARIABLES
    file,       \* Babel's object for the file that is imported
    keep,       \* keepComments
    stack,      \* the calls of importNode that have not returned, innermost first
    nodes,      \* the nodes constructed so far, by place
    phase,      \* "import", "walk", "done" or "failed" (the import threw)
    visitor,    \* the pass that walks, once the tree is complete
    pending,    \* nodes walkAst still has to visit, the next one first
    seen        \* nodes the callback was called on, in order

vars == <<file, keep, stack, nodes, phase, visitor, pending, seen>>

ASSUME IndexRangeAssumption == IndexRange \in Nat \ {0, 1}

\* A place is the path from the file to a node: the attributes to follow, each with the position
\* in the array it holds, 0 when it holds one node. Two nodes are the same object iff they have
\* the same place: every object Babel returns is imported once.
Root == << >>
Under(place, attr, i) == Append(place, <<attr, i>>)

------------------------------------------------------------------------------------------
\* An object of Babel's has a type, attributes that hold an object (kids), attributes that hold an
\* array (arrays: for each element whether it is an object, and not null), and attributes that hold
\* a value. Left out are attributes that are null, empty arrays, and the values that make no
\* difference to the importer: those are known by the name of their attribute.
ObjectAt(place) == file[place]

\* What the importer reads of a kind: the arguments of its constructor.
RowsOf(type, comments) == IF type = "Root" THEN RootImports(comments) ELSE ImportFunctions[type]
Arguments(type) == RowsOf(type, keep)
Kinds == {"Root"} \cup DOMAIN ImportFunctions

\* The attributes of a kind that are read in one of these ways, when the comments are kept.
Attributes(type, ops) == {a.attr : a \in {b \in ToSet(RowsOf(type, TRUE)) : b.op \in ops}}

ValueReaders == {"Value", "ValueIfAny", "Word", "WordIfAny", "IfType"}

\* An object is held by an attribute of another object: in an array, or alone (position 0).
Holds(object, attr, i) ==
    \/ i = 0 /\ attr \in object.kids
    \/ /\ attr \in DOMAIN object.arrays /\ i \in DOMAIN object.arrays[attr]
       /\ object.arrays[attr][i]

\* Babel returns a tree. An object of a kind that the importer knows has the children that getObj
\* asserts; attributes that no import function reads, like the directives of a block, are left out.
\* The names of an import specifier are identifiers (its constructor asserts it).
FilesAssumption ==
    \A f \in Files :
        /\ Root \in DOMAIN f /\ f[Root].type = "Root"
        /\ Null \notin Seq(STRING \X Nat) /\ DOMAIN f \subseteq Seq(STRING \X Nat)
        /\ \A place \in DOMAIN f \ {Root} :
              Front(place) \in DOMAIN f /\ Holds(f[Front(place)], Last(place)[1], Last(place)[2])
        /\ \A place \in DOMAIN f :
              LET object == f[place] IN
              /\ object.kids \cup DOMAIN object.arrays \subseteq STRING
              /\ \A a \in object.kids : Under(place, a, 0) \in DOMAIN f
              /\ \A a \in DOMAIN object.arrays :
                    /\ object.arrays[a] \in Seq(BOOLEAN)
                    /\ \A i \in DOMAIN object.arrays[a] :
                          object.arrays[a][i] => Under(place, a, i) \in DOMAIN f
              /\ object.type \in Kinds =>
                    /\ Attributes(object.type, {"Child"}) \subseteq object.kids
                    /\ object.kids \subseteq Attributes(object.type, {"Child", "Maybe"})
                    /\ DOMAIN object.arrays \subseteq Attributes(object.type, {"List", "ListIfAny"})
                    /\ DOMAIN object.values \subseteq Attributes(object.type, ValueReaders)
              /\ object.type = "ImportSpecifier" =>
                    \A a \in {"local", "imported"} : f[Under(place, a, 0)].type = "Identifier"

ASSUME FilesAssumption

\* The tables agree on every kind. No two arguments import the same attribute; a member that a walk
\* hands over as one node is stored from an argument that imports one, and a member that it hands
\* over as an array from one that imports an array. The name of a type parameter is a text of
\* Babel's and a node of the tree: its constructor makes one.
ArgumentRows == [op : STRING, attr : STRING, words : SUBSET STRING, early : BOOLEAN]
WalkRows == [member : STRING, many : BOOLEAN, unless : STRING]
ImportsOne(a) == a.op \in {"Child", "Maybe"}
ImportsMany(a) == a.op \in {"List", "ListIfAny"}
ImportsNodes(a) == ImportsOne(a) \/ ImportsMany(a)
WalkFits(type, args, w) ==
    /\ w.member \in ToSet(Constructors[type])
    /\ IF type = "TypeParameter" /\ w.member = "name" THEN ~w.many
       ELSE \A i \in DOMAIN args :
               Constructors[type][i] = w.member =>
                   IF w.many THEN ImportsMany(args[i]) \/ args[i].op = "Nothing" ELSE ImportsOne(args[i])
RowsFit(type, args) ==
    /\ args \in Seq(ArgumentRows)
    /\ Constructors[type] \in Seq(STRING) /\ DOMAIN args = DOMAIN Constructors[type]
    /\ \A i, j \in DOMAIN args :
          ImportsNodes(args[i]) /\ ImportsNodes(args[j]) /\ args[i].attr = args[j].attr => i = j
    /\ \A i \in DOMAIN args :
          type = "TypeParameter" /\ args[i].attr = "name" => ~ImportsNodes(args[i])
    /\ Walker[type] \in DOMAIN Walks =>
          /\ Walks[Walker[type]] \in Seq(WalkRows)
          /\ \A n \in DOMAIN Walks[Walker[type]] : WalkFits(type, args, Walks[Walker[type]][n])
TablesAssumption ==
    /\ "Root" \notin DOMAIN ImportFunctions
    /\ \A type \in Kinds, comments \in BOOLEAN : RowsFit(type, RowsOf(type, comments))
    /\ "name" \in ToSet(Constructors["TypeParameter"])
    /\ "Identifier" \in Kinds /\ Walks[Walker["Identifier"]] = <<One("typeAnnotation")>>

ASSUME TablesAssumption

\* One call of importNode: the place, which arguments are imported, and the array that is being
\* imported (no array: 0) with its index and its length.
Call(place) == [place |-> place, done |-> {}, current |-> 0, index |-> 0, length |-> 0]

\* The arguments that take a step of their own: those that import a node or an array, and a word
\* that is going to be refused. Reading any other value has no effect and cannot fail.
WordIsKnown(object, a) ==
    (a.op \in {"Word", "WordIfAny"} /\ a.attr \in DOMAIN object.values)
        => object.values[a.attr] \in a.words
\* Mutant: a word the importer does not know is taken for a value like any other.
TakesStepsUnchecked(object, a) ==
    \/ a.op = "Child"
    \/ a.op = "Maybe" /\ a.attr \in object.kids
    \/ a.op \in {"List", "ListIfAny"} /\ a.attr \in DOMAIN object.arrays
TakesSteps(object, a) ==
    \/ a.op = "Child"
    \/ a.op = "Maybe" /\ a.attr \in object.kids
    \/ a.op \in {"List", "ListIfAny"} /\ a.attr \in DOMAIN object.arrays
    \/ ~WordIsKnown(object, a)

Left(call) ==
    LET object == ObjectAt(call.place)
        args == Arguments(object.type)
    IN {i \in DOMAIN args \ call.done : TakesSteps(object, args[i])}

\* What may be imported next. A word is refused before anything is imported; statements of their
\* own run in order; the arguments of the constructor's call in whatever order the compiler picks.
NextArguments(call) ==
    LET object == ObjectAt(call.place)
        args == Arguments(object.type)
        words == {i \in Left(call) : ~WordIsKnown(object, args[i])}
        early == {i \in Left(call) : args[i].early}
    IN CASE words # {} -> words
         [] words = {} /\ early # {} -> {CHOOSE i \in early : \A j \in early : i <= j}
         [] OTHER -> Left(call)

\* importNode on an object: a call of the function for its type, or a throw through the whole
\* stack when there is none. What was constructed before the throw is lost to everybody.
Import(calls, place) ==
    IF ObjectAt(place).type \in DOMAIN ImportFunctions
    THEN stack' = <<Call(place)>> \o calls /\ phase' = phase
    ELSE stack' = << >> /\ phase' = "failed"

------------------------------------------------------------------------------------------
Init ==
    /\ file \in Files
    /\ keep \in BOOLEAN
    /\ visitor = Null
    /\ stack = <<Call(Root)>>
    /\ nodes = << >>
    /\ phase = "import"
    /\ pending = << >>
    /\ seen = << >>

Importing == phase = "import" /\ stack # << >>
top == Head(stack)
topObject == ObjectAt(top.place)
topArguments == Arguments(topObject.type)
Startable == IF Importing /\ top.current = 0 THEN NextArguments(top) ELSE {}

\* importChild, importChildOrNullptr.
ImportChild ==
    \E i \in Startable :
        LET a == topArguments[i] IN
        /\ a.op \in {"Child", "Maybe"}
        /\ Import(<<[top EXCEPT !.done = @ \cup {i}]>> \o Tail(stack),
                  Under(top.place, a.attr, 0))
    /\ UNCHANGED <<file, keep, nodes, visitor, pending, seen>>

\* A word that the importer does not know: it throws.
RefuseWord ==
    \E i \in Startable :
        /\ topArguments[i].op \in {"Word", "WordIfAny"}
        /\ phase' = "failed"
        /\ stack' = << >>
    /\ UNCHANGED <<file, keep, nodes, visitor, pending, seen>>

\* importChildArray: from 0 to the length, which the index may be too narrow to reach.
StartArray ==
    \E i \in Startable :
        /\ topArguments[i].op \in {"List", "ListIfAny"}
        /\ LET elements == topObject.arrays[topArguments[i].attr]
           IN stack' = <<[top EXCEPT !.current = i, !.length = Len(elements)]>> \o Tail(stack)
    /\ UNCHANGED <<file, keep, nodes, phase, visitor, pending, seen>>

\* Mutant: an index of half the width.
NextIndexNarrow(i) == (i + 1) % (IndexRange \div 2)
NextIndex(i) == (i + 1) % IndexRange
CurrentAttr == topArguments[top.current].attr
CurrentArray == topObject.arrays[CurrentAttr]

ImportElement ==
    /\ Importing
    /\ top.current # 0
    /\ top.index < top.length
    /\ LET calls == <<[top EXCEPT !.index = NextIndex(@)]>> \o Tail(stack)
       IN IF ~CurrentArray[top.index + 1]
          THEN stack' = calls /\ phase' = phase
          ELSE Import(calls, Under(top.place, CurrentAttr, top.index + 1))
    /\ UNCHANGED <<file, keep, nodes, visitor, pending, seen>>

FinishArray ==
    /\ Importing
    /\ top.current # 0
    /\ top.index >= top.length
    /\ stack' = <<[top EXCEPT !.done = @ \cup {top.current}, !.current = 0,
                                   !.index = 0, !.length = 0]>> \o Tail(stack)
    /\ UNCHANGED <<file, keep, nodes, phase, visitor, pending, seen>>

------------------------------------------------------------------------------------------
\* One function over another, and a function at one argument. (@@ and :>, where a proof needs them.)
Over(f, g) == [x \in DOMAIN f \cup DOMAIN g |-> IF x \in DOMAIN f THEN f[x] ELSE g[x]]
Only(x, y) == [z \in {x} |-> y]

ValueOf(object, attr) == IF attr \in DOMAIN object.values THEN object.values[attr] ELSE attr

\* importChildArray: a child for every object, nullptr for every null.
\* Mutant: an array that leaves out the holes of Babel's.
ElementsWithoutHoles(place, attr, array) ==
    SelectSeq([i \in DOMAIN array |-> IF array[i] THEN Under(place, attr, i) ELSE Null],
              LAMBDA child : child # Null)
Elements(place, attr, array) ==
    [i \in DOMAIN array |-> IF array[i] THEN Under(place, attr, i) ELSE Null]

\* What an argument is once it is imported.
Imported(place, object, a) ==
    CASE a.op = "Child" -> Under(place, a.attr, 0)
      [] a.op = "Maybe" -> IF a.attr \in object.kids THEN Under(place, a.attr, 0) ELSE Null
      [] a.op \in {"List", "ListIfAny"} ->
            IF a.attr \notin DOMAIN object.arrays THEN << >>
            ELSE Elements(place, a.attr, object.arrays[a.attr])
      [] a.op = "Nothing" -> << >>
      [] a.op = "Fixed" -> a.attr
      [] a.op = "IfType" ->
            IF a.attr \in DOMAIN object.values /\ object.values[a.attr] = "type" THEN a.attr ELSE No
      [] a.op \in {"ValueIfAny", "WordIfAny"} ->
            IF a.attr \in DOMAIN object.values THEN object.values[a.attr] ELSE No
      [] a.op \in {"Value", "Word"} -> ValueOf(object, a.attr)

\* The members of a new node: each parameter where the constructor stores it, and the constants.
\* A type parameter wraps its name in an identifier that Babel has no object for. An import
\* specifier compares the two names it is given.
Stored(place, object) ==
    LET params == Constructors[object.type]
        args == Arguments(object.type)
        constants == IF object.type \in DOMAIN ConstantMembers
                     THEN ConstantMembers[object.type] ELSE << >>
        given == [m \in ToSet(params) |->
            IF object.type = "TypeParameter" /\ m = "name" THEN Under(place, m, 0)
            ELSE Imported(place, object, args[CHOOSE i \in DOMAIN params : params[i] = m])]
    IN Over(given, constants)
MembersOf(place, object) ==
    LET stored == Stored(place, object) IN
    IF object.type = "ImportSpecifier"
    THEN Over(stored, [localEqualsImported |->
            nodes[stored.local].members.name = nodes[stored.imported].members.name])
    ELSE stored
MadeNodes(place, object) ==
    IF object.type = "TypeParameter"
    THEN Only(Under(place, "name", 0),
              [type |-> "Identifier", parent |-> Null,
               members |-> [name |-> ValueOf(object, "name"), typeAnnotation |-> Null, optional |-> No]])
    ELSE << >>

\* applyChildren, dispatched on the class of the object: the members its walk names, the missing
\* ones left out (applyNode, applyArray).
\* Mutant: applyNode and applyArray without the test for a missing child.
PresentUnchecked(child) == <<child>>
Present(child) == IF child = Null THEN << >> ELSE <<child>>
Handed(members, w) ==
    CASE w.many ->
            FlattenSeq([i \in DOMAIN members[w.member] |-> Present(members[w.member][i])])
      [] ~w.many /\ w.unless # No /\ members[w.unless] -> << >>
      [] OTHER -> Present(members[w.member])
Children(type, members) ==
    LET class == Walker[type] IN
    IF class \notin DOMAIN Walks THEN << >>
    ELSE FlattenSeq([i \in DOMAIN Walks[class] |-> Handed(members, Walks[class][i])])

\* The constructor: the members are stored, then the node becomes the parent of its children. The
\* call returns the node to the importer of the node around it, or to parseSourceScriptAsync's
\* worker, which hands the file to a pass.
\* Mutant: a constructor that does not set the parent of its children.
WithParentForgotten(tree, place, children) == tree
WithParent(tree, place, children) ==
    [p \in DOMAIN tree |-> IF p \in children THEN [tree[p] EXCEPT !.parent = place] ELSE tree[p]]
Construct ==
    /\ Importing
    /\ top.current = 0
    /\ Left(top) = {}
    /\ LET type == topObject.type
           members == MembersOf(top.place, topObject)
           node == [type |-> type, parent |-> Null, members |-> members]
           made == Over(Only(top.place, node), MadeNodes(top.place, topObject))
       IN nodes' = WithParent(Over(made, nodes), top.place, ToSet(Children(type, members)))
    /\ stack' = Tail(stack)
    /\ IF Len(stack) = 1
       THEN phase' = "walk" /\ pending' = <<Root>> /\ visitor' \in Visitors
       ELSE UNCHANGED <<phase, pending, visitor>>
    /\ UNCHANGED <<file, keep, seen>>

------------------------------------------------------------------------------------------
\* The predicates the passes hand to walkAst.
\* No predicate: the conditionals' lint, type checking, the removal of flow types.
Everything(place) == "WalkInto"

\* Module::resolveImportedIdentifiers: the specifiers that import one name.
ImportedNames(place) ==
    CASE nodes[place].type = "ImportDeclaration" -> "SkipInto"
      [] nodes[place].type \in {"ImportSpecifier", "ImportDefaultSpecifier"} -> "WalkInto"
      [] OTHER -> "SkipOver"

\* resolveImportedIdentifierDeclaration, in the imported module: its default export, and the
\* names it exports.
DefaultExports(place) ==
    CASE nodes[place].type = "ExportDefaultDeclaration" -> "WalkOver"
      [] nodes[place].type = "ExportNamedDeclaration" -> "SkipInto"
      [] OTHER -> "SkipOver"
NamedExports(place) ==
    CASE nodes[place].type = "ExportSpecifier" -> "WalkOver"
      [] nodes[place].type = "ExportNamedDeclaration" -> "SkipInto"
      [] OTHER -> "SkipOver"

\* Module::resolveProjectImports: the name require in a call, wherever it stands in the call. The
\* walk reads the parent of every identifier it meets; no local declares require here.
RequireCalls(place) ==
    IF /\ nodes[place].type = "Identifier"
       /\ nodes[nodes[place].parent].type = "CallExpression"
       /\ nodes[place].members.name = "require"
    THEN "WalkInto"
    ELSE "SkipInto"

Decision(place) ==
    CASE visitor = "Everything"     -> Everything(place)
      [] visitor = "ImportedNames"  -> ImportedNames(place)
      [] visitor = "DefaultExports" -> DefaultExports(place)
      [] visitor = "NamedExports"   -> NamedExports(place)
      [] visitor = "RequireCalls"   -> RequireCalls(place)

ASSUME VisitorsAssumption ==
    Visitors \subseteq {"Everything", "ImportedNames", "DefaultExports", "NamedExports", "RequireCalls"}

\* walkAst: the decision says whether the callback sees the node and whether the walk goes into
\* its children. It always goes into the children of the file.
CallsBack(decision) == decision \in {"WalkInto", "WalkOver"}
\* Mutant: the walk goes into the nodes the callback sees.
GoesIntoSeen(place) == nodes[place].type = "Root" \/ CallsBack(Decision(place))
GoesInto(place) ==
    nodes[place].type = "Root" \/ Decision(place) \in {"WalkInto", "SkipInto"}

Visit ==
    /\ phase = "walk"
    /\ pending # << >>
    /\ LET place == Head(pending)
           node == nodes[place]
       IN /\ seen' = IF CallsBack(Decision(place)) THEN Append(seen, place) ELSE seen
          /\ pending' = (IF GoesInto(place) THEN Children(node.type, node.members) ELSE << >>)
                            \o Tail(pending)
    /\ UNCHANGED <<file, keep, stack, nodes, phase, visitor>>

EndWalk ==
    /\ phase = "walk"
    /\ pending = << >>
    /\ phase' = "done"
    /\ UNCHANGED <<file, keep, stack, nodes, visitor, pending, seen>>

Next ==
    \/ ImportChild \/ RefuseWord \/ StartArray \/ ImportElement \/ FinishArray \/ Construct
    \/ Visit \/ EndWalk

\* One thread imports a file and walks it: it keeps running as long as there is something to do.
Spec == Init /\ [][Next]_vars /\ WF_vars(Next)

------------------------------------------------------------------------------------------
\* What Babel wrote, independently of the importer's tables.
IsComment(place) == place # Root /\ place[1][1] = "comments"
Places == {place \in DOMAIN file : keep \/ ~IsComment(place)}

\* The attributes whose member has another name.
MemberFor(type, attr) ==
    CASE attr = "value" /\ type = "TemplateElement" -> "rawValue"
      [] attr = "value" /\ type \in {"CommentLine", "CommentBlock"} -> "text"
      [] attr = "test" /\ type = "SwitchCase" -> "testOrDefault"
      [] attr = "await" -> "isAwait"
      [] attr = "delegate" -> "isDelegate"
      [] attr = "prefix" /\ type = "UnaryExpression" -> "isPrefix"
      [] attr = "operator" /\ type = "UnaryExpression" -> "unaryOperator"
      [] attr = "operator" /\ type = "UpdateExpression" -> "updateOperator"
      [] attr = "operator" /\ type = "BinaryExpression" -> "binaryOperator"
      [] attr = "operator" /\ type = "AssignmentExpression" -> "assignmentOperator"
      [] attr = "operator" /\ type = "LogicalExpression" -> "logicalOperator"
      [] attr = "static" /\ type \in {"ClassMethod", "ClassPrivateMethod"} -> "staticMethod"
      [] attr = "static" /\ type \in {"ClassProperty", "ClassPrivateProperty"} -> "staticProp"
      [] attr = "declarations" -> "declarators"
      [] attr = "importKind" /\ type = "ImportSpecifier" -> "typeImport"
      [] attr \in {"importKind", "exportKind"} -> "kind"
      [] OTHER -> attr

\* The tables agree on the meaning, for every kind. Each argument is passed at the position of the
\* parameter that is stored in the member of the same meaning, and the class has no other members.
ConstantsOf(type) == IF type \in DOMAIN ConstantMembers THEN DOMAIN ConstantMembers[type] ELSE {}
MembersFit(type, args) ==
    LET params == Constructors[type] IN
    /\ \A i, j \in DOMAIN args : params[i] = params[j] => i = j
    /\ \A i \in DOMAIN args :
          /\ args[i].op # "Fixed" => params[i] = MemberFor(type, args[i].attr)
          /\ args[i].attr = "comments" => type = "Root"
          /\ args[i].op \in ValueReaders =>
                /\ args[i].op = "IfType" <=> type = "ImportSpecifier"
                /\ type = "TypeParameter" => args[i].attr = "name"
    /\ "localEqualsImported" \notin ToSet(params) \cup ConstantsOf(type)
    /\ Members[type] =
          ToSet(params) \cup ConstantsOf(type)
              \cup (IF type = "ImportSpecifier" THEN {"localEqualsImported"} ELSE {})

\* A walk hands every member that holds nodes over once, but for the return type of a class method,
\* which it hands over twice, and the comments. One member waits for a flag.
ClassMethods == {"ClassMethod", "ClassPrivateMethod"}
Walked(type) == IF Walker[type] \in DOMAIN Walks THEN Walks[Walker[type]] ELSE << >>
WalksFit(type, args) ==
    /\ \A i \in DOMAIN args :
          ImportsNodes(args[i]) \/ (type = "TypeParameter" /\ args[i].attr = "name") =>
              Cardinality({n \in DOMAIN Walked(type) : Walked(type)[n].member = Constructors[type][i]}) =
                  CASE args[i].attr = "comments" -> 0
                    [] args[i].attr = "returnType" /\ type \in ClassMethods -> 2
                    [] OTHER -> 1
    /\ \A w \in ToSet(Walked(type)) :
          w.unless = IF type = "ImportSpecifier" /\ w.member = "imported"
                     THEN "localEqualsImported" ELSE No
MeaningAssumption ==
    /\ \A type \in Kinds, comments \in BOOLEAN :
          MembersFit(type, RowsOf(type, comments)) /\ WalksFit(type, RowsOf(type, comments))
    /\ \A type \in {"Identifier", "TypeParameter"} : Value("name") \in ToSet(ImportFunctions[type])
    /\ {Child("local"), Child("imported")} \subseteq ToSet(ImportFunctions["ImportSpecifier"])

ASSUME MeaningAssumption

\* Every attribute of an object arrived in its member.
KidsArrived(place, object, members) ==
    \A a \in object.kids : members[MemberFor(object.type, a)] = Under(place, a, 0)
ArraysArrived(place, object, members) ==
    \A a \in DOMAIN object.arrays :
        members[MemberFor(object.type, a)] =
            IF a = "comments" /\ ~keep THEN << >>
            ELSE [i \in DOMAIN object.arrays[a] |->
                    IF object.arrays[a][i] THEN Under(place, a, i) ELSE Null]
Required(type) == {a.attr : a \in {b \in ToSet(Arguments(type)) : b.op \in {"Value", "Word"}}}
ValuesArrived(object, members) ==
    \A a \in Required(object.type) \cup DOMAIN object.values :
        LET member == members[MemberFor(object.type, a)] IN
        CASE object.type = "TypeParameter" -> nodes[member].members[a] = ValueOf(object, a)
          [] object.type = "ImportSpecifier" ->
                member = IF ValueOf(object, a) = "type" THEN a ELSE No
          [] OTHER -> member = ValueOf(object, a)

HasUnknown ==
    \E place \in Places :
        LET object == ObjectAt(place) IN
        /\ place # Root
        /\ \/ object.type \notin DOMAIN ImportFunctions
           \/ \E i \in DOMAIN ImportFunctions[object.type] :
                 ~WordIsKnown(object, ImportFunctions[object.type][i])

\* Nodes no walk reaches: comments, and the imported name of a specifier that does not rename it.
IsHidden(place) ==
    \/ IsComment(place)
    \/ \E p \in Prefixes(place) \ {Root} :
          /\ ObjectAt(Front(p)).type = "ImportSpecifier"
          /\ Last(p)[1] = "imported"
          /\ ValueOf(ObjectAt(p), "name") = ValueOf(ObjectAt(Under(Front(p), "local", 0)), "name")

\* How often a walk meets a node: a class method hands its return type over twice.
DoubledSteps(place) ==
    {p \in Prefixes(place) \ {Root} :
        /\ Last(p)[1] = "returnType"
        /\ ObjectAt(Front(p)).type \in ClassMethods}
\* The nodes whose inside the predicate skips: never the file.
Closed(place) == place # Root /\ Decision(place) \in {"SkipOver", "WalkOver"}
TimesMet(place) ==
    IF IsHidden(place) \/ \E p \in Prefixes(place) \ {place} : Closed(p) THEN 0
    ELSE 2 ^ Cardinality(DoubledSteps(place))

------------------------------------------------------------------------------------------
\* Types: the calls in progress are at objects of the file, and no node is constructed before the
\* nodes it stores.
TypeOK ==
    /\ keep \in BOOLEAN
    /\ phase \in {"import", "walk", "done", "failed"}
    /\ visitor \in Visitors \cup {Null}
    /\ \A k \in DOMAIN stack :
          /\ stack[k].place \in Places
          /\ stack[k].index \in 0 .. IndexRange - 1
    /\ \A place \in DOMAIN nodes :
          ToSet(Children(nodes[place].type, nodes[place].members)) \subseteq DOMAIN nodes
    /\ ToSet(pending) \cup ToSet(seen) \subseteq DOMAIN nodes

\* A node says what its object said: every attribute has arrived in the member of the same meaning,
\* whatever the order of the parameters in between, and every member of the class and of its bases
\* has a value. (import.cpp passes up to eleven arguments by position, several of one type.)
MembersKeepMeaning ==
    \A place \in DOMAIN nodes \cap Places :
        LET object == ObjectAt(place)
            members == nodes[place].members
        IN /\ DOMAIN members = Members[object.type]
           /\ KidsArrived(place, object, members)
           /\ ArraysArrived(place, object, members)
           /\ ValuesArrived(object, members)

\* The importer throws exactly on syntax it does not know: a finished tree has no unknown type or
\* word anywhere, and nothing else makes it throw. Comments count when they are kept.
UnknownSyntaxIsRefused ==
    /\ phase = "failed" => HasUnknown
    /\ phase \in {"walk", "done"} => ~HasUnknown

\* A pass sees every node of the file that its predicate lets it see: once, whatever the path of
\* classes the walk is dispatched to, and none below a node its predicate skips. The exceptions
\* are those of TimesMet and IsHidden, which the code makes.
CallbackSeesEachNodeOnce ==
    phase = "done" =>
        \A place \in DOMAIN nodes :
            Cardinality({i \in DOMAIN seen : seen[i] = place}) =
                IF TimesMet(place) = 0 \/ ~CallsBack(Decision(place)) THEN 0 ELSE TimesMet(place)

\* getParent and getParentModule on any node a walk meets: the parents are the nodes around it, up
\* to the file, whichever order the arguments were imported in. (getParentModule follows the
\* parents until it meets the file, and never checks for null.)
ParentsLeadToTheRoot ==
    phase \in {"walk", "done"} =>
        \A place \in ToSet(pending) \cup ToSet(seen) :
            \A p \in Prefixes(place) \ {Root} : nodes[p].parent = Front(p)

\* The import ends, with a tree or with an exception, unless it comes to an array that the index of
\* importChildArray cannot count: it never leaves that one.
ImportEnds ==
    <>(\/ phase \in {"done", "failed"}
       \/ \E k \in DOMAIN stack : stack[k].length >= IndexRange)
==============================================================================================
