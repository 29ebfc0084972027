------------------------------ MODULE TreeWalkProofs --------------------------------------
\* SyntaxTree's invariants about what the nodes say and what a pass sees of them, for every file
\* Babel may return. A node's members depend on its object alone, whatever was constructed before
\* it (MeansInv); so every attribute is in the member that means it, and how often a node hands a
\* child to a walk follows from the tables (ChildPositions). A walk then keeps an account for every
\* node (WalkInv): the times it was seen and the ways that still lead to it, one for each choice
\* among the return types of class methods around it (Ways), are always as many as in the end.
EXTENDS SyntaxTreeProofs, FiniteSetTheorems, FunctionTheorems

------------------------------------------------------------------------------------------
\* What the members of a node are.
\* What a node says, as a function of the file alone.
SameNames(place) ==
    ValueOf(ObjectAt(Under(place, "local", 0)), "name") = ValueOf(ObjectAt(Under(place, "imported", 0)), "name")
MembersAt(place) ==
    LET stored == Stored(place, ObjectAt(place)) IN
    IF ObjectAt(place).type = "ImportSpecifier"
    THEN Over(stored, [localEqualsImported |-> SameNames(place)]) ELSE stored
NameMembers(place) ==
    [name |-> ValueOf(ObjectAt(place), "name"), typeAnnotation |-> Null, optional |-> No]
IsParameter(place) == ObjectAt(place).type = "TypeParameter"
MeansInv ==
    /\ \A p \in DOMAIN nodes \cap Places :
          nodes[p].type = ObjectAt(p).type /\ nodes[p].members = MembersAt(p)
    /\ \A p \in DOMAIN nodes \cap Places :
          IsParameter(p) =>
             LET name == Under(p, "name", 0) IN
             /\ name \in DOMAIN nodes
             /\ nodes[name].type = "Identifier" /\ nodes[name].members = NameMembers(p)
    /\ \A p \in DOMAIN nodes \ Places :
          /\ p # Root /\ Front(p) \in DOMAIN nodes \cap Places
          /\ IsParameter(Front(p)) /\ p = Under(Front(p), "name", 0)

\* The rows of a kind, and what the file's objects hold besides other objects.
LEMMA RowsMean ==
  ASSUME NEW type \in Kinds, keep \in BOOLEAN
  PROVE  /\ MembersFit(type, Arguments(type)) /\ WalksFit(type, Arguments(type))
         /\ DOMAIN Constructors[type] = DOMAIN Arguments(type)
         /\ \A i \in DOMAIN Arguments(type) : Constructors[type][i] \in ToSet(Constructors[type])
<1>1. MembersFit(type, RowsOf(type, keep)) /\ WalksFit(type, RowsOf(type, keep))
  BY MeaningAssumption DEF MeaningAssumption
<1>2. RowsFit(type, RowsOf(type, keep))
  BY RowsOfKind
<1>3. DOMAIN Constructors[type] = DOMAIN RowsOf(type, keep)
  BY <1>2 DEF RowsFit
<1> QED
  BY <1>1, <1>3 DEF Arguments, ToSet

\* An object holds only values that its importer reads; a specifier's two names are identifiers.
LEMMA FileMeans ==
  ASSUME file \in Files, NEW p \in DOMAIN file
  PROVE  /\ ObjectAt(p).type \in Kinds =>
               DOMAIN ObjectAt(p).values \subseteq Attributes(ObjectAt(p).type, ValueReaders)
         /\ ObjectAt(p).type = "ImportSpecifier" =>
               \A a \in {"local", "imported"} : ObjectAt(Under(p, a, 0)).type = "Identifier"
BY FilesAssumption DEF FilesAssumption, ObjectAt

\* The members that a constructor stores: each parameter's, from the argument at its position.
StoresRow(place, object, type, i) ==
    LET m == Constructors[type][i] IN
    Stored(place, object)[m] =
        IF type = "TypeParameter" /\ m = "name" THEN Under(place, "name", 0)
        ELSE Imported(place, object, Arguments(type)[i])
\* A constructor stores its parameters' members and its constants, each row in its member.
LEMMA StoredMembers ==
  ASSUME keep \in BOOLEAN, NEW place, NEW object, NEW type \in Kinds, type = object.type
  PROVE  /\ DOMAIN Stored(place, object) = ToSet(Constructors[type]) \cup ConstantsOf(type)
         /\ \A i \in DOMAIN Arguments(type) : StoresRow(place, object, type, i)
<1> DEFINE params == Constructors[type]
           args == Arguments(type)
           Given(x) == IF type = "TypeParameter" /\ x = "name" THEN Under(place, x, 0)
                       ELSE Imported(place, object, args[CHOOSE i \in DOMAIN params : params[i] = x])
           given == [x \in ToSet(params) |-> Given(x)]
           constants == IF type \in DOMAIN ConstantMembers THEN ConstantMembers[type] ELSE << >>
           stored == Stored(place, object)
<1>1. stored = Over(given, constants)
  BY DEF Stored
<1>2. /\ DOMAIN stored = ToSet(params) \cup DOMAIN constants
      /\ \A x \in ToSet(params) : stored[x] = Given(x)
  <2> HIDE DEF constants
  <2> DEFINE g == [x \in ToSet(params) |-> Given(x)]
  <2>1. DOMAIN g = ToSet(params) /\ \A x \in ToSet(params) : g[x] = Given(x)
    OBVIOUS
  <2>2. stored = Over(g, constants)
    BY <1>1
  <2> HIDE DEF g, Given, params
  <2> QED
    BY <2>1, <2>2 DEF Over
<1>3. DOMAIN constants = ConstantsOf(type)
  <2>1. CASE type \in DOMAIN ConstantMembers
    BY <2>1 DEF ConstantsOf
  <2>2. CASE type \notin DOMAIN ConstantMembers
    <3>1. constants = << >>
      BY <2>2
    <3> HIDE DEF constants
    <3>2. DOMAIN constants = {}
      BY <3>1
    <3> QED
      BY <2>2, <3>2 DEF ConstantsOf
  <2> QED
    BY <2>1, <2>2
<1>4. ASSUME NEW i \in DOMAIN args, NEW m, m = params[i]
      PROVE  stored[m] = IF type = "TypeParameter" /\ m = "name" THEN Under(place, "name", 0)
                         ELSE Imported(place, object, args[i])
  <2>1. /\ i \in DOMAIN params /\ m \in ToSet(params) /\ DOMAIN params = DOMAIN args
        /\ \A j \in DOMAIN args : params[j] = m => j = i
    BY <1>4, RowsMean DEF MembersFit
  <2>2. (CHOOSE j \in DOMAIN params : params[j] = m) = i
    BY <1>4, <2>1
  <2>3. stored[m] = Given(m)
    BY <1>2, <2>1
  <2> HIDE DEF stored, params, args
  <2> QED
    BY <2>2, <2>3
<1>5. ASSUME NEW i \in DOMAIN args PROVE StoresRow(place, object, type, i)
  <2>1. PICK m : m = params[i]
    OBVIOUS
  <2>2. stored[m] = IF type = "TypeParameter" /\ m = "name" THEN Under(place, "name", 0)
                    ELSE Imported(place, object, args[i])
    BY <1>4, <2>1
  <2> HIDE DEF stored
  <2> QED
    BY <2>1, <2>2 DEF StoresRow, stored
<1> QED
  BY <1>2, <1>3, <1>5

\* The member of one row, with its name given.
LEMMA StoredMember ==
  ASSUME keep \in BOOLEAN, NEW place, NEW object, NEW type \in Kinds, type = object.type,
         NEW i \in DOMAIN Arguments(type), NEW m, m = Constructors[type][i]
  PROVE  Stored(place, object)[m] =
            IF type = "TypeParameter" /\ m = "name" THEN Under(place, "name", 0)
            ELSE Imported(place, object, Arguments(type)[i])
<1>1. StoresRow(place, object, type, i)
  BY StoredMembers
<1> QED
  BY <1>1 DEF StoresRow

\* A node's members: those its class has, and what the constructor stores in them.
LEMMA MembersOfNode ==
  ASSUME keep \in BOOLEAN, NEW p, NEW type \in Kinds, type = ObjectAt(p).type
  PROVE  /\ DOMAIN MembersAt(p) = Members[type]
         /\ \A i \in DOMAIN Arguments(type) :
               LET m == Constructors[type][i] IN
               MembersAt(p)[m] =
                  IF type = "TypeParameter" /\ m = "name" THEN Under(p, "name", 0)
                  ELSE Imported(p, ObjectAt(p), Arguments(type)[i])
         /\ type = "ImportSpecifier" => MembersAt(p).localEqualsImported = SameNames(p)
<1> DEFINE stored == Stored(p, ObjectAt(p))
           more == [localEqualsImported |-> SameNames(p)]
<1>1. DOMAIN stored = ToSet(Constructors[type]) \cup ConstantsOf(type)
  BY StoredMembers
<1>2. Members[type] = ToSet(Constructors[type]) \cup ConstantsOf(type)
                         \cup (IF type = "ImportSpecifier" THEN {"localEqualsImported"} ELSE {})
  BY RowsMean DEF MembersFit
<1>3. ASSUME NEW m \in DOMAIN stored PROVE MembersAt(p)[m] = stored[m]
  <2>1. CASE type = "ImportSpecifier"
    <3>1. MembersAt(p) = Over(stored, more)
      BY <2>1 DEF MembersAt
    <3> HIDE DEF stored, more
    <3> QED
      BY <3>1 DEF Over
  <2>2. CASE type # "ImportSpecifier"
    BY <2>2 DEF MembersAt
  <2> QED
    BY <2>1, <2>2
<1>4. DOMAIN MembersAt(p) = Members[type]
  <2>1. CASE type = "ImportSpecifier"
    <3>1. MembersAt(p) = Over(stored, more)
      BY <2>1 DEF MembersAt
    <3>2. DOMAIN more = {"localEqualsImported"}
      OBVIOUS
    <3> HIDE DEF stored, more
    <3>3. DOMAIN MembersAt(p) = DOMAIN stored \cup DOMAIN more
      BY <3>1 DEF Over
    <3> QED
      BY <1>1, <1>2, <2>1, <3>2, <3>3
  <2>2. CASE type # "ImportSpecifier"
    BY <1>1, <1>2, <2>2 DEF MembersAt
  <2> QED
    BY <2>1, <2>2
<1>5. ASSUME NEW i \in DOMAIN Arguments(type), NEW m, m = Constructors[type][i]
      PROVE  MembersAt(p)[m] = IF type = "TypeParameter" /\ m = "name" THEN Under(p, "name", 0)
                               ELSE Imported(p, ObjectAt(p), Arguments(type)[i])
  <2>1. m \in DOMAIN stored
    BY <1>1, <1>5, RowsMean
  <2>2. stored[m] = IF type = "TypeParameter" /\ m = "name" THEN Under(p, "name", 0)
                    ELSE Imported(p, ObjectAt(p), Arguments(type)[i])
    BY <1>5, StoredMember
  <2> HIDE DEF stored
  <2> QED
    BY <1>3, <2>1, <2>2
<1>6. ASSUME type = "ImportSpecifier" PROVE MembersAt(p).localEqualsImported = SameNames(p)
  <2>1. MembersAt(p) = Over(stored, more)
    BY <1>6 DEF MembersAt
  <2>2. DOMAIN more = {"localEqualsImported"} /\ more["localEqualsImported"] = SameNames(p)
    OBVIOUS
  <2>3. "localEqualsImported" \notin DOMAIN stored
    <3>1. "localEqualsImported" \notin ToSet(Constructors[type]) \cup ConstantsOf(type)
      BY RowsMean DEF MembersFit
    <3> QED
      BY <1>1, <3>1
  <2> HIDE DEF stored, more
  <2>4. ASSUME NEW x, x \in DOMAIN more, x \notin DOMAIN stored PROVE MembersAt(p)[x] = more[x]
    BY <2>1, <2>4 DEF Over
  <2> QED
    BY <2>2, <2>3, <2>4
<1> QED
  BY <1>4, <1>5, <1>6

\* The importer knows the kind of every node's object.
LEMMA NodeKinds ==
  ASSUME ImportInv, NEW p \in DOMAIN nodes \cap Places
  PROVE  /\ p \in DOMAIN file /\ p \in Paths /\ ObjectAt(p).type \in Kinds
         /\ ObjectAt(p).type = "Root" => p = Root
<1>1. file \in Files
  BY DEF ImportInv, Typing
<1>2. Known(p)
  BY DEF ImportInv, NodesInv
<1>3. CASE p = Root
  BY <1>1, <1>3, FileIsTree DEF Kinds, Places
<1>4. CASE p # Root
  <2>1. ObjectAt(p).type \in DOMAIN ImportFunctions
    BY <1>2, <1>4 DEF Known
  <2>2. ObjectAt(p).type # "Root"
    BY <2>1, TablesAssumption DEF TablesAssumption
  <2> QED
    BY <1>1, <2>1, <2>2, FileIsTree DEF Kinds, Places
<1> QED
  BY <1>3, <1>4

\* The name in an identifier, and the two names in an import specifier.
LEMMA NamesKept ==
  ASSUME keep \in BOOLEAN, NEW p, ObjectAt(p).type = "Identifier"
  PROVE  MembersAt(p).name = ValueOf(ObjectAt(p), "name")
<1>1. "Identifier" \in Kinds /\ "Identifier" # "Root" /\ "Identifier" # "TypeParameter"
      /\ "Identifier" # "ImportSpecifier"
  BY TablesAssumption DEF TablesAssumption
<1>2. Arguments("Identifier") = ImportFunctions["Identifier"]
  BY DEF Arguments, RowsOf
<1>3. PICK i \in DOMAIN Arguments("Identifier") : Arguments("Identifier")[i] = Value("name")
  BY <1>2, MeaningAssumption DEF MeaningAssumption, ToSet
<1>4. /\ Value("name").op = "Value" /\ Value("name").attr = "name"
  BY DEF Value, Argument
<1>5. Constructors["Identifier"][i] = "name"
  <2>1. Constructors["Identifier"][i] = MemberFor("Identifier", "name")
    BY <1>1, <1>3, <1>4, RowsMean DEF MembersFit
  <2>2. MemberFor("Identifier", "name") = "name"
    BY DEF MemberFor
  <2> QED
    BY <2>1, <2>2
<1>6. MembersAt(p)["name"] = Imported(p, ObjectAt(p), Value("name"))
  BY <1>1, <1>3, <1>5, MembersOfNode
<1>7. Imported(p, ObjectAt(p), Value("name")) = ValueOf(ObjectAt(p), "name")
  BY <1>4 DEF Imported
<1> QED
  BY <1>6, <1>7

\* An import specifier's two names are its children, each in the member of its own name.
LEMMA SpecifierRow ==
  ASSUME file \in Files, keep \in BOOLEAN, NEW p \in DOMAIN file,
         ObjectAt(p).type = "ImportSpecifier", "ImportSpecifier" \in Kinds, NEW a \in {"local", "imported"}
  PROVE  /\ a \in ObjectAt(p).kids /\ Under(p, a, 0) \in DOMAIN file
         /\ ObjectAt(Under(p, a, 0)).type = "Identifier"
         /\ \E i \in DOMAIN Arguments("ImportSpecifier") :
               /\ Arguments("ImportSpecifier")[i] = Child(a)
               /\ Constructors["ImportSpecifier"][i] = a
<1>1. "ImportSpecifier" # "Root" /\ "ImportSpecifier" # "TypeParameter"
  OBVIOUS
<1>2. /\ Arguments("ImportSpecifier") = ImportFunctions["ImportSpecifier"]
      /\ RowsOf("ImportSpecifier", TRUE) = ImportFunctions["ImportSpecifier"]
  BY DEF Arguments, RowsOf
<1>3. Child(a) \in ToSet(ImportFunctions["ImportSpecifier"])
  BY MeaningAssumption DEF MeaningAssumption
<1>4. PICK i \in DOMAIN Arguments("ImportSpecifier") : Arguments("ImportSpecifier")[i] = Child(a)
  BY <1>2, <1>3 DEF ToSet
<1>5. Child(a).op = "Child" /\ Child(a).attr = a
  BY DEF Child, Argument
<1>6. a \in Attributes("ImportSpecifier", {"Child"})
  BY <1>2, <1>3, <1>5 DEF Attributes
<1>7. a \in ObjectAt(p).kids /\ Under(p, a, 0) \in DOMAIN file
  BY <1>6, FileIsTree
<1>8. Constructors["ImportSpecifier"][i] = a
  <2>1. Constructors["ImportSpecifier"][i] = MemberFor("ImportSpecifier", a)
    BY <1>4, <1>5, RowsMean DEF MembersFit
  <2>2. MemberFor("ImportSpecifier", a) = a
    BY DEF MemberFor
  <2> QED
    BY <2>1, <2>2
<1> QED
  BY <1>4, <1>7, <1>8, FileMeans

------------------------------------------------------------------------------------------
\* The nodes keep their meaning.
\* A constructor makes the node that its object means, whatever was constructed before it.
LEMMA TopMembersMean ==
  ASSUME ImportInv, MeansInv, Construct
  PROVE  TopMembers = MembersAt(top.place)
<1>1. /\ Importing /\ top.current = 0 /\ Left(top) = {}
      /\ file \in Files /\ keep \in BOOLEAN /\ top.place \in Places /\ top.place \in DOMAIN file
      /\ topObject = ObjectAt(top.place) /\ topObject.type \in Kinds
  BY TopCall DEF Construct, ImportInv, Typing, topObject
<1>2. CASE topObject.type # "ImportSpecifier"
  BY <1>1, <1>2 DEF TopMembers, MembersOf, MembersAt
<1>3. CASE topObject.type = "ImportSpecifier"
  <2> DEFINE stored == Stored(top.place, topObject)
  <2>1. ASSUME NEW a \in {"local", "imported"}
        PROVE  /\ stored[a] = Under(top.place, a, 0)
               /\ nodes[stored[a]].members.name = ValueOf(ObjectAt(Under(top.place, a, 0)), "name")
    <3>1. /\ a \in topObject.kids /\ Under(top.place, a, 0) \in DOMAIN file
          /\ ObjectAt(Under(top.place, a, 0)).type = "Identifier"
      BY <1>1, <1>3, SpecifierRow
    <3>2. PICK i \in DOMAIN Arguments("ImportSpecifier") :
            Arguments("ImportSpecifier")[i] = Child(a) /\ Constructors["ImportSpecifier"][i] = a
      BY <1>1, <1>3, SpecifierRow
    <3>3. stored[a] = Imported(top.place, topObject, Child(a))
      <4>1. PICK type : type = "ImportSpecifier"
        OBVIOUS
      <4>2. type \in Kinds /\ type = topObject.type /\ i \in DOMAIN Arguments(type) /\ type # "TypeParameter"
        BY <1>1, <1>3, <3>2, <4>1
      <4>3. stored[Constructors[type][i]] = Imported(top.place, topObject, Arguments(type)[i])
        BY <1>1, <4>2, StoredMember
      <4> QED
        BY <3>2, <4>1, <4>3
    <3>4. Imported(top.place, topObject, Child(a)) = Under(top.place, a, 0)
      BY DEF Imported, Child, Argument
    <3>5. Under(top.place, a, 0) \in PartsOf(top.place)
      <4>1. Child(a).attr = a /\ ImportsNodes(Child(a))
        BY DEF Child, Argument, ImportsNodes, ImportsOne
      <4>2. /\ Arguments(topObject.type)[i].attr = a /\ ImportsNodes(Arguments(topObject.type)[i])
            /\ i \in DOMAIN Arguments(topObject.type)
        BY <1>3, <3>2, <4>1
      <4>3. topObject.type = "Root" => top.place = Root
        BY <1>3
      <4> QED
        BY <1>1, <3>1, <4>2, <4>3, ArgumentsArePartsOfFile DEF PartsIn
    <3>6. Under(top.place, a, 0) \in DOMAIN nodes \cap Places
      BY <1>1, <3>5, PartsArrived DEF PartsOf
    <3>7. nodes[Under(top.place, a, 0)].members = MembersAt(Under(top.place, a, 0))
      BY <3>6 DEF MeansInv
    <3>8. MembersAt(Under(top.place, a, 0)).name = ValueOf(ObjectAt(Under(top.place, a, 0)), "name")
      BY <1>1, <3>1, NamesKept
    <3> QED
      BY <3>3, <3>4, <3>7, <3>8
  <2>2. nodes[stored.local].members.name = ValueOf(ObjectAt(Under(top.place, "local", 0)), "name")
    BY <2>1
  <2>3. nodes[stored.imported].members.name = ValueOf(ObjectAt(Under(top.place, "imported", 0)), "name")
    BY <2>1
  <2>4. (nodes[stored.local].members.name = nodes[stored.imported].members.name) = SameNames(top.place)
    BY <2>2, <2>3 DEF SameNames
  <2>5. TopMembers = Over(stored, [localEqualsImported |->
            nodes[stored.local].members.name = nodes[stored.imported].members.name])
    BY <1>3 DEF TopMembers, MembersOf
  <2>6. MembersAt(top.place) = Over(stored, [localEqualsImported |-> SameNames(top.place)])
    BY <1>1, <1>3 DEF MembersAt
  <2> HIDE DEF stored
  <2> QED
    BY <2>4, <2>5, <2>6
<1> QED
  BY <1>2, <1>3

\* The name of a type parameter is a node one step below it.
LEMMA NameBelow ==
  ASSUME NEW p \in Paths
  PROVE  /\ Under(p, "name", 0) # Root /\ Under(p, "name", 0) \in Paths
         /\ Front(Under(p, "name", 0)) = p /\ Last(Under(p, "name", 0)) = <<"name", 0>>
<1>1. "name" \in STRING
  <2>1. "Identifier" \in Kinds /\ "Identifier" # "Root"
    BY TablesAssumption DEF TablesAssumption
  <2>2. PICK i \in DOMAIN RowsOf("Identifier", TRUE) : RowsOf("Identifier", TRUE)[i] = Value("name")
    BY <2>1, MeaningAssumption DEF MeaningAssumption, ToSet, RowsOf
  <2>3. Value("name").attr = "name"
    BY DEF Value, Argument
  <2>4. RowsOf("Identifier", TRUE)[i].attr \in STRING
    BY <2>1, RowsOfKind
  <2> QED
    BY <2>2, <2>3, <2>4
<1>2. 0 \in Nat
  OBVIOUS
<1> QED
  BY <1>1, <1>2, UnderIsBelow

\* The name of a type parameter is a text of Babel's: it has no object.
LEMMA NameHasNoObject ==
  ASSUME file \in Files, NEW p \in DOMAIN file, IsParameter(p), ObjectAt(p).type \in Kinds
  PROVE  Under(p, "name", 0) \notin DOMAIN file
<1> DEFINE name == Under(p, "name", 0)
           rows == RowsOf("TypeParameter", TRUE)
<1>1. SUFFICES ASSUME name \in DOMAIN file PROVE FALSE
  OBVIOUS
<1>2. ObjectAt(p).type = "TypeParameter" /\ p \in Paths
  BY FileIsTree DEF IsParameter
<1>3. name # Root /\ Front(name) = p /\ Last(name) = <<"name", 0>>
  BY <1>2, NameBelow
<1>4. Holds(ObjectAt(p), "name", 0)
  <2>1. Holds(ObjectAt(Front(name)), Last(name)[1], Last(name)[2])
    BY <1>1, <1>3, FileIsTree
  <2>2. Last(name)[1] = "name" /\ Last(name)[2] = 0
    BY <1>3
  <2> HIDE DEF name
  <2> QED
    BY <1>3, <2>1, <2>2
<1>5. "name" \in ObjectAt(p).kids
  <2>1. SUFFICES ASSUME "name" \in DOMAIN ObjectAt(p).arrays, 0 \in DOMAIN ObjectAt(p).arrays["name"]
                 PROVE FALSE
    BY <1>4 DEF Holds
  <2>2. ObjectAt(p).arrays["name"] \in Seq(BOOLEAN)
    BY <2>1, FileIsTree
  <2> QED
    BY <2>1, <2>2
<1>6. "TypeParameter" \in Kinds
  BY <1>2
<1>7. PICK attr, ops : attr = "name" /\ ops = {"Child", "Maybe"}
  OBVIOUS
<1>8. attr \in Attributes("TypeParameter", ops)
  BY <1>2, <1>5, <1>6, <1>7, FileIsTree
<1>9. PICK i \in DOMAIN rows : rows[i].attr = attr /\ rows[i].op \in ops
  BY <1>6, <1>8, RowOfAttribute
<1>10. ImportsNodes(rows[i])
  BY <1>7, <1>9 DEF ImportsNodes, ImportsOne
<1>11. RowsFit("TypeParameter", rows)
  BY <1>6, RowsOfKind
<1> QED
  BY <1>7, <1>9, <1>10, <1>11 DEF RowsFit

\* Construct keeps every node's meaning, and gives the new one its own.
LEMMA ConstructKeepsMeaning ==
  ASSUME ImportInv, MeansInv, Construct
  PROVE  MeansInv'
<1>1. /\ Importing /\ file \in Files /\ keep \in BOOLEAN /\ top.place \in Places /\ top.place \in DOMAIN file
      /\ top.place \in Paths /\ topObject = ObjectAt(top.place) /\ topObject.type \in Kinds
      /\ UNCHANGED <<file, keep>>
  BY TopCall DEF Construct, ImportInv, Typing, topObject
<1>2. /\ DOMAIN nodes' = {top.place} \cup MadePlaces \cup DOMAIN nodes
      /\ \A p \in DOMAIN nodes' :
            nodes'[p].type = TreeWithTop[p].type /\ nodes'[p].members = TreeWithTop[p].members
  BY NodesAfterConstruct
<1>3. /\ TreeWithTop[top.place] = TopNode
      /\ \A p \in MadePlaces : p # top.place => TreeWithTop[p] = NameNode
      /\ \A p \in DOMAIN nodes : p # top.place /\ p \notin MadePlaces => TreeWithTop[p] = nodes[p]
  BY TreeIsExtended
<1>4. \A p \in MadePlaces :
         /\ p \notin Places /\ p = NamePlace /\ topObject.type = "TypeParameter"
         /\ p # Root /\ Front(p) = top.place /\ p # top.place
  BY <1>1, NameIsMade DEF Places
<1>5. /\ Places' = Places
      /\ \A p : MembersAt(p)' = MembersAt(p) /\ NameMembers(p)' = NameMembers(p)
                 /\ IsParameter(p)' = IsParameter(p) /\ ObjectAt(p)' = ObjectAt(p)
  BY <1>1 DEF Places, MembersAt, NameMembers, IsParameter, ObjectAt, Stored, SameNames, Arguments
<1>6. ASSUME NEW p \in DOMAIN nodes' \cap Places
      PROVE  nodes'[p].type = ObjectAt(p).type /\ nodes'[p].members = MembersAt(p)
  <2>1. CASE p = top.place
    <3>1. TopNode.type = topObject.type /\ TopNode.members = TopMembers
      BY DEF TopNode
    <3>2. TopMembers = MembersAt(top.place)
      BY TopMembersMean
    <3> QED
      BY <1>1, <1>2, <1>3, <2>1, <3>1, <3>2
  <2>2. CASE p # top.place
    <3>1. p \notin MadePlaces
      BY <1>4
    <3>2. p \in DOMAIN nodes /\ TreeWithTop[p] = nodes[p]
      BY <1>2, <1>3, <2>2, <3>1
    <3> QED
      BY <1>2, <3>2 DEF MeansInv
  <2> QED
    BY <2>1, <2>2
<1>7. ASSUME NEW p \in DOMAIN nodes' \cap Places, IsParameter(p), NEW name, name = Under(p, "name", 0)
      PROVE  /\ name \in DOMAIN nodes'
             /\ nodes'[name].type = "Identifier" /\ nodes'[name].members = NameMembers(p)
  <2>1. CASE p = top.place
    <3>1. name \in MadePlaces
      BY <1>1, <1>7, <2>1 DEF MadePlaces, NamePlace, IsParameter
    <3>2. name \in DOMAIN nodes' /\ TreeWithTop[name] = NameNode
      BY <1>2, <1>3, <1>4, <3>1
    <3>3. NameNode.type = "Identifier" /\ NameNode.members = NameMembers(p)
      BY <1>1, <2>1 DEF NameNode, NameMembers
    <3> QED
      BY <1>2, <3>2, <3>3
  <2>2. CASE p # top.place
    <3>1. p \in DOMAIN nodes
      BY <1>2, <1>4, <2>2
    <3>2. name \in DOMAIN nodes /\ nodes[name].type = "Identifier" /\ nodes[name].members = NameMembers(p)
      BY <1>7, <3>1 DEF MeansInv
    <3>3. p \in Paths
      BY <1>1, FileIsTree
    <3>4. Front(name) = p /\ name # Root
      BY <1>7, <3>3, NameBelow
    <3>5. name \notin MadePlaces
      BY <1>4, <2>2, <3>4
    <3>6. name # top.place
      <4>1. name \notin DOMAIN file
        <5>1. SUFFICES ASSUME name \in DOMAIN file PROVE FALSE
          OBVIOUS
        <5>2. p \in DOMAIN file /\ ObjectAt(p).type \in Kinds
          BY <3>1, <1>7, NodeKinds
        <5> QED
          BY <1>1, <1>7, <5>1, <5>2, NameHasNoObject
      <4> QED
        BY <1>1, <4>1
    <3> QED
      BY <1>2, <1>3, <3>2, <3>5, <3>6
  <2> QED
    BY <2>1, <2>2
<1>8. ASSUME NEW p \in DOMAIN nodes' \ Places
      PROVE  /\ p # Root /\ Front(p) \in DOMAIN nodes' \cap Places
             /\ IsParameter(Front(p)) /\ p = Under(Front(p), "name", 0)
  <2>1. CASE p \in MadePlaces
    BY <1>1, <1>2, <1>4, <2>1 DEF IsParameter, NamePlace
  <2>2. CASE p \notin MadePlaces
    <3>1. p \in DOMAIN nodes \ Places
      BY <1>1, <1>2, <2>2
    <3> QED
      BY <1>2, <3>1 DEF MeansInv
  <2> QED
    BY <2>1, <2>2
<1>9. /\ \A p \in (DOMAIN nodes \cap Places)' :
            nodes'[p].type = ObjectAt(p).type /\ nodes'[p].members = MembersAt(p)
      /\ \A p \in (DOMAIN nodes \ Places)' :
            /\ p # Root /\ Front(p) \in (DOMAIN nodes \cap Places)'
            /\ IsParameter(Front(p)) /\ p = Under(Front(p), "name", 0)
      /\ \A p \in (DOMAIN nodes \cap Places)' :
            IsParameter(p) =>
               LET name == Under(p, "name", 0) IN
               /\ name \in DOMAIN nodes'
               /\ nodes'[name].type = "Identifier" /\ nodes'[name].members = NameMembers(p)
  BY <1>5, <1>6, <1>7, <1>8
<1> QED
  BY <1>5, <1>9 DEF MeansInv

\* Nothing is constructed at the start.
LEMMA MeansStarts ==
  ASSUME Init
  PROVE  MeansInv
<1>1. DOMAIN nodes = {}
  BY DEF Init
<1> QED
  BY <1>1 DEF MeansInv

\* Every step keeps the nodes' meaning: only Construct changes a node.
LEMMA MeansGoesOn ==
  ASSUME ImportInv, MeansInv, [Next]_vars
  PROVE  MeansInv'
<1>1. CASE Construct
  BY <1>1, ConstructKeepsMeaning
<1>2. CASE UNCHANGED <<file, keep, nodes>>
  BY <1>2 DEF MeansInv, Places, MembersAt, NameMembers, IsParameter, ObjectAt, Stored, SameNames, Arguments
<1> QED
  BY <1>1, <1>2 DEF Next, vars, ImportChild, RefuseWord, StartArray, ImportElement, FinishArray, Visit, EndWalk

\* The members of a node are what its object means, and a type parameter has its name below it: the
\* constructors that ran before and after it change neither.
THEOREM MeansInvariant == Spec => [](ImportInv /\ MeansInv)
<1>1. Init => ImportInv /\ MeansInv
  BY ImportStarts, MeansStarts
<1>2. ImportInv /\ MeansInv /\ [Next]_vars => (ImportInv /\ MeansInv)'
  BY ImportGoesOn, MeansGoesOn
<1> QED
  BY <1>1, <1>2, PTL DEF Spec

------------------------------------------------------------------------------------------
\* Every attribute is in the member that means it.
\* The member "name" means no attribute but the one of that name.
LEMMA MemberNamed ==
  ASSUME NEW type, NEW a, MemberFor(type, a) = "name"
  PROVE  a = "name"
BY DEF MemberFor

\* The rows of the root, which reads the body of the file.
LEMMA RootRows ==
  /\ DOMAIN RowsOf("Root", TRUE) = {1, 2} /\ DOMAIN RowsOf("Root", FALSE) = {1, 2}
  /\ RowsOf("Root", TRUE)[1].op = "List" /\ RowsOf("Root", TRUE)[1].attr = "body"
  /\ RowsOf("Root", TRUE)[2].op = "List" /\ RowsOf("Root", TRUE)[2].attr = "comments"
  /\ RowsOf("Root", FALSE)[2].op = "Nothing"
BY DEF RowsOf, RootImports, List, Nothing, Early, Argument

\* An attribute that some operations read is read by a row of one of them.
LEMMA AnyRow ==
  ASSUME file \in Files, keep \in BOOLEAN, NEW type \in Kinds, NEW ops, "List" \notin ops,
         NEW a \in Attributes(type, ops)
  PROVE  \E i \in DOMAIN Arguments(type) :
            Arguments(type)[i].attr = a /\ Arguments(type)[i].op \in ops
<1>1. PICK i \in DOMAIN RowsOf(type, TRUE) :
        RowsOf(type, TRUE)[i].attr = a /\ RowsOf(type, TRUE)[i].op \in ops
  BY RowOfAttribute
<1>2. CASE type = "Root"
  BY <1>1, <1>2, RootRows
<1>3. CASE type # "Root"
  BY <1>1, <1>3, RowWhenKept
<1> QED
  BY <1>2, <1>3

\* The member of a row, in a node made from its object.
LEMMA MemberOfRow ==
  ASSUME keep \in BOOLEAN, NEW p, NEW type \in Kinds, type = ObjectAt(p).type,
         NEW i \in DOMAIN Arguments(type), Arguments(type)[i].op # "Fixed",
         NEW a, a = Arguments(type)[i].attr
  PROVE  /\ MemberFor(type, a) = Constructors[type][i]
         /\ MembersAt(p)[MemberFor(type, a)] =
               IF type = "TypeParameter" /\ a = "name" THEN Under(p, "name", 0)
               ELSE Imported(p, ObjectAt(p), Arguments(type)[i])
<1>1. MemberFor(type, a) = Constructors[type][i]
  BY RowsMean DEF MembersFit
<1>2. PICK m : m = Constructors[type][i]
  OBVIOUS
<1>3. MembersAt(p)[m] = IF type = "TypeParameter" /\ m = "name" THEN Under(p, "name", 0)
                        ELSE Imported(p, ObjectAt(p), Arguments(type)[i])
  BY <1>2, MembersOfNode
<1>4. type = "TypeParameter" => (m = "name" <=> a = "name")
  <2>1. MemberFor("TypeParameter", "name") = "name"
    BY DEF MemberFor
  <2> QED
    BY <1>1, <1>2, <2>1, MemberNamed
<1> QED
  BY <1>1, <1>2, <1>3, <1>4

\* A child that the object has is in the member that means its attribute.
LEMMA KidsArrive ==
  ASSUME file \in Files, keep \in BOOLEAN, NEW p \in DOMAIN file, ObjectAt(p).type \in Kinds
  PROVE  KidsArrived(p, ObjectAt(p), MembersAt(p))
<1> DEFINE type == ObjectAt(p).type
           args == Arguments(type)
<1>1. SUFFICES ASSUME NEW a \in ObjectAt(p).kids
               PROVE  MembersAt(p)[MemberFor(type, a)] = Under(p, a, 0)
  BY DEF KidsArrived
<1>2. a \in Attributes(type, {"Child", "Maybe"})
  BY FileIsTree
<1>3. PICK i \in DOMAIN args : args[i].attr = a /\ args[i].op \in {"Child", "Maybe"}
  <2>1. PICK ops : ops = {"Child", "Maybe"}
    OBVIOUS
  <2>2. "List" \notin ops
    BY <2>1
  <2> QED
    BY <1>2, <2>1, <2>2, AnyRow
<1>4. ~(type = "TypeParameter" /\ a = "name")
  <2>1. RowsFit(type, args)
    BY RowsOfKind DEF Arguments
  <2> QED
    BY <1>3, <2>1 DEF RowsFit, ImportsNodes, ImportsOne
<1>5. MembersAt(p)[MemberFor(type, a)] = Imported(p, ObjectAt(p), args[i])
  BY <1>3, <1>4, MemberOfRow
<1>6. Imported(p, ObjectAt(p), args[i]) = Under(p, a, 0)
  BY <1>3 DEF Imported
<1> QED
  BY <1>5, <1>6

\* So is an array, with its holes.
LEMMA ArraysArrive ==
  ASSUME file \in Files, keep \in BOOLEAN, NEW p \in DOMAIN file, ObjectAt(p).type \in Kinds
  PROVE  ArraysArrived(p, ObjectAt(p), MembersAt(p))
<1> DEFINE type == ObjectAt(p).type
           args == Arguments(type)
           arrays == ObjectAt(p).arrays
<1>1. SUFFICES ASSUME NEW a \in DOMAIN arrays
               PROVE  MembersAt(p)[MemberFor(type, a)] =
                         IF a = "comments" /\ ~keep THEN << >> ELSE Elements(p, a, arrays[a])
  BY DEF ArraysArrived, Elements
<1>2. a \in Attributes(type, {"List", "ListIfAny"})
  BY FileIsTree
<1>3. PICK i \in DOMAIN RowsOf(type, TRUE) :
        RowsOf(type, TRUE)[i].attr = a /\ RowsOf(type, TRUE)[i].op \in {"List", "ListIfAny"}
  <2>1. PICK ops : ops = {"List", "ListIfAny"}
    OBVIOUS
  <2> QED
    BY <1>2, <2>1, RowOfAttribute
<1>4. ~(type = "TypeParameter" /\ a = "name")
  <2>1. RowsFit(type, RowsOf(type, TRUE))
    BY RowsOfKind
  <2> QED
    BY <1>3, <2>1 DEF RowsFit, ImportsNodes, ImportsMany
<1>5. CASE keep \/ a # "comments"
  <2>1. i \in DOMAIN args /\ args[i] = RowsOf(type, TRUE)[i]
    BY <1>3, <1>5, RowWhenKept
  <2>2. MembersAt(p)[MemberFor(type, a)] = Imported(p, ObjectAt(p), args[i])
    <3>1. args[i].op # "Fixed" /\ args[i].attr = a
      BY <1>3, <2>1
    <3> QED
      <4>1. PICK kind : kind = type
        OBVIOUS
      <4>2. /\ kind \in Kinds /\ kind = ObjectAt(p).type /\ ~(kind = "TypeParameter" /\ a = "name")
            /\ i \in DOMAIN Arguments(kind) /\ Arguments(kind)[i].op # "Fixed"
            /\ a = Arguments(kind)[i].attr
        BY <1>4, <2>1, <3>1, <4>1
      <4>3. MembersAt(p)[MemberFor(kind, a)] = Imported(p, ObjectAt(p), Arguments(kind)[i])
        BY <4>2, MemberOfRow
      <4> QED
        BY <4>1, <4>3
  <2>3. Imported(p, ObjectAt(p), args[i]) = Elements(p, a, arrays[a])
    BY <1>3, <2>1 DEF Imported
  <2> QED
    BY <1>5, <2>2, <2>3
<1>6. CASE ~keep /\ a = "comments"
  <2>1. MembersFit(type, RowsOf(type, TRUE))
    BY MeaningAssumption DEF MeaningAssumption
  <2>2. type = "Root" /\ Constructors[type][i] = MemberFor(type, a)
    BY <1>3, <1>6, <2>1 DEF MembersFit
  <2>3. i = 2
    BY <1>3, <1>6, <2>2, RootRows
  <2>4. i \in DOMAIN args /\ args[i].op = "Nothing"
    <3>1. keep = FALSE
      BY <1>6
    <3>2. args = RowsOf("Root", FALSE)
      BY <2>2, <3>1 DEF Arguments
    <3> HIDE DEF args
    <3> QED
      BY <2>3, <3>2, RootRows
  <2>5. PICK m : m = Constructors[type][i]
    OBVIOUS
  <2>6. MembersAt(p)[m] = Imported(p, ObjectAt(p), args[i])
    BY <2>2, <2>4, <2>5, MembersOfNode
  <2>7. Imported(p, ObjectAt(p), args[i]) = << >>
    BY <2>4 DEF Imported
  <2> QED
    BY <1>6, <2>2, <2>5, <2>6, <2>7
<1> QED
  BY <1>5, <1>6

\* So are a text and an answer.
LEMMA ValuesArrive ==
  ASSUME ImportInv, MeansInv, NEW p \in DOMAIN nodes \cap Places
  PROVE  ValuesArrived(ObjectAt(p), MembersAt(p))
<1> DEFINE object == ObjectAt(p)
           type == object.type
           args == Arguments(type)
<1>1. file \in Files /\ keep \in BOOLEAN /\ p \in DOMAIN file /\ type \in Kinds
  BY NodeKinds DEF ImportInv, Typing
<1>2. SUFFICES ASSUME NEW a \in Required(type) \cup DOMAIN object.values
               PROVE  LET member == MembersAt(p)[MemberFor(type, a)] IN
                      CASE type = "TypeParameter" -> nodes[member].members[a] = ValueOf(object, a)
                        [] type = "ImportSpecifier" ->
                              member = IF ValueOf(object, a) = "type" THEN a ELSE No
                        [] OTHER -> member = ValueOf(object, a)
  BY DEF ValuesArrived
<1>3. PICK i \in DOMAIN args :
        /\ args[i].attr = a /\ args[i].op \in ValueReaders
        /\ args[i].op \in {"Value", "Word"} \/ a \in DOMAIN object.values
  <2>1. CASE a \in Required(type)
    BY <2>1 DEF Required, ToSet, ValueReaders
  <2>2. CASE a \in DOMAIN object.values
    <3>1. a \in Attributes(type, ValueReaders) /\ "List" \notin ValueReaders
      BY <1>1, <2>2, FileMeans DEF ValueReaders
    <3> QED
      BY <1>1, <2>2, <3>1, AnyRow
  <2> QED
    BY <2>1, <2>2
<1>4. /\ args[i].op = "IfType" <=> type = "ImportSpecifier"
      /\ type = "TypeParameter" => a = "name"
  BY <1>1, <1>3, RowsMean DEF MembersFit
<1>5. MembersAt(p)[MemberFor(type, a)] =
        IF type = "TypeParameter" /\ a = "name" THEN Under(p, "name", 0) ELSE Imported(p, object, args[i])
  <2>1. args[i].op # "Fixed"
    BY <1>3 DEF ValueReaders
  <2> QED
    BY <1>1, <1>3, <2>1, MemberOfRow
<1>6. CASE type = "TypeParameter"
  <2>1. nodes[Under(p, "name", 0)].members = NameMembers(p)
    BY <1>6 DEF MeansInv, IsParameter
  <2>2. NameMembers(p)["name"] = ValueOf(object, "name")
    BY DEF NameMembers
  <2> QED
    BY <1>4, <1>5, <1>6, <2>1, <2>2
<1>7. CASE type = "ImportSpecifier"
  <2>1. args[i].op = "IfType" /\ a \in DOMAIN object.values
    BY <1>3, <1>4, <1>7
  <2>2. Imported(p, object, args[i]) = IF ValueOf(object, a) = "type" THEN a ELSE No
    BY <1>3, <2>1 DEF Imported, ValueOf
  <2> QED
    BY <1>5, <1>7, <2>2
<1>8. CASE type # "TypeParameter" /\ type # "ImportSpecifier"
  <2>1. args[i].op \in {"Value", "ValueIfAny", "Word", "WordIfAny"}
    BY <1>3, <1>4, <1>8 DEF ValueReaders
  <2>2. Imported(p, object, args[i]) = ValueOf(object, a)
    BY <1>3, <2>1 DEF Imported, ValueOf
  <2> QED
    BY <1>5, <1>8, <2>2
<1> QED
  BY <1>6, <1>7, <1>8

\* A node with its object's members has every attribute in the member that means it.
LEMMA MembersAreKept ==
  ASSUME ImportInv, MeansInv
  PROVE  MembersKeepMeaning
<1>1. SUFFICES ASSUME NEW p \in DOMAIN nodes \cap Places
               PROVE  /\ DOMAIN nodes[p].members = Members[ObjectAt(p).type]
                      /\ KidsArrived(p, ObjectAt(p), nodes[p].members)
                      /\ ArraysArrived(p, ObjectAt(p), nodes[p].members)
                      /\ ValuesArrived(ObjectAt(p), nodes[p].members)
  BY DEF MembersKeepMeaning
<1>2. nodes[p].members = MembersAt(p)
  BY DEF MeansInv
<1>3. file \in Files /\ keep \in BOOLEAN /\ p \in DOMAIN file /\ ObjectAt(p).type \in Kinds
  BY NodeKinds DEF ImportInv, Typing
<1> QED
  BY <1>2, <1>3, MembersOfNode, KidsArrive, ArraysArrive, ValuesArrive

\* Every attribute of an object that Babel made has arrived in the member that means it, and every
\* member of the node's class has a value, whatever the file, the order of the arguments and the
\* width of the index: from the rows of the four tables alone.
THEOREM MembersKeep == Spec => []MembersKeepMeaning
<1>1. ImportInv /\ MeansInv => MembersKeepMeaning
  BY MembersAreKept
<1> QED
  BY <1>1, MeansInvariant, PTL

------------------------------------------------------------------------------------------
\* How often a node occurs in a sequence.
Positions(s, c) == {i \in DOMAIN s : s[i] = c}

\* Two sets with a bijection between them are of one size.
LEMMA SameSize ==
  ASSUME NEW S, NEW T, IsFiniteSet(S), NEW f \in [S -> T],
         \A x, y \in S : f[x] = f[y] => x = y, \A t \in T : \E x \in S : f[x] = t
  PROVE  IsFiniteSet(T) /\ Cardinality(T) = Cardinality(S)
<1>1. f \in Bijection(S, T)
  BY Fun_IsBij
<1>2. ExistsBijection(S, T)
  BY <1>1 DEF ExistsBijection
<1> QED
  BY <1>2, FS_Bijection

\* A sequence holds a value at finitely many places.
LEMMA PositionsFinite ==
  ASSUME NEW S, NEW s \in Seq(S), NEW c
  PROVE  /\ DOMAIN s \subseteq Nat /\ IsFiniteSet(DOMAIN s)
         /\ IsFiniteSet(Positions(s, c)) /\ Cardinality(Positions(s, c)) \in Nat
<1>1. Len(s) \in Nat /\ DOMAIN s = 1..Len(s)
  OBVIOUS
<1>2. IsFiniteSet(DOMAIN s)
  BY <1>1, FS_Interval
<1>3. Positions(s, c) \in SUBSET (DOMAIN s)
  BY DEF Positions
<1>4. IsFiniteSet(Positions(s, c))
  BY <1>2, <1>3, FS_Subset
<1> QED
  BY <1>1, <1>2, <1>4, FS_CardinalityType

\* The elements of two sequences in a row.
LEMMA ConcatAt ==
  ASSUME NEW S, NEW a \in Seq(S), NEW b \in Seq(S)
  PROVE  /\ a \o b \in Seq(S) /\ Len(a) \in Nat /\ Len(b) \in Nat
         /\ DOMAIN a = 1..Len(a) /\ DOMAIN b = 1..Len(b) /\ DOMAIN (a \o b) = 1..(Len(a) + Len(b))
         /\ \A i \in 1..Len(a) : (a \o b)[i] = a[i]
         /\ \A i \in 1..Len(b) : (a \o b)[i + Len(a)] = b[i]
         /\ \A i \in 1..(Len(a) + Len(b)) : i > Len(a) => i - Len(a) \in 1..Len(b) /\ (a \o b)[i] = b[i - Len(a)]
OBVIOUS

\* A value occurs in them as often as in the one and in the other.
LEMMA PositionsAdd ==
  ASSUME NEW S, NEW a \in Seq(S), NEW b \in Seq(S), NEW c
  PROVE  Cardinality(Positions(a \o b, c)) = Cardinality(Positions(a, c)) + Cardinality(Positions(b, c))
<1> DEFINE n == Len(a)
           whole == a \o b
           moved == {i \in Positions(whole, c) : i > n}
           f == [i \in Positions(b, c) |-> i + n]
<1>1. /\ whole \in Seq(S) /\ n \in Nat /\ Len(b) \in Nat
      /\ DOMAIN a = 1..n /\ DOMAIN b = 1..Len(b) /\ DOMAIN whole = 1..(n + Len(b))
      /\ \A i \in 1..n : whole[i] = a[i]
      /\ \A i \in 1..Len(b) : whole[i + n] = b[i]
      /\ \A i \in 1..(n + Len(b)) : i > n => i - n \in 1..Len(b) /\ whole[i] = b[i - n]
  BY ConcatAt
<1> HIDE DEF whole, n
<1>2. Positions(whole, c) = Positions(a, c) \cup moved /\ Positions(a, c) \cap moved = {}
  BY <1>1 DEF Positions
<1>3. Cardinality(moved) = Cardinality(Positions(b, c)) /\ IsFiniteSet(moved)
  <2>1. f \in [Positions(b, c) -> moved]
    BY <1>1 DEF Positions
  <2>2. \A x, y \in Positions(b, c) : f[x] = f[y] => x = y
    BY <1>1 DEF Positions
  <2>3. ASSUME NEW t \in moved PROVE \E x \in Positions(b, c) : f[x] = t
    <3>1. t - n \in Positions(b, c) /\ (t - n) + n = t
      BY <1>1, <2>3 DEF Positions
    <3> QED
      BY <3>1
  <2> HIDE DEF f, moved
  <2>4. IsFiniteSet(Positions(b, c))
    BY PositionsFinite
  <2> QED
    BY <2>1, <2>2, <2>3, <2>4, SameSize
<1>4. IsFiniteSet(Positions(a, c)) /\ Cardinality(Positions(a, c)) \in Nat /\ Cardinality(Positions(b, c)) \in Nat
  BY PositionsFinite
<1>5. Cardinality(Positions(a, c) \cup moved) =
        Cardinality(Positions(a, c)) + Cardinality(moved) - Cardinality(Positions(a, c) \cap moved)
  BY <1>3, <1>4, FS_Union
<1>6. Cardinality(Positions(a, c) \cap moved) = 0
  BY <1>2, FS_EmptySet
<1> HIDE DEF moved
<1> QED
  BY <1>2, <1>3, <1>4, <1>5, <1>6 DEF whole

\* Where a node occurs at most once in each sequence, it occurs in the sequences one after the other
\* as often as there are sequences it occurs in.
LEMMA FlattenCounts ==
  ASSUME NEW S, NEW ss \in Seq(Seq(S)), NEW c, NEW N \in SUBSET (DOMAIN ss),
         \A i \in N : Cardinality(Positions(ss[i], c)) = 1,
         \A i \in DOMAIN ss \ N : Cardinality(Positions(ss[i], c)) = 0
  PROVE  Cardinality(Positions(FlattenSeq(ss), c)) = Cardinality(N)
<1> DEFINE n == Len(ss)
<1>1. n \in Nat /\ DOMAIN ss = 1..n /\ \A i \in 1..n : ss[i] \in Seq(S)
  OBVIOUS
<1>2. CASE n = 0
  <2>1. N = {}
    BY <1>1, <1>2
  <2>2. FlattenSeq(ss) = ss
    BY <1>2 DEF FlattenSeq
  <2>3. Positions(ss, c) = {}
    BY <1>1, <1>2 DEF Positions
  <2> QED
    BY <2>1, <2>2, <2>3
<1>3. CASE n # 0
  <2>1. PICK h : FlattensAs(ss, h) /\ \A i \in 1..n : h[i] \in Seq(S)
    BY <1>3, FlattenSteps
  <2> DEFINE Upto(i) == {k \in N : k <= i}
             Wrong == {i \in 1..n : Cardinality(Positions(h[i], c)) # Cardinality(Upto(i))}
  <2>2. ASSUME NEW i \in 1..n
        PROVE  /\ IsFiniteSet(Upto(i)) /\ IsFiniteSet(Upto(i - 1)) /\ Cardinality(Upto(i - 1)) \in Nat
               /\ Cardinality(Upto(i)) = Cardinality(Upto(i - 1)) + Cardinality(Positions(ss[i], c))
    <3>1. IsFiniteSet(1..n)
      BY <1>1, FS_Interval
    <3>2. Upto(i) \in SUBSET (1..n) /\ Upto(i - 1) \in SUBSET (1..n)
      BY <1>1
    <3>3. i \notin Upto(i - 1)
      BY <1>1
    <3>4. CASE i \in N
      <4>1. Upto(i) = Upto(i - 1) \cup {i}
        BY <1>1, <3>4
      <4> HIDE DEF Upto
      <4>2. IsFiniteSet(Upto(i - 1))
        BY <3>1, <3>2, FS_Subset
      <4>3. IsFiniteSet(Upto(i)) /\ Cardinality(Upto(i)) = Cardinality(Upto(i - 1)) + 1
        <5>1. PICK before : before = Upto(i - 1)
          OBVIOUS
        <5>2. IsFiniteSet(before) /\ i \notin before
          BY <3>3, <4>2, <5>1
        <5>3. IsFiniteSet(before \cup {i}) /\ Cardinality(before \cup {i}) = Cardinality(before) + 1
          BY <5>2, FS_AddElement
        <5> QED
          BY <4>1, <5>1, <5>3
      <4>4. Cardinality(Upto(i - 1)) \in Nat
        BY <4>2, FS_CardinalityType
      <4>5. Cardinality(Positions(ss[i], c)) = 1
        BY <3>4
      <4> QED
        BY <4>2, <4>3, <4>4, <4>5
    <3>5. CASE i \notin N
      <4>1. Upto(i) = Upto(i - 1)
        BY <1>1, <3>5
      <4>2. Cardinality(Positions(ss[i], c)) = 0
        BY <1>1, <3>5
      <4> HIDE DEF Upto
      <4>3. IsFiniteSet(Upto(i - 1)) /\ Cardinality(Upto(i - 1)) \in Nat
        BY <3>1, <3>2, FS_Subset, FS_CardinalityType
      <4> QED
        BY <4>1, <4>2, <4>3
    <3> QED
      BY <3>4, <3>5
  <2>3. Wrong = {}
    <3>1. SUFFICES ASSUME Wrong # {} PROVE FALSE
      OBVIOUS
    <3>2. Wrong \in SUBSET Nat
      BY <1>1
    <3>3. PICK i \in Wrong : \A k \in Wrong : i <= k
      BY <3>1, <3>2, LeastNumber
    <3>4. i \in 1..n /\ h[i] = IF i = 1 THEN ss[i] ELSE h[i - 1] \o ss[i]
      BY <2>1, <3>3 DEF FlattensAs
    <3>5. Cardinality(Positions(h[i], c)) = Cardinality(Upto(i))
      <4>1. CASE i = 1
        <5>1. Upto(i - 1) = {}
          BY <1>1, <4>1
        <5>2. Cardinality(Upto(i - 1)) = 0
          BY <5>1, FS_EmptySet
        <5> HIDE DEF Upto
        <5>3. Cardinality(Positions(ss[i], c)) \in Nat
          BY <1>1, <3>4, PositionsFinite
        <5> QED
          BY <2>2, <3>4, <4>1, <5>2, <5>3
      <4>2. CASE i # 1
        <5>1. i - 1 \in 1..n /\ i - 1 < i /\ ss[i] \in Seq(S) /\ h[i - 1] \in Seq(S)
          BY <1>1, <2>1, <3>4, <4>2
        <5>2. i - 1 \notin Wrong
          <6> HIDE DEF Wrong
          <6> QED
            BY <3>3, <3>4, <5>1
        <5>3. Cardinality(Positions(h[i - 1], c)) = Cardinality(Upto(i - 1))
          BY <5>1, <5>2
        <5> HIDE DEF Upto, Wrong
        <5>4. Cardinality(Positions(h[i - 1] \o ss[i], c)) =
                Cardinality(Positions(h[i - 1], c)) + Cardinality(Positions(ss[i], c))
          BY <5>1, PositionsAdd
        <5> QED
          BY <2>2, <3>4, <4>2, <5>3, <5>4
      <4> QED
        BY <4>1, <4>2
    <3> QED
      BY <3>3, <3>5
  <2>4. n \in 1..n
    BY <1>1, <1>3
  <2>5. Upto(n) = N
    BY <1>1
  <2>6. Cardinality(Positions(h[n], c)) = Cardinality(Upto(n))
    BY <2>3, <2>4
  <2> QED
    BY <2>1, <2>5, <2>6 DEF FlattensAs
<1> QED
  BY <1>2, <1>3

------------------------------------------------------------------------------------------
\* The path to a node: the nodes it leads through.
LEMMA PathsAgree ==
  ASSUME NEW p \in Paths, NEW q \in Paths, Len(p) = Len(q), \A k \in 1..Len(p) : p[k] = q[k]
  PROVE  p = q
BY DEF Paths

\* A prefix of a path is a path, and is that path up to its own length.
LEMMA PrefixIs ==
  ASSUME NEW q \in Paths, NEW p
  PROVE  p \in Prefixes(q) <=>
            p \in Paths /\ Len(p) <= Len(q) /\ \A k \in 1..Len(p) : p[k] = q[k]
<1>1. Len(q) \in Nat /\ q \in Seq(STRING \X Nat)
  BY DEF Paths
<1>2. ASSUME NEW n \in 0..Len(q)
      PROVE  LET s == SubSeq(q, 1, n) IN
             s \in Seq(STRING \X Nat) /\ Len(s) = n /\ \A k \in 1..n : s[k] = q[k]
  BY <1>1
<1>3. ASSUME p \in Prefixes(q)
      PROVE  p \in Paths /\ Len(p) <= Len(q) /\ \A k \in 1..Len(p) : p[k] = q[k]
  <2>1. PICK n \in 0..Len(q) : p = SubSeq(q, 1, n)
    BY <1>3 DEF Prefixes
  <2> QED
    BY <1>1, <1>2, <2>1 DEF Paths
<1>4. ASSUME p \in Paths, Len(p) <= Len(q), \A k \in 1..Len(p) : p[k] = q[k]
      PROVE  p \in Prefixes(q)
  <2>1. Len(p) \in 0..Len(q) /\ p \in Seq(STRING \X Nat)
    BY <1>1, <1>4 DEF Paths
  <2>2. PICK s : s = SubSeq(q, 1, Len(p))
    OBVIOUS
  <2>3. s \in Seq(STRING \X Nat) /\ Len(s) = Len(p) /\ \A k \in 1..Len(p) : s[k] = p[k]
    BY <1>2, <1>4, <2>1, <2>2
  <2>4. s = p
    BY <1>4, <2>1, <2>3, PathsAgree DEF Paths
  <2> QED
    BY <2>1, <2>2, <2>4 DEF Prefixes
<1> QED
  BY <1>3, <1>4

\* A path leads through the root, itself, and whatever its own prefixes lead through.
LEMMA PrefixesOf ==
  ASSUME NEW q \in Paths
  PROVE  /\ q \in Prefixes(q) /\ Root \in Prefixes(q) /\ Prefixes(q) \subseteq Paths
         /\ \A p \in Prefixes(q) : Prefixes(p) \subseteq Prefixes(q)
         /\ Prefixes(Root) = {Root}
<1>1. Root \in Paths /\ Len(Root) = 0 /\ Len(q) \in Nat
  BY DEF Root, Paths
<1>2. \A p \in Paths : Len(p) \in Nat /\ (Len(p) = 0 => p = Root)
  BY DEF Root, Paths
<1>3. \A p : p \in Prefixes(q) <=>
         p \in Paths /\ Len(p) <= Len(q) /\ \A k \in 1..Len(p) : p[k] = q[k]
  BY PrefixIs
<1>4. ASSUME NEW p \in Prefixes(q), NEW r \in Prefixes(p) PROVE r \in Prefixes(q)
  <2>1. p \in Paths /\ Len(p) \in Nat /\ Len(p) <= Len(q) /\ \A k \in 1..Len(p) : p[k] = q[k]
    BY <1>2, <1>3
  <2>2. r \in Paths /\ Len(r) \in Nat /\ Len(r) <= Len(p) /\ \A k \in 1..Len(r) : r[k] = p[k]
    BY <1>2, <2>1, PrefixIs
  <2> QED
    BY <1>1, <1>3, <2>1, <2>2
<1>5. \A p : p \in Prefixes(Root) <=>
         p \in Paths /\ Len(p) <= 0 /\ \A k \in 1..Len(p) : p[k] = Root[k]
  BY <1>1, PrefixIs
<1>6. Prefixes(Root) = {Root}
  BY <1>1, <1>2, <1>5
<1> QED
  BY <1>1, <1>3, <1>4, <1>6

\* The steps of a path without its last one.
LEMMA FrontAt ==
  ASSUME NEW q \in Paths, q # Root
  PROVE  /\ Len(q) \in Nat /\ Len(q) >= 1 /\ Front(q) \in Paths /\ Len(Front(q)) = Len(q) - 1
         /\ \A k \in 1..(Len(q) - 1) : Front(q)[k] = q[k]
<1>1. Len(q) \in Nat /\ Len(q) >= 1 /\ Front(q) \in Paths /\ Len(Front(q)) = Len(q) - 1
  BY BelowIsUnder
<1>2. Front(q) = SubSeq(q, 1, Len(q) - 1)
  BY DEF Front
<1>3. \A k \in 1..(Len(q) - 1) : SubSeq(q, 1, Len(q) - 1)[k] = q[k]
  BY <1>1 DEF Paths
<1> QED
  BY <1>1, <1>2, <1>3

\* The prefixes of a path: those of the path without its last step, and the path itself.
LEMMA PrefixesAround ==
  ASSUME NEW q \in Paths, q # Root
  PROVE  /\ Prefixes(q) = Prefixes(Front(q)) \cup {q} /\ q \notin Prefixes(Front(q))
         /\ Front(q) \in Prefixes(q)
<1>1. /\ Len(q) \in Nat /\ Len(q) >= 1 /\ Front(q) \in Paths /\ Len(Front(q)) = Len(q) - 1
      /\ \A k \in 1..(Len(q) - 1) : Front(q)[k] = q[k]
  BY FrontAt
<1>2. Front(q) \in Prefixes(q)
  BY <1>1, PrefixIs
<1>3. q \notin Prefixes(Front(q))
  BY <1>1, PrefixIs
<1> QED
  BY <1>1, <1>2, <1>3, PrefixesOf, PrefixesBelow

\* The step from a node towards one below it.
LEMMA StepTowards ==
  ASSUME NEW q \in Paths, NEW h \in Prefixes(q), h # q
  PROVE  \E c \in Prefixes(q) :
            /\ c # Root /\ Front(c) = h
            /\ \A d \in Prefixes(q) : d # Root /\ Front(d) = h => d = c
<1> DEFINE n == Len(h)
           c == SubSeq(q, 1, n + 1)
<1>1. Len(q) \in Nat /\ h \in Paths /\ n \in Nat /\ n <= Len(q) /\ \A k \in 1..n : h[k] = q[k]
  BY PrefixIs DEF Paths
<1>2. n < Len(q)
  <2>1. n = Len(q) => h = q
    BY <1>1, PathsAgree
  <2> QED
    BY <1>1, <2>1
<1>3. /\ c \in Paths /\ Len(c) = n + 1 /\ \A k \in 1..(n + 1) : c[k] = q[k]
  BY <1>1, <1>2 DEF Paths
<1> HIDE DEF c, n
<1>4. c \in Prefixes(q) /\ c # Root
  BY <1>1, <1>2, <1>3, PrefixIs DEF Root
<1>5. ASSUME NEW d \in Paths, d # Root
      PROVE  /\ Front(d) \in Paths /\ Len(Front(d)) = Len(d) - 1 /\ Len(d) \in Nat
             /\ \A k \in 1..(Len(d) - 1) : Front(d)[k] = d[k]
  BY <1>5, FrontAt
<1>6. Front(c) = h
  <2>1. /\ Front(c) \in Paths /\ Len(Front(c)) = n
        /\ \A k \in 1..n : Front(c)[k] = c[k]
    BY <1>1, <1>3, <1>4, <1>5
  <2>2. \A k \in 1..n : Front(c)[k] = h[k]
    BY <1>1, <1>3, <2>1
  <2>3. Len(h) = n
    BY DEF n
  <2> QED
    BY <1>1, <2>1, <2>2, <2>3, PathsAgree
<1>7. ASSUME NEW d \in Prefixes(q), d # Root, Front(d) = h PROVE d = c
  <2>1. d \in Paths /\ \A k \in 1..Len(d) : d[k] = q[k]
    BY PrefixIs
  <2>2. Len(d) = n + 1
    <3>1. Len(d) \in Nat /\ Len(Front(d)) = Len(d) - 1
      BY <1>5, <1>7, <2>1
    <3> QED
      BY <1>1, <1>7, <3>1 DEF n
  <2>3. \A k \in 1..Len(d) : d[k] = c[k]
    BY <1>1, <1>3, <2>1, <2>2
  <2> QED
    BY <1>1, <1>3, <2>1, <2>2, <2>3, PathsAgree
<1> QED
  BY <1>4, <1>6, <1>7

\* A path has finitely many prefixes.
LEMMA PrefixesFinite ==
  ASSUME NEW q \in Paths
  PROVE  IsFiniteSet(Prefixes(q))
<1> DEFINE f == [n \in 0..Len(q) |-> SubSeq(q, 1, n)]
<1>1. IsFiniteSet(0..Len(q))
  <2>1. Len(q) \in Nat
    BY DEF Paths
  <2> QED
    BY <2>1, FS_Interval
<1>2. f \in Surjection(0..Len(q), Prefixes(q))
  BY DEF Surjection, Prefixes
<1> QED
  BY <1>1, <1>2, FS_Surjection

------------------------------------------------------------------------------------------
\* Where a walk may come: step by step from the file.
DoubledStep(c) == Last(c)[1] = "returnType" /\ ObjectAt(Front(c)).type \in ClassMethods
HiddenStep(c) ==
    \/ Front(c) = Root /\ Last(c)[1] = "comments"
    \/ /\ ObjectAt(Front(c)).type = "ImportSpecifier" /\ Last(c)[1] = "imported"
       /\ ValueOf(ObjectAt(c), "name") = ValueOf(ObjectAt(Under(Front(c), "local", 0)), "name")
Reached(q) == ~IsHidden(q) /\ \A p \in Prefixes(q) \ {q} : ~Closed(p)

\* The steps that are handed over twice, on the way to a node and to one below it.
LEMMA DoubledBelow ==
  ASSUME NEW q \in Paths, q # Root
  PROVE  /\ DoubledSteps(q) = DoubledSteps(Front(q)) \cup (IF DoubledStep(q) THEN {q} ELSE {})
         /\ q \notin DoubledSteps(Front(q))
<1>1. Prefixes(q) = Prefixes(Front(q)) \cup {q} /\ q \notin Prefixes(Front(q))
  BY PrefixesAround
<1> QED
  BY <1>1 DEF DoubledSteps, DoubledStep

\* They are finitely many, and for a node on the way they are those up to that node.
LEMMA DoubledFacts ==
  ASSUME NEW q \in Paths
  PROVE  /\ IsFiniteSet(DoubledSteps(q)) /\ DoubledSteps(q) \subseteq Prefixes(q)
         /\ DoubledSteps(Root) = {}
         /\ \A p \in Prefixes(q) : DoubledSteps(p) = DoubledSteps(q) \cap Prefixes(p)
<1>1. DoubledSteps(q) \subseteq Prefixes(q)
  BY DEF DoubledSteps
<1>2. IsFiniteSet(DoubledSteps(q))
  BY <1>1, PrefixesFinite, FS_Subset
<1>3. \A p \in Prefixes(q) : DoubledSteps(p) = DoubledSteps(q) \cap Prefixes(p)
  <2>1. \A p \in Prefixes(q) : Prefixes(p) \subseteq Prefixes(q)
    BY PrefixesOf
  <2> QED
    BY <2>1 DEF DoubledSteps
<1>4. DoubledSteps(Root) = {}
  BY PrefixesOf DEF DoubledSteps
<1> QED
  BY <1>1, <1>2, <1>3, <1>4

\* What is below a hidden node is hidden.
LEMMA HiddenBelow ==
  ASSUME NEW q \in Paths, q # Root
  PROVE  IsHidden(q) <=> IsHidden(Front(q)) \/ HiddenStep(q)
<1>1. Prefixes(q) = Prefixes(Front(q)) \cup {q}
  BY PrefixesAround
<1> DEFINE ByName(p) ==
             /\ ObjectAt(Front(p)).type = "ImportSpecifier"
             /\ Last(p)[1] = "imported"
             /\ ValueOf(ObjectAt(p), "name") = ValueOf(ObjectAt(Under(Front(p), "local", 0)), "name")
<1>2. IsHidden(q) <=> IsComment(q) \/ \E p \in Prefixes(q) \ {Root} : ByName(p)
  BY DEF IsHidden
<1>3. IsHidden(Front(q)) <=> IsComment(Front(q)) \/ \E p \in Prefixes(Front(q)) \ {Root} : ByName(p)
  BY DEF IsHidden
<1>4. HiddenStep(q) <=> (Front(q) = Root /\ Last(q)[1] = "comments") \/ ByName(q)
  BY DEF HiddenStep
<1>5. IsComment(q) <=> IsComment(Front(q)) \/ (Front(q) = Root /\ Last(q)[1] = "comments")
  <2>1. ~IsComment(Root)
    BY DEF IsComment
  <2> QED
    BY <2>1, CommentsAreWhole
<1> HIDE DEF ByName
<1> QED
  BY <1>1, <1>2, <1>3, <1>4, <1>5

\* A node is hidden when a step on the way to it is.
LEMMA HiddenAlong ==
  ASSUME NEW q \in Paths, NEW c \in Prefixes(q), c # Root, HiddenStep(c)
  PROVE  IsHidden(q)
<1>1. CASE Front(c) = Root /\ Last(c)[1] = "comments"
  <2>1. /\ c \in Paths /\ Len(c) <= Len(q) /\ \A k \in 1..Len(c) : c[k] = q[k]
        /\ Len(q) \in Nat
    BY PrefixIs DEF Paths
  <2>2. Len(c) \in Nat /\ Len(c) >= 1
    BY <2>1, FrontAt
  <2>3. IsComment(c)
    BY <1>1, <2>1, CommentsAreWhole
  <2>4. q[1] = c[1] /\ q # Root
    BY <2>1, <2>2 DEF Root
  <2> QED
    BY <2>3, <2>4 DEF IsComment, IsHidden
<1>2. CASE ~(Front(c) = Root /\ Last(c)[1] = "comments")
  BY <1>2 DEF HiddenStep, IsHidden
<1> QED
  BY <1>1, <1>2

\* A walk reaches a child through the node around it.
LEMMA ReachedBelow ==
  ASSUME NEW q \in Paths, q # Root
  PROVE  Reached(q) <=> Reached(Front(q)) /\ ~Closed(Front(q)) /\ ~HiddenStep(q)
<1>1. Prefixes(q) \ {q} = Prefixes(Front(q)) /\ Front(q) \in Prefixes(Front(q))
  <2>1. Front(q) \in Paths
    BY BelowIsUnder
  <2> QED
    BY <2>1, PrefixesAround, PrefixesOf
<1>2. Reached(q) <=> ~IsHidden(q) /\ \A p \in Prefixes(Front(q)) : ~Closed(p)
  BY <1>1 DEF Reached
<1>3. Reached(Front(q)) <=> ~IsHidden(Front(q)) /\ \A p \in Prefixes(Front(q)) \ {Front(q)} : ~Closed(p)
  BY DEF Reached
<1> QED
  BY <1>1, <1>2, <1>3, HiddenBelow

------------------------------------------------------------------------------------------
\* How often a walk hands a child over.
LEMMA PresentCounts ==
  ASSUME NEW child, NEW c, c # Null
  PROVE  Cardinality(Positions(Present(child), c)) = IF child = c THEN 1 ELSE 0
<1>1. CASE child = c
  <2>1. Positions(Present(child), c) = {1}
    BY <1>1 DEF Positions, Present
  <2> QED
    BY <1>1, <2>1, FS_Singleton
<1>2. CASE child # c
  <2>1. Positions(Present(child), c) = {}
    BY <1>2 DEF Positions, Present
  <2> QED
    BY <1>2, <2>1, FS_EmptySet
<1> QED
  BY <1>1, <1>2

Skipped(members, w) == w.unless # No /\ members[w.unless]
\* A row hands a node over as often as the member holds it, unless it is skipped.
LEMMA HandedCounts ==
  ASSUME NEW members, NEW w \in WalkRows, NEW c, c # Null,
         w.many => members[w.member] \in Seq(Paths \cup {Null})
  PROVE  Cardinality(Positions(Handed(members, w), c)) =
            IF w.many THEN Cardinality(Positions(members[w.member], c))
            ELSE IF Skipped(members, w) \/ members[w.member] # c THEN 0 ELSE 1
<1>1. w.many \in BOOLEAN
  BY DEF WalkRows
<1>2. CASE w.many
  <2>1. PICK m : m = members[w.member]
    OBVIOUS
  <2>2. m \in Seq(Paths \cup {Null})
    BY <1>2, <2>1
  <2> DEFINE ss == [i \in DOMAIN m |-> Present(m[i])]
  <2>3. Handed(members, w) = FlattenSeq(ss)
    BY <1>2, <2>1 DEF Handed
  <2>4. ss \in Seq(Seq(Paths \cup {Null})) /\ DOMAIN ss = DOMAIN m /\ \A i \in DOMAIN m : ss[i] = Present(m[i])
    <3>1. ASSUME NEW child \in Paths \cup {Null} PROVE Present(child) \in Seq(Paths \cup {Null})
      <4>1. << >> \in Seq(Paths \cup {Null}) /\ <<child>> \in Seq(Paths \cup {Null})
        OBVIOUS
      <4> QED
        BY <4>1 DEF Present
    <3>2. \A i \in DOMAIN m : Present(m[i]) \in Seq(Paths \cup {Null})
      BY <2>2, <3>1
    <3> QED
      BY <2>2, <3>2
  <2>5. Positions(m, c) \in SUBSET (DOMAIN ss)
    BY <2>4 DEF Positions
  <2> HIDE DEF ss
  <2> DEFINE Times(s) == Cardinality(Positions(s, c))
  <2>6. \A child : Times(Present(child)) = IF child = c THEN 1 ELSE 0
    BY PresentCounts
  <2>7. \A i \in DOMAIN m : i \in Positions(m, c) <=> m[i] = c
    BY DEF Positions
  <2>8. Positions(m, c) \subseteq DOMAIN m
    BY DEF Positions
  <2> HIDE DEF Times
  <2>9. /\ \A i \in Positions(m, c) : Times(ss[i]) = 1
        /\ \A i \in DOMAIN ss \ Positions(m, c) : Times(ss[i]) = 0
    BY <2>4, <2>6, <2>7, <2>8
  <2>10. Times(FlattenSeq(ss)) = Cardinality(Positions(m, c))
    BY <2>4, <2>5, <2>9, FlattenCounts DEF Times
  <2> QED
    BY <1>2, <2>1, <2>3, <2>10 DEF Times
<1>3. CASE ~w.many
  <2>1. CASE Skipped(members, w)
    <3>1. Handed(members, w) = << >>
      BY <1>3, <2>1 DEF Handed, Skipped
    <3>2. Positions(<< >>, c) = {}
      BY DEF Positions
    <3> QED
      BY <1>3, <2>1, <3>1, <3>2, FS_EmptySet
  <2>2. CASE ~Skipped(members, w)
    <3>1. Handed(members, w) = Present(members[w.member])
      BY <1>3, <2>2 DEF Handed, Skipped
    <3> QED
      BY <1>3, <2>2, <3>1, PresentCounts
  <2> QED
    BY <2>1, <2>2
<1> QED
  BY <1>1, <1>2, <1>3

------------------------------------------------------------------------------------------
\* The children of a node, in its members and in the rows of its walk.
\* What an argument holds is below the object, or missing.
LEMMA ImportedBelow ==
  ASSUME file \in Files, keep \in BOOLEAN, NEW p \in DOMAIN file, NEW type \in Kinds,
         type = ObjectAt(p).type, NEW i \in DOMAIN Arguments(type),
         NEW v, v = Imported(p, ObjectAt(p), Arguments(type)[i])
  PROVE  LET a == Arguments(type)[i] IN
         /\ ImportsOne(a) =>
               v = IF a.op = "Child" \/ a.attr \in ObjectAt(p).kids THEN Under(p, a.attr, 0) ELSE Null
         /\ a.op = "Nothing" => v = << >>
         /\ ImportsMany(a) =>
               v = IF a.attr \in DOMAIN ObjectAt(p).arrays THEN Elements(p, a.attr, ArrayOf(p, a.attr))
                   ELSE << >>
BY DEF ImportsOne, ImportsMany, Imported, ArrayOf

\* The elements of an array of objects: below the object, or missing.
LEMMA ElementsBelow ==
  ASSUME NEW p \in Paths, NEW attr \in STRING, NEW array \in Seq(BOOLEAN)
  PROVE  /\ Elements(p, attr, array) \in Seq(Paths \cup {Null})
         /\ DOMAIN Elements(p, attr, array) = DOMAIN array
         /\ \A k \in DOMAIN array : Elements(p, attr, array)[k] = IF array[k] THEN Under(p, attr, k) ELSE Null
<1>1. \A k \in DOMAIN array : k \in Nat
  OBVIOUS
<1>2. \A k \in DOMAIN array : Under(p, attr, k) \in Paths
  BY <1>1, UnderIsBelow
<1> DEFINE Element(k) == IF array[k] THEN Under(p, attr, k) ELSE Null
<1>3. \A k \in DOMAIN array : Element(k) \in Paths \cup {Null}
  BY <1>2
<1>4. Elements(p, attr, array) = [k \in DOMAIN array |-> Element(k)]
  BY DEF Elements
<1>5. Len(array) \in Nat /\ DOMAIN array = 1..Len(array)
  OBVIOUS
<1> HIDE DEF Element
<1>6. [k \in DOMAIN array |-> Element(k)] \in Seq(Paths \cup {Null})
  BY <1>3, <1>5
<1> QED
  BY <1>4, <1>6 DEF Element

\* The nodes of the tree are below those around them.
LEMMA NodesAround ==
  ASSUME ImportInv, MeansInv, Root \in DOMAIN nodes, NEW q \in DOMAIN nodes
  PROVE  Prefixes(q) \subseteq DOMAIN nodes
<1>1. file \in Files /\ keep \in BOOLEAN /\ DOMAIN nodes \subseteq Paths
  BY DEF ImportInv, Typing
<1>2. Places \subseteq DOMAIN nodes
  BY TreeIsComplete
<1>3. ASSUME NEW p \in DOMAIN nodes, p # Root PROVE Front(p) \in DOMAIN nodes
  <2>1. CASE p \in Places
    <3>1. Front(p) \in DOMAIN file /\ p \in Paths /\ p \in DOMAIN file
      BY <1>1, <1>3, <2>1, FileIsTree DEF Places
    <3>2. keep \/ ~IsComment(p)
      BY <2>1 DEF Places
    <3>3. keep \/ ~IsComment(Front(p))
      <4>1. ~IsComment(Root)
        BY DEF IsComment
      <4> QED
        BY <1>3, <3>1, <3>2, <4>1, CommentsAreWhole
    <3> QED
      BY <1>2, <3>1, <3>3 DEF Places
  <2>2. CASE p \notin Places
    BY <2>2 DEF MeansInv
  <2> QED
    BY <2>1, <2>2
<1> DEFINE Off == {p \in DOMAIN nodes : ~(Prefixes(p) \subseteq DOMAIN nodes)}
           lengths == {Len(p) : p \in Off}
<1>4. Off = {}
  <2>1. SUFFICES ASSUME Off # {} PROVE FALSE
    OBVIOUS
  <2>2. lengths \in SUBSET Nat /\ lengths # {}
    <3>1. \A p \in Paths : Len(p) \in Nat
      BY DEF Paths
    <3> QED
      BY <1>1, <2>1, <3>1
  <2>3. PICK n \in lengths : \A m \in lengths : n <= m
    BY <2>2, LeastNumber
  <2>4. PICK p \in Off : Len(p) = n
    BY <2>3
  <2>5. p # Root
    <3>1. Prefixes(Root) = {Root}
      <4>1. Root \in Paths
        BY <1>1
      <4> QED
        BY <4>1, PrefixesOf
    <3> QED
      BY <2>4, <3>1
  <2>6. /\ p \in Paths /\ Front(p) \in DOMAIN nodes /\ Len(Front(p)) = Len(p) - 1 /\ Len(p) \in Nat
        /\ Prefixes(p) = Prefixes(Front(p)) \cup {p}
    BY <1>1, <1>3, <2>4, <2>5, FrontAt, PrefixesAround
  <2>7. Front(p) \in Off
    BY <2>4, <2>6
  <2>8. Len(Front(p)) \in lengths
    BY <2>7
  <2> QED
    BY <2>3, <2>4, <2>6, <2>8
<1> QED
  BY <1>4

\* The argument that a node below another one comes from.
Reads(h, c, i) ==
    LET type == ObjectAt(h).type
        a == Arguments(type)[i]
    IN /\ i \in DOMAIN Arguments(type) /\ a.attr = Last(c)[1]
       /\ \/ type = "TypeParameter" /\ a.attr = "name" /\ Constructors[type][i] = "name" /\ c = Under(h, "name", 0)
          \/ ImportsNodes(a) /\ c \in PartsIn(h, a.attr)

\* Every child is read by one argument of the node around it.
LEMMA ArgumentOfChild ==
  ASSUME ImportInv, MeansInv, NEW c \in DOMAIN nodes, c # Root, NEW h, h = Front(c), h \in DOMAIN nodes
  PROVE  h \in Places /\ \E i : Reads(h, c, i)
<1>1. file \in Files /\ keep \in BOOLEAN /\ DOMAIN nodes \subseteq Paths
  BY DEF ImportInv, Typing
<1>2. CASE c \in Places
  <2>1. h \in DOMAIN file /\ c \in DOMAIN file /\ c \in Paths
    BY <1>1, <1>2, FileIsTree DEF Places
  <2>2. h \in Places
    <3>1. SUFFICES ASSUME h \notin Places PROVE FALSE
      OBVIOUS
    <3>2. /\ h # Root /\ Front(h) \in DOMAIN nodes \cap Places
          /\ IsParameter(Front(h)) /\ h = Under(Front(h), "name", 0)
      BY <3>1 DEF MeansInv
    <3>3. Front(h) \in DOMAIN file /\ ObjectAt(Front(h)).type \in Kinds
      BY <3>2, NodeKinds
    <3> QED
      BY <1>1, <2>1, <3>2, <3>3, NameHasNoObject
  <2>3. ObjectAt(h).type \in Kinds /\ (ObjectAt(h).type = "Root" => h = Root)
    BY <2>2, NodeKinds
  <2>4. c \in PartsOf(h)
    BY <1>2 DEF PartsOf
  <2>5. PICK i \in DOMAIN Arguments(ObjectAt(h).type) :
          LET a == Arguments(ObjectAt(h).type)[i] IN ImportsNodes(a) /\ a.attr = Last(c)[1]
    BY <1>1, <2>2, <2>3, <2>4, EveryPartIsRead
  <2> QED
    BY <2>2, <2>4, <2>5 DEF Reads, PartsIn
<1>3. CASE c \notin Places
  <2>1. h \in Places /\ h \in DOMAIN nodes /\ IsParameter(h) /\ c = Under(h, "name", 0)
    BY <1>3 DEF MeansInv
  <2>2. ObjectAt(h).type = "TypeParameter" /\ "TypeParameter" \in Kinds /\ h \in Paths
    BY <2>1, NodeKinds DEF IsParameter
  <2>3. Last(c)[1] = "name"
    BY <2>1, <2>2, NameBelow
  <2>4. Arguments("TypeParameter") = ImportFunctions["TypeParameter"]
    BY DEF Arguments, RowsOf
  <2>5. PICK i \in DOMAIN Arguments("TypeParameter") : Arguments("TypeParameter")[i] = Value("name")
    BY <2>4, MeaningAssumption DEF MeaningAssumption, ToSet
  <2>6. Value("name").attr = "name" /\ Value("name").op # "Fixed"
    BY DEF Value, Argument
  <2>7. Constructors["TypeParameter"][i] = "name"
    <3>1. Constructors["TypeParameter"][i] = MemberFor("TypeParameter", "name")
      BY <1>1, <2>2, <2>5, <2>6, RowsMean DEF MembersFit
    <3>2. MemberFor("TypeParameter", "name") = "name"
      BY DEF MemberFor
    <3> QED
      BY <3>1, <3>2
  <2>8. Reads(h, c, i)
    BY <2>1, <2>2, <2>3, <2>5, <2>6, <2>7 DEF Reads
  <2> QED
    BY <2>1, <2>8
<1> QED
  BY <1>2, <1>3

\* What an array holds, and how often it holds one of its objects.
Holding(p, attr, array, v) ==
    /\ v \in Seq(Paths \cup {Null}) /\ DOMAIN v = DOMAIN array
    /\ \A k \in DOMAIN array : v[k] = IF array[k] THEN Under(p, attr, k) ELSE Null
\* The elements that importChildArray collects are what the array holds.
LEMMA ElementsHold ==
  ASSUME NEW p \in Paths, NEW attr, attr \in STRING, NEW array, array \in Seq(BOOLEAN),
         NEW v, v = Elements(p, attr, array)
  PROVE  Holding(p, attr, array, v)
<1>1. /\ Elements(p, attr, array) \in Seq(Paths \cup {Null})
      /\ DOMAIN Elements(p, attr, array) = DOMAIN array
      /\ \A k \in DOMAIN array : Elements(p, attr, array)[k] = IF array[k] THEN Under(p, attr, k) ELSE Null
  BY ElementsBelow
<1> QED
  BY <1>1 DEF Holding

\* The member of a position, in a node made from its object.
LEMMA MemberOfNode ==
  ASSUME keep \in BOOLEAN, NEW p, NEW type \in Kinds, type = ObjectAt(p).type,
         NEW i \in DOMAIN Arguments(type), NEW m, m = Constructors[type][i]
  PROVE  MembersAt(p)[m] = IF type = "TypeParameter" /\ m = "name" THEN Under(p, "name", 0)
                           ELSE Imported(p, ObjectAt(p), Arguments(type)[i])
  BY MembersOfNode

\* A walk hands a member over the way its argument imported it.
HandsOver(type, w, a) ==
    IF type = "TypeParameter" /\ w.member = "name" THEN ~w.many
    ELSE IF w.many THEN ImportsMany(a) \/ a.op = "Nothing" ELSE ImportsOne(a)

\* The member a child is stored in, and no other, holds it: once.
HoldsAt(members, m, many, c, i, j) ==
    /\ many => /\ members[m] \in Seq(Paths \cup {Null})
               /\ Cardinality(Positions(members[m], c)) = IF j = i THEN 1 ELSE 0
    /\ ~many => (members[m] = c <=> j = i)
HoldsChild(members, w, c, i, j) == HoldsAt(members, w.member, w.many, c, i, j)

\* A child is in the member of the argument that reads it, once, and in no other that is handed over.
LEMMA ChildInMember ==
  ASSUME file \in Files, keep \in BOOLEAN, NEW h \in Places, NEW type \in Kinds, type = ObjectAt(h).type,
         type = "Root" => h = Root,
         NEW c, NEW i, Reads(h, c, i), NEW j \in DOMAIN Arguments(type),
         NEW w \in WalkRows, w.member = Constructors[type][j], HandsOver(type, w, Arguments(type)[j])
  PROVE  HoldsChild(MembersAt(h), w, c, i, j)
<1>1. PICK m, many : m = w.member /\ many = w.many
  OBVIOUS
<1>2. many \in BOOLEAN /\ m = Constructors[type][j]
  BY <1>1 DEF WalkRows
<1> DEFINE args == Arguments(type)
           a == args[i]
           b == args[j]
           v == MembersAt(h)[m]
<1>3. h \in DOMAIN file /\ h \in Paths /\ Null \notin Paths
  BY FileIsTree, FilesAssumption DEF Places, FilesAssumption, Paths
<1>4. /\ i \in DOMAIN args /\ a.attr = Last(c)[1]
      /\ \/ /\ type = "TypeParameter" /\ a.attr = "name" /\ Constructors[type][i] = "name"
            /\ c = Under(h, "name", 0)
         \/ ImportsNodes(a) /\ c \in PartsIn(h, a.attr)
  BY DEF Reads
<1>5. /\ RowsFit(type, args) /\ MembersFit(type, args)
      /\ \A k \in DOMAIN args : args[k].attr \in STRING
  BY RowsOfKind, RowsMean DEF Arguments
<1>6. c \in Paths /\ c # Null
  <2>1. CASE c = Under(h, "name", 0)
    BY <1>3, <2>1, NameBelow
  <2>2. CASE c \in PartsIn(h, a.attr)
    BY <1>3, <2>2, FileIsTree DEF PartsIn, PartsOf
  <2> QED
    BY <1>3, <1>4, <2>1, <2>2
<1>7. /\ \A k \in DOMAIN args : type = "TypeParameter" /\ args[k].attr = "name" => ~ImportsNodes(args[k])
      /\ \A k \in DOMAIN args : ImportsNodes(args[k]) => Constructors[type][k] = MemberFor(type, args[k].attr)
      /\ \A k, l \in DOMAIN args : Constructors[type][k] = Constructors[type][l] => k = l
      /\ \A k, l \in DOMAIN args :
            ImportsNodes(args[k]) /\ ImportsNodes(args[l]) /\ args[k].attr = args[l].attr => k = l
  BY <1>5 DEF RowsFit, MembersFit, ImportsNodes, ImportsOne, ImportsMany
<1>8. v = IF type = "TypeParameter" /\ m = "name" THEN Under(h, "name", 0)
          ELSE Imported(h, ObjectAt(h), b)
  BY <1>2, MemberOfNode
<1>9. IF type = "TypeParameter" /\ m = "name" THEN ~many
      ELSE IF many THEN ImportsMany(b) \/ b.op = "Nothing" ELSE ImportsOne(b)
  BY <1>1 DEF HandsOver
<1>10. SUFFICES HoldsAt(MembersAt(h), m, many, c, i, j)
  BY <1>1, Zenon DEF HoldsChild
<1> USE DEF HoldsAt
<1>11. CASE type = "TypeParameter" /\ m = "name"
  <2>1. ~many /\ v = Under(h, "name", 0)
    BY <1>8, <1>11, <1>9
  <2>2. Last(v) = <<"name", 0>>
    BY <1>3, <2>1, NameBelow
  <2>3. ASSUME v = c PROVE j = i
    <3>1. a.attr = "name"
      BY <1>4, <2>2, <2>3
    <3> QED
      BY <1>2, <1>4, <1>7, <1>11, <3>1
  <2>4. ASSUME j = i PROVE v = c
    <3>1. ~ImportsNodes(a)
      <4>1. SUFFICES ASSUME ImportsNodes(a) PROVE FALSE
        OBVIOUS
      <4>2. MemberFor(type, a.attr) = "name"
        BY <1>2, <1>4, <1>7, <1>11, <2>4, <4>1
      <4>3. a.attr = "name"
        BY <4>2, MemberNamed
      <4> QED
        BY <1>4, <1>7, <1>11, <4>1, <4>3
    <3> QED
      BY <1>4, <2>1, <3>1
  <2> QED
    BY <2>1, <2>3, <2>4
<1>12. CASE ~(type = "TypeParameter" /\ m = "name")
  <2>1. v = Imported(h, ObjectAt(h), b)
    BY <1>8, <1>12
  <2>2. /\ ImportsOne(b) =>
              v = IF b.op = "Child" \/ b.attr \in ObjectAt(h).kids THEN Under(h, b.attr, 0) ELSE Null
        /\ b.op = "Nothing" => v = << >>
        /\ ImportsMany(b) =>
              v = IF b.attr \in DOMAIN ObjectAt(h).arrays THEN Elements(h, b.attr, ArrayOf(h, b.attr))
                  ELSE << >>
    BY <1>3, <2>1, ImportedBelow
  <2>3. /\ b.attr \in STRING
        /\ \A n \in Nat : Last(Under(h, b.attr, n)) = <<b.attr, n>>
        /\ b.attr \in DOMAIN ObjectAt(h).arrays => ArrayOf(h, b.attr) \in Seq(BOOLEAN)
    <3>1. b.attr \in STRING
      BY <1>5
    <3>2. \A n \in Nat : Last(Under(h, b.attr, n)) = <<b.attr, n>>
      BY <1>3, <3>1, UnderIsBelow
    <3> QED
      BY <1>3, <3>1, <3>2, FileIsTree DEF ArrayOf
  <2>4. CASE j = i
    <3>1. ImportsNodes(b) /\ c \in PartsIn(h, b.attr)
      BY <1>2, <1>4, <1>12, <2>4
    <3>2. /\ ImportsOne(b) => b.attr \in ObjectAt(h).kids /\ c = Under(h, b.attr, 0)
          /\ ImportsMany(b) =>
                /\ b.attr \in DOMAIN ObjectAt(h).arrays
                /\ Last(c)[2] \in DOMAIN ArrayOf(h, b.attr) /\ ArrayOf(h, b.attr)[Last(c)[2]]
                /\ c = Under(h, b.attr, Last(c)[2])
      <4>1. PICK kind : kind = type
        OBVIOUS
      <4>2. kind \in Kinds /\ kind = ObjectAt(h).type /\ (ObjectAt(h).type = "Root" => h = Root)
        BY <4>1
      <4>3. j \in DOMAIN Arguments(ObjectAt(h).type) /\ Arguments(ObjectAt(h).type)[j] = b
        OBVIOUS
      <4> QED
        BY <3>1, <4>2, <4>3, PartsOfArgument
    <3>3. CASE ~many
      BY <1>12, <1>9, <2>2, <2>4, <3>2, <3>3
    <3>4. CASE many
      <4>1. ImportsMany(b)
        BY <1>12, <1>9, <3>1, <3>4 DEF ImportsNodes, ImportsOne, ImportsMany
      <4>2. PICK array, n : array = ArrayOf(h, b.attr) /\ n = Last(c)[2]
        OBVIOUS
      <4>3. /\ array \in Seq(BOOLEAN) /\ n \in DOMAIN array /\ array[n] /\ c = Under(h, b.attr, n)
            /\ v = Elements(h, b.attr, array)
        BY <2>2, <2>3, <3>2, <4>1, <4>2
      <4>4. /\ v \in Seq(Paths \cup {Null}) /\ DOMAIN v = DOMAIN array
            /\ \A k \in DOMAIN array : v[k] = IF array[k] THEN Under(h, b.attr, k) ELSE Null
        <5>1. Holding(h, b.attr, array, v)
          <6> HIDE DEF v, a, b, args
          <6> QED
            BY <1>3, <2>3, <4>3, ElementsHold
        <5> QED
          BY <5>1 DEF Holding
      <4>5. \A k \in DOMAIN array : k \in Nat
        BY <4>3
      <4>6. \A k \in DOMAIN array : Under(h, b.attr, k) = c => k = n
        <5>1. \A k \in DOMAIN array : Last(Under(h, b.attr, k)) = <<b.attr, k>>
          BY <2>3, <4>5
        <5> QED
          BY <4>3, <5>1
      <4> HIDE DEF v, a, b, args
      <4>7. Positions(v, c) = {n}
        BY <1>6, <4>3, <4>4, <4>6 DEF Positions
      <4>8. Cardinality({n}) = 1
        BY FS_Singleton
      <4> QED
        BY <2>4, <3>4, <4>4, <4>7, <4>8 DEF v
    <3> QED
      BY <3>3, <3>4
  <2>5. CASE j # i
    <3>1. ImportsNodes(b) => b.attr # a.attr
      BY <1>4, <1>7, <2>5
    <3>2. \A n \in Nat : ImportsNodes(b) => Under(h, b.attr, n) # c
      BY <1>4, <2>3, <3>1
    <3>3. CASE ~many
      <4>1. ImportsOne(b) /\ ImportsNodes(b)
        BY <1>12, <1>9, <3>3 DEF ImportsNodes
      <4>2. v = Under(h, b.attr, 0) \/ v = Null
        BY <2>2, <4>1
      <4> QED
        BY <1>6, <2>5, <3>2, <3>3, <4>1, <4>2
    <3>4. CASE many
      <4>1. CASE v = << >>
        <5>1. << >> \in Seq(Paths \cup {Null}) /\ Positions(<< >>, c) = {}
          BY DEF Positions
        <5> QED
          BY <2>5, <3>4, <4>1, <5>1, FS_EmptySet
      <4>2. CASE v # << >>
        <5>1. ImportsMany(b) /\ ImportsNodes(b) /\ b.attr \in DOMAIN ObjectAt(h).arrays
          BY <1>12, <1>9, <2>2, <3>4, <4>2 DEF ImportsNodes
        <5>2. PICK array : array = ArrayOf(h, b.attr)
          OBVIOUS
        <5>3. array \in Seq(BOOLEAN) /\ v = Elements(h, b.attr, array)
          BY <2>2, <2>3, <5>1, <5>2
        <5>4. /\ v \in Seq(Paths \cup {Null}) /\ DOMAIN v = DOMAIN array
              /\ \A k \in DOMAIN array : v[k] = IF array[k] THEN Under(h, b.attr, k) ELSE Null
          <6>1. Holding(h, b.attr, array, v)
            <7> HIDE DEF v, a, b, args
            <7> QED
              BY <1>3, <2>3, <5>3, ElementsHold
          <6> QED
            BY <6>1 DEF Holding
        <5>5. \A k \in DOMAIN array : Under(h, b.attr, k) # c
          BY <3>2, <5>1, <5>3
        <5> HIDE DEF v, a, b, args
        <5>6. Positions(v, c) = {}
          BY <1>6, <5>4, <5>5 DEF Positions
        <5> QED
          BY <2>5, <3>4, <5>4, <5>6, FS_EmptySet DEF v
      <4> QED
        BY <4>1, <4>2
    <3> QED
      BY <3>3, <3>4
  <2> QED
    BY <2>4, <2>5
<1> QED
  BY <1>11, <1>12

\* A row of a walk hands a child over iff it names the child's member, and is not skipped.
Passes(members, w, m) == w.member = m /\ (w.many \/ ~Skipped(members, w))

\* So a row hands a child over once iff it passes the child's member, and else not at all.
LEMMA RowCounts ==
  ASSUME file \in Files, keep \in BOOLEAN, NEW h \in Places, NEW type \in Kinds, type = ObjectAt(h).type,
         type = "Root" => h = Root,
         NEW c \in Paths, NEW i, Reads(h, c, i), NEW w \in ToSet(Walked(type))
  PROVE  /\ w \in WalkRows /\ WalkFits(type, Arguments(type), w)
         /\ w.many => MembersAt(h)[w.member] \in Seq(Paths \cup {Null})
         /\ Cardinality(Positions(Handed(MembersAt(h), w), c)) =
               IF Passes(MembersAt(h), w, Constructors[type][i]) THEN 1 ELSE 0
<1> DEFINE args == Arguments(type)
           members == MembersAt(h)
<1>1. w \in WalkRows /\ WalkFits(type, args, w)
  <2>1. PICK class : class = Walker[type]
    OBVIOUS
  <2>2. class \in DOMAIN Walks /\ w \in ToSet(Walks[class])
    BY <2>1 DEF Walked, ToSet
  <2>3. Walks[class] \in Seq(WalkRows) /\ \A n \in DOMAIN Walks[class] : WalkFits(type, args, Walks[class][n])
    BY <2>1, <2>2, RowsOfKind DEF RowsFit, Arguments
  <2> QED
    BY <2>2, <2>3 DEF ToSet
<1>2. w.many \in BOOLEAN /\ Null \notin Paths
  BY <1>1, FilesAssumption DEF WalkRows, FilesAssumption, Paths
<1>3. DOMAIN Constructors[type] = DOMAIN args /\ MembersFit(type, args)
  BY RowsMean
<1>4. PICK j \in DOMAIN args : Constructors[type][j] = w.member
  BY <1>1, <1>3 DEF WalkFits, ToSet
<1>5. HandsOver(type, w, args[j])
  BY <1>1, <1>4 DEF WalkFits, HandsOver
<1>7. HoldsChild(members, w, c, i, j)
  BY <1>1, <1>4, <1>5, ChildInMember
<1>8. j = i <=> w.member = Constructors[type][i]
  <2>1. i \in DOMAIN args
    BY DEF Reads
  <2> QED
    BY <1>3, <1>4, <2>1 DEF MembersFit
<1> HIDE DEF members
<1>9. w.many => members[w.member] \in Seq(Paths \cup {Null})
  BY <1>7 DEF HoldsChild, HoldsAt
<1>10. Cardinality(Positions(Handed(members, w), c)) =
          IF w.many THEN Cardinality(Positions(members[w.member], c))
          ELSE IF Skipped(members, w) \/ members[w.member] # c THEN 0 ELSE 1
  <2>1. c # Null
    BY <1>2
  <2> QED
    BY <1>1, <1>9, <2>1, HandedCounts
<1>11. Cardinality(Positions(Handed(members, w), c)) =
          IF Passes(members, w, Constructors[type][i]) THEN 1 ELSE 0
  <2>1. CASE w.many
    BY <1>7, <1>8, <1>10, <2>1 DEF Passes, HoldsChild, HoldsAt
  <2>2. CASE ~w.many
    BY <1>7, <1>8, <1>10, <2>2 DEF Passes, HoldsChild, HoldsAt
  <2> QED
    BY <2>1, <2>2
<1> QED
  BY <1>1, <1>9, <1>11 DEF members

\* The one row that may be skipped: the imported name of a specifier that does not rename it.
LEMMA SkippedIs ==
  ASSUME keep \in BOOLEAN, NEW h, NEW type \in Kinds, type = ObjectAt(h).type, NEW w \in ToSet(Walked(type))
  PROVE  Skipped(MembersAt(h), w) <=> type = "ImportSpecifier" /\ w.member = "imported" /\ SameNames(h)
<1>1. w.unless = IF type = "ImportSpecifier" /\ w.member = "imported" THEN "localEqualsImported" ELSE No
  BY RowsMean DEF WalksFit
<1>2. "localEqualsImported" # No
  BY DEF No
<1>3. CASE type = "ImportSpecifier" /\ w.member = "imported"
  <2>1. w.unless = "localEqualsImported" /\ w.unless # No
    BY <1>1, <1>2, <1>3
  <2>2. MembersAt(h)["localEqualsImported"] = SameNames(h)
    BY <1>3, MembersOfNode
  <2>3. Skipped(MembersAt(h), w) <=> MembersAt(h)["localEqualsImported"]
    BY <2>1 DEF Skipped
  <2> QED
    BY <1>3, <2>2, <2>3
<1>4. CASE ~(type = "ImportSpecifier" /\ w.member = "imported")
  BY <1>1, <1>4 DEF Skipped
<1> QED
  BY <1>3, <1>4

\* Where a child stands in the rows of the walk of the node around it.
LEMMA ChildRow ==
  ASSUME ImportInv, MeansInv, NEW h \in DOMAIN nodes \cap Places, NEW c \in Paths, NEW i, Reads(h, c, i),
         NEW type, type = ObjectAt(h).type, NEW W, W = Walked(type),
         NEW N, N = {n \in DOMAIN W : Passes(MembersAt(h), W[n], Constructors[type][i])}
  PROVE  Cardinality(Positions(ChildrenOf(h), c)) = Cardinality(N)
<1>1. /\ file \in Files /\ keep \in BOOLEAN
      /\ type \in Kinds /\ (type = "Root" => h = Root) /\ nodes[h].type = type
      /\ nodes[h].members = MembersAt(h)
  BY NodeKinds DEF ImportInv, Typing, MeansInv
<1>2. PICK members : members = MembersAt(h)
  OBVIOUS
<1>3. PICK m : m = Constructors[type][i]
  OBVIOUS
<1> DEFINE ss == [n \in DOMAIN W |-> Handed(members, W[n])]
<1>4. ChildrenOf(h) = FlattenSeq(ss)
  <2>1. CASE Walker[type] \in DOMAIN Walks
    BY <1>1, <1>2, <2>1 DEF ChildrenOf, Children, Walked
  <2>2. CASE Walker[type] \notin DOMAIN Walks
    <3>1. W = << >> /\ ChildrenOf(h) = << >>
      BY <1>1, <2>2 DEF ChildrenOf, Children, Walked
    <3>2. ss = << >>
      BY <3>1
    <3>3. FlattenSeq(<< >>) = << >>
      BY DEF FlattenSeq
    <3> QED
      BY <3>1, <3>2, <3>3
  <2> QED
    BY <2>1, <2>2
<1>5. W \in Seq(WalkRows) /\ \A n \in DOMAIN W : W[n] \in ToSet(W)
  <2>1. CASE Walker[type] \in DOMAIN Walks
    <3>1. W = Walks[Walker[type]]
      BY <2>1 DEF Walked
    <3>2. Walks[Walker[type]] \in Seq(WalkRows)
      BY <1>1, <2>1, RowsOfKind DEF RowsFit
    <3> QED
      BY <3>1, <3>2 DEF ToSet
  <2>2. CASE Walker[type] \notin DOMAIN Walks
    BY <2>2 DEF Walked
  <2> QED
    BY <2>1, <2>2
<1>6. \A n \in DOMAIN W :
         /\ W[n] \in WalkRows
         /\ W[n].many => members[W[n].member] \in Seq(Paths \cup {Null})
         /\ Cardinality(Positions(Handed(members, W[n]), c)) = IF Passes(members, W[n], m) THEN 1 ELSE 0
  BY <1>1, <1>2, <1>3, <1>5, RowCounts
<1> DEFINE S == Paths \cup {Null} \cup {members[W[n].member] : n \in DOMAIN W}
<1>7. ASSUME NEW n \in DOMAIN W PROVE Handed(members, W[n]) \in Seq(S)
  <2>1. members[W[n].member] \in S
    OBVIOUS
  <2>2. W[n].many => members[W[n].member] \in Seq(S \cup {Null})
    <3>1. (Paths \cup {Null}) \subseteq S \cup {Null}
      OBVIOUS
    <3> HIDE DEF S
    <3> QED
      BY <1>6, <3>1, SequencesGrow
  <2>3. PICK w : w = W[n]
    OBVIOUS
  <2> HIDE DEF S
  <2>4. Handed(members, w) \in Seq(S)
    BY <1>6, <2>1, <2>2, <2>3, HandedNodes
  <2> QED
    BY <2>3, <2>4
<1> HIDE DEF S
<1>8. ss \in Seq(Seq(S)) /\ DOMAIN ss = DOMAIN W /\ \A n \in DOMAIN W : ss[n] = Handed(members, W[n])
  BY <1>5, <1>7
<1>9. N \in SUBSET (DOMAIN ss) /\ \A n \in DOMAIN W : n \in N <=> Passes(members, W[n], m)
  BY <1>2, <1>3, <1>8
<1> DEFINE Times(s) == Cardinality(Positions(s, c))
<1>10. \A n \in DOMAIN W : Times(Handed(members, W[n])) = IF Passes(members, W[n], m) THEN 1 ELSE 0
  BY <1>6
<1> HIDE DEF ss, Times
<1>11. /\ \A n \in N : Times(ss[n]) = 1
       /\ \A n \in DOMAIN ss \ N : Times(ss[n]) = 0
  BY <1>8, <1>9, <1>10
<1>12. Times(FlattenSeq(ss)) = Cardinality(N)
  BY <1>8, <1>9, <1>11, FlattenCounts DEF Times
<1> QED
  BY <1>4, <1>12 DEF Times

\* In an import specifier the attribute "imported" alone means the member of that name.
LEMMA ImportedNamed ==
  ASSUME NEW a
  PROVE  MemberFor("ImportSpecifier", a) = "imported" <=> a = "imported"
  BY DEF MemberFor

\* The row of a child is skipped iff the child is an imported name that repeats the local one.
LEMMA SkippedChild ==
  ASSUME ImportInv, NEW h \in DOMAIN nodes \cap Places, NEW c, NEW i, Reads(h, c, i),
         NEW type, type = ObjectAt(h).type, h = Front(c),
         NEW w \in ToSet(Walked(type)), WalkFits(type, Arguments(type), w),
         w.member = Constructors[type][i]
  PROVE  w.many \/ ~Skipped(MembersAt(h), w) <=>
            ~(/\ type = "ImportSpecifier" /\ Last(c)[1] = "imported"
              /\ ValueOf(ObjectAt(c), "name") = ValueOf(ObjectAt(Under(Front(c), "local", 0)), "name"))
<1> DEFINE args == Arguments(type)
           a == args[i]
<1>1. /\ file \in Files /\ keep \in BOOLEAN /\ h \in DOMAIN file
      /\ type \in Kinds /\ (type = "Root" => h = Root)
  BY NodeKinds DEF ImportInv, Typing
<1>2. Skipped(MembersAt(h), w) <=> type = "ImportSpecifier" /\ w.member = "imported" /\ SameNames(h)
  BY <1>1, SkippedIs
<1>3. CASE type # "ImportSpecifier"
  BY <1>2, <1>3
<1>4. CASE type = "ImportSpecifier"
  <2>1. i \in DOMAIN args /\ ImportsNodes(a) /\ c \in PartsIn(h, a.attr) /\ a.attr = Last(c)[1]
    BY <1>4 DEF Reads
  <2>2. Constructors[type][i] = MemberFor(type, a.attr)
    BY <1>1, <2>1, RowsMean DEF MembersFit, ImportsNodes, ImportsOne, ImportsMany
  <2>3. w.member = "imported" <=> a.attr = "imported"
    BY <1>4, <2>2, ImportedNamed
  <2>4. CASE a.attr # "imported"
    BY <1>2, <2>1, <2>3, <2>4
  <2>5. CASE a.attr = "imported"
    <3>1. PICK k \in DOMAIN args : args[k] = Child("imported")
      <4>1. "imported" \in {"local", "imported"} /\ ObjectAt(h).type = "ImportSpecifier" /\ "ImportSpecifier" \in Kinds
        BY <1>1, <1>4
      <4> QED
        BY <1>1, <1>4, <4>1, SpecifierRow
    <3>2. args[k].attr = "imported" /\ args[k].op = "Child"
      BY <3>1 DEF Child, Argument
    <3>3. a.op = "Child"
      <4>1. RowsFit(type, args)
        BY <1>1, RowsOfKind DEF Arguments
      <4> QED
        BY <2>1, <2>5, <3>2, <4>1 DEF RowsFit, ImportsNodes, ImportsOne
    <3>4. ImportsOne(a) /\ ~ImportsMany(a) /\ a.op # "Nothing"
      BY <3>3 DEF ImportsOne, ImportsMany
    <3>5. ~w.many
      BY <1>4, <2>1, <3>4 DEF WalkFits
    <3>6. c = Under(h, "imported", 0)
      <4>1. PICK attr : attr = a.attr
        OBVIOUS
      <4>2. PICK kind : kind = type
        OBVIOUS
      <4>3. /\ kind \in Kinds /\ kind = ObjectAt(h).type /\ (ObjectAt(h).type = "Root" => h = Root)
            /\ i \in DOMAIN Arguments(ObjectAt(h).type) /\ Arguments(ObjectAt(h).type)[i] = a
        BY <1>1, <2>1, <4>2
      <4> QED
        BY <1>1, <2>1, <2>5, <3>4, <4>3, PartsOfArgument
    <3>7. SameNames(h) <=> ValueOf(ObjectAt(c), "name") = ValueOf(ObjectAt(Under(Front(c), "local", 0)), "name")
      BY <3>6 DEF SameNames
    <3> QED
      BY <1>2, <1>4, <2>1, <2>3, <2>5, <3>5, <3>7
  <2> QED
    BY <2>4, <2>5
<1> QED
  BY <1>3, <1>4

\* How often a node hands a child to a walk.
LEMMA ChildPositions ==
  ASSUME ImportInv, MeansInv, NEW c \in DOMAIN nodes, c # Root, NEW h \in DOMAIN nodes, h = Front(c)
  PROVE  Cardinality(Positions(ChildrenOf(h), c)) =
            IF HiddenStep(c) THEN 0 ELSE IF DoubledStep(c) THEN 2 ELSE 1
<1>1. PICK i : h \in Places /\ Reads(h, c, i)
  BY ArgumentOfChild
<1>2. PICK type : type = ObjectAt(h).type
  OBVIOUS
<1>3. /\ file \in Files /\ keep \in BOOLEAN /\ DOMAIN nodes \subseteq Paths /\ c \in Paths
      /\ type \in Kinds /\ (type = "Root" => h = Root)
  BY <1>1, <1>2, NodeKinds DEF ImportInv, Typing
<1>4. PICK W : W = Walked(type)
  OBVIOUS
<1> DEFINE m == Constructors[type][i]
           attr == Arguments(type)[i].attr
           Naming == {n \in DOMAIN W : W[n].member = m}
           Passing == {n \in DOMAIN W : Passes(MembersAt(h), W[n], m)}
           Renames == ~(/\ type = "ImportSpecifier" /\ Last(c)[1] = "imported"
                        /\ ValueOf(ObjectAt(c), "name") = ValueOf(ObjectAt(Under(Front(c), "local", 0)), "name"))
<1>5. Cardinality(Positions(ChildrenOf(h), c)) = Cardinality(Passing)
  BY <1>1, <1>2, <1>3, <1>4, ChildRow
<1>6. \A n \in DOMAIN W : Passes(MembersAt(h), W[n], m) <=> W[n].member = m /\ Renames
  <2>1. ASSUME NEW n \in DOMAIN W, W[n].member = m
        PROVE  W[n].many \/ ~Skipped(MembersAt(h), W[n]) <=> Renames
    <3>1. PICK w : w = W[n]
      OBVIOUS
    <3>2. w \in ToSet(Walked(type))
      BY <1>4, <3>1 DEF ToSet
    <3>3. WalkFits(type, Arguments(type), w)
      BY <1>1, <1>2, <1>3, <3>2, RowCounts
    <3>4. w.many \/ ~Skipped(MembersAt(h), w) <=> Renames
      BY <1>1, <1>2, <2>1, <3>1, <3>2, <3>3, SkippedChild
    <3> QED
      BY <3>1, <3>4
  <2> HIDE DEF Renames, m
  <2> QED
    BY <2>1 DEF Passes
<1>7. i \in DOMAIN Arguments(type) /\ attr = Last(c)[1]
      /\ (ImportsNodes(Arguments(type)[i]) \/ (type = "TypeParameter" /\ attr = "name"))
  BY <1>1, <1>2 DEF Reads
<1>8. /\ Cardinality(Naming) = CASE attr = "comments" -> 0
                                 [] attr = "returnType" /\ type \in ClassMethods -> 2
                                 [] OTHER -> 1
      /\ attr = "comments" => type = "Root"
  <2>1. WalksFit(type, Arguments(type)) /\ MembersFit(type, Arguments(type))
    BY <1>3, RowsMean
  <2> QED
    BY <1>4, <1>7, <2>1 DEF WalksFit, MembersFit
<1>9. Passing = IF Renames THEN Naming ELSE {}
  <2> HIDE DEF Renames, m
  <2> QED
    BY <1>6
<1>10. HiddenStep(c) <=> attr = "comments" \/ ~Renames
  BY <1>2, <1>3, <1>7, <1>8 DEF HiddenStep
<1>11. DoubledStep(c) <=> attr = "returnType" /\ type \in ClassMethods
  BY <1>2, <1>7 DEF DoubledStep
<1> HIDE DEF Passing, Naming, Renames, attr
<1> QED
  BY <1>5, <1>8, <1>9, <1>10, <1>11, FS_EmptySet

------------------------------------------------------------------------------------------
\* The ways a walk that still has to visit the nodes of s will come to q: from a node around q, with
\* a choice, at every step below that node that is handed over twice, of one of the two times.
Ways(s, q) ==
    {x \in (DOMAIN s) \X SUBSET DoubledSteps(q) :
        s[x[1]] \in Prefixes(q) /\ x[2] \subseteq DoubledSteps(q) \ DoubledSteps(s[x[1]])}

\* There are finitely many ways.
LEMMA WaysFinite ==
  ASSUME NEW s \in Seq(Paths), NEW q \in Paths
  PROVE  IsFiniteSet(Ways(s, q)) /\ Cardinality(Ways(s, q)) \in Nat
<1>1. IsFiniteSet(DOMAIN s)
  BY PositionsFinite
<1>2. IsFiniteSet(SUBSET DoubledSteps(q))
  BY DoubledFacts, FS_SUBSET
<1>3. IsFiniteSet((DOMAIN s) \X SUBSET DoubledSteps(q))
  BY <1>1, <1>2, FS_Product
<1>4. Ways(s, q) \in SUBSET ((DOMAIN s) \X SUBSET DoubledSteps(q))
  BY DEF Ways
<1>5. IsFiniteSet(Ways(s, q))
  BY <1>3, <1>4, FS_Subset
<1> QED
  BY <1>5, FS_CardinalityType

\* A way: a position of the sequence at which something above the node waits, and a choice.
LEMMA WaysAre ==
  ASSUME NEW s, NEW q
  PROVE  /\ \A x \in Ways(s, q) :
               /\ x = <<x[1], x[2]>> /\ x[1] \in DOMAIN s /\ s[x[1]] \in Prefixes(q)
               /\ x[2] \subseteq DoubledSteps(q) \ DoubledSteps(s[x[1]])
         /\ \A i \in DOMAIN s : \A Y :
               s[i] \in Prefixes(q) /\ Y \subseteq DoubledSteps(q) \ DoubledSteps(s[i]) => <<i, Y>> \in Ways(s, q)
  BY DEF Ways

\* The ways from two sequences in a row are those from each.
LEMMA WaysAdd ==
  ASSUME NEW a \in Seq(Paths), NEW b \in Seq(Paths), NEW q \in Paths
  PROVE  Cardinality(Ways(a \o b, q)) = Cardinality(Ways(a, q)) + Cardinality(Ways(b, q))
<1> DEFINE n == Len(a)
           whole == a \o b
           moved == {x \in Ways(whole, q) : x[1] > n}
           f == [x \in Ways(b, q) |-> <<x[1] + n, x[2]>>]
<1>1. /\ whole \in Seq(Paths) /\ n \in Nat /\ Len(b) \in Nat
      /\ DOMAIN a = 1..n /\ DOMAIN b = 1..Len(b) /\ DOMAIN whole = 1..(n + Len(b))
      /\ \A i \in 1..n : whole[i] = a[i]
      /\ \A i \in 1..Len(b) : whole[i + n] = b[i]
      /\ \A i \in 1..(n + Len(b)) : i > n => i - n \in 1..Len(b) /\ whole[i] = b[i - n]
  BY ConcatAt
<1> HIDE DEF whole, n
<1>2. Ways(whole, q) = Ways(a, q) \cup moved /\ Ways(a, q) \cap moved = {}
  <2>1. ASSUME NEW x \in Ways(whole, q) PROVE x \in Ways(a, q) \/ x \in moved
    <3>1. CASE x[1] > n
      BY <3>1
    <3>2. CASE ~(x[1] > n)
      <4>1. x = <<x[1], x[2]>> /\ x[1] \in DOMAIN a /\ whole[x[1]] = a[x[1]]
        BY <1>1, <2>1, <3>2, WaysAre
      <4> QED
        BY <2>1, <4>1, WaysAre
    <3> QED
      BY <3>1, <3>2
  <2>2. ASSUME NEW x \in Ways(a, q) PROVE x \in Ways(whole, q) /\ x \notin moved
    <3>1. x = <<x[1], x[2]>> /\ x[1] \in DOMAIN a /\ x[1] \in DOMAIN whole /\ whole[x[1]] = a[x[1]] /\ ~(x[1] > n)
      BY <1>1, <2>2, WaysAre
    <3> QED
      BY <2>2, <3>1, WaysAre
  <2> QED
    BY <2>1, <2>2
<1>3. Cardinality(moved) = Cardinality(Ways(b, q)) /\ IsFiniteSet(moved)
  <2>1. ASSUME NEW x \in Ways(b, q) PROVE <<x[1] + n, x[2]>> \in moved
    <3>1. /\ x[1] \in 1..Len(b) /\ x[1] + n \in DOMAIN whole /\ whole[x[1] + n] = b[x[1]] /\ x[1] + n > n
          /\ b[x[1]] \in Prefixes(q) /\ x[2] \subseteq DoubledSteps(q) \ DoubledSteps(b[x[1]])
      BY <1>1, <2>1, WaysAre
    <3> QED
      BY <3>1, WaysAre
  <2>2. f \in [Ways(b, q) -> moved]
    BY <2>1
  <2>3. \A x, y \in Ways(b, q) : f[x] = f[y] => x = y
    <3>1. \A x \in Ways(b, q) : x = <<x[1], x[2]>> /\ x[1] \in Nat
      BY <1>1, WaysAre
    <3>2. ASSUME NEW x \in Ways(b, q), NEW y \in Ways(b, q), f[x] = f[y] PROVE x = y
      <4>1. <<x[1] + n, x[2]>> = <<y[1] + n, y[2]>>
        BY <3>2
      <4>2. x[1] + n = y[1] + n /\ x[2] = y[2]
        BY <4>1
      <4>3. x[1] = y[1]
        BY <1>1, <3>1, <4>2
      <4> QED
        BY <3>1, <4>2, <4>3
    <3> QED
      BY <3>2
  <2>4. ASSUME NEW t \in moved PROVE \E x \in Ways(b, q) : f[x] = t
    <3>1. /\ t = <<t[1], t[2]>> /\ t[1] \in DOMAIN whole /\ t[1] > n
          /\ whole[t[1]] \in Prefixes(q) /\ t[2] \subseteq DoubledSteps(q) \ DoubledSteps(whole[t[1]])
      BY <2>4, WaysAre
    <3>2. t[1] - n \in DOMAIN b /\ whole[t[1]] = b[t[1] - n] /\ (t[1] - n) + n = t[1]
      BY <1>1, <3>1
    <3>3. <<t[1] - n, t[2]>> \in Ways(b, q)
      BY <3>1, <3>2, WaysAre
    <3>4. f[<<t[1] - n, t[2]>>] = <<(t[1] - n) + n, t[2]>>
      BY <3>3
    <3> QED
      BY <3>1, <3>2, <3>3, <3>4
  <2> HIDE DEF f, moved
  <2>5. IsFiniteSet(Ways(b, q))
    BY WaysFinite
  <2> QED
    BY <2>2, <2>3, <2>4, <2>5, SameSize
<1>4. IsFiniteSet(Ways(a, q)) /\ Cardinality(Ways(a, q)) \in Nat /\ Cardinality(Ways(b, q)) \in Nat
  BY WaysFinite
<1>5. Cardinality(Ways(a, q) \cup moved) =
        Cardinality(Ways(a, q)) + Cardinality(moved) - Cardinality(Ways(a, q) \cap moved)
  BY <1>3, <1>4, FS_Union
<1>6. Cardinality(Ways(a, q) \cap moved) = 0
  BY <1>2, FS_EmptySet
<1> HIDE DEF moved
<1> QED
  BY <1>2, <1>3, <1>4, <1>5, <1>6 DEF whole

\* From several copies of one node around q, and nodes that are not around it.
LEMMA WaysFrom ==
  ASSUME NEW s \in Seq(Paths), NEW q \in Paths, NEW c \in Prefixes(q),
         \A i \in DOMAIN s : s[i] \in Prefixes(q) => s[i] = c
  PROVE  Cardinality(Ways(s, q)) =
            Cardinality(Positions(s, c)) * Cardinality(SUBSET (DoubledSteps(q) \ DoubledSteps(c)))
<1> DEFINE Free == SUBSET (DoubledSteps(q) \ DoubledSteps(c))
<1>1. Ways(s, q) = Positions(s, c) \X Free
  <2>1. ASSUME NEW x \in Ways(s, q) PROVE x \in Positions(s, c) \X Free
    <3>1. x = <<x[1], x[2]>> /\ x[1] \in Positions(s, c) /\ x[2] \in Free
      BY <2>1, WaysAre DEF Positions
    <3> QED
      BY <3>1
  <2>2. ASSUME NEW i \in Positions(s, c), NEW Y \in Free PROVE <<i, Y>> \in Ways(s, q)
    <3>1. i \in DOMAIN s /\ s[i] = c /\ Y \subseteq DoubledSteps(q) \ DoubledSteps(s[i])
      BY <2>2 DEF Positions
    <3> QED
      BY <3>1, WaysAre
  <2> HIDE DEF Free
  <2> QED
    BY <2>1, <2>2
<1>2. IsFiniteSet(Positions(s, c))
  BY PositionsFinite
<1>3. IsFiniteSet(Free)
  <2>1. IsFiniteSet(DoubledSteps(q))
    BY DoubledFacts
  <2>2. PICK D : D = DoubledSteps(q) \ DoubledSteps(c)
    OBVIOUS
  <2>3. IsFiniteSet(D)
    BY <2>1, <2>2, FS_Subset
  <2> QED
    BY <2>2, <2>3, FS_SUBSET
<1> HIDE DEF Free
<1>4. Cardinality(Positions(s, c) \X Free) = Cardinality(Positions(s, c)) * Cardinality(Free)
  BY <1>2, <1>3, FS_Product
<1> QED
  BY <1>1, <1>4 DEF Free

\* From nodes that are not around a node, no way leads to it.
LEMMA NoWays ==
  ASSUME NEW s \in Seq(Paths), NEW q \in Paths, \A i \in DOMAIN s : s[i] \notin Prefixes(q)
  PROVE  Cardinality(Ways(s, q)) = 0
<1>1. Ways(s, q) = {}
  BY DEF Ways
<1> QED
  BY <1>1, FS_EmptySet

\* A set has twice as many subsets when it gets another element.
LEMMA SubsetsDouble ==
  ASSUME NEW D, IsFiniteSet(D), NEW c, c \notin D
  PROVE  /\ Cardinality(SUBSET (D \cup {c})) = 2 * Cardinality(SUBSET D)
         /\ Cardinality(SUBSET D) \in Nat
<1> DEFINE with == {Y \cup {c} : Y \in SUBSET D}
           f == [Y \in SUBSET D |-> Y \cup {c}]
<1>1. SUBSET (D \cup {c}) = (SUBSET D) \cup with /\ (SUBSET D) \cap with = {}
  <2>1. ASSUME NEW Y \in SUBSET (D \cup {c}) PROVE Y \in (SUBSET D) \cup with
    <3>1. CASE c \notin Y
      BY <2>1, <3>1
    <3>2. CASE c \in Y
      <4>1. Y \ {c} \in SUBSET D /\ Y = (Y \ {c}) \cup {c}
        BY <2>1, <3>2
      <4> QED
        BY <4>1
    <3> QED
      BY <3>1, <3>2
  <2>2. \A Y \in with : c \in Y /\ Y \in SUBSET (D \cup {c})
    OBVIOUS
  <2>3. \A Y \in SUBSET D : c \notin Y /\ Y \in SUBSET (D \cup {c})
    OBVIOUS
  <2> HIDE DEF with
  <2> QED
    BY <2>1, <2>2, <2>3
<1>2. IsFiniteSet(SUBSET D) /\ Cardinality(SUBSET D) \in Nat
  BY FS_SUBSET, FS_CardinalityType
<1>3. IsFiniteSet(with) /\ Cardinality(with) = Cardinality(SUBSET D)
  <2>1. f \in [SUBSET D -> with]
    OBVIOUS
  <2>2. ASSUME NEW Y \in SUBSET D, NEW Z \in SUBSET D, f[Y] = f[Z] PROVE Y = Z
    <3>1. Y \cup {c} = Z \cup {c} /\ c \notin Y /\ c \notin Z
      BY <2>2
    <3> QED
      BY <3>1
  <2>3. \A t \in with : \E Y \in SUBSET D : f[Y] = t
    OBVIOUS
  <2> HIDE DEF f, with
  <2> QED
    BY <1>2, <2>1, <2>2, <2>3, SameSize
<1> HIDE DEF with
<1>4. Cardinality((SUBSET D) \cup with) =
        Cardinality(SUBSET D) + Cardinality(with) - Cardinality((SUBSET D) \cap with)
  BY <1>2, <1>3, FS_Union
<1>5. Cardinality((SUBSET D) \cap with) = 0
  BY <1>1, FS_EmptySet
<1>6. Cardinality((SUBSET D) \cup with) = 2 * Cardinality(SUBSET D)
  <2>1. PICK n, t : n = Cardinality(SUBSET D) /\ t = Cardinality((SUBSET D) \cup with)
    OBVIOUS
  <2>2. n \in Nat /\ t = n + n - 0
    BY <1>2, <1>3, <1>4, <1>5, <2>1, Zenon
  <2>3. t = 2 * n
    BY <2>2
  <2> QED
    BY <2>1, <2>3, Zenon
<1> QED
  BY <1>1, <1>2, <1>6, Zenon

\* The decisions of a predicate.
LEMMA Decided ==
  ASSUME visitor \in Visitors, NEW h
  PROVE  Decision(h) \in {"WalkInto", "WalkOver", "SkipInto", "SkipOver"}
<1>1. /\ Everything(h) = "WalkInto"
      /\ ImportedNames(h) \in {"SkipInto", "WalkInto", "SkipOver"}
      /\ DefaultExports(h) \in {"WalkOver", "SkipInto", "SkipOver"}
      /\ NamedExports(h) \in {"WalkOver", "SkipInto", "SkipOver"}
      /\ RequireCalls(h) \in {"WalkInto", "SkipInto"}
  BY DEF Everything, ImportedNames, DefaultExports, NamedExports, RequireCalls
<1>2. visitor \in {"Everything", "ImportedNames", "DefaultExports", "NamedExports", "RequireCalls"}
  BY VisitorsAssumption
<1> QED
  BY <1>1, <1>2 DEF Decision

------------------------------------------------------------------------------------------
\* What a visit does to the ways.
\* A walk goes into a node iff the node is not closed.
LEMMA OpenNodes ==
  ASSUME ImportInv, MeansInv, visitor \in Visitors, NEW h \in DOMAIN nodes
  PROVE  GoesInto(h) <=> ~Closed(h)
<1>1. Decision(h) \in {"WalkInto", "WalkOver", "SkipInto", "SkipOver"}
  BY Decided
<1>2. nodes[h].type = "Root" <=> h = Root
  <2>1. CASE h \in Places
    <3>1. nodes[h].type = ObjectAt(h).type
      BY <2>1 DEF MeansInv
    <3>2. ObjectAt(h).type = "Root" => h = Root
      BY <2>1, NodeKinds
    <3>3. ObjectAt(Root).type = "Root"
      BY FileIsTree DEF ImportInv, Typing
    <3> QED
      BY <3>1, <3>2, <3>3
  <2>2. CASE h \notin Places
    <3>1. /\ h # Root /\ Front(h) \in DOMAIN nodes \cap Places
          /\ IsParameter(Front(h)) /\ h = Under(Front(h), "name", 0)
      BY <2>2 DEF MeansInv
    <3>2. nodes[h].type = "Identifier"
      BY <3>1 DEF MeansInv
    <3> QED
      BY <3>1, <3>2
  <2> QED
    BY <2>1, <2>2
<1> QED
  BY <1>1, <1>2 DEF GoesInto, Closed

\* A pass that waits for one node, and one that waits for none.
LEMMA OneOf ==
  ASSUME NEW h
  PROVE  /\ Cardinality(Positions(<<h>>, h)) = 1
         /\ \A q : q # h => Cardinality(Positions(<<h>>, q)) = 0
         /\ \A q : Cardinality(Positions(<< >>, q)) = 0
<1>1. Positions(<<h>>, h) = {1} /\ (\A q : q # h => Positions(<<h>>, q) = {}) /\ (\A q : Positions(<< >>, q) = {})
  BY DEF Positions
<1> QED
  BY <1>1, FS_Singleton, FS_EmptySet

\* From one node around q there is a way for every choice among the steps between the two.
LEMMA WaysFromOne ==
  ASSUME NEW q \in Paths, NEW h \in Prefixes(q)
  PROVE  Cardinality(Ways(<<h>>, q)) = Cardinality(SUBSET (DoubledSteps(q) \ DoubledSteps(h)))
<1>1. h \in Paths
  BY PrefixesOf
<1>2. <<h>> \in Seq(Paths) /\ \A i \in DOMAIN <<h>> : <<h>>[i] = h
  BY <1>1
<1>3. PICK s : s = <<h>>
  OBVIOUS
<1>4. s \in Seq(Paths) /\ \A i \in DOMAIN s : s[i] \in Prefixes(q) => s[i] = h
  BY <1>2, <1>3
<1>5. Cardinality(Ways(s, q)) =
        Cardinality(Positions(s, h)) * Cardinality(SUBSET (DoubledSteps(q) \ DoubledSteps(h)))
  BY <1>4, WaysFrom
<1>6. Cardinality(Positions(s, h)) = 1
  BY <1>3, OneOf
<1>7. Cardinality(SUBSET (DoubledSteps(q) \ DoubledSteps(h))) \in Nat
  <2>1. PICK D : D = DoubledSteps(q) \ DoubledSteps(h)
    OBVIOUS
  <2>2. IsFiniteSet(D)
    BY <2>1, DoubledFacts, FS_Subset
  <2>3. IsFiniteSet(SUBSET D)
    BY <2>2, FS_SUBSET
  <2> QED
    BY <2>1, <2>3, FS_CardinalityType, Zenon
<1> DEFINE n == Cardinality(SUBSET (DoubledSteps(q) \ DoubledSteps(h)))
<1> HIDE DEF n
<1>8. Cardinality(Ways(s, q)) = n
  <2>1. n \in Nat /\ Cardinality(Ways(s, q)) = 1 * n
    BY <1>5, <1>6, <1>7, Zenon DEF n
  <2> QED
    BY <2>1
<1> QED
  BY <1>3, <1>8, Zenon DEF n

\* The children of a node that is not on the way, or at its end, are not on the way.
LEMMA NoWaysAside ==
  ASSUME NEW q \in Paths, NEW h \in Paths, h \notin Prefixes(q) \/ h = q,
         NEW kids \in Seq(Paths), \A i \in DOMAIN kids : kids[i] # Root /\ Front(kids[i]) = h
  PROVE  Cardinality(Ways(kids, q)) = 0
<1>1. ASSUME NEW i \in DOMAIN kids, kids[i] \in Prefixes(q) PROVE FALSE
  <2>1. PICK k : k = kids[i]
    OBVIOUS
  <2>2. k \in Paths /\ k # Root /\ Front(k) = h /\ k \in Prefixes(q)
    BY <1>1, <2>1
  <2>3. h \in Prefixes(q) /\ h # q
    <3>1. h \in Prefixes(k) /\ Prefixes(k) \subseteq Prefixes(q)
      BY <2>2, PrefixesAround, PrefixesOf
    <3>2. Len(h) = Len(k) - 1 /\ Len(k) <= Len(q) /\ Len(k) \in Nat /\ Len(q) \in Nat
      BY <2>2, FrontAt, PrefixIs
    <3> QED
      BY <3>1, <3>2
  <2> QED
    BY <2>3
<1> QED
  BY <1>1, NoWays

\* Through the child on the way, a walk comes as often as through the node around it.
LEMMA NoWayIsLost ==
  ASSUME ImportInv, MeansInv, ChildrenInv, Root \in DOMAIN nodes,
         NEW q \in DOMAIN nodes, ~IsHidden(q), NEW h \in Prefixes(q), h # q,
         NEW kids, kids = ChildrenOf(h)
  PROVE  Cardinality(Ways(kids, q)) = Cardinality(Ways(<<h>>, q))
<1>1. DOMAIN nodes \subseteq Paths /\ q \in Paths
  BY DEF ImportInv, Typing
<1>2. Prefixes(q) \subseteq DOMAIN nodes
  BY NodesAround
<1>3. PICK c \in Prefixes(q) :
         /\ c # Root /\ Front(c) = h
         /\ \A d \in Prefixes(q) : d # Root /\ Front(d) = h => d = c
  BY <1>1, StepTowards
<1>4. ~HiddenStep(c)
  BY <1>1, <1>3, HiddenAlong
<1>5. Cardinality(Positions(kids, c)) = IF DoubledStep(c) THEN 2 ELSE 1
  BY <1>2, <1>3, <1>4, ChildPositions
<1>6. kids \in Seq(NodesUnder(h)) /\ kids \in Seq(Paths)
  <2>1. kids \in Seq(NodesUnder(h))
    BY <1>2 DEF ChildrenInv
  <2>2. NodesUnder(h) \subseteq Paths
    BY <1>1 DEF NodesUnder
  <2> QED
    BY <2>1, <2>2, SequencesGrow
<1>7. \A i \in DOMAIN kids : kids[i] \in Prefixes(q) => kids[i] = c
  BY <1>3, <1>6 DEF NodesUnder
<1>8. Cardinality(Ways(kids, q)) =
         Cardinality(Positions(kids, c)) * Cardinality(SUBSET (DoubledSteps(q) \ DoubledSteps(c)))
  BY <1>1, <1>6, <1>7, WaysFrom
<1>9. Cardinality(Ways(<<h>>, q)) = Cardinality(SUBSET (DoubledSteps(q) \ DoubledSteps(h)))
  BY <1>1, WaysFromOne
<1> DEFINE below == DoubledSteps(q) \ DoubledSteps(c)
<1>10. /\ DoubledSteps(q) \ DoubledSteps(h) = IF DoubledStep(c) THEN below \cup {c} ELSE below
       /\ c \notin below \/ ~DoubledStep(c)
  <2>1. c \in Paths
    BY <1>1, <1>2
  <2>2. DoubledSteps(c) = DoubledSteps(h) \cup (IF DoubledStep(c) THEN {c} ELSE {}) /\ c \notin DoubledSteps(h)
    BY <1>3, <2>1, DoubledBelow
  <2>3. DoubledSteps(c) \subseteq DoubledSteps(q)
    BY <1>1, DoubledFacts
  <2> QED
    BY <2>2, <2>3
<1>11. IsFiniteSet(below)
  <2>1. IsFiniteSet(DoubledSteps(q))
    BY <1>1, DoubledFacts
  <2> QED
    BY <2>1, FS_Subset
<1> HIDE DEF below
<1>12. Cardinality(SUBSET below) \in Nat
  <2>1. IsFiniteSet(SUBSET below)
    BY <1>11, FS_SUBSET
  <2> QED
    BY <2>1, FS_CardinalityType, Zenon
<1>13. PICK n : n = Cardinality(SUBSET below)
  OBVIOUS
<1>14. Cardinality(Ways(kids, q)) = Cardinality(Positions(kids, c)) * n
  BY <1>8, <1>13, Zenon DEF below
<1>15. CASE DoubledStep(c)
  <2>1. Cardinality(Ways(<<h>>, q)) = Cardinality(SUBSET (below \cup {c}))
    BY <1>9, <1>10, <1>15, Zenon
  <2>2. Cardinality(SUBSET (below \cup {c})) = 2 * n
    BY <1>10, <1>11, <1>13, <1>15, SubsetsDouble, Zenon
  <2>3. Cardinality(Positions(kids, c)) = 2
    BY <1>5, <1>15
  <2> QED
    BY <1>14, <2>1, <2>2, <2>3, Zenon
<1>16. CASE ~DoubledStep(c)
  <2>1. Cardinality(Ways(<<h>>, q)) = n
    BY <1>9, <1>10, <1>13, <1>16, Zenon
  <2>2. Cardinality(Positions(kids, c)) = 1 /\ n \in Nat
    BY <1>5, <1>12, <1>13, <1>16, Zenon
  <2>3. Cardinality(Ways(kids, q)) = 1 * n /\ n \in Nat
    BY <1>14, <2>2, Zenon
  <2> QED
    BY <2>1, <2>3
<1> QED
  BY <1>15, <1>16

\* A visit keeps the account of a node that the pass is to see.
LEMMA WaysOfVisit ==
  ASSUME ImportInv, MeansInv, ChildrenInv, Root \in DOMAIN nodes, visitor \in Visitors,
         NEW h \in DOMAIN nodes, NEW q \in DOMAIN nodes, Reached(q), CallsBack(Decision(q)),
         NEW more, more = IF CallsBack(Decision(h)) THEN <<h>> ELSE << >>,
         NEW kids, kids = IF GoesInto(h) THEN ChildrenOf(h) ELSE << >>
  PROVE  Cardinality(Positions(more, q)) + Cardinality(Ways(kids, q)) = Cardinality(Ways(<<h>>, q))
<1>1. /\ DOMAIN nodes \subseteq Paths /\ q \in Paths /\ h \in Paths
      /\ kids \in Seq(Paths) /\ \A i \in DOMAIN kids : kids[i] # Root /\ Front(kids[i]) = h
  <2>1. DOMAIN nodes \subseteq Paths
    BY DEF ImportInv, Typing
  <2>2. ChildrenOf(h) \in Seq(NodesUnder(h)) /\ NodesUnder(h) \subseteq Paths
    BY <2>1 DEF ChildrenInv, NodesUnder
  <2>3. kids \in Seq(NodesUnder(h))
    BY <2>2
  <2>4. kids \in Seq(Paths)
    BY <2>2, <2>3, SequencesGrow
  <2> QED
    BY <2>1, <2>3, <2>4 DEF NodesUnder
<1>2. h # q => Cardinality(Positions(more, q)) = 0
  BY OneOf
<1>3. CASE h \notin Prefixes(q)
  <2>1. h # q
    BY <1>1, <1>3, PrefixesOf
  <2>2. Cardinality(Ways(kids, q)) = 0
    BY <1>1, <1>3, NoWaysAside
  <2>3. Cardinality(Ways(<<h>>, q)) = 0
    <3>1. PICK s : s = <<h>>
      OBVIOUS
    <3>2. s \in Seq(Paths) /\ \A i \in DOMAIN s : s[i] \notin Prefixes(q)
      BY <1>1, <1>3, <3>1
    <3> QED
      BY <1>1, <3>1, <3>2, NoWays
  <2> QED
    BY <1>2, <2>1, <2>2, <2>3
<1>4. CASE h = q
  <2>1. Cardinality(Positions(more, q)) = 1
    BY <1>4, OneOf
  <2>2. Cardinality(Ways(kids, q)) = 0
    BY <1>1, <1>4, NoWaysAside
  <2>3. Cardinality(Ways(<<h>>, q)) = 1
    <3>1. q \in Prefixes(q)
      BY <1>1, PrefixesOf
    <3>2. Cardinality(Ways(<<h>>, q)) = Cardinality(SUBSET (DoubledSteps(q) \ DoubledSteps(q)))
      BY <1>1, <1>4, <3>1, WaysFromOne
    <3>3. SUBSET (DoubledSteps(q) \ DoubledSteps(q)) = {{}}
      OBVIOUS
    <3>4. Cardinality({{}}) = 1
      BY FS_Singleton
    <3> QED
      BY <3>2, <3>3, <3>4, Zenon
  <2> QED
    BY <2>1, <2>2, <2>3
<1>5. CASE h \in Prefixes(q) /\ h # q
  <2>1. ~Closed(h) /\ ~IsHidden(q)
    BY <1>5 DEF Reached
  <2>2. kids = ChildrenOf(h)
    BY <2>1, OpenNodes
  <2>3. Cardinality(Ways(kids, q)) = Cardinality(Ways(<<h>>, q))
    BY <1>5, <2>1, <2>2, NoWayIsLost
  <2>4. Cardinality(Ways(kids, q)) \in Nat
    BY <1>1, WaysFinite
  <2> QED
    BY <1>2, <1>5, <2>3, <2>4
<1> QED
  BY <1>3, <1>4, <1>5

------------------------------------------------------------------------------------------
\* The account that a walk keeps, from its start to its end.
\* Every node that the pass is to see is accounted for: the times it was seen, and the ways the walk
\* will still come to it.
Accounted(q) ==
    Cardinality(Positions(seen, q)) + Cardinality(Ways(pending, q)) = Cardinality(SUBSET DoubledSteps(q))
WalkInv ==
    phase \in {"walk", "done"} =>
        /\ visitor \in Visitors
        /\ phase = "done" => pending = << >>
        /\ \A q \in ToSet(pending) \cup ToSet(seen) : Reached(q)
        /\ \A q \in ToSet(seen) : CallsBack(Decision(q))
        /\ \A q \in DOMAIN nodes : Reached(q) /\ CallsBack(Decision(q)) => Accounted(q)

\* What the account is of depends on the file alone, which no step changes.
LEMMA WalkTermsStay ==
  ASSUME UNCHANGED <<file, nodes, visitor>>, NEW q
  PROVE  /\ Reached(q)' <=> Reached(q)
         /\ CallsBack(Decision(q))' <=> CallsBack(Decision(q))
         /\ Accounted(q)' <=>
               Cardinality(Positions(seen', q)) + Cardinality(Ways(pending', q)) = Cardinality(SUBSET DoubledSteps(q))
<1>1. \A p : Decision(p)' = Decision(p)
  BY DEF Decision, Everything, ImportedNames, DefaultExports, NamedExports, RequireCalls
<1>2. \A p : Closed(p)' <=> Closed(p)
  BY <1>1 DEF Closed
<1>3. IsHidden(q)' <=> IsHidden(q)
  BY DEF IsHidden, IsComment, ObjectAt
<1>4. DoubledSteps(q)' = DoubledSteps(q) /\ Ways(pending, q)' = Ways(pending', q)
  BY DEF DoubledSteps, Ways, ObjectAt
<1>5. Reached(q)' <=> Reached(q)
  BY <1>2, <1>3 DEF Reached
<1>6. CallsBack(Decision(q))' <=> CallsBack(Decision(q))
  BY <1>1 DEF CallsBack
<1>7. Accounted(q)' <=>
         Cardinality(Positions(seen', q)) + Cardinality(Ways(pending', q)) = Cardinality(SUBSET DoubledSteps(q))
  BY <1>4 DEF Accounted, Positions
<1> QED
  BY <1>5, <1>6, <1>7

\* A visit keeps the account of every node.
LEMMA VisitKeepsWalk ==
  ASSUME TypeInv, MeansInv, WalkInv, Visit
  PROVE  WalkInv'
<1>1. /\ phase = "walk" /\ phase' = "walk" /\ UNCHANGED <<file, nodes, visitor>>
      /\ pending # << >> /\ pending \in Seq(DOMAIN nodes) /\ seen \in Seq(DOMAIN nodes)
      /\ ImportInv /\ ChildrenInv /\ Root \in DOMAIN nodes /\ visitor \in Visitors
      /\ DOMAIN nodes \subseteq Paths
  BY DEF Visit, TypeInv, QueueInv, ImportInv, PhaseInv, WalkInv, Typing
<1>2. PICK h, rest, kids, more :
         /\ h = Head(pending) /\ rest = Tail(pending)
         /\ more = IF CallsBack(Decision(h)) THEN <<h>> ELSE << >>
         /\ kids = IF GoesInto(h) THEN ChildrenOf(h) ELSE << >>
  OBVIOUS
<1>3. /\ h \in DOMAIN nodes /\ rest \in Seq(DOMAIN nodes) /\ pending = <<h>> \o rest
      /\ h \in ToSet(pending) /\ \A q \in ToSet(rest) : q \in ToSet(pending)
  <2>1. /\ h \in DOMAIN nodes /\ rest \in Seq(DOMAIN nodes) /\ pending = <<h>> \o rest /\ h = pending[1]
        /\ 1 \in DOMAIN pending /\ \A i \in DOMAIN rest : i + 1 \in DOMAIN pending /\ rest[i] = pending[i + 1]
    BY <1>1, <1>2
  <2>2. h \in ToSet(pending)
    BY <2>1, Zenon DEF ToSet
  <2>3. \A q \in ToSet(rest) : q \in ToSet(pending)
    BY <2>1, Zenon DEF ToSet
  <2> QED
    BY <2>1, <2>2, <2>3
<1>4. seen' = seen \o more /\ pending' = kids \o rest
  <2>1. CASE CallsBack(Decision(h))
    <3>1. seen' = Append(seen, h) /\ more = <<h>>
      BY <1>2, <2>1 DEF Visit
    <3> QED
      BY <1>1, <1>2, <3>1 DEF Visit, ChildrenOf
  <2>2. CASE ~CallsBack(Decision(h))
    <3>1. seen' = seen /\ more = << >>
      BY <1>2, <2>2 DEF Visit
    <3> QED
      BY <1>1, <1>2, <3>1 DEF Visit, ChildrenOf
  <2> QED
    BY <2>1, <2>2
<1>5. kids \in Seq(NodesUnder(h)) /\ more \in Seq(DOMAIN nodes)
  <2>1. ChildrenOf(h) \in Seq(NodesUnder(h))
    BY <1>1, <1>3 DEF ChildrenInv
  <2>2. <<h>> \in Seq(DOMAIN nodes) /\ << >> \in Seq(DOMAIN nodes) /\ << >> \in Seq(NodesUnder(h))
    BY <1>3
  <2>3. more = <<h>> \/ more = << >>
    BY <1>2
  <2>4. kids = ChildrenOf(h) \/ kids = << >>
    BY <1>2
  <2> QED
    BY <2>1, <2>2, <2>3, <2>4
<1>6. /\ kids \in Seq(Paths) /\ rest \in Seq(Paths) /\ <<h>> \in Seq(Paths) /\ h \in Paths
      /\ seen \in Seq(Paths) /\ more \in Seq(Paths)
  <2>1. NodesUnder(h) \subseteq Paths
    BY <1>1 DEF NodesUnder
  <2>2. h \in Paths
    BY <1>1, <1>3
  <2> QED
    BY <1>1, <1>3, <1>5, <2>1, <2>2, SequencesGrow
<1>7. ASSUME NEW q \in DOMAIN nodes, Reached(q), CallsBack(Decision(q))
      PROVE  Cardinality(Positions(seen', q)) + Cardinality(Ways(pending', q)) = Cardinality(SUBSET DoubledSteps(q))
  <2>1. q \in Paths /\ Accounted(q)
    BY <1>1, <1>7 DEF WalkInv
  <2>2. Cardinality(Positions(more, q)) + Cardinality(Ways(kids, q)) = Cardinality(Ways(<<h>>, q))
    BY <1>1, <1>2, <1>3, <1>7, WaysOfVisit
  <2>3. Cardinality(Ways(pending, q)) = Cardinality(Ways(<<h>>, q)) + Cardinality(Ways(rest, q))
    <3>1. PICK first : first = <<h>>
      OBVIOUS
    <3>2. first \in Seq(Paths) /\ pending = first \o rest
      BY <1>3, <1>6, <3>1
    <3> QED
      BY <1>6, <2>1, <3>1, <3>2, WaysAdd
  <2>4. Cardinality(Ways(pending', q)) = Cardinality(Ways(kids, q)) + Cardinality(Ways(rest, q))
    BY <1>4, <1>6, <2>1, WaysAdd
  <2>5. Cardinality(Positions(seen', q)) = Cardinality(Positions(seen, q)) + Cardinality(Positions(more, q))
    BY <1>4, <1>6, PositionsAdd
  <2>6. /\ Cardinality(Positions(seen, q)) \in Nat /\ Cardinality(Positions(more, q)) \in Nat
        /\ Cardinality(Ways(kids, q)) \in Nat /\ Cardinality(Ways(rest, q)) \in Nat
    BY <1>6, <2>1, PositionsFinite, WaysFinite
  <2>7. Cardinality(Positions(seen, q)) + Cardinality(Ways(pending, q)) = Cardinality(SUBSET DoubledSteps(q))
    BY <2>1 DEF Accounted
  <2> QED
    BY <2>2, <2>3, <2>4, <2>5, <2>6, <2>7
<1>8. ASSUME NEW k \in ToSet(kids) PROVE Reached(k)
  <2>1. k \in NodesUnder(h) /\ kids # << >>
    BY <1>5 DEF ToSet
  <2>2. kids = ChildrenOf(h) /\ GoesInto(h)
    BY <1>2, <2>1
  <2>3. k \in DOMAIN nodes /\ k # Root /\ Front(k) = h /\ k \in Paths
    BY <1>1, <2>1 DEF NodesUnder
  <2>4. ~Closed(h) /\ Reached(h)
    BY <1>1, <1>3, <2>2, OpenNodes DEF WalkInv
  <2>5. ~HiddenStep(k)
    <3>1. SUFFICES ASSUME HiddenStep(k) PROVE FALSE
      OBVIOUS
    <3>2. Cardinality(Positions(kids, k)) = 0
      BY <1>1, <1>3, <2>2, <2>3, <3>1, ChildPositions
    <3>3. IsFiniteSet(Positions(kids, k)) /\ Positions(kids, k) # {}
      BY <1>6, <1>8, PositionsFinite DEF Positions, ToSet
    <3> QED
      BY <3>2, <3>3, FS_EmptySet
  <2> QED
    BY <2>3, <2>4, <2>5, ReachedBelow
<1>9. \A q \in ToSet(pending') : Reached(q)
  <2>1. \A q \in ToSet(pending') : q \in ToSet(kids) \/ q \in ToSet(rest)
    BY <1>4, <1>6, ConcatAt DEF ToSet
  <2>2. \A q \in ToSet(rest) : Reached(q)
    BY <1>1, <1>3 DEF WalkInv
  <2> QED
    BY <1>8, <2>1, <2>2
<1>10. \A q \in ToSet(seen') : Reached(q) /\ CallsBack(Decision(q))
  <2>1. \A q \in ToSet(seen') : q \in ToSet(seen) \/ q \in ToSet(more)
    BY <1>4, <1>6, ConcatAt DEF ToSet
  <2>2. \A q \in ToSet(more) : q = h /\ CallsBack(Decision(h))
    BY <1>2 DEF ToSet
  <2> QED
    BY <1>1, <1>3, <2>1, <2>2 DEF WalkInv
<1>11. \A q \in ToSet(pending') \cup ToSet(seen') : Reached(q)'
  BY <1>1, <1>9, <1>10, WalkTermsStay
<1>12. \A q \in ToSet(seen') : CallsBack(Decision(q))'
  BY <1>1, <1>10, WalkTermsStay
<1>13. \A q \in DOMAIN nodes' : Reached(q)' /\ CallsBack(Decision(q))' => Accounted(q)'
  BY <1>1, <1>7, WalkTermsStay
<1> QED
  BY <1>1, <1>11, <1>12, <1>13 DEF WalkInv, ToSet

\* The walk begins with the file, from which there is a way to every node that is not hidden.
LEMMA WalkBegins ==
  ASSUME ImportInv, Construct
  PROVE  WalkInv'
<1>1. SUFFICES ASSUME phase' \in {"walk", "done"} PROVE WalkInv'
  BY DEF WalkInv
<1>2. phase = "import" /\ pending' = <<Root>> /\ visitor' \in Visitors /\ phase' = "walk" /\ seen' = << >>
      /\ UNCHANGED file
  BY <1>1 DEF Construct, Importing, ImportInv, PhaseInv
<1>3. DOMAIN nodes' \subseteq Paths
  BY ConstructIsSafe DEF ImportInv, Typing
<1>4. Reached(Root)'
  <2>1. Root \in Paths
    BY DEF Root, Paths
  <2>2. Prefixes(Root) = {Root}
    BY <2>1, PrefixesOf
  <2> QED
    BY <2>2 DEF Reached, IsHidden, IsComment
<1>5. ASSUME NEW q \in DOMAIN nodes' PROVE Accounted(q)'
  <2>1. q \in Paths /\ Root \in Prefixes(q) /\ DoubledSteps(Root) = {}
    BY <1>3, PrefixesOf, DoubledFacts
  <2>2. DoubledSteps(q)' = DoubledSteps(q) /\ Ways(pending, q)' = Ways(pending', q)
    BY <1>2 DEF DoubledSteps, Ways, ObjectAt
  <2>3. Cardinality(Ways(<<Root>>, q)) = Cardinality(SUBSET (DoubledSteps(q) \ DoubledSteps(Root)))
    BY <2>1, WaysFromOne
  <2>4. DoubledSteps(q) \ DoubledSteps(Root) = DoubledSteps(q)
    BY <2>1
  <2>5. Cardinality(Positions(<< >>, q)) = 0
    BY OneOf
  <2>6. PICK n : n = Cardinality(SUBSET DoubledSteps(q))
    OBVIOUS
  <2>7. n \in Nat
    <3>1. IsFiniteSet(SUBSET DoubledSteps(q))
      BY <2>1, DoubledFacts, FS_SUBSET
    <3> QED
      BY <2>6, <3>1, FS_CardinalityType, Zenon
  <2>8. Cardinality(Positions(seen', q)) + Cardinality(Ways(pending', q)) = n
    <3>1. Cardinality(Ways(pending', q)) = n
      BY <1>2, <2>3, <2>4, <2>6, Zenon
    <3>2. Cardinality(Positions(seen', q)) = 0
      BY <1>2, <2>5
    <3> QED
      BY <2>7, <3>1, <3>2
  <2> QED
    BY <2>2, <2>6, <2>8 DEF Accounted, Positions
<1> QED
  BY <1>2, <1>4, <1>5 DEF WalkInv, ToSet

\* Every step keeps it.
LEMMA WalkGoesOn ==
  ASSUME TypeInv, MeansInv, WalkInv, [Next]_vars
  PROVE  WalkInv'
<1>1. CASE Construct
  BY <1>1, WalkBegins DEF TypeInv
<1>2. CASE Visit
  BY <1>2, VisitKeepsWalk
<1>3. CASE ImportChild \/ RefuseWord \/ StartArray \/ ImportElement \/ FinishArray
  <2>1. phase' \notin {"walk", "done"}
    <3>1. Importing /\ (phase' = phase \/ phase' = "failed")
      <4>1. CASE ImportElement \/ FinishArray
        BY <4>1 DEF ImportElement, FinishArray, Import
      <4>2. CASE ImportChild \/ RefuseWord \/ StartArray
        <5>1. Startable # {}
          BY <4>2, Zenon DEF ImportChild, RefuseWord, StartArray
        <5>2. Importing
          BY <5>1 DEF Startable
        <5> QED
          BY <4>2, <5>2, Zenon DEF ImportChild, RefuseWord, StartArray, Import
      <4> QED
        BY <1>3, <4>1, <4>2
    <3> QED
      BY <3>1 DEF Importing
  <2> QED
    BY <2>1 DEF WalkInv
<1>4. CASE EndWalk \/ UNCHANGED vars
  <2>1. UNCHANGED <<file, nodes, visitor, pending, seen>>
    BY <1>4 DEF EndWalk, vars
  <2>2. /\ phase' \in {"walk", "done"} => phase \in {"walk", "done"}
        /\ phase' = "done" => pending' = << >> \/ phase = "done"
    BY <1>4 DEF EndWalk, vars
  <2>3. \A q : (Reached(q)' <=> Reached(q)) /\ (CallsBack(Decision(q))' <=> CallsBack(Decision(q)))
               /\ (Accounted(q)' <=> Accounted(q))
    BY <2>1, WalkTermsStay DEF Accounted
  <2> QED
    BY <2>1, <2>2, <2>3 DEF WalkInv, ToSet
<1> QED
  BY <1>1, <1>2, <1>3, <1>4 DEF Next

\* When the walk is done, no way is left: what was seen is what TimesMet says.
LEMMA EachIsSeen ==
  ASSUME TypeInv, WalkInv
  PROVE  CallbackSeesEachNodeOnce
<1>1. SUFFICES ASSUME phase = "done", NEW place \in DOMAIN nodes
               PROVE  Cardinality({i \in DOMAIN seen : seen[i] = place}) =
                        IF TimesMet(place) = 0 \/ ~CallsBack(Decision(place)) THEN 0 ELSE TimesMet(place)
  BY DEF CallbackSeesEachNodeOnce
<1>2. place \in Paths /\ pending = << >>
  BY <1>1 DEF TypeInv, ImportInv, Typing, WalkInv
<1>3. CASE Reached(place) /\ CallsBack(Decision(place))
  <2>1. Accounted(place)
    BY <1>1, <1>3 DEF WalkInv
  <2>2. Cardinality(Ways(pending, place)) = 0
    <3>1. pending \in Seq(Paths) /\ DOMAIN pending = {}
      BY <1>2
    <3> QED
      BY <1>2, <3>1, NoWays
  <2>3. Cardinality(SUBSET DoubledSteps(place)) = 2 ^ Cardinality(DoubledSteps(place))
    BY <1>2, DoubledFacts, FS_SUBSET
  <2>4. TimesMet(place) = 2 ^ Cardinality(DoubledSteps(place))
    BY <1>3 DEF TimesMet, Reached
  <2>5. Cardinality(Positions(seen, place)) = TimesMet(place)
    <3>1. Cardinality(Positions(seen, place)) \in Nat
      <4>1. seen \in Seq(DOMAIN nodes)
        BY DEF TypeInv, QueueInv
      <4> QED
        BY <4>1, PositionsFinite
    <3>2. Cardinality(Positions(seen, place)) + 0 = TimesMet(place)
      BY <2>1, <2>2, <2>3, <2>4, Zenon DEF Accounted
    <3> QED
      BY <3>1, <3>2
  <2> QED
    BY <1>3, <2>5 DEF Positions
<1>4. CASE ~(Reached(place) /\ CallsBack(Decision(place)))
  <2>1. place \notin ToSet(seen)
    BY <1>1, <1>4 DEF WalkInv
  <2>2. {i \in DOMAIN seen : seen[i] = place} = {}
    BY <2>1 DEF ToSet
  <2>3. TimesMet(place) = 0 \/ ~CallsBack(Decision(place))
    BY <1>4 DEF TimesMet, Reached
  <2> QED
    BY <2>2, <2>3, FS_EmptySet
<1> QED
  BY <1>3, <1>4

\* A pass sees every node that its predicate lets it see as often as the walk is bound to come to it:
\* once, and twice for every return type of a class method on the way; and it sees no other. For every
\* file and every pass, from the tables of the walks and the account of the ways that are left.
THEOREM CallbackSees == Spec => []CallbackSeesEachNodeOnce
<1>1. Init => TypeInv /\ MeansInv /\ WalkInv
  <2>1. Init => WalkInv
    BY DEF Init, WalkInv
  <2> QED
    BY <2>1, TypesStart, MeansStarts
<1>2. TypeInv /\ MeansInv /\ WalkInv /\ [Next]_vars => (TypeInv /\ MeansInv /\ WalkInv)'
  <2>1. TypeInv => ImportInv
    BY DEF TypeInv
  <2> QED
    BY <2>1, TypesGoOn, MeansGoesOn, WalkGoesOn
<1>3. TypeInv /\ MeansInv /\ WalkInv => CallbackSeesEachNodeOnce
  BY EachIsSeen
<1> QED
  BY <1>1, <1>2, <1>3, PTL DEF Spec
==========================================================================================
