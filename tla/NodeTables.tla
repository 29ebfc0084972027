--------------------------------- MODULE NodeTables -----------------------------------------
\* The vocabulary of the tables of node kinds: ImportTable, ConstructorTable, ClassTable and
\* WalkTable say it of about 120 kinds each. A value that the importer only copies (a flag, a
\* number, a text) is the name of the attribute it comes from, and No when it is missing.
EXTENDS Integers, Sequences, FiniteSets, TLC

\* A flag that is not set, a word that is not given.
No == "no"

\* The same row for several kinds.
Each(kinds, row) == [k \in kinds |-> row]

------------------------------------------------------------------------------------------
\* The helpers of import.cpp that read an argument: importChild, importChildOrNullptr,
\* importChildArray, the same behind hasKey, and the readers of values.
Argument(op, attr) == [op |-> op, attr |-> attr, words |-> {}, early |-> FALSE]
Child(attr) == Argument("Child", attr)
Maybe(attr) == Argument("Maybe", attr)
List(attr) == Argument("List", attr)
ListIfAny(attr) == Argument("ListIfAny", attr)
Nothing(attr) == Argument("Nothing", attr)
Value(attr) == Argument("Value", attr)
Flag(attr) == Argument("Value", attr)
FlagIfAny(attr) == Argument("ValueIfAny", attr)
Fixed(word) == Argument("Fixed", word)

\* A word compared with those the importer knows: another one makes it throw. It is read, and
\* refused, before anything else of the node.
Word(attr, words) == [Argument("Word", attr) EXCEPT !.words = words, !.early = TRUE]
WordIfAny(attr, words) == [Argument("WordIfAny", attr) EXCEPT !.words = words, !.early = TRUE]

\* importImportSpecifier: whether the word is "type"; any other word is accepted.
IfType(attr) == Argument("IfType", attr)

\* An argument imported by a statement of its own, before the constructor's other arguments.
Early(argument) == [argument EXCEPT !.early = TRUE]

------------------------------------------------------------------------------------------
\* applyNode and applyArray on a member, and a member walked unless a flag is set.
One(member) == [member |-> member, many |-> FALSE, unless |-> No]
Many(member) == [member |-> member, many |-> TRUE, unless |-> No]
Unless(flag, member) == [member |-> member, many |-> FALSE, unless |-> flag]

------------------------------------------------------------------------------------------
\* A class of ast.hpp.
InnerOf(base, own) == [base |-> base, own |-> own, walks |-> TRUE]
LeafOf(base, own) == [base |-> base, own |-> own, walks |-> FALSE]
Inner(own) == InnerOf("AstNode", own)
Leaf(own) == LeafOf("AstNode", own)
==========================================================================================
