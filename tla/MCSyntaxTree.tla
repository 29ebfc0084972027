----------------------------------- MODULE MCSyntaxTree --------------------------------------
\* Model checking SyntaxTree on files that between them hold every kind of node.
EXTENDS SyntaxTree

\* What Babel makes of a piece of syntax: place -> object, from the same for the pieces that it
\* holds (kids: one each, arrays: sequences, Null for a hole) and the values that matter.
N(kind, kids, arrays, values) ==
    LET steps == {<<a, 0>> : a \in DOMAIN kids}
                 \cup UNION {{<<a, i>> : i \in {j \in DOMAIN arrays[a] : arrays[a][j] # Null}} :
                            a \in DOMAIN arrays}
        Piece(step) == IF step[2] = 0 THEN kids[step[1]] ELSE arrays[step[1]][step[2]]
        places == UNION {{<<step>> \o place : place \in DOMAIN Piece(step)} : step \in steps}
        object == [type |-> kind, kids |-> DOMAIN kids, values |-> values,
                   arrays |-> [a \in DOMAIN arrays |-> [i \in DOMAIN arrays[a] |-> arrays[a][i] # Null]]]
    IN (Root :> object) @@ [place \in places |-> Piece(Head(place))[Tail(place)]]
File(body, comments) ==
    N("Root", << >>,
      [body |-> body] @@ (IF comments = << >> THEN << >> ELSE [comments |-> comments]), << >>)

None == << >>
Plain(kind) == N(kind, None, None, None)
Id(name) == N("Identifier", None, None, [name |-> name])
Text == Plain("StringLiteral")
Number == Plain("NumericLiteral")
Do(expression) == N("ExpressionStatement", [expression |-> expression], None, None)
Block(body) == N("BlockStatement", None, [body |-> body], None)
Unary(kind, argument) == N(kind, [argument |-> argument], None, None)
Binary(kind, left, right) == N(kind, [left |-> left, right |-> right], None, None)
Var(id, init) ==
    N("VariableDeclaration", None,
      [declarations |-> <<N("VariableDeclarator", [id |-> id, init |-> init], None, None)>>], None)
Typed(name, type) ==
    N("Identifier", [typeAnnotation |-> N("TypeAnnotation", [typeAnnotation |-> type], None, None)], None,
      [name |-> name, optional |-> "optional"])
Annotation(type) == N("TypeAnnotation", [typeAnnotation |-> type], None, None)
Alias(id, type) == N("TypeAlias", [id |-> Id(id), right |-> type], None, None)

\* // ...        /* ... */        tag`x${/r/}`;   null; true; 1; "s";
LiteralSyntax ==
    File(<<Do(N("TaggedTemplateExpression",
              [tag |-> Id("tag"), quasi |-> N("TemplateLiteral", None,
                [quasis |-> <<Plain("TemplateElement"), Plain("TemplateElement")>>,
                 expressions |-> <<Plain("RegExpLiteral")>>], None)], None, None)),
           Do(N("ArrayExpression", None,
                [elements |-> <<Plain("NullLiteral"), Null, Plain("BooleanLiteral")>>], None)),
           Do(N("SequenceExpression", None, [expressions |-> <<Number, Text>>], None))>>,
         <<Plain("CommentLine"), Plain("CommentBlock")>>)

\* l: while (a) { continue l; }  do ; while (a)  if (a) debugger; else break;
BranchSyntax ==
    File(<<N("LabeledStatement", [label |-> Id("l"), body |->
                N("WhileStatement", [test |-> Id("a"), body |->
                    Block(<<N("ContinueStatement", [label |-> Id("l")], None, None)>>)], None, None)], None, None),
           N("DoWhileStatement", [test |-> Id("a"), body |-> Plain("EmptyStatement")], None, None),
           N("IfStatement", [test |-> Id("a"), consequent |-> Plain("DebuggerStatement"),
                alternate |-> N("BreakStatement", None, None, None)], None, None)>>, << >>)

\* switch (a) { case 1: b; default: }  try { throw a; } catch (e) {} finally {}  with (o) ;
SwitchSyntax ==
    File(<<N("SwitchStatement", [discriminant |-> Id("a")],
             [cases |-> <<N("SwitchCase", [test |-> Number], [consequent |-> <<Do(Id("b"))>>], None),
                          N("SwitchCase", None, None, None)>>], None),
           N("TryStatement", [block |-> Block(<<Unary("ThrowStatement", Id("a"))>>),
                handler |-> N("CatchClause", [param |-> Id("e"), body |-> Block(<< >>)], None, None),
                finalizer |-> Block(<< >>)], None, None),
           N("WithStatement", [object |-> Id("o"), body |-> Plain("EmptyStatement")], None, None)>>, << >>)

\* for (let i = 0; a; i++) ;  for (k in o) ;  for await (v of a) ;
LoopSyntax ==
    File(<<N("ForStatement", [init |-> Var(Id("i"), Number), test |-> Id("a"),
                update |-> Unary("UpdateExpression", Id("i")), body |-> Plain("EmptyStatement")], None, None),
           N("ForInStatement", [left |-> Id("k"), right |-> Id("o"), body |-> Plain("EmptyStatement")],
                None, None),
           N("ForOfStatement", [left |-> Id("v"), right |-> Id("a"), body |-> Plain("EmptyStatement")],
                None, [await |-> "await"])>>, << >>)

\* a = b + -c && d ? e : new f(g, require);   o::m;   do { this.p; };  (x: any)
OperatorSyntax ==
    File(<<Do(Binary("AssignmentExpression", Id("a"),
              N("ConditionalExpression",
                [test |-> Binary("LogicalExpression",
                            Binary("BinaryExpression", Id("b"), Unary("UnaryExpression", Id("c"))), Id("d")),
                 consequent |-> Id("e"),
                 alternate |-> N("NewExpression", [callee |-> Id("f")],
                                 [arguments |-> <<Id("g"), Id("require")>>], None)], None, None))),
           Do(N("BindExpression", [object |-> Id("o"), callee |-> Id("m")], None, None)),
           Do(N("DoExpression", [body |-> Block(<<Do(N("MemberExpression",
                [object |-> Plain("ThisExpression"), property |-> Id("p")], None, None))>>)], None, None))>>, << >>)

\* require("a"); import(b); f(require); (x: any); new.target
CallSyntax ==
    File(<<Do(N("CallExpression", [callee |-> Id("require")], [arguments |-> <<Text>>], None)),
           Do(N("CallExpression", [callee |-> Plain("Import")], [arguments |-> <<Id("require")>>], None)),
           Do(N("SequenceExpression", None, [expressions |->
                <<N("TypeCastExpression", [expression |-> Id("x"),
                    typeAnnotation |-> Annotation(Plain("AnyTypeAnnotation"))], None, None),
                  N("MetaProperty", [meta |-> Id("new"), property |-> Id("target")], None, None)>>], None))>>,
         << >>)

\* async function* f<T: A>(a = 1): T { await yield b; return; }  o = {get k() {}, p: 1, ...q}
FunctionSyntax ==
    File(<<N("FunctionDeclaration",
             [id |-> Id("f"),
              body |-> Block(<<Do(Unary("AwaitExpression", Unary("YieldExpression", Id("b")))),
                               N("ReturnStatement", None, None, None)>>),
              typeParameters |-> N("TypeParameterDeclaration", None,
                  [params |-> <<N("TypeParameter", [bound |-> Annotation(Plain("MixedTypeAnnotation"))],
                                  None, None)>>], None),
              returnType |-> Annotation(Plain("ExistsTypeAnnotation"))],
             [params |-> <<Binary("AssignmentPattern", Id("a"), Number)>>], None)>>, << >>)
ObjectSyntax ==
    File(<<Do(N("ObjectExpression", None, [properties |->
                <<N("ObjectMethod", [key |-> Id("k"), body |-> Block(<< >>)],
                    [params |-> <<Id("p")>>], [kind |-> "get"]),
                  N("ObjectProperty", [key |-> Id("p"), value |-> Number], None, None),
                  Unary("SpreadElement", Id("q"))>>], None)),
           Var(N("ObjectPattern", [typeAnnotation |-> Annotation(Plain("AnyTypeAnnotation"))],
                 [properties |-> <<Unary("RestElement", Id("r"))>>], None), Id("o")),
           Var(N("ArrayPattern", None, [elements |-> <<Null, Id("s")>>], None),
               N("ArrowFunctionExpression", [body |-> Id("t")], [params |-> <<Id("u"), Id("v")>>],
                 [expression |-> "expression"]))>>, << >>)

\* class A<T> extends B<number> implements I { p: string = 1; #q = 1; m(a): void {} #n(): D {} }
ClassSyntax ==
    File(<<N("ClassDeclaration",
             [id |-> Id("A"), superClass |-> Id("B"),
              typeParameters |-> N("TypeParameterDeclaration", None,
                 [params |-> <<N("TypeParameter", None, None, None)>>], None),
              superTypeParameters |-> N("TypeParameterInstantiation", None,
                 [params |-> <<Plain("NumberTypeAnnotation")>>], None),
              body |-> N("ClassBody", None, [body |-> << >>], None)],
             [implements |-> <<N("ClassImplements", [id |-> Id("I")], None, None)>>], None)>>, << >>)
MemberSyntax ==
    File(<<Do(N("ClassExpression", [body |-> N("ClassBody", None, [body |->
             <<N("ClassProperty", [key |-> Id("p"), value |-> Number,
                    typeAnnotation |-> Annotation(Plain("StringTypeAnnotation"))], None, None),
               N("ClassPrivateProperty", [key |-> Id("q"), value |-> Number], None, None),
               N("ClassMethod", [key |-> Id("m"), body |-> Block(<<Do(Plain("Super"))>>),
                    returnType |-> Annotation(Plain("VoidTypeAnnotation"))],
                    [params |-> <<Id("a")>>], None)>>], None)], None, None)),
           Do(N("ClassExpression", [body |-> N("ClassBody", None, [body |->
             <<N("ClassPrivateMethod", [key |-> Id("n"), body |-> Block(<< >>),
                    returnType |-> Annotation(N("GenericTypeAnnotation", [id |-> Id("D")], None, None))],
                    None, None)>>], None)], None, None)),
           Do(N("FunctionExpression", [body |-> Block(<< >>)], None, None))>>, << >>)

\* import d, {a, b as c} from "m";  import * as n from "m";  import {type t} from "m"
ImportSyntax ==
    File(<<N("ImportDeclaration", [source |-> Text],
             [specifiers |-> <<N("ImportDefaultSpecifier", [local |-> Id("d")], None, None),
                               N("ImportSpecifier", [local |-> Id("a"), imported |-> Id("a")], None, None),
                               N("ImportSpecifier", [local |-> Id("c"), imported |-> Id("b")], None, None)>>],
             [importKind |-> "value"]),
           N("ImportDeclaration", [source |-> Text],
             [specifiers |-> <<N("ImportNamespaceSpecifier", [local |-> Id("n")], None, None)>>], None),
           N("ImportDeclaration", [source |-> Text],
             [specifiers |-> <<N("ImportSpecifier", [local |-> Id("t"), imported |-> Id("t")], None,
                                 [importKind |-> "type"])>>], None)>>,
         <<Plain("CommentLine")>>)

\* export {a, b as c};  export e from "m";  export * from "m";     export default f
ExportSyntax ==
    File(<<N("ExportNamedDeclaration", None, [specifiers |->
              <<N("ExportSpecifier", [local |-> Id("a"), exported |-> Id("a")], None, None),
                N("ExportSpecifier", [local |-> Id("b"), exported |-> Id("c")], None, None)>>],
              [exportKind |-> "value"]),
           N("ExportNamedDeclaration", [source |-> Text], [specifiers |->
              <<N("ExportDefaultSpecifier", [exported |-> Id("e")], None, None)>>], None),
           N("ExportAllDeclaration", [source |-> Text], None, None)>>, << >>)
DefaultExportSyntax ==
    File(<<N("ExportNamedDeclaration", [declaration |-> Var(Id("x"), Id("require"))], None, None),
           N("ExportDefaultDeclaration", [declaration |-> Id("f")], None, None)>>, << >>)

\* type A = ?number[] | [true, 1] & "s" | null;   type B = (a: typeof b, ...c: A) => boolean
TypeSyntax ==
    File(<<Alias("A", N("UnionTypeAnnotation", None, [types |->
              <<N("NullableTypeAnnotation", [typeAnnotation |->
                    N("ArrayTypeAnnotation", [elementType |-> Plain("NumberTypeAnnotation")], None, None)], None, None),
                N("IntersectionTypeAnnotation", None, [types |->
                    <<N("TupleTypeAnnotation", None, [types |->
                        <<Plain("BooleanLiteralTypeAnnotation"), Plain("NumberLiteralTypeAnnotation")>>], None),
                      Plain("StringLiteralTypeAnnotation")>>], None),
                Plain("NullLiteralTypeAnnotation")>>], None)),
           Alias("B", N("FunctionTypeAnnotation",
              [rest |-> N("FunctionTypeParam", [name |-> Id("c"),
                            typeAnnotation |-> N("GenericTypeAnnotation", [id |-> Id("A")], None, None)], None, None),
               returnType |-> Plain("BooleanTypeAnnotation")],
              [params |-> <<N("FunctionTypeParam", [name |-> Id("a"), typeAnnotation |->
                                N("TypeofTypeAnnotation", [argument |-> Id("b")], None, None)], None, None)>>], None))>>,
         << >>)

\* type C = {a?: string, [k: string]: any, ...D};  interface I extends J<Q.T> {}
ObjectTypeSyntax ==
    File(<<Alias("C", N("ObjectTypeAnnotation", None,
              [properties |-> <<N("ObjectTypeProperty", [key |-> Id("a"),
                                    value |-> Plain("StringTypeAnnotation")], None, None),
                                Unary("ObjectTypeSpreadProperty",
                                    N("GenericTypeAnnotation", [id |-> Id("D")], None, None))>>,
               indexers |-> <<N("ObjectTypeIndexer", [id |-> Id("k"), key |-> Plain("StringTypeAnnotation"),
                                    value |-> Plain("AnyTypeAnnotation")], None, None)>>], None)),
           N("InterfaceDeclaration", [id |-> Id("I"), body |-> Plain("ObjectTypeAnnotation")],
              [extends |-> <<N("InterfaceExtends", [id |-> Id("J"), typeParameters |->
                 N("TypeParameterInstantiation", None, [params |->
                    <<N("GenericTypeAnnotation", [id |-> N("QualifiedTypeIdentifier",
                        [qualification |-> Id("Q"), id |-> Id("T")], None, None)], None, None)>>], None)], None, None)>>], None),
           N("DeclareExportDeclaration", [declaration |->
              N("DeclareVariable", [id |-> Id("v")], None, None)], None, None)>>, << >>)

\* declare class C mixins M {};  declare module "m" { declare function f(): void };  declare type
DeclareSyntax ==
    File(<<N("DeclareClass", [id |-> Id("C"), body |-> Plain("ObjectTypeAnnotation")],
              [mixins |-> <<N("InterfaceExtends", [id |-> Id("M")], None, None)>>], None),
           N("DeclareModule", [id |-> Text, body |-> Block(<<N("DeclareFunction",
              [id |-> Typed("f", Plain("VoidTypeAnnotation"))], None, None)>>)], None, None),
           N("DeclareTypeAlias", [id |-> Id("T"), right |-> Plain("AnyTypeAnnotation")], None, None)>>, << >>)

\* What the importer does not know, alone and next to a sibling; four statements, as many as the
\* index of importChildArray can tell apart.
UnknownType == File(<<Do(Number), Do(Binary("BinaryExpression", Id("a"), Plain("BigIntLiteral")))>>, << >>)
UnknownWord ==
    File(<<Do(Binary("LogicalExpression", Id("a"), Id("b"))),
           Do(N("LogicalExpression", [left |-> Id("a"), right |-> Id("b")], None, [operator |-> "??"]))>>, << >>)
UnknownComment == File(<<Do(Number)>>, <<Plain("CommentLine"), Plain("InterpreterDirective")>>)
TooLong == File(<<Do(Id("a")), Do(Id("b")), Do(Id("c")), Do(Id("d"))>>, << >>)

MCFiles ==
    {LiteralSyntax, BranchSyntax, SwitchSyntax, LoopSyntax, OperatorSyntax,
     CallSyntax, FunctionSyntax, ObjectSyntax, ClassSyntax, MemberSyntax,
     ImportSyntax, ExportSyntax, DefaultExportSyntax, TypeSyntax,
     ObjectTypeSyntax, DeclareSyntax, UnknownType, UnknownWord,
     UnknownComment, TooLong}
MCVisitors == {"Everything", "ImportedNames", "DefaultExports", "NamedExports", "RequireCalls"}

==============================================================================================
