------------------------------------- MODULE ImportTable -------------------------------------
\* What src/ast/import.cpp reads of every kind of node that Babel makes: the arguments of the
\* constructor it calls, in the order of the parameters, each with the attribute it comes from
\* and the helper that reads it (NodeTables). An argument marked Early is imported by a
\* statement of its own before the call; C++ leaves the order of the others open.
EXTENDS NodeTables

\* Comments, identifiers, literals and templates.
LiteralImports ==
       Each({"CommentLine"}, <<Fixed("Line"), Value("value")>>)
    @@ Each({"CommentBlock"}, <<Fixed("Block"), Value("value")>>)
    @@ Each({"Identifier"}, <<Value("name"), Maybe("typeAnnotation"), FlagIfAny("optional")>>)
    @@ Each({"StringLiteral", "NumericLiteral"}, <<Value("value")>>)
    @@ Each({"RegExpLiteral"}, <<Value("pattern"), Value("flags")>>)
    @@ Each({"NullLiteral"}, << >>)
    @@ Each({"BooleanLiteral"}, <<Flag("value")>>)
    @@ Each({"TemplateLiteral"}, <<List("quasis"), List("expressions")>>)
    @@ Each({"TemplateElement"}, <<Value("value"), Flag("tail")>>)
    @@ Each({"TaggedTemplateExpression"}, <<Child("tag"), Child("quasi")>>)

\* Statements.
StatementImports ==
       Each({"ExpressionStatement"}, <<Child("expression")>>)
    @@ Each({"EmptyStatement", "DebuggerStatement"}, << >>)
    @@ Each({"WithStatement"}, <<Child("object"), Child("body")>>)
    @@ Each({"ReturnStatement"}, <<Early(Maybe("argument"))>>)
    @@ Each({"LabeledStatement"}, <<Child("label"), Child("body")>>)
    @@ Each({"BreakStatement", "ContinueStatement"}, <<Early(Maybe("label"))>>)
    @@ Each({"IfStatement"}, <<Child("test"), Child("consequent"), Early(Maybe("alternate"))>>)
    @@ Each({"SwitchStatement"}, <<Child("discriminant"), List("cases")>>)
    @@ Each({"SwitchCase"}, <<Early(Maybe("test")), List("consequent")>>)
    @@ Each({"ThrowStatement"}, <<Child("argument")>>)
    @@ Each({"TryStatement"}, <<Child("block"), Early(Maybe("handler")),
              Early(Maybe("finalizer"))>>)
    @@ Each({"CatchClause"}, <<Early(Maybe("param")), Child("body")>>)
    @@ Each({"WhileStatement", "DoWhileStatement"}, <<Child("test"), Child("body")>>)
    @@ Each({"ForStatement"}, <<Early(Maybe("init")), Early(Maybe("test")),
              Early(Maybe("update")), Child("body")>>)
    @@ Each({"ForInStatement"}, <<Child("left"), Child("right"), Child("body")>>)
    @@ Each({"ForOfStatement"}, <<Child("left"), Child("right"), Child("body"),
              FlagIfAny("await")>>)
    @@ Each({"BlockStatement"}, <<List("body")>>)

\* Functions, methods, array and object literals, unary operators.
ExpressionImports ==
       Each({"Super", "Import", "ThisExpression"}, << >>)
    @@ Each({"ArrowFunctionExpression"}, <<Early(Maybe("id")), List("params"), Child("body"),
              Maybe("typeParameters"), Maybe("returnType"), Flag("generator"), Flag("async"),
              FlagIfAny("expression")>>)
    @@ Each({"YieldExpression"}, <<Early(Maybe("argument")), Flag("delegate")>>)
    @@ Each({"AwaitExpression"}, <<Early(Maybe("argument"))>>)
    @@ Each({"ArrayExpression"}, <<List("elements")>>)
    @@ Each({"ObjectExpression"}, <<List("properties")>>)
    @@ Each({"ObjectProperty"}, <<Child("key"), Child("value"), Flag("shorthand"),
              Flag("computed")>>)
    @@ Each({"ObjectMethod"}, <<Early(Maybe("id")), List("params"), Child("body"),
              Maybe("typeParameters"), Maybe("returnType"), Child("key"), Word("kind", {"method",
              "get", "set"}), Flag("generator"), Flag("async"), Flag("computed")>>)
    @@ Each({"FunctionExpression"}, <<Early(Maybe("id")), List("params"), Child("body"),
              Maybe("typeParameters"), Maybe("returnType"), Flag("generator"), Flag("async")>>)
    @@ Each({"UnaryExpression"}, <<Child("argument"), Word("operator", {"-", "+", "!", "~",
              "typeof", "void", "delete"}), Flag("prefix")>>)
    @@ Each({"UpdateExpression"}, <<Child("argument"), Word("operator", {"++", "--"}),
              Flag("prefix")>>)

\* Operators with two operands, calls and the other expressions. An operator the table does not
\* list makes the import throw.
OperatorImports ==
       Each({"BinaryExpression"}, <<Child("left"), Child("right"), Word("operator", {"==", "!=",
              "===", "!==", "<", "<=", ">", ">=", "<<", ">>", ">>>", "+", "-", "*", "/", "%", "**",
              "|", "^", "&", "in", "instanceof"})>>)
    @@ Each({"AssignmentExpression"}, <<Child("left"), Child("right"), Word("operator", {"=",
              "+=", "-=", "*=", "/=", "%=", "**=", "<<=", ">>=", ">>>=", "|=", "^=", "&="})>>)
    @@ Each({"LogicalExpression"}, <<Child("left"), Child("right"), Word("operator", {"||",
              "&&"})>>)
    @@ Each({"MemberExpression"}, <<Child("object"), Child("property"), Flag("computed")>>)
    @@ Each({"BindExpression"}, <<Early(Maybe("object")), Child("callee")>>)
    @@ Each({"ConditionalExpression"}, <<Child("test"), Child("alternate"),
              Child("consequent")>>)
    @@ Each({"CallExpression", "NewExpression"}, <<Child("callee"), List("arguments")>>)
    @@ Each({"SequenceExpression"}, <<List("expressions")>>)
    @@ Each({"DoExpression"}, <<Child("body")>>)

\* Classes and their members, variables, function declarations.
ClassImports ==
       Each({"ClassExpression", "ClassDeclaration"}, <<Early(Maybe("id")),
              Early(Maybe("superClass")), Child("body"), Maybe("typeParameters"),
              Maybe("superTypeParameters"), Early(ListIfAny("implements"))>>)
    @@ Each({"ClassBody"}, <<List("body")>>)
    @@ Each({"ClassMethod"}, <<Early(Maybe("id")), List("params"), Child("body"), Child("key"),
              Maybe("typeParameters"), Maybe("returnType"), Word("kind", {"constructor", "method",
              "get", "set"}), Flag("generator"), Flag("async"), Flag("computed"), Flag("static")>>)
    @@ Each({"ClassPrivateMethod"}, <<Early(Maybe("id")), List("params"), Child("body"),
              Child("key"), Maybe("typeParameters"), Maybe("returnType"), Word("kind", {"method",
              "get", "set"}), Flag("generator"), Flag("async"), Flag("static")>>)
    @@ Each({"ClassProperty"}, <<Child("key"), Maybe("value"), Maybe("typeAnnotation"),
              Flag("static"), Flag("computed")>>)
    @@ Each({"ClassPrivateProperty"}, <<Child("key"), Child("value"), Maybe("typeAnnotation"),
              Flag("static")>>)
    @@ Each({"VariableDeclaration"}, <<Early(List("declarations")), Word("kind", {"var", "let",
              "const"})>>)
    @@ Each({"VariableDeclarator"}, <<Child("id"), Early(Maybe("init"))>>)
    @@ Each({"FunctionDeclaration"}, <<Early(Maybe("id")), List("params"), Child("body"),
              Maybe("typeParameters"), Maybe("returnType"), Flag("generator"), Flag("async")>>)

\* Patterns, imports and exports.
ModuleImports ==
       Each({"SpreadElement"}, <<Child("argument")>>)
    @@ Each({"ObjectPattern"}, <<List("properties"), Maybe("typeAnnotation")>>)
    @@ Each({"ArrayPattern"}, <<List("elements")>>)
    @@ Each({"AssignmentPattern"}, <<Child("left"), Child("right")>>)
    @@ Each({"RestElement"}, <<Child("argument"), Maybe("typeAnnotation")>>)
    @@ Each({"MetaProperty"}, <<Child("meta"), Child("property")>>)
    @@ Each({"ImportDeclaration"}, <<List("specifiers"), Child("source"),
              WordIfAny("importKind", {"value", "type"})>>)
    @@ Each({"ImportSpecifier"}, <<Child("local"), Child("imported"), IfType("importKind")>>)
    @@ Each({"ImportDefaultSpecifier", "ImportNamespaceSpecifier"}, <<Child("local")>>)
    @@ Each({"ExportNamedDeclaration"}, <<Early(Maybe("declaration")), Early(Maybe("source")),
              List("specifiers"), Word("exportKind", {"value", "type"})>>)
    @@ Each({"ExportDefaultDeclaration"}, <<Child("declaration")>>)
    @@ Each({"ExportAllDeclaration"}, <<Child("source")>>)
    @@ Each({"ExportSpecifier"}, <<Child("local"), Child("exported")>>)
    @@ Each({"ExportDefaultSpecifier"}, <<Child("exported")>>)

\* Type annotations of Flow.
TypeImports ==
       Each({"TypeAnnotation", "NullableTypeAnnotation"}, <<Child("typeAnnotation")>>)
    @@ Each({"GenericTypeAnnotation"}, <<Child("id"), Maybe("typeParameters")>>)
    @@ Each({"ObjectTypeAnnotation"}, <<Early(List("properties")), Early(List("indexers")),
              Flag("exact")>>)
    @@ Each({"ObjectTypeProperty"}, <<Child("key"), Child("value"), Flag("optional")>>)
    @@ Each({"ObjectTypeIndexer"}, <<Maybe("id"), Child("key"), Child("value")>>)
    @@ Each({"ObjectTypeSpreadProperty"}, <<Child("argument")>>)
    @@ Each({"StringTypeAnnotation", "NumberTypeAnnotation", "BooleanTypeAnnotation",
              "VoidTypeAnnotation", "AnyTypeAnnotation", "ExistsTypeAnnotation", "MixedTypeAnnotation",
              "NullLiteralTypeAnnotation"}, << >>)
    @@ Each({"ArrayTypeAnnotation"}, <<Child("elementType")>>)
    @@ Each({"TupleTypeAnnotation", "UnionTypeAnnotation", "IntersectionTypeAnnotation"},
              <<List("types")>>)
    @@ Each({"NumberLiteralTypeAnnotation", "StringLiteralTypeAnnotation"}, <<Value("value")>>)
    @@ Each({"BooleanLiteralTypeAnnotation"}, <<Flag("value")>>)
    @@ Each({"FunctionTypeAnnotation"}, <<Early(List("params")), Maybe("rest"),
              Child("returnType")>>)
    @@ Each({"FunctionTypeParam"}, <<Maybe("name"), Child("typeAnnotation")>>)

\* Type parameters, aliases, interfaces and the declare statements of Flow.
DeclarationImports ==
       Each({"TypeParameterInstantiation", "TypeParameterDeclaration"}, <<List("params")>>)
    @@ Each({"TypeParameter"}, <<Value("name"), Maybe("bound")>>)
    @@ Each({"TypeAlias"}, <<Child("id"), Maybe("typeParameters"), Child("right")>>)
    @@ Each({"TypeCastExpression"}, <<Child("expression"), Child("typeAnnotation")>>)
    @@ Each({"ClassImplements", "InterfaceExtends"}, <<Child("id"), Maybe("typeParameters")>>)
    @@ Each({"QualifiedTypeIdentifier"}, <<Child("qualification"), Child("id")>>)
    @@ Each({"TypeofTypeAnnotation"}, <<Child("argument")>>)
    @@ Each({"InterfaceDeclaration", "DeclareClass"}, <<Child("id"), Maybe("typeParameters"),
              Child("body"), Early(List("extends")), Early(List("mixins"))>>)
    @@ Each({"DeclareVariable", "DeclareFunction"}, <<Child("id")>>)
    @@ Each({"DeclareTypeAlias"}, <<Child("id"), Child("right")>>)
    @@ Each({"DeclareModule"}, <<Child("id"), Child("body")>>)
    @@ Each({"DeclareExportDeclaration"}, <<Child("declaration")>>)

\* importFunctions: the kinds that can be imported. Any other type makes importNode throw.
ImportFunctions ==
    LiteralImports @@ StatementImports @@ ExpressionImports @@ OperatorImports @@ ClassImports
    @@ ModuleImports @@ TypeImports @@ DeclarationImports

\* importBabylonAst: the file is imported as a node whose body is the program's. The comments are
\* imported first, and only for a caller that keeps them.
RootImports(keepComments) ==
    <<List("body"), IF keepComments THEN Early(List("comments")) ELSE Nothing("comments")>>
==============================================================================================
