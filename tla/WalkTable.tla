-------------------------------------- MODULE WalkTable --------------------------------------
\* The applyChildren functions of src/ast/walk.cpp: for every class that has its own, the
\* members it hands to the callback, in order.
EXTENDS NodeTables

\* What every function walks: Function::applyChildren.
FunctionChildren ==
    <<One("id"), Many("params"), One("body"), One("typeParameters"), One("returnType")>>

\* The file, literals, functions, statements.
StatementChildren ==
       Each({"Root", "BlockStatement"}, <<Many("body")>>)
    @@ Each({"Identifier"}, <<One("typeAnnotation")>>)
    @@ Each({"TemplateLiteral"}, <<Many("quasis"), Many("expressions")>>)
    @@ Each({"TaggedTemplateExpression"}, <<One("tag"), One("quasi")>>)
    @@ Each({"ObjectProperty"}, <<One("key"), One("value")>>)
    @@ Each({"ObjectMethod"}, <<One("key")>> \o FunctionChildren)
    @@ Each({"ExpressionStatement"}, <<One("expression")>>)
    @@ Each({"WithStatement"}, <<One("object"), One("body")>>)
    @@ Each({"ReturnStatement", "ThrowStatement"}, <<One("argument")>>)
    @@ Each({"LabeledStatement"}, <<One("label"), One("body")>>)
    @@ Each({"BreakStatement", "ContinueStatement"}, <<One("label")>>)
    @@ Each({"IfStatement"}, <<One("test"), One("consequent"), One("alternate")>>)
    @@ Each({"SwitchStatement"}, <<One("discriminant"), Many("cases")>>)
    @@ Each({"SwitchCase"}, <<One("testOrDefault"), Many("consequent")>>)
    @@ Each({"TryStatement"}, <<One("block"), One("handler"), One("finalizer")>>)
    @@ Each({"CatchClause"}, <<One("param"), One("body")>>)

\* Loops, operators.
ExpressionChildren ==
       Each({"WhileStatement", "DoWhileStatement"}, <<One("test"), One("body")>>)
    @@ Each({"ForStatement"}, <<One("init"), One("test"), One("update"), One("body")>>)
    @@ Each({"ForInStatement", "ForOfStatement"}, <<One("left"), One("right"), One("body")>>)
    @@ Each({"YieldExpression", "AwaitExpression", "UnaryExpression", "UpdateExpression"},
              <<One("argument")>>)
    @@ Each({"ArrayExpression"}, <<Many("elements")>>)
    @@ Each({"ObjectExpression"}, <<Many("properties")>>)
    @@ Each({"BinaryExpression", "AssignmentExpression", "LogicalExpression"}, <<One("left"),
              One("right")>>)
    @@ Each({"MemberExpression"}, <<One("object"), One("property")>>)
    @@ Each({"BindExpression"}, <<One("object"), One("callee")>>)
    @@ Each({"ConditionalExpression"}, <<One("test"), One("alternate"), One("consequent")>>)

\* Calls, classes, patterns and imports. A class method names its return type, then walks what
\* every function walks: its return type a second time.
ClassChildren ==
       Each({"CallExpression"}, <<One("callee"), Many("arguments")>>)
    @@ Each({"SequenceExpression"}, <<Many("expressions")>>)
    @@ Each({"DoExpression"}, <<One("body")>>)
    @@ Each({"Class"}, <<Many("implements"), One("id"), One("superClass"), One("body"),
              One("typeParameters"), One("superTypeParameters")>>)
    @@ Each({"ClassBody"}, <<Many("body")>>)
    @@ Each({"ClassProperty", "ClassPrivateProperty"}, <<One("key"), One("value"),
              One("typeAnnotation")>>)
    @@ Each({"ClassMethod", "ClassPrivateMethod"}, <<One("key"), One("returnType")>> \o
              FunctionChildren)
    @@ Each({"VariableDeclaration"}, <<Many("declarators")>>)
    @@ Each({"VariableDeclarator"}, <<One("id"), One("init")>>)
    @@ Each({"SpreadElement"}, <<One("argument")>>)
    @@ Each({"ObjectPattern"}, <<Many("properties"), One("typeAnnotation")>>)
    @@ Each({"ArrayPattern"}, <<Many("elements")>>)
    @@ Each({"AssignmentPattern"}, <<One("left"), One("right")>>)
    @@ Each({"RestElement"}, <<One("argument"), One("typeAnnotation")>>)
    @@ Each({"MetaProperty"}, <<One("meta"), One("property")>>)
    @@ Each({"ImportDeclaration"}, <<Many("specifiers"), One("source")>>)
    @@ Each({"ImportSpecifier"}, <<One("local"), Unless("localEqualsImported", "imported")>>)
    @@ Each({"ImportDefaultSpecifier", "ImportNamespaceSpecifier"}, <<One("local")>>)

\* Exports and types.
TypeChildren ==
       Each({"ExportNamedDeclaration"}, <<One("declaration"), One("source"),
              Many("specifiers")>>)
    @@ Each({"ExportDefaultDeclaration"}, <<One("declaration")>>)
    @@ Each({"ExportAllDeclaration"}, <<One("source")>>)
    @@ Each({"ExportSpecifier"}, <<One("local"), One("exported")>>)
    @@ Each({"ExportDefaultSpecifier"}, <<One("exported")>>)
    @@ Each({"TypeAnnotation"}, <<One("typeAnnotation")>>)
    @@ Each({"GenericTypeAnnotation"}, <<One("id"), One("typeParameters")>>)
    @@ Each({"FunctionTypeAnnotation"}, <<Many("params"), One("rest"), One("returnType")>>)
    @@ Each({"FunctionTypeParam"}, <<One("name"), One("typeAnnotation")>>)
    @@ Each({"ObjectTypeAnnotation"}, <<Many("properties"), Many("indexers")>>)
    @@ Each({"ObjectTypeProperty"}, <<One("key"), One("value")>>)
    @@ Each({"ObjectTypeSpreadProperty"}, <<One("argument")>>)
    @@ Each({"ObjectTypeIndexer"}, <<One("id"), One("key"), One("value")>>)
    @@ Each({"TypeAlias"}, <<One("id"), One("typeParameters"), One("right")>>)
    @@ Each({"TypeParameterInstantiation", "TypeParameterDeclaration"}, <<Many("params")>>)
    @@ Each({"TypeCastExpression"}, <<One("expression"), One("typeAnnotation")>>)

\* The remaining types and declarations.
DeclarationChildren ==
       Each({"NullableTypeAnnotation"}, <<One("typeAnnotation")>>)
    @@ Each({"ArrayTypeAnnotation"}, <<One("elementType")>>)
    @@ Each({"TupleTypeAnnotation", "UnionTypeAnnotation", "IntersectionTypeAnnotation"},
              <<Many("types")>>)
    @@ Each({"ClassImplements", "InterfaceExtends"}, <<One("id"), One("typeParameters")>>)
    @@ Each({"QualifiedTypeIdentifier"}, <<One("qualification"), One("id")>>)
    @@ Each({"TypeofTypeAnnotation"}, <<One("argument")>>)
    @@ Each({"InterfaceDeclaration", "DeclareClass"}, <<One("id"), One("typeParameters"),
              One("body"), Many("extends"), Many("mixins")>>)
    @@ Each({"TypeParameter"}, <<One("name"), One("bound")>>)
    @@ Each({"DeclareVariable", "DeclareFunction"}, <<One("id")>>)
    @@ Each({"DeclareTypeAlias"}, <<One("id"), One("right")>>)
    @@ Each({"DeclareModule"}, <<One("id"), One("body")>>)
    @@ Each({"DeclareExportDeclaration"}, <<One("declaration")>>)

\* The classes with an applyChildren of their own.
Walks ==
    StatementChildren @@ ExpressionChildren @@ ClassChildren @@ TypeChildren @@
    DeclarationChildren @@ Each({"Function"}, FunctionChildren)
==============================================================================================
