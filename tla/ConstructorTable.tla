----------------------------------- MODULE ConstructorTable -----------------------------------
\* The constructors of src/ast/ast.cpp: for every class that is instantiated the member each
\* parameter is stored in, in the order of the parameters, the base classes' members included,
\* and the getters that return them under those names. Location and type are left out: a node
\* is known by its place and its kind.
EXTENDS NodeTables

\* Comments, the file, names and literals.
LiteralMembers ==
       Each({"CommentLine", "CommentBlock"}, <<"type", "text">>)
    @@ Each({"Root"}, <<"body", "comments">>)
    @@ Each({"Identifier"}, <<"name", "typeAnnotation", "optional">>)
    @@ Each({"RegExpLiteral"}, <<"pattern", "flags">>)
    @@ Each({"NullLiteral"}, << >>)
    @@ Each({"StringLiteral", "BooleanLiteral", "NumericLiteral"}, <<"value">>)
    @@ Each({"TemplateLiteral"}, <<"quasis", "expressions">>)

\* Templates, members of objects, the first statements.
StatementMembers ==
       Each({"TemplateElement"}, <<"rawValue", "tail">>)
    @@ Each({"TaggedTemplateExpression"}, <<"tag", "quasi">>)
    @@ Each({"ObjectProperty"}, <<"key", "value", "shorthand", "computed">>)
    @@ Each({"ObjectMethod"}, <<"id", "params", "body", "typeParameters", "returnType", "key",
              "kind", "generator", "async", "computed">>)
    @@ Each({"ExpressionStatement"}, <<"expression">>)
    @@ Each({"BlockStatement"}, <<"body">>)
    @@ Each({"EmptyStatement", "DebuggerStatement"}, << >>)
    @@ Each({"WithStatement"}, <<"object", "body">>)
    @@ Each({"ReturnStatement"}, <<"argument">>)

\* Labels, branches, exceptions.
BranchMembers ==
       Each({"LabeledStatement"}, <<"label", "body">>)
    @@ Each({"BreakStatement", "ContinueStatement"}, <<"label">>)
    @@ Each({"IfStatement"}, <<"test", "consequent", "alternate">>)
    @@ Each({"SwitchStatement"}, <<"discriminant", "cases">>)
    @@ Each({"SwitchCase"}, <<"testOrDefault", "consequent">>)
    @@ Each({"ThrowStatement"}, <<"argument">>)
    @@ Each({"TryStatement"}, <<"block", "handler", "finalizer">>)
    @@ Each({"CatchClause"}, <<"param", "body">>)

\* Loops.
LoopMembers ==
       Each({"WhileStatement", "DoWhileStatement"}, <<"test", "body">>)
    @@ Each({"ForStatement"}, <<"init", "test", "update", "body">>)
    @@ Each({"ForInStatement"}, <<"left", "right", "body">>)
    @@ Each({"ForOfStatement"}, <<"left", "right", "body", "isAwait">>)

\* Functions and what stands in them. The constructor of the base class sets no parent: its
\* virtual walk would not reach the members of the class derived from it.
FunctionMembers ==
       Each({"Super", "Import", "ThisExpression"}, << >>)
    @@ Each({"ArrowFunctionExpression"}, <<"id", "params", "body", "typeParameters",
              "returnType", "generator", "async", "expression">>)
    @@ Each({"YieldExpression"}, <<"argument", "isDelegate">>)
    @@ Each({"AwaitExpression"}, <<"argument">>)
    @@ Each({"ArrayExpression"}, <<"elements">>)
    @@ Each({"ObjectExpression"}, <<"properties">>)
    @@ Each({"FunctionExpression"}, <<"id", "params", "body", "typeParameters", "returnType",
              "generator", "async">>)

\* Operators.
OperatorMembers ==
       Each({"UnaryExpression"}, <<"argument", "unaryOperator", "isPrefix">>)
    @@ Each({"UpdateExpression"}, <<"argument", "updateOperator", "prefix">>)
    @@ Each({"BinaryExpression"}, <<"left", "right", "binaryOperator">>)
    @@ Each({"AssignmentExpression"}, <<"left", "right", "assignmentOperator">>)
    @@ Each({"LogicalExpression"}, <<"left", "right", "logicalOperator">>)
    @@ Each({"MemberExpression"}, <<"object", "property", "computed">>)

\* Calls and classes.
ClassMembers ==
       Each({"BindExpression"}, <<"object", "callee">>)
    @@ Each({"ConditionalExpression"}, <<"test", "alternate", "consequent">>)
    @@ Each({"CallExpression", "NewExpression"}, <<"callee", "arguments">>)
    @@ Each({"SequenceExpression"}, <<"expressions">>)
    @@ Each({"DoExpression", "ClassBody"}, <<"body">>)
    @@ Each({"ClassExpression"}, <<"id", "superClass", "body", "typeParameters",
              "superTypeParameters", "implements">>)

\* Members of classes (a private one has no computed parameter), declarations.
MethodMembers ==
       Each({"ClassMethod"}, <<"id", "params", "body", "key", "typeParameters", "returnType",
              "kind", "generator", "async", "computed", "staticMethod">>)
    @@ Each({"ClassPrivateMethod"}, <<"id", "params", "body", "key", "typeParameters",
              "returnType", "kind", "generator", "async", "staticMethod">>)
    @@ Each({"ClassProperty"}, <<"key", "value", "typeAnnotation", "staticProp", "computed">>)
    @@ Each({"ClassPrivateProperty"}, <<"key", "value", "typeAnnotation", "staticProp">>)
    @@ Each({"ClassDeclaration"}, <<"id", "superClass", "body", "typeParameters",
              "superTypeParameters", "implements">>)
    @@ Each({"FunctionDeclaration"}, <<"id", "params", "body", "typeParameters", "returnType",
              "generator", "async">>)
    @@ Each({"VariableDeclaration"}, <<"declarators", "kind">>)

\* Patterns.
PatternMembers ==
       Each({"VariableDeclarator"}, <<"id", "init">>)
    @@ Each({"SpreadElement"}, <<"argument">>)
    @@ Each({"ObjectPattern"}, <<"properties", "typeAnnotation">>)
    @@ Each({"ArrayPattern"}, <<"elements">>)
    @@ Each({"AssignmentPattern"}, <<"left", "right">>)
    @@ Each({"RestElement"}, <<"argument", "typeAnnotation">>)
    @@ Each({"MetaProperty"}, <<"meta", "property">>)
    @@ Each({"ImportDeclaration"}, <<"specifiers", "source", "kind">>)

\* Imports and exports.
SpecifierMembers ==
       Each({"ImportSpecifier"}, <<"local", "imported", "typeImport">>)
    @@ Each({"ImportDefaultSpecifier", "ImportNamespaceSpecifier"}, <<"local">>)
    @@ Each({"ExportNamedDeclaration"}, <<"declaration", "source", "specifiers", "kind">>)
    @@ Each({"ExportDefaultDeclaration"}, <<"declaration">>)
    @@ Each({"ExportAllDeclaration"}, <<"source">>)
    @@ Each({"ExportSpecifier"}, <<"local", "exported">>)
    @@ Each({"ExportDefaultSpecifier"}, <<"exported">>)

\* Type annotations.
TypeMembers ==
       Each({"TypeAnnotation", "NullableTypeAnnotation"}, <<"typeAnnotation">>)
    @@ Each({"GenericTypeAnnotation"}, <<"id", "typeParameters">>)
    @@ Each({"StringTypeAnnotation", "NumberTypeAnnotation", "BooleanTypeAnnotation",
              "VoidTypeAnnotation", "AnyTypeAnnotation", "ExistsTypeAnnotation", "MixedTypeAnnotation",
              "NullLiteralTypeAnnotation"}, << >>)
    @@ Each({"ArrayTypeAnnotation"}, <<"elementType">>)
    @@ Each({"TupleTypeAnnotation", "UnionTypeAnnotation", "IntersectionTypeAnnotation"},
              <<"types">>)
    @@ Each({"NumberLiteralTypeAnnotation", "StringLiteralTypeAnnotation",
              "BooleanLiteralTypeAnnotation"}, <<"value">>)
    @@ Each({"TypeofTypeAnnotation"}, <<"argument">>)

\* Types of functions and objects.
SignatureMembers ==
       Each({"FunctionTypeAnnotation"}, <<"params", "rest", "returnType">>)
    @@ Each({"FunctionTypeParam"}, <<"name", "typeAnnotation">>)
    @@ Each({"ObjectTypeAnnotation"}, <<"properties", "indexers", "exact">>)
    @@ Each({"ObjectTypeProperty"}, <<"key", "value", "optional">>)
    @@ Each({"ObjectTypeSpreadProperty"}, <<"argument">>)
    @@ Each({"ObjectTypeIndexer"}, <<"id", "key", "value">>)
    @@ Each({"TypeAlias"}, <<"id", "typeParameters", "right">>)

\* Type parameters, casts, interfaces.
ParameterMembers ==
       Each({"TypeParameterInstantiation", "TypeParameterDeclaration"}, <<"params">>)
    @@ Each({"TypeParameter"}, <<"name", "bound">>)
    @@ Each({"TypeCastExpression"}, <<"expression", "typeAnnotation">>)
    @@ Each({"ClassImplements"}, <<"id", "typeParameters">>)
    @@ Each({"QualifiedTypeIdentifier"}, <<"qualification", "id">>)
    @@ Each({"InterfaceDeclaration"}, <<"id", "typeParameters", "body", "extends", "mixins">>)

\* The declare statements.
DeclareMembers ==
       Each({"InterfaceExtends"}, <<"id", "typeParameters">>)
    @@ Each({"DeclareVariable", "DeclareFunction"}, <<"id">>)
    @@ Each({"DeclareTypeAlias"}, <<"id", "right">>)
    @@ Each({"DeclareClass"}, <<"id", "typeParameters", "body", "extends", "mixins">>)
    @@ Each({"DeclareModule"}, <<"id", "body">>)
    @@ Each({"DeclareExportDeclaration"}, <<"declaration">>)

\* The member that stores each parameter, for every class.
Constructors ==
    LiteralMembers @@ StatementMembers @@ BranchMembers @@ LoopMembers @@ FunctionMembers @@
    OperatorMembers @@ ClassMembers @@ MethodMembers @@ PatternMembers @@ SpecifierMembers @@
    TypeMembers @@ SignatureMembers @@ ParameterMembers @@ DeclareMembers

\* Members that get a constant instead of a parameter: nothing private is computed, and only a
\* specifier that names what it imports says whether it imports a type.
ConstantMembers ==
       Each({"ClassPrivateMethod", "ClassPrivateProperty"}, [computed |-> No])
    @@ Each({"ImportDefaultSpecifier", "ImportNamespaceSpecifier"}, [typeImport |-> No])
==============================================================================================
