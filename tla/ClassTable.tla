-------------------------------------- MODULE ClassTable --------------------------------------
\* The classes of src/ast/ast.hpp: the base class of each, the members it adds, and whether it
\* overrides applyChildren (Inner, InnerOf) or inherits it (Leaf, LeafOf).
EXTENDS NodeTables

\* Comments, the file, names and literals.
LiteralClasses ==
       Each({"CommentLine", "CommentBlock"}, Leaf({"text", "type"}))
    @@ Each({"Root"}, Inner({"body", "comments"}))
    @@ Each({"Identifier"}, Inner({"name", "typeAnnotation", "optional"}))
    @@ Each({"RegExpLiteral"}, Leaf({"pattern", "flags"}))
    @@ Each({"NullLiteral"}, Leaf({}))
    @@ Each({"StringLiteral", "BooleanLiteral", "NumericLiteral"}, Leaf({"value"}))
    @@ Each({"TemplateLiteral"}, Inner({"quasis", "expressions"}))
    @@ Each({"TemplateElement"}, Leaf({"rawValue", "tail"}))
    @@ Each({"TaggedTemplateExpression"}, Inner({"tag", "quasi"}))

\* Statements.
StatementClasses ==
       Each({"ExpressionStatement"}, Inner({"expression"}))
    @@ Each({"BlockStatement"}, Inner({"body"}))
    @@ Each({"EmptyStatement", "DebuggerStatement"}, Leaf({}))
    @@ Each({"WithStatement"}, Inner({"object", "body"}))
    @@ Each({"ReturnStatement"}, Inner({"argument"}))
    @@ Each({"LabeledStatement"}, Inner({"label", "body"}))
    @@ Each({"BreakStatement", "ContinueStatement"}, Inner({"label"}))

\* Branches and loops.
BranchClasses ==
       Each({"IfStatement"}, Inner({"test", "consequent", "alternate"}))
    @@ Each({"SwitchStatement"}, Inner({"discriminant", "cases"}))
    @@ Each({"SwitchCase"}, Inner({"testOrDefault", "consequent"}))
    @@ Each({"ThrowStatement"}, Inner({"argument"}))
    @@ Each({"TryStatement"}, Inner({"block", "handler", "finalizer"}))
    @@ Each({"CatchClause"}, Inner({"param", "body"}))
    @@ Each({"WhileStatement", "DoWhileStatement"}, Inner({"test", "body"}))

\* Functions and what stands in them.
FunctionClasses ==
       Each({"Function"}, Inner({"id", "params", "body", "typeParameters", "returnType",
              "generator", "async"}))
    @@ Each({"ObjectProperty"}, Inner({"key", "value", "shorthand", "computed"}))
    @@ Each({"ObjectMethod"}, InnerOf("Function", {"key", "kind", "computed"}))
    @@ Each({"Super", "Import", "ThisExpression"}, Leaf({}))
    @@ Each({"ArrowFunctionExpression"}, LeafOf("Function", {"expression"}))
    @@ Each({"YieldExpression"}, Inner({"argument", "isDelegate"}))
    @@ Each({"AwaitExpression"}, Inner({"argument"}))
    @@ Each({"ArrayExpression"}, Inner({"elements"}))
    @@ Each({"ObjectExpression"}, Inner({"properties"}))
    @@ Each({"FunctionExpression"}, LeafOf("Function", {}))

\* Operators.
OperatorClasses ==
       Each({"UnaryExpression"}, Inner({"argument", "unaryOperator", "isPrefix"}))
    @@ Each({"UpdateExpression"}, Inner({"argument", "updateOperator", "prefix"}))
    @@ Each({"BinaryExpression"}, Inner({"left", "right", "binaryOperator"}))
    @@ Each({"AssignmentExpression"}, Inner({"left", "right", "assignmentOperator"}))
    @@ Each({"LogicalExpression"}, Inner({"left", "right", "logicalOperator"}))

\* Calls and the other expressions.
CallClasses ==
       Each({"MemberExpression"}, Inner({"object", "property", "computed"}))
    @@ Each({"BindExpression"}, Inner({"object", "callee"}))
    @@ Each({"ConditionalExpression"}, Inner({"test", "alternate", "consequent"}))
    @@ Each({"CallExpression"}, Inner({"callee", "arguments"}))
    @@ Each({"NewExpression"}, LeafOf("CallExpression", {}))
    @@ Each({"SequenceExpression"}, Inner({"expressions"}))
    @@ Each({"DoExpression"}, Inner({"body"}))

\* Classes. The classes named Base are abstract.
ClassClasses ==
       Each({"Class"}, Inner({"id", "superClass", "body", "typeParameters",
              "superTypeParameters", "implements"}))
    @@ Each({"ClassExpression", "ClassDeclaration"}, LeafOf("Class", {}))
    @@ Each({"ClassBody"}, Inner({"body"}))
    @@ Each({"ClassBaseProperty"}, Inner({"key", "value", "typeAnnotation", "staticProp",
              "computed"}))
    @@ Each({"ClassProperty", "ClassPrivateProperty"}, InnerOf("ClassBaseProperty", {}))
    @@ Each({"ClassBaseMethod"}, InnerOf("Function", {"key", "computed", "staticMethod"}))
    @@ Each({"ClassMethod", "ClassPrivateMethod"}, InnerOf("ClassBaseMethod", {"kind"}))
    @@ Each({"FunctionDeclaration"}, LeafOf("Function", {}))

\* Variables, loops over variables, patterns.
VariableClasses ==
       Each({"VariableDeclaration"}, Inner({"declarators", "kind"}))
    @@ Each({"VariableDeclarator"}, Inner({"id", "init"}))
    @@ Each({"ForStatement"}, Inner({"init", "test", "update", "body"}))
    @@ Each({"ForInStatement"}, Inner({"left", "right", "body"}))
    @@ Each({"ForOfStatement"}, Inner({"left", "right", "body", "isAwait"}))
    @@ Each({"SpreadElement"}, Inner({"argument"}))
    @@ Each({"ObjectPattern"}, Inner({"properties", "typeAnnotation"}))
    @@ Each({"ArrayPattern"}, Inner({"elements"}))
    @@ Each({"AssignmentPattern"}, Inner({"left", "right"}))
    @@ Each({"RestElement"}, Inner({"argument", "typeAnnotation"}))
    @@ Each({"MetaProperty"}, Inner({"meta", "property"}))

\* Imports and exports.
ImportClasses ==
       Each({"ImportDeclaration"}, Inner({"specifiers", "source", "kind"}))
    @@ Each({"ImportBaseSpecifier"}, Inner({"local", "typeImport"}))
    @@ Each({"ImportSpecifier"}, InnerOf("ImportBaseSpecifier", {"imported",
              "localEqualsImported"}))
    @@ Each({"ImportDefaultSpecifier", "ImportNamespaceSpecifier"},
              InnerOf("ImportBaseSpecifier", {}))
    @@ Each({"ExportNamedDeclaration"}, Inner({"declaration", "source", "specifiers", "kind"}))
    @@ Each({"ExportDefaultDeclaration"}, Inner({"declaration"}))
    @@ Each({"ExportAllDeclaration"}, Inner({"source"}))
    @@ Each({"ExportSpecifier"}, Inner({"local", "exported"}))
    @@ Each({"ExportDefaultSpecifier"}, Inner({"exported"}))

\* Type annotations.
AnnotationClasses ==
       Each({"TypeAnnotation", "NullableTypeAnnotation"}, Inner({"typeAnnotation"}))
    @@ Each({"GenericTypeAnnotation"}, Inner({"id", "typeParameters"}))
    @@ Each({"StringTypeAnnotation", "NumberTypeAnnotation", "BooleanTypeAnnotation",
              "VoidTypeAnnotation", "AnyTypeAnnotation", "ExistsTypeAnnotation", "MixedTypeAnnotation",
              "NullLiteralTypeAnnotation"}, Leaf({}))
    @@ Each({"ArrayTypeAnnotation"}, Inner({"elementType"}))
    @@ Each({"TupleTypeAnnotation", "UnionTypeAnnotation", "IntersectionTypeAnnotation"},
              Inner({"types"}))
    @@ Each({"NumberLiteralTypeAnnotation", "StringLiteralTypeAnnotation",
              "BooleanLiteralTypeAnnotation"}, Leaf({"value"}))
    @@ Each({"TypeofTypeAnnotation"}, Inner({"argument"}))

\* Types of functions and objects.
SignatureClasses ==
       Each({"FunctionTypeAnnotation"}, Inner({"params", "rest", "returnType"}))
    @@ Each({"FunctionTypeParam"}, Inner({"name", "typeAnnotation"}))
    @@ Each({"ObjectTypeAnnotation"}, Inner({"properties", "indexers", "exact"}))
    @@ Each({"ObjectTypeProperty"}, Inner({"key", "value", "optional"}))
    @@ Each({"ObjectTypeSpreadProperty"}, Inner({"argument"}))
    @@ Each({"ObjectTypeIndexer"}, Inner({"id", "key", "value"}))

\* Aliases and type parameters.
AliasClasses ==
       Each({"TypeAlias"}, Inner({"id", "typeParameters", "right"}))
    @@ Each({"TypeParameterInstantiation", "TypeParameterDeclaration"}, Inner({"params"}))
    @@ Each({"TypeParameter"}, Inner({"name", "bound"}))
    @@ Each({"TypeCastExpression"}, Inner({"expression", "typeAnnotation"}))
    @@ Each({"ClassImplements"}, Inner({"id", "typeParameters"}))
    @@ Each({"QualifiedTypeIdentifier"}, Inner({"qualification", "id"}))

\* Interfaces and the declare statements.
DeclarationClasses ==
       Each({"InterfaceDeclaration", "DeclareClass"}, Inner({"id", "typeParameters", "body",
              "extends", "mixins"}))
    @@ Each({"InterfaceExtends"}, Inner({"id", "typeParameters"}))
    @@ Each({"DeclareVariable", "DeclareFunction"}, Inner({"id"}))
    @@ Each({"DeclareTypeAlias"}, Inner({"id", "right"}))
    @@ Each({"DeclareModule"}, Inner({"id", "body"}))
    @@ Each({"DeclareExportDeclaration"}, Inner({"declaration"}))

\* Every class, the abstract bases Function, Class and ClassBase... included.
Classes ==
    LiteralClasses @@ StatementClasses @@ BranchClasses @@ FunctionClasses @@ OperatorClasses
    @@ CallClasses @@ ClassClasses @@ VariableClasses @@ ImportClasses @@ AnnotationClasses @@
    SignatureClasses @@ AliasClasses @@ DeclarationClasses

\* Every member of an object of class k: its own, and those of the classes it derives from.
Members[k \in DOMAIN Classes] ==
    Classes[k].own \cup (IF Classes[k].base = "AstNode" THEN {} ELSE Members[Classes[k].base])

\* Virtual dispatch: the class whose applyChildren runs on an object of class k.
Walker[k \in DOMAIN Classes] ==
    IF Classes[k].walks \/ Classes[k].base = "AstNode" THEN k ELSE Walker[Classes[k].base]
==============================================================================================
