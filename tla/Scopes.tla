------------------------------- MODULE Scopes -------------------------------
(***************************************************************************)
(* The local identifiers of a module: the scopes of its syntax tree, the   *)
(* declarations hoisted into them, and the declaration every identifier is *)
(* resolved to (src/analyze/identresolution.cpp).                          *)
(***************************************************************************)
EXTENDS Naturals, Sequences, FiniteSets, SequencesExt, FiniteSetsExt

(* A node of a tree has a kind k, a name n (of an identifier, of the module  *)
(* an import or an export names) and children s; it is known by its path     *)
(* from the root.  The children of                                           *)
(*   fun, funexpr, arrow, method   name or key, types, params, body          *)
(*   class, classexpr              name, types, super class, members         *)
(*   var, let                      target and value of the one declarator    *)
(*   for                           init, test, update, body                  *)
(*   forof, catch, switch          left and right; parameter; discriminant   *)
(*   pattern, default, rest, prop  elements; left, right; argument; key,     *)
(*                                 value                                     *)
(*   member, typeref, typaram      object, property; name; name              *)
(*   type                          name, aliased type                        *)
(*   import, export                specifiers, or the declaration exported   *)
(*   imported, importedtype, importeddefault, namespace    local name        *)
(*   exported                      local name, exported name                 *)
(* id has a type annotation or no child; none stands for a null pointer.     *)
Name == 1
Types == 2
Params == 3
Body == 4

Functions == {"fun", "funexpr", "arrow", "method"}
FullScopes == Functions \cup {"root", "class", "classexpr"}
PartialScopes == {"block", "catch", "for", "forof", "switch", "type"}
ScopeKinds == FullScopes \cup PartialScopes
ImportSpecifiers == {"imported", "importedtype", "importeddefault", "namespace"}

RECURSIVE At(_, _)
At(t, p) == IF p = <<>> THEN t ELSE At(t.s[Head(p)], Tail(p))

Kind(t, p) == At(t, p).k
NameOf(t, p) == At(t, p).n
Children(t, p) == [i \in DOMAIN At(t, p).s |-> Append(p, i)]

RECURSIVE Below(_, _)
Below(t, p) == {p} \cup UNION {Below(t, q) : q \in Range(Children(t, p))}
Identifiers(t) == {p \in Below(t, <<>>) : Kind(t, p) = "id"}

------------------------------------------------------------------------------
(* Scopes *)

IsFunction(t, p) == Kind(t, p) \in Functions

\* Parameters that are more than names put the body in a full scope of its own,
\* so that they do not see its variables.
HasParameterExpressions(t, f) ==
  \E q \in Range(Children(t, Append(f, Params))) : Kind(t, q) \notin {"id", "rest"}
IsSeparateBody(t, p) ==
  /\ p # <<>> /\ Last(p) = Body
  /\ IsFunction(t, Front(p))
  /\ HasParameterExpressions(t, Front(p))

IsScope(t, p) == Kind(t, p) \in ScopeKinds \/ IsSeparateBody(t, p)
IsFull(t, p) == Kind(t, p) \in FullScopes \/ IsSeparateBody(t, p)

RECURSIVE ScopeAt(_, _)
ScopeAt(t, p) == IF IsScope(t, p) THEN p ELSE ScopeAt(t, Front(p))
ParentScope(t, p) == ScopeAt(t, Front(p))

\* A slip to test the resolution against: variables stay in their block.
NotHoisted(t, p) == p

\* The scope that has the variables declared in scope p.
RECURSIVE VarScope(_, _)
VarScope(t, p) == IF IsFull(t, p) THEN p ELSE VarScope(t, ParentScope(t, p))

\* walkChildrenForDeclarations: the nodes below p, up to the inner scopes.
RECURSIVE Walk(_, _)
WalkChild(t, p) == <<p>> \o (IF IsScope(t, p) THEN <<>> ELSE Walk(t, p))
Walk(t, p) == FlattenSeq([i \in DOMAIN At(t, p).s |-> WalkChild(t, Append(p, i))])

\* Of a function, parameters are not walked, and a body that is no scope is
\* walked without itself.
WalkBody(t, p) == IF IsScope(t, p) THEN <<p>> ELSE Walk(t, p)
Walked(t, p) ==
  IF IsFunction(t, p) THEN Walk(t, Append(p, Types)) \o WalkBody(t, Append(p, Body))
  ELSE Walk(t, p)

InnerScopes(t, p) == SelectSeq(Walked(t, p), LAMBDA q : IsScope(t, q))

RECURSIVE ScopesFrom(_, _)
ScopesFrom(t, p) == {p} \cup UNION {ScopesFrom(t, q) : q \in Range(InnerScopes(t, p))}

------------------------------------------------------------------------------
(* Declarations *)

\* walkComplexDeclaration: the names in the target of a declaration.
RECURSIVE Names(_, _)
Names(t, p) ==
  LET k == Kind(t, p)
  IN  IF k = "id" THEN <<p>>
      ELSE IF k = "pattern"
           THEN FlattenSeq([i \in DOMAIN At(t, p).s |-> Names(t, Append(p, i))])
      ELSE IF k = "prop" THEN Names(t, Append(p, 2))
      ELSE IF k \in {"var", "let", "default", "rest"} THEN Names(t, Append(p, 1))
      ELSE <<>>

\* The names that nodes of these kinds declare.
NamesOf(t, nodes, kinds) ==
  FlattenSeq([i \in DOMAIN nodes |->
    IF Kind(t, nodes[i]) \in kinds THEN Names(t, Append(nodes[i], 1)) ELSE <<>>])

\* What a scope declares inwards: the name of a function or class expression, the
\* head of a for, the parameter of a catch clause.
Inwards(t, p) ==
  IF Kind(t, p) \in {"funexpr", "classexpr", "for", "forof", "catch"}
  THEN Names(t, Append(p, 1)) ELSE <<>>
InwardsIsLexical(t, p) == Kind(t, p) = "catch" \/ Kind(t, Append(p, 1)) = "let"

Parameters(t, p) ==
  IF ~IsFunction(t, p) THEN <<>>
  ELSE LET ps == Children(t, Append(p, Params)) IN FlattenSeq([i \in DOMAIN ps |-> Names(t, ps[i])])

TypeParameters(t, p) ==
  IF Kind(t, p) \in Functions \cup {"class", "classexpr"}
  THEN NamesOf(t, Children(t, Append(p, Types)), {"typaram"}) ELSE <<>>

OuterVars(t, p) ==
  (IF Inwards(t, p) = <<>> \/ InwardsIsLexical(t, p) THEN <<>> ELSE Inwards(t, p)) \o Parameters(t, p)
Vars(t, p) == OuterVars(t, p) \o NamesOf(t, Walked(t, p), {"var"})
Lexicals(t, p) ==
  (IF Inwards(t, p) # <<>> /\ InwardsIsLexical(t, p) THEN Inwards(t, p) ELSE <<>>)
    \o NamesOf(t, Walked(t, p), {"class", "let"} \cup (ImportSpecifiers \ {"importedtype"}))
FunctionNames(t, p) == NamesOf(t, Walked(t, p), {"fun"})
TypeNames(t, p) == TypeParameters(t, p) \o NamesOf(t, Walked(t, p), {"type", "importedtype"})

\* The bindings as the sequence of their assignments: the last one for a name in
\* a map of a scope is what the map has. NoId erases.
NoId == <<0>>
Assign(t, scope, map, ids) ==
  [i \in DOMAIN ids |-> [scope |-> scope, map |-> map, name |-> NameOf(t, ids[i]), id |-> ids[i]]]
Erase(t, scope, ids) ==
  [i \in DOMAIN ids |-> [scope |-> scope, map |-> "local", name |-> NameOf(t, ids[i]), id |-> NoId]]

\* Functions and types are collected by name: of two with a name the last is kept.
Latest(t, ids) ==
  SetToSeq({ids[i] : i \in {j \in DOMAIN ids :
    \A k \in DOMAIN ids : k > j => NameOf(t, ids[k]) # NameOf(t, ids[j])}})

\* A variable of a separate body shares the binding of a parameter.
SharedWithParameters(t, p) ==
  IF IsSeparateBody(t, p) /\ Kind(t, p) \in PartialScopes
  THEN Erase(t, p, OuterVars(t, Front(p))) ELSE <<>>

\* instantiateScopeDeclarations: inner scopes come first.
RECURSIVE Bindings(_, _)
BindingsOfInner(t, scopes) == FlattenSeq([i \in DOMAIN scopes |-> Bindings(t, scopes[i])])
Bindings(t, p) ==
  BindingsOfInner(t, InnerScopes(t, p))
    \o Assign(t, VarScope(t, p), "local", Vars(t, p))
    \o SharedWithParameters(t, p)
    \o Assign(t, p, "local", Lexicals(t, p))
    \o Assign(t, VarScope(t, p), "local", Latest(t, FunctionNames(t, p)))
    \o Assign(t, p, "type", Latest(t, TypeNames(t, p)))

Declarations(b) == {b[i].id : i \in DOMAIN b} \ {NoId}

------------------------------------------------------------------------------
(* Identifiers *)

Held(b, scope, map, name) ==
  LET writes == {i \in DOMAIN b : b[i].scope = scope /\ b[i].map = map /\ b[i].name = name}
  IN  IF writes = {} THEN NoId ELSE b[Max(writes)].id

RECURSIVE FindDeclarationBinding(_, _, _, _, _)
FindDeclarationBinding(t, b, scope, name, isType) ==
  LET type == IF isType THEN Held(b, scope, "type", name) ELSE NoId
      local == Held(b, scope, "local", name)
  IN  IF type # NoId THEN type
      ELSE IF local # NoId THEN local
      ELSE IF scope = <<>> THEN NoId
      ELSE FindDeclarationBinding(t, b, ParentScope(t, scope), name, isType)

\* The places where a name may be a type: an annotation, export type { name }.
IsTypeName(t, i) ==
  \/ Kind(t, Front(i)) = "typeref"
  \/ Kind(t, Front(i)) = "exported" /\ Kind(t, Front(Front(i))) = "exporttype"

\* walkScopeIdentifiers: the identifiers from p on that belong to its scope. The
\* keys of properties are not looked up.
RECURSIVE IdentifiersFrom(_, _)
IdentifiersFrom(t, p) ==
  LET k == Kind(t, p)
      walked == CASE k \in ScopeKinds -> {}
                  [] k = "prop"       -> {Append(p, 2)}
                  [] k = "member"     -> {Append(p, 1)}
                  [] OTHER            -> Range(Children(t, p))
  IN  UNION {IdentifiersFrom(t, q) : q \in walked} \cup (IF k = "id" THEN {p} ELSE {})

\* resolveScopeIdentifiers: of a function whose body is a full scope, the rest is
\* walked.
HasSeparateBody(t, p) ==
  /\ IsFunction(t, p)
  /\ InnerScopes(t, p) = <<Append(p, Body)>>
  /\ IsFull(t, Append(p, Body))
IdentifiersOf(t, p) ==
  UNION {IdentifiersFrom(t, q) :
    q \in IF HasSeparateBody(t, p)
          THEN Range(Children(t, Append(p, Params))) \cup Range(Children(t, Append(p, Types)))
          ELSE Range(Children(t, p))}

Looked(t, b, i, scope) ==
  IF i \in Declarations(b) THEN i
  ELSE FindDeclarationBinding(t, b, scope, NameOf(t, i), IsTypeName(t, i))

\* resolveModuleIdentifiers: where every identifier that has one is declared.
\* Outside of every scope, names without a declaration are global, or missing.
Resolution(t, b) ==
  {<<i, i>> : i \in Declarations(b)} \cup
  UNION {{<<i, Looked(t, b, i, p)>> : i \in IdentifiersOf(t, p)} : p \in ScopesFrom(t, <<>>)}
AsTargets(pairs) ==
  LET found == {e \in pairs : e[2] # NoId}
  IN  [i \in {e[1] : e \in found} |-> (CHOOSE e \in found : e[1] = i)[2]]
ResolveModuleIdentifiers(t) == AsTargets(Resolution(t, Bindings(t, <<>>)))
=============================================================================
