----------------------------- MODULE ScopeRules -----------------------------
(***************************************************************************)
(* What JavaScript (and Flow, for types) says of the identifiers of a      *)
(* tree: which declare, in which part of the tree, and what a reference    *)
(* means.  Nothing here is translated from the source: it is what Scopes   *)
(* is compared with.                                                       *)
(***************************************************************************)
EXTENDS Scopes

\* The whole target that an identifier stands in, through patterns.
RECURSIVE Target(_, _)
Target(t, p) ==
  LET k == Kind(t, Front(p))
  IN  IF k \in {"pattern", "rest"} \/ <<k, Last(p)>> \in {<<"prop", 2>>, <<"default", 1>>}
      THEN Target(t, Front(p)) ELSE p

\* How an identifier declares its name, or "" if it does not.
RoleIn(k, child) ==
  CASE k = "params"                          -> "param"
    [] child # 1                             -> ""
    [] k \in {"var", "fun", "catch", "type", "typaram"} -> k
    [] k \in {"let", "class", "imported", "importeddefault", "namespace"} -> "lexical"
    [] k = "importedtype"                    -> "type"
    [] k \in {"funexpr", "classexpr"}        -> "self"
    [] OTHER                                 -> ""
Role(t, i) == LET p == Target(t, i) IN RoleIn(Kind(t, Front(p)), Last(p))

Declaring(t) == {i \in Identifiers(t) : Role(t, i) # ""}

\* The nearest place from p up of these kinds; "body" is the body of a function.
IsBody(t, p) == p # <<>> /\ Last(p) = Body /\ IsFunction(t, Front(p))
RECURSIVE Above(_, _, _)
Above(t, p, kinds) ==
  IF Kind(t, p) \in kinds \/ (IsBody(t, p) /\ "body" \in kinds) THEN p
  ELSE Above(t, Front(p), kinds)

Blocks == {"root", "body", "block", "for", "forof", "catch", "switch"}

\* The part of the tree in which a declaration holds. Variables hold in the whole
\* body of their function; a variable or a function there with the name of a
\* parameter is that parameter.
RECURSIVE Leaves(_, _)
Leaves(t, p) ==
  IF Kind(t, p) = "id" THEN {p} ELSE UNION {Leaves(t, q) : q \in Range(Children(t, p))}
IsParameter(t, name, f) ==
  \E d \in Leaves(t, Append(f, Params)) : NameOf(t, d) = name /\ Role(t, d) = "param"
InBody(t, d, body) ==
  IF body # <<>> /\ IsBody(t, body) /\ IsParameter(t, NameOf(t, d), Front(body)) THEN Front(body) ELSE body
Region(t, d, role) ==
  CASE role = "var"                          -> InBody(t, d, Above(t, d, {"root", "body"}))
    [] role = "fun"                          -> InBody(t, d, Above(t, d, Blocks))
    [] role = "catch"                        -> Above(t, d, {"catch"})
    [] role \in {"lexical", "type"}          -> Above(t, d, Blocks)
    [] role \in {"param", "self", "typaram"} -> Above(t, d, Functions \cup {"class", "classexpr"})

Declared(t) ==
  {[id |-> d, name |-> NameOf(t, d), role |-> Role(t, d), region |-> Region(t, d, Role(t, d))] :
     d \in Declaring(t)}

\* Declarations of one name in one region are one binding: the name of a function
\* expression gives way to the others, and a function is what a variable has.
Binding(ds) ==
  LET named == {d \in ds : d.role # "self"}
      functions == {d \in ds : d.role = "fun"}
  IN  IF named = {} THEN ds
      ELSE IF functions # {} /\ \A d \in named : d.role # "param" THEN functions
      ELSE named

\* The binding that a name means at i: the nearest one around it.
Candidates(t, i, declared) ==
  {d \in declared : /\ d.name = NameOf(t, i)
                    /\ IsPrefix(d.region, i)
                    /\ d.role \in {"type", "typaram"} => IsTypeName(t, i)}
Nearest(ds) == Binding({d \in ds : \A e \in ds : Len(e.region) <= Len(d.region)})
Meaning(t, i, declared) ==
  IF \E d \in declared : d.id = i THEN {i}
  ELSE {d.id : d \in Nearest(Candidates(t, i, declared))}

\* The identifiers that refer to a binding; the others are names of properties, of
\* methods, and of other modules' exports.
IsReference(t, i) ==
  /\ <<Kind(t, Front(i)), Last(i)>> \notin
       {<<"prop", 1>>, <<"member", 2>>, <<"method", 1>>, <<"exported", 2>>, <<"imported", 2>>}
  /\ Kind(t, Front(i)) = "exported" => NameOf(t, Front(Front(i))) = ""

\* A program that compiles: no block declares a name twice, no variable is hoisted
\* over a declaration of a block, none takes the name of a parameter.
Alone(d) == d.role \in {"lexical", "type", "typaram", "fun"}
Conflict(t, d, e) ==
  /\ d # e /\ d.name = e.name /\ Alone(d)
  /\ \/ d.region = e.region /\ e.role # "self" /\ ~(d.role = "fun" /\ e.role \in {"var", "param"})
     \/ /\ d.role # "fun"
        /\ \/ e.role = "var" /\ IsPrefix(e.region, d.region) /\ IsPrefix(d.region, e.id)
           \/ e.role \in {"param", "catch"} /\ d.region \in Range(Children(t, e.region))
Compiles(t, declared) == \A d, e \in declared : ~Conflict(t, d, e)
=============================================================================
