-------------------------- MODULE MCIdentResolution --------------------------
(* IdentResolution on every module of a bounded shape, a construct in a       *)
(* construct with declarations of a before and between, and on worlds of      *)
(* three modules that import from each other.                                 *)
EXTENDS IdentResolution

Node(k, s) == [k |-> k, n |-> "", s |-> s]
From(k, source, s) == [k |-> k, n |-> source, s |-> s]
Id(n) == From("id", n, <<>>)
Nothing == Node("none", <<>>)
Use(n) == Node("expr", <<Id(n)>>)
Fun(k, name, params, body) ==
  Node(k, <<name, Node("types", <<>>), Node("params", params), body>>)
Class(k, name, members) == Node(k, <<name, Node("types", <<>>), Nothing, Node("members", members)>>)
Property(key, value) == Node("pattern", <<Node("prop", <<Id(key), value>>)>>)

Var(k, target) == Node(k, <<target, Use("b")>>)
A == Id("a")
Default == Node("default", <<A, Use("b")>>)

\* Declarations of a. One is hoisted from inside a block.
Declarations_ ==
  {<<Var("var", A)>>, <<Var("let", Property("b", A))>>, <<Fun("fun", A, <<>>, Node("block", <<>>))>>}
More == {<<Class("class", A, <<>>)>>, <<Node("block", <<Var("var", Default)>>)>>,
         <<From("import", "fs", <<Node("namespace", <<A>>)>>)>>, <<Node("type", <<A, Node("typeref", <<Id("c")>>)>>)>>}

\* Parameters, and the names that a function has.
ParameterLists ==
  {<<>>, <<A>>, <<Default>>, <<Id("b"), Property("a", A)>>, <<Node("rest", <<A>>)>>,
   <<Node("default", <<Id("b"), Use("a")>>)>>}

Around(b) ==
  {Node("block", b), Node("switch", <<Use("a")>> \o b)}
    \cup {Node(k, <<init, Use("a"), Node("block", b)>>) :
            k \in {"for", "forof"}, init \in {Var("let", A), Var("var", A), Var("let", Id("b"))}}
    \cup {Node("try", <<Node("block", b), Node("catch", <<p, Node("block", b)>>)>>) :
            p \in {A, Property("a", Id("c"))}}
    \cup {Fun("fun", Id("f"), ps, Node("block", b)) : ps \in ParameterLists}
    \cup {Fun("arrow", Nothing, ps, Node("block", b)) : ps \in ParameterLists}
    \cup {Fun("arrow", Nothing, ps, Node("expr", <<Use("a")>> \o SelectSeq(b, LAMBDA s : s.k = "expr"))) :
            ps \in ParameterLists}
    \cup {Node("expr", <<Fun("funexpr", A, ps, Node("block", b))>>) : ps \in {<<>>, <<A>>}}
    \cup {Node("expr", <<Class("classexpr", n, <<Fun("method", Id("m"), ps, Node("block", b))>>)>>) :
            n \in {A, Nothing}, ps \in {<<>>, <<Default>>}}

Inside ==
  {Node("block", <<Use("a")>>), Node("block", <<Var("var", A)>>),
   Node("block", <<Var("let", A), Use("a")>>),
   Node("member", <<A, A>>),
   Fun("arrow", Nothing, <<Id("b")>>, Fun("arrow", Nothing, <<>>, Node("expr", <<Use("a"), Use("b")>>))),
   Fun("arrow", Nothing, <<Default>>, Fun("arrow", Nothing, <<>>, Use("a"))),
   Fun("fun", Id("f"), <<>>, Node("block", <<Var("var", A), Use("a")>>)),
   Node("var", <<Id("c"), Node("typeref", <<A>>)>>)}

Roots ==
  {Node("root", d \o <<c, Use("a")>>) :
     d \in {<<>>} \cup Declarations_ \cup More,
     c \in UNION {Around(e \o <<i, Use("a")>>) : e \in {<<>>} \cup Declarations_, i \in Inside}}

\* Left out, because the source resolves them otherwise: functions declared in
\* blocks, which it hoists out of them, and a variable or function with the name of
\* the function expression it is in.
Hoisted(t, d) == d.role = "fun" /\ Above(t, d.id, Blocks) # Above(t, d.id, {"root", "body"})
NamedAgain(t, d, e) ==
  d.role = "self" /\ e.role \in {"var", "fun"} /\ d.name = e.name /\ e.region = Append(d.region, Body)
Regular(t, declared) ==
  /\ \A d \in declared : ~Hoisted(t, d) /\ \A e \in declared : ~NamedAgain(t, d, e)
  /\ Compiles(t, declared)
Resolvable(t) == Regular(t, Declared(t))

Alone_ == {"main" :> t : t \in {r \in Roots : Resolvable(r)}}

------------------------------------------------------------------------------
Root(s) == Node("root", s)
Specifier(local, exported) == Node("exported", <<Id(local), Id(exported)>>)
Import(source, k, imported, local) ==
  From("import", source, <<From(k, imported, <<Id(local)>>)>>)

\* What declares a, and how it is exported as name n.
Declares == {Var("let", A), Fun("fun", A, <<A>>, Node("block", <<>>)), Class("class", A, <<>>)}
Libraries(n) ==
  {Root(<<d, From("export", "", <<Specifier("a", n)>>)>>) : d \in Declares}
    \cup {Root(<<d, Node("exportdefault", <<A>>)>>) : d \in Declares}
    \cup {Root(<<Node("exportdefault", <<d>>)>>) : d \in Declares \ {Var("let", A)}}
    \cup {Root(<<From("export", "", <<d>>)>>) : d \in Declares}
    \cup {Root(<<Node("type", <<A, Node("typeref", <<Id("c")>>)>>),
                 From("exporttype", "", <<Specifier("a", n)>>)>>)}

\* A module between, which passes name n of lib on as name o.
Between(n, o) ==
  {Root(<<From("export", "lib", <<Specifier(n, o)>>)>>),
   Root(<<Import("lib", "imported", n, "x"), From("export", "", <<Specifier("x", o)>>)>>),
   Root(<<Import("lib", "importeddefault", "", "x"), From("export", "", <<Specifier("x", o), Specifier("x", "y")>>)>>),
   Root(<<Import("lib", "importeddefault", "", "x"), Node("exportdefault", <<Id("x")>>)>>),
   Root(<<From("export", "fs", <<Specifier(n, o)>>)>>),
   \* a cycle of imports
   Root(<<Import("main", "imported", "z", "x"), Import("lib", "imported", n, "y"),
          From("export", "", <<Specifier("y", o)>>)>>)}

Mains(o) ==
  {Root(<<Import(m, k, o, l), Node("var", <<Id("v"), Node("typeref", <<Id(l)>>)>>),
          From("export", "", <<Specifier("v", "z")>>)>>) :
     m \in {"between", "lib"}, k \in {"imported", "importedtype", "importeddefault"}, l \in {"a", "l"}}

Linked ==
  UNION {{("main" :> m) @@ ("between" :> b) @@ ("lib" :> l) :
            m \in Mains(o), b \in Between(n, o), l \in Libraries(n)} :
         n \in {"a", "default"}, o \in {"a", "o", "default"}}

MCWorlds == Alone_ \cup Linked
=============================================================================
