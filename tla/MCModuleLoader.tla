--------------------------- MODULE MCModuleLoader ---------------------------
(* ModuleLoader on three files, main, a and b, under every import graph that
   main starts, and every kind of argument. *)
EXTENDS ModuleLoader, TLC

CONSTANTS main, a, b, nowhere

Files == {main, a, b}

World(mode, imports, requires, project, compiles) ==
  [mode |-> mode, target |-> main, imports |-> imports, requires |-> requires,
   project |-> project, compiles |-> compiles]

Graphs == {g \in [Files -> SUBSET Files] : \A m \in Files : m \notin g[m]}

NoRequires == [m \in Files |-> {}]

\* Packages: every graph of imports, with one require(), and files that belong
\* to the package or to node_modules.
Packages ==
  {World("package", g, [NoRequires EXCEPT ![a] = r], p, Files) :
     g \in {g \in Graphs : a \in g[main]}, r \in {{}, {b}, {main}}, p \in {Files, {main, a}}}

\* b fails behind the back of main, and is analyzed later.
HalfResolved ==
  {World("package", [m \in Files |-> CASE m = main -> {b} [] m = b -> {a, nowhere} [] m = a -> r],
         NoRequires, {main, b}, Files) : r \in {{}, {main}, {b}}}

\* Single files and directories, with an import that does not resolve.
Targets1 ==
  {World(mode, [g EXCEPT ![b] = @ \cup u], NoRequires, Files, Files) :
     mode \in {"file", "directory"}, u \in {{}, {nowhere}},
     g \in {g \in Graphs : a \in g[main] /\ main \notin g[b]}}

\* A module that V8 does not compile.
Uncompiled ==
  {World("file", g, NoRequires, Files, {main, a}) : g \in {h \in Graphs : b \in h[main] /\ h[a] = {}}}

AllWorlds == Packages \cup HalfResolved \cup Targets1 \cup Uncompiled
=============================================================================
