------------------------- MODULE ModuleLoaderProofs -------------------------
(***************************************************************************)
(* Theorems about ModuleLoader, for any set of files that import each      *)
(* other in any way.  The argument for ImportedFilesAreAnalyzed:           *)
(*  - calls of the import walk are on the stack in the stage "walk" only   *)
(*    (StageInv), and come to files of the project (FrameInv);             *)
(*  - whatever a walked module imports is walked, or some call on the      *)
(*    stack still owes the walk, even if a cycle leads back to a module    *)
(*    whose own walk is under way; and no file is loaded but for the walk  *)
(*    (WalkInv);                                                           *)
(*  - so the modules found loaded when the stack is empty are closed under *)
(*    imports, and that is what main analyzes (DoneInv).                   *)
(* The argument for CallsDoNotRepeat: a call that is in a loop has set the *)
(* flag of its pass, so that no second call of the pass comes to the loop  *)
(* (FlatInv); and the passes of the walk and those of the analysis are not *)
(* under way together (StageInv).                                          *)
(***************************************************************************)
EXTENDS ModuleLoader, SequenceTheorems, TLAPS

OnStack(s) == {s[i] : i \in DOMAIN s}

-----------------------------------------------------------------------------
(* A stack of frames, seen by what is on it. *)

\* A stack that is not empty is its first frame and the others.
LEMMA StackTop ==
  ASSUME NEW F, NEW s \in Seq(F), s # <<>>
  PROVE  /\ Head(s) \in F
         /\ Tail(s) \in Seq(F)
         /\ OnStack(s) = {Head(s)} \cup OnStack(Tail(s))
<1>1. Len(s) \in Nat \ {0} /\ Head(s) = s[1] /\ DOMAIN s = 1..Len(s) /\ \A i \in 1..Len(s) : s[i] \in F
  OBVIOUS
<1>2. /\ Tail(s) \in Seq(F) /\ DOMAIN Tail(s) = 1..(Len(s) - 1)
      /\ \A i \in 1..(Len(s) - 1) : Tail(s)[i] = s[i + 1]
  OBVIOUS
<1>3. ASSUME NEW i \in 1..Len(s) PROVE s[i] = Head(s) \/ \E j \in DOMAIN Tail(s) : s[i] = Tail(s)[j]
  <2>1. CASE i = 1
    BY <2>1, <1>1
  <2>2. CASE i # 1
    <3>1. i - 1 \in 1..(Len(s) - 1) /\ (i - 1) + 1 = i
      BY <2>2, <1>1
    <3> QED
      BY <3>1, <1>2
  <2> QED
    BY <2>1, <2>2
<1>4. \A j \in DOMAIN Tail(s) : j + 1 \in DOMAIN s /\ Tail(s)[j] = s[j + 1]
  BY <1>1, <1>2
<1>5. 1 \in DOMAIN s
  BY <1>1
<1> QED
  BY <1>1, <1>2, <1>3, <1>4, <1>5 DEF OnStack

\* One frame, or two, on top of a stack.
LEMMA StackPush ==
  ASSUME NEW F, NEW s \in Seq(F), NEW f \in F
  PROVE  /\ <<f>> \o s \in Seq(F)
         /\ OnStack(<<f>> \o s) = {f} \cup OnStack(s)
<1> DEFINE t == <<f>> \o s
<1>1. Len(s) \in Nat /\ DOMAIN s = 1..Len(s)
  OBVIOUS
<1>2. /\ t \in Seq(F) /\ DOMAIN t = 1..(Len(s) + 1)
      /\ t[1] = f
      /\ \A i \in 1..Len(s) : t[i + 1] = s[i]
  OBVIOUS
<1> HIDE DEF t
<1>3. ASSUME NEW i \in DOMAIN t PROVE t[i] = f \/ \E j \in DOMAIN s : t[i] = s[j]
  <2>1. CASE i = 1
    BY <2>1, <1>2
  <2>2. CASE i # 1
    <3>1. i - 1 \in 1..Len(s) /\ (i - 1) + 1 = i
      BY <2>2, <1>1, <1>2
    <3> QED
      BY <3>1, <1>1, <1>2
  <2> QED
    BY <2>1, <2>2
<1>4. \A j \in DOMAIN s : j + 1 \in DOMAIN t /\ t[j + 1] = s[j]
  BY <1>1, <1>2
<1>5. 1 \in DOMAIN t
  BY <1>1, <1>2
<1>6. OnStack(t) = {f} \cup OnStack(s)
  <2>1. OnStack(t) \subseteq {f} \cup OnStack(s)
    BY <1>3 DEF OnStack
  <2>2. OnStack(s) \subseteq OnStack(t)
    BY <1>4 DEF OnStack
  <2>3. f \in OnStack(t)
    BY <1>2, <1>5 DEF OnStack
  <2> QED
    BY <2>1, <2>2, <2>3
<1> QED
  BY <1>2, <1>6 DEF t

\* What is left when frames are unwound was there before.
LEMMA StackUnwind ==
  ASSUME NEW F, NEW s \in Seq(F), NEW i \in DOMAIN s
  PROVE  /\ SubSeq(s, i + 1, Len(s)) \in Seq(F)
         /\ OnStack(SubSeq(s, i + 1, Len(s))) \subseteq OnStack(s)
<1>1. Len(s) \in Nat /\ DOMAIN s = 1..Len(s) /\ i \in 1..Len(s)
  OBVIOUS
<1>2. /\ SubSeq(s, i + 1, Len(s)) \in Seq(F)
      /\ DOMAIN SubSeq(s, i + 1, Len(s)) = 1..(Len(s) - i)
      /\ \A j \in 1..(Len(s) - i) : SubSeq(s, i + 1, Len(s))[j] = s[i + j]
  BY <1>1
<1>3. \A j \in 1..(Len(s) - i) : i + j \in DOMAIN s
  BY <1>1
<1> QED
  BY <1>2, <1>3 DEF OnStack

\* What the actions do to the stack, as they are written in ModuleLoader: the
\* frames of the callers, below the top, stay.
Callers == OnStack(Tail(stack))

LEMMA TopFrame ==
  ASSUME stack \in Seq(Frames), stack # <<>>
  PROVE  /\ Top \in Frames
         /\ Tail(stack) \in Seq(Frames)
         /\ OnStack(stack) = {Top} \cup Callers
  BY StackTop DEF Top, Callers

LEMMA Returning ==
  ASSUME stack \in Seq(Frames), stack # <<>>, Return
  PROVE  stack' \in Seq(Frames) /\ OnStack(stack') = Callers
  BY TopFrame DEF Return, Callers

LEMMA Continuing ==
  ASSUME stack \in Seq(Frames), stack # <<>>, NEW f, Continue(f)
  PROVE  /\ OnStack(stack') = {f} \cup Callers
         /\ f \in Frames => stack' \in Seq(Frames)
<1>1. ASSUME NEW F, Tail(stack) \in Seq(F), f \in F
      PROVE  stack' \in Seq(F) /\ OnStack(stack') = {f} \cup Callers
  BY <1>1, StackPush DEF Continue, Callers
<1>2. Tail(stack) \in Seq(Frames) /\ Tail(stack) \in Seq(Frames \cup {f})
  BY TopFrame, SeqMonotonic
<1> QED
  BY <1>1, <1>2

\* Two calls, the first made by the second.
LEMMA PushingTwo ==
  ASSUME NEW F, NEW s \in Seq(F), NEW f \in F, NEW g \in F,
         stack' = <<f>> \o (<<g>> \o s)
  PROVE  stack' \in Seq(F) /\ OnStack(stack') = {f, g} \cup OnStack(s)
<1> DEFINE u == <<g>> \o s
<1>1. u \in Seq(F) /\ OnStack(u) = {g} \cup OnStack(s)
  BY StackPush
<1>2. stack' = <<f>> \o u
  OBVIOUS
<1> HIDE DEF u
<1>3. <<f>> \o u \in Seq(F) /\ OnStack(<<f>> \o u) = {f} \cup OnStack(u)
  BY <1>1, StackPush
<1>4. stack' \in Seq(F) /\ OnStack(stack') = {f} \cup OnStack(u)
  BY <1>2, <1>3, Zenon
<1> QED
  BY <1>1, <1>4

LEMMA Calling ==
  ASSUME stack \in Seq(Frames), stack # <<>>, NEW f, NEW g, Call(f, g)
  PROVE  /\ OnStack(stack') = {f, g} \cup Callers
         /\ f \in Frames /\ g \in Frames => stack' \in Seq(Frames)
<1> DEFINE t == Tail(stack)
<1> DEFINE G == Frames \cup {f, g}
<1>1. t \in Seq(Frames) /\ t \in Seq(G) /\ f \in G /\ g \in G
  BY TopFrame, SeqMonotonic
<1>2. stack' = <<f>> \o (<<g>> \o t)
  BY DEF Call
<1>3. OnStack(t) = Callers
  BY DEF Callers
<1> HIDE DEF t, G
<1>4. OnStack(stack') = {f, g} \cup OnStack(t)
  BY <1>1, <1>2, PushingTwo
<1>5. f \in Frames /\ g \in Frames => stack' \in Seq(Frames)
  BY <1>1, <1>2, PushingTwo
<1> QED
  BY <1>3, <1>4, <1>5

LEMMA CallingBoth ==
  ASSUME stack \in Seq(Frames), NEW f, NEW g, stack' = <<f>> \o (<<g>> \o stack)
  PROVE  /\ OnStack(stack') = {f, g} \cup OnStack(stack)
         /\ f \in Frames /\ g \in Frames => stack' \in Seq(Frames)
<1> DEFINE G == Frames \cup {f, g}
<1>1. stack \in Seq(G) /\ f \in G /\ g \in G
  BY SeqMonotonic
<1> HIDE DEF G
<1>2. OnStack(stack') = {f, g} \cup OnStack(stack)
  BY <1>1, PushingTwo
<1>3. f \in Frames /\ g \in Frames => stack' \in Seq(Frames)
  BY PushingTwo
<1> QED
  BY <1>2, <1>3

\* An exception that nothing on the stack catches ends the process.
LEMMA Throwing ==
  ASSUME stack \in Seq(Frames), Throw
  PROVE  /\ stack' \in Seq(Frames)
         /\ OnStack(stack') \subseteq OnStack(stack)
         /\ Service!Break \/ UNCHANGED serviceVars
         /\ (\A f \in OnStack(stack) : f.call # "getFunctionGraph") => broken'
<1> DEFINE catching == {i \in DOMAIN stack : stack[i].call = "getFunctionGraph"}
<1>1. CASE catching = {}
  BY <1>1 DEF Throw, Service!Break
<1>2. CASE catching # {}
  <2>1. PICK i \in DOMAIN stack : /\ stack[i].call = "getFunctionGraph"
                                  /\ stack' = SubSeq(stack, i + 1, Len(stack))
                                  /\ UNCHANGED serviceVars
    BY <1>2 DEF Throw
  <2>2. stack[i] \in OnStack(stack)
    BY DEF OnStack
  <2> QED
    BY <2>1, <2>2, StackUnwind
<1> QED
  BY <1>1, <1>2

\* The frames that calls make, by the modules they are about.
LEMMA FrameTypes ==
  ASSUME NEW m \in Modules, NEW S \in SUBSET (Modules \cup {Unresolved})
  PROVE  /\ \A c \in PlainCalls : Frame(c, m, {}) \in Frames
         /\ S \subseteq Modules => Frame("load", m, S) \in Frames /\ Frame("walk", m, S) \in Frames
         /\ Frame("import", m, S) \in Frames /\ Frame("specifiers", m, S) \in Frames
         /\ \A c, T : /\ Frame(c, m, T).call = c
                                 /\ Frame(c, m, T).module = m /\ Frame(c, m, T).rest = T
  BY DEF Frame, Frames, PlainCalls

LEMMA FrameFields ==
  ASSUME NEW f \in Frames
  PROVE  /\ f.module \in Modules
         /\ f.rest \subseteq Modules \cup {Unresolved}
         /\ f.call \in {"load", "walk"} => f.rest \subseteq Modules
  BY DEF Frames, PlainCalls

-----------------------------------------------------------------------------
(* The parse service, seen from the main thread. *)

ServiceOK ==
  /\ state \in [Modules -> Service!States]
  /\ {open, live, broken} \subseteq BOOLEAN

LEMMA Loading ==
  ASSUME ServiceOK, NEW m \in Modules, GetModule(m)
  PROVE  ServiceOK' /\ Loaded' = Loaded \cup {m}
  BY DEF ServiceOK, GetModule, Loaded, Service!States, Service!Accept, Service!Move, serviceVars

\* Only a call of getModule adds to the modules that are loaded.
LEMMA NotLoading ==
  ASSUME ServiceOK,
         \/ Service!Open \/ Service!Close \/ Service!Down \/ Service!Break
         \/ UNCHANGED serviceVars
         \/ \E m \in Modules : Service!Begin(m) \/ Service!Finish(m)
  PROVE  ServiceOK' /\ Loaded' = Loaded
<1>1. CASE \/ Service!Open \/ Service!Close \/ Service!Down \/ Service!Break
           \/ UNCHANGED serviceVars
  BY <1>1 DEF ServiceOK, Loaded, Service!Open, Service!Close, Service!Down, Service!Break, serviceVars
<1>2. CASE \E m \in Modules : Service!Begin(m) \/ Service!Finish(m)
  BY <1>2 DEF ServiceOK, Loaded, Service!States, Service!Begin, Service!Finish, Service!Move
<1> QED
  BY <1>1, <1>2

-----------------------------------------------------------------------------
(* Type correctness *)

LEMMA WorldTypes ==
  ASSUME Typed
  PROVE  /\ world \in Worlds
         /\ world.target \in Modules /\ world.project \subseteq Modules
         /\ world.mode = "package" => world.target \in world.project
         /\ \A m \in Modules :
              /\ world.imports[m] \subseteq Modules \cup {Unresolved}
              /\ ProjectImports(m) = (world.imports[m] \cup world.requires[m]) \cap world.project
              /\ ProjectImports(m) \subseteq Modules
         /\ Targets \subseteq Modules
         /\ Unresolved \notin Modules
<1>1. world \in Worlds
  BY DEF Typed
<1>2. /\ world.target \in Modules /\ world.project \subseteq Modules
      /\ world.mode = "package" => world.target \in world.project
      /\ world.imports \in [Modules -> SUBSET (Modules \cup {Unresolved})]
      /\ world.requires \in [Modules -> SUBSET Modules]
      /\ Unresolved \notin Modules
  BY <1>1, WorldAssumption DEF WorldAssumption
<1> QED
  BY <1>1, <1>2 DEF ProjectImports, Targets

\* A step that leaves main's variables and the flags alone.
LEMMA QuietStep ==
  ASSUME Typed, UNCHANGED <<world, mainVars, passVars>>,
         stack' \in Seq(Frames), ServiceOK', Loaded \subseteq Loaded'
  PROVE  Typed'
  BY DEF Typed, ServiceOK, mainVars, passVars

\* The calls of the import walk keep the types.
LEMMA WalkTypes ==
  ASSUME Typed,
         \/ ImportsAlreadyResolved \/ ResolveProjectImports
         \/ LoadProjectImport \/ AllImportsLoaded \/ WalkProjectImport
  PROVE  Typed'
<1>0. stack \in Seq(Frames) /\ ServiceOK
  BY DEF Typed, ServiceOK
<1>1. CASE ImportsAlreadyResolved
  BY <1>0, <1>1, Returning, NotLoading, QuietStep DEF ImportsAlreadyResolved, In
<1>2. CASE ResolveProjectImports
  <2>1. Top \in Frames /\ Top.module \in Modules
    BY <1>0, <1>2, TopFrame, FrameFields DEF ResolveProjectImports, In
  <2>2. Top.module \in Loaded
    BY <1>2, <2>1 DEF ResolveProjectImports, HasAst, Loaded
  <2>3. stack' \in Seq(Frames) /\ (Service!Break \/ UNCHANGED serviceVars)
    <3>1. CASE Top.module \in world.compiles
      <4>1. Frame("load", Top.module, ProjectImports(Top.module)) \in Frames
        BY <2>1, WorldTypes, FrameTypes
      <4> QED
        BY <1>0, <1>2, <3>1, <4>1, Continuing DEF ResolveProjectImports, In
    <3>2. CASE Top.module \notin world.compiles
      BY <1>0, <1>2, <3>2, Throwing DEF ResolveProjectImports
    <3> QED
      BY <3>1, <3>2
  <2>4. ServiceOK' /\ Loaded' = Loaded
    BY <1>0, <2>3, NotLoading
  <2> QED
    BY <1>2, <2>2, <2>3, <2>4 DEF ResolveProjectImports, Typed, ServiceOK, mainVars
<1>3. CASE LoadProjectImport
  <2>1. Top \in Frames /\ Top.module \in Modules /\ Top.rest \subseteq Modules
    BY <1>0, <1>3, TopFrame, FrameFields DEF LoadProjectImport, In
  <2>2. PICK m \in Top.rest : /\ GetModule(m)
                              /\ Continue(Frame("load", Top.module, Top.rest \ {m}))
    BY <1>3 DEF LoadProjectImport
  <2>3. Frame("load", Top.module, Top.rest \ {m}) \in Frames
    BY <2>1, FrameTypes
  <2>4. stack' \in Seq(Frames)
    BY <1>0, <1>3, <2>2, <2>3, Continuing DEF LoadProjectImport, In
  <2> QED
    BY <1>0, <1>3, <2>1, <2>2, <2>4, Loading, QuietStep DEF LoadProjectImport
<1>4. CASE AllImportsLoaded
  <2>1. Top \in Frames /\ Top.module \in Modules
    BY <1>0, <1>4, TopFrame, FrameFields DEF AllImportsLoaded, In
  <2>2. Frame("walk", Top.module, ProjectImports(Top.module)) \in Frames
    BY <2>1, WorldTypes, FrameTypes
  <2>3. stack' \in Seq(Frames)
    BY <1>0, <1>4, <2>2, Continuing DEF AllImportsLoaded, In
  <2> QED
    BY <1>0, <1>4, <2>3, NotLoading, QuietStep DEF AllImportsLoaded
<1>5. CASE WalkProjectImport
  <2>1. Top \in Frames /\ Top.module \in Modules /\ Top.rest \subseteq Modules
    BY <1>0, <1>5, TopFrame, FrameFields DEF WalkProjectImport, In
  <2>2. PICK m \in Top.rest :
          Call(Frame("resolveProjectImports", m, {}), Frame("walk", Top.module, Top.rest \ {m}))
    BY <1>5 DEF WalkProjectImport
  <2>3. /\ Frame("resolveProjectImports", m, {}) \in Frames
        /\ Frame("walk", Top.module, Top.rest \ {m}) \in Frames
    BY <2>1, FrameTypes DEF PlainCalls
  <2>4. stack' \in Seq(Frames)
    BY <1>0, <1>5, <2>2, <2>3, Calling DEF WalkProjectImport, In
  <2> QED
    BY <1>0, <1>5, <2>4, NotLoading, QuietStep DEF WalkProjectImport
<1> QED
  BY <1>1, <1>2, <1>3, <1>4, <1>5

\* So do the calls that resolve identifiers.
LEMMA ResolutionTypes ==
  ASSUME Typed,
         \/ LocalAlreadyDone \/ ResolveLocalIdentifiers \/ LoadImport \/ LoopDone
         \/ ResolveImportedIdentifiers \/ ResolveSpecifier
  PROVE  Typed'
<1>0. stack \in Seq(Frames) /\ ServiceOK
  BY DEF Typed, ServiceOK
<1>1. CASE LocalAlreadyDone \/ LoopDone
  BY <1>0, <1>1, Returning, NotLoading, QuietStep DEF LocalAlreadyDone, LoopDone, In
<1>2. CASE ResolveLocalIdentifiers
  <2>1. Top \in Frames /\ Top.module \in Modules
    BY <1>0, <1>2, TopFrame, FrameFields DEF ResolveLocalIdentifiers, In
  <2>2. Top.module \in Loaded
    BY <1>2, <2>1 DEF ResolveLocalIdentifiers, HasAst, Loaded
  <2>3. stack' \in Seq(Frames) /\ (Service!Break \/ UNCHANGED serviceVars)
    <3>1. CASE Top.module \in world.compiles
      <4>1. Frame("import", Top.module, world.imports[Top.module]) \in Frames
        BY <2>1, WorldTypes, FrameTypes
      <4> QED
        BY <1>0, <1>2, <3>1, <4>1, Continuing DEF ResolveLocalIdentifiers, In
    <3>2. CASE Top.module \notin world.compiles
      BY <1>0, <1>2, <3>2, Throwing DEF ResolveLocalIdentifiers
    <3> QED
      BY <3>1, <3>2
  <2>4. ServiceOK' /\ Loaded' = Loaded
    BY <1>0, <2>3, NotLoading
  <2>5. scopeChain' \subseteq localDone'
    BY <1>2 DEF ResolveLocalIdentifiers, Typed
  <2> QED
    BY <1>2, <2>2, <2>3, <2>4, <2>5 DEF ResolveLocalIdentifiers, Typed, ServiceOK, mainVars
<1>3. CASE LoadImport
  <2>1. Top \in Frames /\ Top.module \in Modules /\ Top.rest \subseteq Modules \cup {Unresolved}
    BY <1>0, <1>3, TopFrame, FrameFields DEF LoadImport, In
  <2>2. PICK m \in Top.rest :
          IF m = Unresolved THEN Throw
          ELSE GetModule(m) /\ Continue(Frame("import", Top.module, Top.rest \ {m}))
    BY <1>3 DEF LoadImport
  <2>3. CASE m = Unresolved
    BY <1>0, <1>3, <2>2, <2>3, Throwing, NotLoading, QuietStep DEF LoadImport
  <2>4. CASE m # Unresolved
    <3>1. Frame("import", Top.module, Top.rest \ {m}) \in Frames
      BY <2>1, FrameTypes
    <3>2. stack' \in Seq(Frames)
      BY <1>0, <1>3, <2>2, <2>4, <3>1, Continuing DEF LoadImport, In
    <3> QED
      BY <1>0, <1>3, <2>1, <2>2, <2>4, <3>2, Loading, QuietStep DEF LoadImport
  <2> QED
    BY <2>3, <2>4
<1>4. CASE ResolveImportedIdentifiers
  <2>1. Top \in Frames /\ Top.module \in Modules
    BY <1>0, <1>4, TopFrame, FrameFields DEF ResolveImportedIdentifiers, In
  <2>2. Top.module \in Loaded
    BY <1>4, <2>1 DEF ResolveImportedIdentifiers, HasAst, Loaded
  <2>3. Frame("specifiers", Top.module, world.imports[Top.module]) \in Frames
    BY <2>1, WorldTypes, FrameTypes
  <2>4. stack' \in Seq(Frames)
    BY <1>0, <1>4, <2>3, Returning, Continuing DEF ResolveImportedIdentifiers, In
  <2>5. ServiceOK' /\ Loaded' = Loaded
    BY <1>0, <1>4, NotLoading DEF ResolveImportedIdentifiers
  <2> QED
    BY <1>4, <2>2, <2>4, <2>5 DEF ResolveImportedIdentifiers, Typed, ServiceOK, mainVars
<1>5. CASE ResolveSpecifier
  <2>1. Top \in Frames /\ Top.module \in Modules /\ Top.rest \subseteq Modules \cup {Unresolved}
    BY <1>0, <1>5, TopFrame, FrameFields DEF ResolveSpecifier, In
  <2> DEFINE after(m) == Frame("specifiers", Top.module, Top.rest \ {m})
  <2>2. PICK m \in Top.rest :
          \/ Continue(after(m)) /\ UNCHANGED serviceVars
          \/ m = Unresolved /\ Throw
          \/ m \in Modules \ Loaded /\ GetModule(m) /\ UNCHANGED stack
          \/ /\ m \in Loaded
             /\ Call(Frame("resolveLocalIdentifiers", m, {}), after(m))
             /\ UNCHANGED serviceVars
    BY <1>5 DEF ResolveSpecifier
  <2>3. after(m) \in Frames
    BY <2>1, FrameTypes
  <2> HIDE DEF after
  <2>4. UNCHANGED <<world, mainVars, passVars>> /\ stack # <<>>
    BY <1>5 DEF ResolveSpecifier, In
  <2>5. CASE Continue(after(m)) /\ UNCHANGED serviceVars
    BY <1>0, <2>3, <2>4, <2>5, Continuing, NotLoading, QuietStep
  <2>6. CASE m = Unresolved /\ Throw
    BY <1>0, <2>4, <2>6, Throwing, NotLoading, QuietStep
  <2>7. CASE m \in Modules \ Loaded /\ GetModule(m) /\ UNCHANGED stack
    BY <1>0, <2>4, <2>7, Loading, QuietStep
  <2>8. CASE /\ m \in Loaded
             /\ Call(Frame("resolveLocalIdentifiers", m, {}), after(m))
             /\ UNCHANGED serviceVars
    <3>1. Frame("resolveLocalIdentifiers", m, {}) \in Frames
      BY <2>8, FrameTypes DEF PlainCalls, Loaded
    <3>2. stack' \in Seq(Frames)
      BY <1>0, <2>3, <2>4, <2>8, <3>1, Calling
    <3> QED
      BY <1>0, <2>4, <2>8, <3>2, NotLoading, QuietStep
  <2> QED
    BY <2>2, <2>5, <2>6, <2>7, <2>8
<1> QED
  BY <1>1, <1>2, <1>3, <1>4, <1>5

\* And those that type the nodes of graphs.
LEMMA TypecheckTypes ==
  ASSUME Typed, FollowImport \/ GetFunctionGraph \/ BuildFromAst \/ TypechecksDone
  PROVE  Typed'
<1>0. stack \in Seq(Frames) /\ ServiceOK
  BY DEF Typed, ServiceOK
<1>1. CASE BuildFromAst \/ TypechecksDone
  BY <1>0, <1>1, Returning, NotLoading, QuietStep DEF BuildFromAst, TypechecksDone, In
<1>2. CASE FollowImport
  <2> DEFINE Follow(k) ==
        IF k = Unresolved THEN Throw
        ELSE \/ k \notin Loaded /\ GetModule(k) /\ UNCHANGED stack
             \/ /\ k \in Loaded
                /\ Call(Frame("resolveLocalIdentifiers", k, {}), Top)
                /\ UNCHANGED serviceVars
  <2>0. PICK m \in Modules : \E k \in world.imports[m] : Follow(k)
    BY <1>2 DEF FollowImport, Reachable
  <2>1. PICK k \in world.imports[m] : Follow(k)
    BY <2>0
  <2>2. k \in Modules \cup {Unresolved}
    BY <2>1, WorldTypes
  <2>3. UNCHANGED <<world, mainVars, passVars>> /\ stack # <<>>
    BY <1>2 DEF FollowImport, In
  <2>4. CASE k = Unresolved
    BY <1>0, <2>1, <2>3, <2>4, Throwing, NotLoading, QuietStep
  <2>5. CASE k # Unresolved /\ GetModule(k) /\ UNCHANGED stack
    BY <1>0, <2>2, <2>3, <2>5, Loading, QuietStep
  <2>6. CASE /\ k \in Loaded
             /\ Call(Frame("resolveLocalIdentifiers", k, {}), Top)
             /\ UNCHANGED serviceVars
    <3>1. Frame("resolveLocalIdentifiers", k, {}) \in Frames
      BY <2>6, FrameTypes DEF PlainCalls, Loaded
    <3>2. Top \in Frames
      BY <1>0, <2>3, TopFrame
    <3>3. stack' \in Seq(Frames)
      BY <1>0, <2>3, <2>6, <3>1, <3>2, Calling
    <3> QED
      BY <1>0, <2>3, <2>6, <3>3, NotLoading, QuietStep
  <2> QED
    BY <2>1, <2>4, <2>5, <2>6
<1>3. CASE GetFunctionGraph
  <2>1. PICK m \in Modules :
          /\ functionGraphs[m] < MaxFunctions
          /\ functionGraphs' = [functionGraphs EXCEPT ![m] = @ + 1]
          /\ stack' = <<Frame("resolveLocalIdentifiers", m, {})>>
                        \o (<<Frame("getFunctionGraph", m, {})>> \o stack)
    BY <1>3 DEF GetFunctionGraph, Reachable
  <2>2. /\ Frame("resolveLocalIdentifiers", m, {}) \in Frames
        /\ Frame("getFunctionGraph", m, {}) \in Frames
    BY FrameTypes DEF PlainCalls
  <2>3. stack' \in Seq(Frames)
    BY <1>0, <2>1, <2>2, CallingBoth
  <2>4. functionGraphs' \in [Modules -> 0..MaxFunctions]
    BY <2>1, WorldAssumption DEF Typed, WorldAssumption
  <2>5. ServiceOK' /\ Loaded' = Loaded
    BY <1>0, <1>3, NotLoading DEF GetFunctionGraph
  <2> QED
    BY <1>3, <2>3, <2>4, <2>5 DEF GetFunctionGraph, Typed, ServiceOK, mainVars
<1> QED
  BY <1>1, <1>2, <1>3

\* main() and the threads that parse keep the types.
LEMMA MainTypes ==
  ASSUME Typed,
         \/ Start \/ LoadTarget \/ TargetsLoaded \/ ProjectLoaded
         \/ Analyze \/ Cleanup \/ ExitSuccess \/ ParseThreads
  PROVE  Typed'
<1>0. stack \in Seq(Frames) /\ ServiceOK
  BY DEF Typed, ServiceOK
<1>1. CASE Start \/ Cleanup \/ ExitSuccess
  <2>1. ServiceOK' /\ Loaded' = Loaded
    BY <1>0, <1>1, NotLoading DEF Start, Cleanup, ExitSuccess
  <2> QED
    BY <1>1, <2>1 DEF Start, Cleanup, ExitSuccess, Typed, ServiceOK, passVars
<1>2. CASE LoadTarget
  BY <1>0, <1>2, WorldTypes, Loading, QuietStep DEF LoadTarget
<1>3. CASE TargetsLoaded
  <2>1. ServiceOK' /\ Loaded' = Loaded
    BY <1>0, <1>3, NotLoading DEF TargetsLoaded
  <2>2. Frame("resolveProjectImports", world.target, {}) \in Frames
    BY WorldTypes, FrameTypes DEF PlainCalls
  <2> DEFINE f == Frame("resolveProjectImports", world.target, {})
  <2>3. f \in Frames /\ (stack' = <<f>> \/ UNCHANGED stack)
    BY <1>3, <2>2 DEF TargetsLoaded
  <2> HIDE DEF f
  <2>5. <<f>> \in Seq(Frames)
    BY <2>3
  <2>4. stack' \in Seq(Frames)
    BY <1>0, <2>3, <2>5, Zenon
  <2> QED
    BY <1>3, <2>1, <2>4, WorldTypes DEF TargetsLoaded, Typed, ServiceOK, passVars
<1>4. CASE ProjectLoaded
  <2>1. ServiceOK' /\ Loaded' = Loaded
    BY <1>0, <1>4, NotLoading DEF ProjectLoaded
  <2> QED
    BY <1>4, <2>1 DEF ProjectLoaded, Typed, ServiceOK, passVars
<1>5. CASE Analyze
  <2>1. PICK m \in modulesToAnalyze :
          /\ modulesToAnalyze' = modulesToAnalyze \ {m}
          /\ analyzed' = analyzed \cup {m}
          /\ stack' = <<Frame("resolveLocalIdentifiers", m, {}),
                        Frame("resolveImportedIdentifiers", m, {}),
                        Frame("runTypechecks", m, {})>>
    BY <1>5 DEF Analyze
  <2>2. m \in Modules
    BY <2>1 DEF Typed, Loaded
  <2>3. \A c \in PlainCalls : Frame(c, m, {}) \in Frames
    BY <2>2, FrameTypes
  <2>4. stack' \in Seq(Frames)
    BY <2>1, <2>3 DEF PlainCalls
  <2>5. ServiceOK' /\ Loaded' = Loaded
    BY <1>0, <1>5, NotLoading DEF Analyze
  <2> QED
    BY <1>5, <2>1, <2>4, <2>5 DEF Analyze, Typed, ServiceOK, passVars
<1>6. CASE ParseThreads
  <2>1. ServiceOK' /\ Loaded' = Loaded
    BY <1>0, <1>6, NotLoading DEF ParseThreads
  <2> QED
    BY <1>0, <1>6, <2>1, QuietStep DEF ParseThreads
<1> QED
  BY <1>1, <1>2, <1>3, <1>4, <1>5, <1>6

LEMMA InitTypes ==
  ASSUME Init
  PROVE  Typed
<1>1. stack = <<>> /\ <<>> \in Seq(Frames)
  BY DEF Init
<1>2. functionGraphs \in [Modules -> 0..MaxFunctions]
  BY WorldAssumption DEF WorldAssumption, Init
<1>3. state \in [Modules -> Service!States] /\ {open, live, broken} \subseteq BOOLEAN
  BY DEF Init, Service!Init, Service!States
<1> QED
  BY <1>1, <1>2, <1>3, Zenon DEF Init, Typed

LEMMA StepTypes ==
  ASSUME Typed, [Next]_vars
  PROVE  Typed'
<1>1. CASE UNCHANGED vars
  <2>1. Loaded' = Loaded
    BY <1>1 DEF vars, serviceVars, Loaded
  <2> QED
    BY <1>1, <2>1 DEF Typed, vars, mainVars, passVars, serviceVars
<1>2. CASE MainThread
  BY <1>2, WalkTypes, ResolutionTypes, TypecheckTypes, MainTypes DEF MainThread
<1>3. CASE ParseThreads
  BY <1>3, MainTypes
<1> QED
  BY <1>1, <1>2, <1>3 DEF Next, Over

-----------------------------------------------------------------------------
(* What main analyzes *)

StageInv ==
  /\ stage \in {"options", "load", "cleanup", "exited"} => stack = <<>>
  /\ stage = "walk" =>
       /\ world.mode = "package"
       /\ \A f \in OnStack(stack) : f.call \in WalkCalls
  /\ stage = "analyze" => \A f \in OnStack(stack) : f.call \notin WalkCalls

FrameInv ==
  stage = "walk" =>
    \A f \in OnStack(stack) :
      /\ f.module \in world.project
      /\ f.call = "load" => f.module \in importsResolved /\ f.rest \subseteq ProjectImports(f.module)
      /\ f.call = "walk" => f.rest \subseteq world.project

\* A module was walked, or a call on the stack is going to walk it.
Owed(k) ==
  \/ k \in importsResolved
  \/ \E f \in OnStack(stack) : \/ f.call = "resolveProjectImports" /\ f.module = k
                               \/ f.call = "walk" /\ k \in f.rest

WalkInv ==
  stage = "walk" /\ ~broken =>
    /\ importsResolved \subseteq world.project
    /\ Owed(world.target)
    /\ \A m \in importsResolved : \A k \in ProjectImports(m) :
         Owed(k) \/ \E f \in OnStack(stack) : f.call = "load" /\ f.module = m
    /\ \A k \in Loaded : \/ k = world.target
                         \/ \E m \in importsResolved : k \in ProjectImports(m)

\* Nothing is loaded and no flag set before the walk, and nothing analyzed before
\* it is over.
LoadInv ==
  /\ stage \in {"options", "load", "walk"} => analyzed = {}
  /\ stage \in {"options", "load"} => importsResolved = {}
  /\ stage = "options" => Loaded = {}
  /\ stage = "load" => Loaded \subseteq Targets

DoneInv ==
  /\ stage \in {"analyze", "cleanup", "exited"} /\ world.mode = "package"
       => WalkClosed(analyzed \cup modulesToAnalyze)
  /\ stage \in {"cleanup", "exited"} => modulesToAnalyze = {}

AnalyzedInv == Typed /\ StageInv /\ FrameInv /\ WalkInv /\ LoadInv /\ DoneInv

\* Where the main thread is when it is in a call.
LEMMA CallStage ==
  ASSUME AnalyzedInv, stack # <<>>
  PROVE  /\ Top \in OnStack(stack) /\ stack \in Seq(Frames) /\ Top \in Frames
         /\ OnStack(stack) = {Top} \cup Callers
         /\ Top.call \in WalkCalls => stage = "walk"
         /\ Top.call \notin WalkCalls => stage = "analyze"
<1>1. stack \in Seq(Frames) /\ stage \in {"options", "load", "walk", "analyze", "cleanup", "exited"}
  BY DEF AnalyzedInv, Typed
<1>2. Top \in Frames /\ OnStack(stack) = {Top} \cup Callers
  BY <1>1, TopFrame
<1> QED
  BY <1>1, <1>2 DEF AnalyzedInv, StageInv

\* A call of the analysis leaves the walk and its result alone.
LEMMA AnalysisStep ==
  ASSUME AnalyzedInv, stage = "analyze", UNCHANGED <<world, mainVars>>, Typed',
         \A f \in OnStack(stack') : f.call \notin WalkCalls
  PROVE  AnalyzedInv'
<1>1. world' = world /\ stage' = "analyze" /\ analyzed' = analyzed /\ modulesToAnalyze' = modulesToAnalyze
  BY DEF mainVars
<1>2. StageInv' /\ FrameInv' /\ WalkInv' /\ LoadInv'
  BY <1>1 DEF StageInv, FrameInv, WalkInv, LoadInv
<1>3. DoneInv'
  BY <1>1 DEF AnalyzedInv, DoneInv, WalkClosed
<1> QED
  BY <1>2, <1>3 DEF AnalyzedInv

\* In the walk there is nothing to show of the other stages.
LEMMA WalkStep ==
  ASSUME AnalyzedInv, stage = "walk", UNCHANGED <<world, mainVars>>, Typed',
         \A f \in OnStack(stack') : f.call \in WalkCalls,
         FrameInv', WalkInv'
  PROVE  AnalyzedInv'
<1>1. world' = world /\ stage' = "walk" /\ analyzed' = analyzed
  BY DEF mainVars
<1>2. StageInv' /\ LoadInv' /\ DoneInv'
  BY <1>1 DEF AnalyzedInv, StageInv, LoadInv, DoneInv
<1> QED
  BY <1>2 DEF AnalyzedInv

\* No call of the analysis makes a call of the walk.
LEMMA AnalysisCalls ==
  ASSUME AnalyzedInv, Typed',
         \/ LocalAlreadyDone \/ ResolveLocalIdentifiers \/ LoadImport
         \/ LoopDone /\ ~In("walk")
         \/ ResolveImportedIdentifiers \/ ResolveSpecifier
         \/ FollowImport \/ GetFunctionGraph \/ BuildFromAst \/ TypechecksDone
  PROVE  AnalyzedInv'
<1>1. /\ stack # <<>> /\ UNCHANGED <<world, mainVars>>
      /\ Top.call \notin WalkCalls
  BY DEF LocalAlreadyDone, ResolveLocalIdentifiers, LoadImport, LoopDone,
         ResolveImportedIdentifiers, ResolveSpecifier, FollowImport, GetFunctionGraph,
         BuildFromAst, TypechecksDone, In, WalkCalls
<1>2. /\ stack \in Seq(Frames) /\ stage = "analyze"
      /\ OnStack(stack) = {Top} \cup Callers
      /\ \A f \in OnStack(stack) : f.call \notin WalkCalls
  BY <1>1, CallStage DEF AnalyzedInv, StageInv
<1>3. \A c, m, T : Frame(c, m, T).call = c
  BY DEF Frame
<1> SUFFICES \A f \in OnStack(stack') : f.call \notin WalkCalls
  BY <1>1, <1>2, AnalysisStep
<1>4. CASE Return \/ Throw \/ UNCHANGED stack
  <2>1. CASE Return
    BY <1>1, <1>2, <2>1, Returning
  <2>2. CASE Throw
    BY <1>1, <1>2, <2>2, Throwing
  <2> QED
    BY <1>2, <1>4, <2>1, <2>2
<1>5. CASE \E m, T : \/ Continue(Frame("import", m, T)) \/ Continue(Frame("specifiers", m, T))
  BY <1>1, <1>2, <1>3, <1>5, Continuing DEF WalkCalls
<1>6. CASE \E k, m, T : Call(Frame("resolveLocalIdentifiers", k, {}), Frame("specifiers", m, T))
  BY <1>1, <1>2, <1>3, <1>6, Calling DEF WalkCalls
<1>7. CASE \E k : Call(Frame("resolveLocalIdentifiers", k, {}), Top)
  BY <1>1, <1>2, <1>3, <1>7, Calling DEF WalkCalls
<1>8. CASE GetFunctionGraph
  <2>1. PICK m \in Modules :
          stack' = <<Frame("resolveLocalIdentifiers", m, {})>>
                     \o (<<Frame("getFunctionGraph", m, {})>> \o stack)
    BY <1>8 DEF GetFunctionGraph, Reachable
  <2> DEFINE f == Frame("resolveLocalIdentifiers", m, {})
             g == Frame("getFunctionGraph", m, {})
  <2>2. f.call \notin WalkCalls /\ g.call \notin WalkCalls
    BY <1>3 DEF WalkCalls
  <2>3. stack' = <<f>> \o (<<g>> \o stack)
    BY <2>1, Zenon
  <2> HIDE DEF f, g
  <2>4. OnStack(stack') = {f, g} \cup OnStack(stack)
    BY <1>2, <2>3, CallingBoth
  <2> QED
    BY <1>2, <2>2, <2>4
<1>9. CASE LocalAlreadyDone \/ (LoopDone /\ ~In("walk")) \/ BuildFromAst \/ TypechecksDone
  BY <1>4, <1>9 DEF LocalAlreadyDone, LoopDone, BuildFromAst, TypechecksDone
<1>10. CASE ResolveLocalIdentifiers
  BY <1>4, <1>5, <1>10 DEF ResolveLocalIdentifiers
<1>11. CASE LoadImport
  BY <1>4, <1>5, <1>11 DEF LoadImport
<1>12. CASE ResolveImportedIdentifiers
  BY <1>4, <1>5, <1>12 DEF ResolveImportedIdentifiers
<1>13. CASE ResolveSpecifier
  BY <1>4, <1>5, <1>6, <1>13 DEF ResolveSpecifier
<1>14. CASE FollowImport
  BY <1>4, <1>7, <1>14 DEF FollowImport
<1> QED
  BY <1>8, <1>9, <1>10, <1>11, <1>12, <1>13, <1>14

\* The calls of the walk: what they owe is passed on, and paid when they return.
LEMMA WalkCallsOwe ==
  ASSUME AnalyzedInv, Typed', ~broken,
         \/ ImportsAlreadyResolved \/ ResolveProjectImports
         \/ LoadProjectImport \/ AllImportsLoaded \/ WalkProjectImport
         \/ LoopDone /\ In("walk")
  PROVE  AnalyzedInv'
<1>1. /\ stack # <<>> /\ UNCHANGED <<world, mainVars>>
      /\ Top.call \in WalkCalls
  BY DEF ImportsAlreadyResolved, ResolveProjectImports, LoadProjectImport, AllImportsLoaded,
         WalkProjectImport, LoopDone, In, WalkCalls
<1>2. /\ stack \in Seq(Frames) /\ Top \in Frames /\ stage = "walk" /\ ServiceOK
      /\ OnStack(stack) = {Top} \cup Callers
      /\ \A f \in OnStack(stack) : f.call \in WalkCalls
  BY <1>1, CallStage DEF AnalyzedInv, StageInv, Typed, ServiceOK
<1>3. \A c, m, T : /\ Frame(c, m, T).call = c
                   /\ Frame(c, m, T).module = m /\ Frame(c, m, T).rest = T
  BY DEF Frame
<1>4. world' = world /\ stage' = "walk" /\ Top.module \in Modules
  BY <1>1, <1>2, FrameFields DEF mainVars
<1>5. \A m : ProjectImports(m)' = ProjectImports(m) /\ ProjectImports(m) \subseteq world.project
  BY <1>4 DEF ProjectImports
<1>6. FrameInv /\ WalkInv /\ Typed
  BY DEF AnalyzedInv
<1> USE DEF WalkCalls
<1>7. CASE ImportsAlreadyResolved \/ (LoopDone /\ In("walk"))
  <2>1. OnStack(stack') = Callers /\ UNCHANGED <<passVars, serviceVars>>
    BY <1>1, <1>2, <1>7, Returning DEF ImportsAlreadyResolved, LoopDone
  <2>2. importsResolved' = importsResolved /\ Loaded' = Loaded /\ broken' = broken
    BY <2>1 DEF passVars, serviceVars, Loaded
  <2>3. \/ Top.call = "walk" /\ Top.rest = {}
        \/ Top.call = "resolveProjectImports" /\ Top.module \in importsResolved
    <3>1. CASE ImportsAlreadyResolved
      BY <3>1 DEF ImportsAlreadyResolved, In
    <3>2. CASE LoopDone /\ In("walk")
      BY <3>2 DEF LoopDone, In
    <3> QED
      BY <1>7, <3>1, <3>2
  <2>4. FrameInv'
    BY <1>2, <1>4, <1>5, <1>6, <2>1, <2>2 DEF FrameInv
  <2>5. \A k : Owed(k) => Owed(k)'
    BY <1>2, <2>1, <2>2, <2>3 DEF Owed
  <2>6. WalkInv'
    BY <1>2, <1>4, <1>5, <1>6, <2>1, <2>2, <2>3, <2>5 DEF WalkInv
  <2> QED
    BY <1>1, <1>2, <2>1, <2>4, <2>6, WalkStep
<1>8. CASE ResolveProjectImports
  <2>0. Top.call = "resolveProjectImports"
    BY <1>8 DEF ResolveProjectImports, In
  <2>1. CASE Top.module \in world.compiles
    <3> DEFINE f == Frame("load", Top.module, ProjectImports(Top.module))
    <3>1. /\ OnStack(stack') = {f} \cup Callers
          /\ importsResolved' = importsResolved \cup {Top.module}
          /\ Loaded' = Loaded /\ broken' = broken
      BY <1>1, <1>2, <1>8, <2>1, Continuing DEF ResolveProjectImports, serviceVars, Loaded
    <3>2. f.call = "load" /\ f.module = Top.module /\ f.rest = ProjectImports(Top.module)
      BY <1>3
    <3> HIDE DEF f
    <3>3. FrameInv'
      BY <1>2, <1>4, <1>5, <1>6, <3>1, <3>2 DEF FrameInv
    <3>4. \A k : Owed(k) => Owed(k)'
      BY <1>2, <2>0, <3>1 DEF Owed
    <3>5. Top.module \in world.project
      BY <1>2, <1>6 DEF FrameInv
    <3>6. WalkInv'
      BY <1>2, <1>4, <1>5, <1>6, <2>0, <3>1, <3>2, <3>4, <3>5 DEF WalkInv
    <3> QED
      BY <1>1, <1>2, <3>1, <3>2, <3>3, <3>6, WalkStep
  <2>2. CASE Top.module \notin world.compiles
    <3>1. /\ OnStack(stack') \subseteq OnStack(stack)
          /\ importsResolved' = importsResolved \cup {Top.module}
          /\ broken'
      BY <1>2, <1>8, <2>2, Throwing DEF ResolveProjectImports
    <3>2. FrameInv' /\ WalkInv'
      BY <1>2, <1>4, <1>5, <1>6, <3>1 DEF FrameInv, WalkInv
    <3> QED
      BY <1>1, <1>2, <3>1, <3>2, WalkStep
  <2> QED
    BY <2>1, <2>2
<1>9. CASE LoadProjectImport
  <2>0. Top.call = "load" /\ Top.rest \subseteq Modules
    BY <1>2, <1>9, FrameFields DEF LoadProjectImport, In
  <2>1. PICK m \in Top.rest : GetModule(m) /\ Continue(Frame("load", Top.module, Top.rest \ {m}))
    BY <1>9 DEF LoadProjectImport
  <2> DEFINE f == Frame("load", Top.module, Top.rest \ {m})
  <2>2. /\ OnStack(stack') = {f} \cup Callers
        /\ importsResolved' = importsResolved
        /\ Loaded' = Loaded \cup {m} /\ broken' = broken
    <3>1. broken' = broken
      BY <2>1 DEF GetModule, serviceVars, Service!Accept, Service!Move
    <3> QED
      BY <1>1, <1>2, <1>9, <2>0, <2>1, <3>1, Continuing, Loading DEF LoadProjectImport, passVars
  <2>3. f.call = "load" /\ f.module = Top.module /\ f.rest = Top.rest \ {m}
    BY <1>3
  <2> HIDE DEF f
  <2>4. FrameInv'
    BY <1>2, <1>4, <1>5, <1>6, <2>0, <2>2, <2>3 DEF FrameInv
  <2>5. \A k : Owed(k) => Owed(k)'
    BY <1>2, <2>0, <2>2 DEF Owed
  <2>6. Top.module \in importsResolved /\ m \in ProjectImports(Top.module)
    BY <1>2, <1>6, <2>0 DEF FrameInv
  <2>7. WalkInv'
    BY <1>2, <1>4, <1>5, <1>6, <2>0, <2>2, <2>3, <2>5, <2>6 DEF WalkInv
  <2> QED
    BY <1>1, <1>2, <2>2, <2>3, <2>4, <2>7, WalkStep
<1>10. CASE AllImportsLoaded
  <2>0. Top.call = "load"
    BY <1>10 DEF AllImportsLoaded, In
  <2> DEFINE f == Frame("walk", Top.module, ProjectImports(Top.module))
  <2>2. /\ OnStack(stack') = {f} \cup Callers
        /\ importsResolved' = importsResolved
        /\ Loaded' = Loaded /\ broken' = broken
    BY <1>1, <1>2, <1>10, Continuing DEF AllImportsLoaded, passVars, serviceVars, Loaded
  <2>3. f.call = "walk" /\ f.module = Top.module /\ f.rest = ProjectImports(Top.module)
    BY <1>3
  <2> HIDE DEF f
  <2>4. FrameInv'
    BY <1>2, <1>4, <1>5, <1>6, <2>2, <2>3 DEF FrameInv
  <2>5. \A k : Owed(k) => Owed(k)'
    BY <1>2, <2>0, <2>2 DEF Owed
  <2>6. \A k \in ProjectImports(Top.module) : Owed(k)'
    BY <2>2, <2>3 DEF Owed
  <2>7. WalkInv'
    BY <1>2, <1>4, <1>5, <1>6, <2>0, <2>2, <2>5, <2>6 DEF WalkInv
  <2> QED
    BY <1>1, <1>2, <2>2, <2>3, <2>4, <2>7, WalkStep
<1>11. CASE WalkProjectImport
  <2>0. Top.call = "walk"
    BY <1>11 DEF WalkProjectImport, In
  <2>1. PICK m \in Top.rest :
          Call(Frame("resolveProjectImports", m, {}), Frame("walk", Top.module, Top.rest \ {m}))
    BY <1>11 DEF WalkProjectImport
  <2> DEFINE f == Frame("resolveProjectImports", m, {})
             g == Frame("walk", Top.module, Top.rest \ {m})
  <2>2. /\ OnStack(stack') = {f, g} \cup Callers
        /\ importsResolved' = importsResolved
        /\ Loaded' = Loaded /\ broken' = broken
    BY <1>1, <1>2, <1>11, <2>1, Calling DEF WalkProjectImport, passVars, serviceVars, Loaded
  <2>3. /\ f.call = "resolveProjectImports" /\ f.module = m
        /\ g.call = "walk" /\ g.module = Top.module /\ g.rest = Top.rest \ {m}
    BY <1>3
  <2> HIDE DEF f, g
  <2>4. FrameInv'
    BY <1>2, <1>4, <1>5, <1>6, <2>0, <2>2, <2>3 DEF FrameInv
  <2>5. \A k : Owed(k) => Owed(k)'
    BY <1>2, <2>0, <2>2, <2>3 DEF Owed
  <2>6. WalkInv'
    BY <1>2, <1>4, <1>5, <1>6, <2>0, <2>2, <2>5 DEF WalkInv
  <2> QED
    BY <1>1, <1>2, <2>2, <2>3, <2>4, <2>6, WalkStep
<1> QED
  BY <1>7, <1>8, <1>9, <1>10, <1>11

\* main() and the parsing threads: the walk starts with the target on the stack,
\* and ends when nothing is owed.
LEMMA MainAnalyzes ==
  ASSUME AnalyzedInv, Typed', ~broken,
         \/ Start \/ LoadTarget \/ TargetsLoaded \/ ProjectLoaded
         \/ Analyze \/ Cleanup \/ ExitSuccess \/ ParseThreads
  PROVE  AnalyzedInv'
<1>0. /\ Typed /\ StageInv /\ FrameInv /\ WalkInv /\ LoadInv /\ DoneInv /\ ServiceOK
      /\ stack \in Seq(Frames)
  BY DEF AnalyzedInv, Typed, ServiceOK
<1>1. world' = world
  BY DEF Start, LoadTarget, TargetsLoaded, ProjectLoaded, Analyze, Cleanup, ExitSuccess, ParseThreads
<1>2. /\ Targets' = Targets /\ \A m : ProjectImports(m)' = ProjectImports(m)
      /\ \A S : WalkClosed(S)' = WalkClosed(S)
  BY <1>1 DEF Targets, ProjectImports, WalkClosed
<1>3. OnStack(<<>>) = {}
  BY DEF OnStack
<1>4. CASE Start
  <2>1. Loaded' = Loaded
    BY <1>0, <1>4, NotLoading DEF Start
  <2> QED
    BY <1>0, <1>4, <2>1 DEF Start, AnalyzedInv, StageInv, FrameInv, WalkInv, LoadInv, DoneInv, passVars
<1>5. CASE LoadTarget
  <2>1. PICK m \in Targets : GetModule(m)
    BY <1>5 DEF LoadTarget
  <2>2. Loaded' = Loaded \cup {m}
    BY <1>0, <2>1, WorldTypes, Loading
  <2> QED
    BY <1>0, <1>2, <1>5, <2>2
       DEF LoadTarget, AnalyzedInv, StageInv, FrameInv, WalkInv, LoadInv, DoneInv, passVars, mainVars
<1>6. CASE TargetsLoaded
  <2>1. Loaded' = Loaded /\ importsResolved' = importsResolved /\ importsResolved = {} /\ Loaded = Targets
    BY <1>0, <1>6, NotLoading DEF TargetsLoaded, passVars, LoadInv
  <2>2. CASE world.mode = "package"
    <3> DEFINE f == Frame("resolveProjectImports", world.target, {})
    <3>1. stage' = "walk" /\ stack' = <<f>>
      BY <1>6, <2>2 DEF TargetsLoaded
    <3>2. f.call = "resolveProjectImports" /\ f.module = world.target
      BY DEF Frame
    <3> HIDE DEF f
    <3>3. OnStack(stack') = {f}
      BY <3>1 DEF OnStack
    <3>4. StageInv' /\ LoadInv' /\ DoneInv'
      BY <1>0, <1>1, <1>6, <2>2, <3>1, <3>2, <3>3
         DEF TargetsLoaded, StageInv, LoadInv, DoneInv, WalkCalls
    <3>5. FrameInv'
      BY <1>0, <1>1, <2>2, <3>2, <3>3, WorldTypes DEF FrameInv
    <3>6. WalkInv'
      BY <1>1, <2>1, <2>2, <3>2, <3>3 DEF WalkInv, Owed, Targets
    <3> QED
      BY <3>4, <3>5, <3>6 DEF AnalyzedInv
  <2>3. CASE world.mode # "package"
    <3>1. stage' = "analyze" /\ stack' = <<>>
      BY <1>0, <1>6, <2>3 DEF TargetsLoaded, StageInv
    <3> QED
      BY <1>1, <1>3, <2>3, <3>1 DEF AnalyzedInv, StageInv, FrameInv, WalkInv, LoadInv, DoneInv
  <2> QED
    BY <2>2, <2>3
<1>7. CASE ProjectLoaded
  <2>1. /\ stage = "walk" /\ stack = <<>> /\ OnStack(stack) = {}
        /\ stage' = "analyze" /\ stack' = <<>> /\ analyzed' = analyzed
        /\ modulesToAnalyze' = Loaded \cap world.project
    BY <1>3, <1>7 DEF ProjectLoaded
  <2>2. world.mode = "package" /\ world.target \in world.project
    BY <1>0, <2>1, WorldTypes DEF StageInv
  <2>3. /\ world.target \in importsResolved /\ importsResolved \subseteq world.project
        /\ \A m \in importsResolved : ProjectImports(m) \subseteq importsResolved
        /\ \A k \in Loaded : k = world.target \/ \E m \in importsResolved : k \in ProjectImports(m)
    BY <1>0, <2>1 DEF WalkInv, Owed
  <2>4. importsResolved \subseteq Loaded
    BY <1>0 DEF Typed
  <2>5. Loaded \cap world.project = importsResolved
    BY <2>3, <2>4
  <2>6. analyzed = {}
    BY <1>0, <2>1 DEF LoadInv
  <2>7. WalkClosed(analyzed' \cup modulesToAnalyze')
    BY <2>1, <2>3, <2>5, <2>6 DEF WalkClosed, ProjectImports
  <2>8. DoneInv'
    BY <1>2, <2>1, <2>7 DEF DoneInv
  <2> QED
    BY <1>3, <2>1, <2>8 DEF AnalyzedInv, StageInv, FrameInv, WalkInv, LoadInv
<1>8. CASE Analyze
  <2>1. PICK m \in modulesToAnalyze :
          /\ modulesToAnalyze' = modulesToAnalyze \ {m}
          /\ analyzed' = analyzed \cup {m}
          /\ stack' = <<Frame("resolveLocalIdentifiers", m, {}),
                        Frame("resolveImportedIdentifiers", m, {}),
                        Frame("runTypechecks", m, {})>>
          /\ stage = "analyze" /\ stage' = "analyze"
    BY <1>8 DEF Analyze
  <2>2. analyzed' \cup modulesToAnalyze' = analyzed \cup modulesToAnalyze
    BY <2>1
  <2>3. \A f \in OnStack(stack') : f.call \notin WalkCalls
    <3> DEFINE a == Frame("resolveLocalIdentifiers", m, {})
               b == Frame("resolveImportedIdentifiers", m, {})
               c == Frame("runTypechecks", m, {})
    <3>1. a.call \notin WalkCalls /\ b.call \notin WalkCalls /\ c.call \notin WalkCalls
      BY DEF Frame, WalkCalls
    <3>2. stack' = <<a, b, c>>
      BY <2>1
    <3> HIDE DEF a, b, c
    <3>3. OnStack(stack') = {a, b, c}
      BY <3>2 DEF OnStack
    <3> QED
      BY <3>1, <3>3
  <2>4. DoneInv'
    BY <1>0, <1>1, <1>2, <2>1, <2>2 DEF DoneInv
  <2> QED
    BY <2>1, <2>3, <2>4 DEF AnalyzedInv, StageInv, FrameInv, WalkInv, LoadInv
<1>9. CASE Cleanup \/ ExitSuccess
  <2>1. /\ stage \in {"analyze", "cleanup"} /\ stage' \in {"cleanup", "exited"}
        /\ stack = <<>> /\ stack' = stack
        /\ analyzed' = analyzed /\ modulesToAnalyze' = modulesToAnalyze /\ modulesToAnalyze = {}
    BY <1>0, <1>9 DEF Cleanup, ExitSuccess, StageInv, DoneInv
  <2>2. DoneInv'
    BY <1>0, <1>1, <1>2, <2>1 DEF DoneInv
  <2> QED
    BY <2>1, <2>2 DEF AnalyzedInv, StageInv, FrameInv, WalkInv, LoadInv
<1>10. CASE ParseThreads
  <2>1. Loaded' = Loaded
    BY <1>0, <1>10, NotLoading DEF ParseThreads
  <2>2. /\ UNCHANGED <<world, mainVars, stack, passVars>>
        /\ broken' = broken \/ broken'
    BY <1>10 DEF ParseThreads, Service!Begin, Service!Finish, Service!Move, Service!Down, Service!Break
  <2>3. StageInv' /\ FrameInv'
    BY <1>0, <1>1, <1>2, <2>2 DEF StageInv, FrameInv, mainVars, passVars
  <2>4. WalkInv'
    BY <1>0, <1>1, <1>2, <2>1, <2>2 DEF WalkInv, Owed, mainVars, passVars
  <2>5. LoadInv' /\ DoneInv'
    BY <1>0, <1>1, <1>2, <2>1, <2>2 DEF LoadInv, DoneInv, mainVars, passVars
  <2> QED
    BY <2>3, <2>4, <2>5 DEF AnalyzedInv
<1> QED
  BY <1>4, <1>5, <1>6, <1>7, <1>8, <1>9, <1>10

\* At every step, what main is going to analyze is what the calls under way owe,
\* and what they owed is what was analyzed: the invariant of the two theorems below.
THEOREM LoaderInvariant == SafeSpec => []AnalyzedInv
<1>1. Init => AnalyzedInv
  <2> SUFFICES ASSUME Init PROVE AnalyzedInv
    OBVIOUS
  <2>1. Typed
    BY InitTypes
  <2>2. stage = "options" /\ stack = <<>> /\ importsResolved = {} /\ analyzed = {} /\ Loaded = {}
    BY DEF Init, Service!Init, Loaded
  <2> QED
    BY <2>1, <2>2 DEF AnalyzedInv, StageInv, FrameInv, WalkInv, LoadInv, DoneInv
<1>2. AnalyzedInv /\ [Next]_vars => AnalyzedInv'
  <2> SUFFICES ASSUME AnalyzedInv, [Next]_vars PROVE AnalyzedInv'
    OBVIOUS
  <2>1. Typed'
    BY StepTypes DEF AnalyzedInv
  <2>2. CASE UNCHANGED vars
    <3>1. /\ UNCHANGED <<world, stage, modulesToAnalyze, analyzed, stack, importsResolved, broken>>
          /\ Loaded' = Loaded
      BY <2>2 DEF vars, mainVars, passVars, serviceVars, Loaded
    <3> QED
      BY <2>1, <3>1 DEF AnalyzedInv, StageInv, FrameInv, WalkInv, LoadInv, DoneInv,
                        Owed, Targets, ProjectImports, WalkClosed
  <2>3. CASE ~broken /\ MainThread
    BY <2>1, <2>3, AnalysisCalls, WalkCallsOwe, MainAnalyzes DEF MainThread
  <2>4. CASE ~broken /\ ParseThreads
    BY <2>1, <2>4, MainAnalyzes
  <2> QED
    BY <2>2, <2>3, <2>4 DEF Next, Over
<1> QED
  BY <1>1, <1>2, PTL DEF SafeSpec

\* The state of the loader keeps its types: a pass runs on loaded modules only,
\* which is what resolveLocalIdentifiers, resolveProjectImports and analyze of
\* module.cpp rely on when they follow references to modules; and no call of the
\* import walk is about a module outside of the project.
THEOREM TypeCorrect == SafeSpec => []TypeOK
<1>1. AnalyzedInv => TypeOK
  <2> SUFFICES ASSUME AnalyzedInv, NEW i \in DOMAIN stack, stack[i].call \in WalkCalls
               PROVE  /\ stack[i].module \in world.project
                      /\ stack[i].call # "resolveProjectImports" => stack[i].rest \subseteq world.project
    BY DEF AnalyzedInv, TypeOK, WalkStaysInProject
  <2>1. stack[i] \in OnStack(stack) /\ stack # <<>>
    BY DEF OnStack
  <2>2. stage = "walk"
    BY <2>1 DEF AnalyzedInv, StageInv, Typed
  <2>3. ProjectImports(stack[i].module) \subseteq world.project
    BY DEF ProjectImports
  <2> QED
    BY <2>1, <2>2, <2>3 DEF AnalyzedInv, FrameInv, WalkCalls
<1> QED
  BY <1>1, LoaderInvariant, PTL

\* Started on a package, the program has analyzed every project file that imports
\* and requires lead to when it exits, whatever cycles they make: the recursion
\* of resolveProjectImports, cut short by its flag, and getLoadedProjectModules.
THEOREM PackageIsAnalyzed == SafeSpec => []ImportedFilesAreAnalyzed
<1>1. AnalyzedInv => ImportedFilesAreAnalyzed
  BY DEF AnalyzedInv, DoneInv, ImportedFilesAreAnalyzed, WalkClosed
<1> QED
  BY <1>1, LoaderInvariant, PTL

-----------------------------------------------------------------------------
(* Each loop of a pass is entered once per module, so that the calls under way are flat. *)

\* Two rounds of one loop: the two loops of resolveProjectImports count as one.
LoopOf(f) == IF f.call \in {"load", "walk"} THEN "walk" ELSE f.call

Twins(f, g) ==
  /\ f.call \in LoopCalls /\ g.call \in LoopCalls
  /\ f.module = g.module /\ LoopOf(f) = LoopOf(g)

Flat(s) == \A i, j \in DOMAIN s : i # j => ~Twins(s[i], s[j])

\* A loop that is under way has its flag set.
Marked(f) ==
  /\ f.call \in {"load", "walk"} => f.module \in importsResolved
  /\ f.call = "import" => f.module \in localDone
  /\ f.call = "specifiers" => f.module \in importedDone

FlatInv == (\A f \in OnStack(stack) : Marked(f)) /\ Flat(stack)

LEMMA TwinsEitherWay ==
  ASSUME NEW f, NEW g
  PROVE  Twins(f, g) <=> Twins(g, f)
  BY DEF Twins

\* A stack is flat if what is below its first frame is, and has no twin of it.
LEMMA FlatTop ==
  ASSUME NEW F, NEW s \in Seq(F), s # <<>>, Flat(s)
  PROVE  Flat(Tail(s)) /\ \A g \in OnStack(Tail(s)) : ~Twins(Head(s), g)
<1>1. /\ DOMAIN s = 1..Len(s) /\ Len(s) \in Nat \ {0} /\ Head(s) = s[1]
      /\ DOMAIN Tail(s) = 1..(Len(s) - 1)
      /\ \A i \in 1..(Len(s) - 1) : Tail(s)[i] = s[i + 1]
  OBVIOUS
<1>2. ASSUME NEW i \in DOMAIN Tail(s) PROVE i + 1 \in DOMAIN s /\ i + 1 # 1 /\ 1 \in DOMAIN s
  BY <1>1
<1>3. Flat(Tail(s))
  <2>1. ASSUME NEW i \in DOMAIN Tail(s), NEW j \in DOMAIN Tail(s), i # j
        PROVE  i + 1 # j + 1
    BY <1>1, <2>1
  <2> QED
    BY <1>1, <1>2, <2>1 DEF Flat
<1>4. ASSUME NEW g \in OnStack(Tail(s)) PROVE ~Twins(Head(s), g)
  <2>1. PICK i \in DOMAIN Tail(s) : g = Tail(s)[i]
    BY DEF OnStack
  <2> QED
    BY <1>1, <1>2, <2>1 DEF Flat
<1> QED
  BY <1>3, <1>4

LEMMA FlatPush ==
  ASSUME NEW F, NEW s \in Seq(F), NEW f \in F, Flat(s),
         \A g \in OnStack(s) : ~Twins(f, g)
  PROVE  Flat(<<f>> \o s)
<1> DEFINE t == <<f>> \o s
<1>1. /\ DOMAIN s = 1..Len(s) /\ Len(s) \in Nat
      /\ DOMAIN t = 1..(Len(s) + 1) /\ t[1] = f
      /\ \A i \in 1..Len(s) : t[i + 1] = s[i]
  OBVIOUS
<1> HIDE DEF t
<1>2. ASSUME NEW i \in DOMAIN t, i # 1
      PROVE  i - 1 \in DOMAIN s /\ t[i] = s[i - 1] /\ t[i] \in OnStack(s)
  <2>1. i - 1 \in 1..Len(s) /\ (i - 1) + 1 = i
    BY <1>1, <1>2
  <2> QED
    BY <1>1, <2>1 DEF OnStack
<1>3. ASSUME NEW i \in DOMAIN t, NEW j \in DOMAIN t, i # j
      PROVE  ~Twins(t[i], t[j])
  <2>1. CASE i = 1
    BY <1>1, <1>2, <1>3, <2>1
  <2>2. CASE j = 1
    BY <1>1, <1>2, <1>3, <2>2, TwinsEitherWay
  <2>3. CASE i # 1 /\ j # 1
    <3>1. i - 1 # j - 1
      BY <1>1, <1>3
    <3> QED
      BY <1>2, <2>3, <3>1 DEF Flat
  <2> QED
    BY <2>1, <2>2, <2>3
<1> QED
  BY <1>3 DEF Flat, t

LEMMA FlatUnwind ==
  ASSUME NEW F, NEW s \in Seq(F), NEW i \in DOMAIN s, Flat(s)
  PROVE  Flat(SubSeq(s, i + 1, Len(s)))
<1> DEFINE t == SubSeq(s, i + 1, Len(s))
<1>1. Len(s) \in Nat /\ DOMAIN s = 1..Len(s) /\ i \in 1..Len(s)
  OBVIOUS
<1>2. DOMAIN t = 1..(Len(s) - i) /\ \A j \in 1..(Len(s) - i) : t[j] = s[i + j]
  BY <1>1
<1> HIDE DEF t
<1>3. ASSUME NEW j \in DOMAIN t, NEW k \in DOMAIN t, j # k
      PROVE  i + j \in DOMAIN s /\ i + k \in DOMAIN s /\ i + j # i + k
  BY <1>1, <1>2, <1>3
<1> QED
  BY <1>2, <1>3 DEF Flat, t

\* What the actions do to a flat stack: they return, they go on in a loop that is
\* new or was the one on top, and they make calls that are not in a loop yet.
LEMMA FlatReturning ==
  ASSUME stack \in Seq(Frames), stack # <<>>, Flat(stack), Return
  PROVE  Flat(stack')
  BY FlatTop DEF Return

LEMMA FlatContinuing ==
  ASSUME stack \in Seq(Frames), stack # <<>>, Flat(stack), NEW f, Continue(f),
         \A g \in Callers : ~Twins(f, g)
  PROVE  Flat(stack')
<1> DEFINE t == Tail(stack)
<1>1. t \in Seq(Frames \cup {f}) /\ Flat(t)
  BY TopFrame, SeqMonotonic, FlatTop
<1>2. stack' = <<f>> \o t /\ \A g \in OnStack(t) : ~Twins(f, g)
  BY DEF Continue, Callers
<1> HIDE DEF t
<1> QED
  BY <1>1, <1>2, FlatPush

\* A call outside of the loops has no twin; a round of a loop has those of the last.
LEMMA OutOfLoops ==
  ASSUME NEW f, f.call \notin LoopCalls
  PROVE  \A g : ~Twins(f, g)
  BY DEF Twins

LEMMA SameLoop ==
  ASSUME stack \in Seq(Frames), stack # <<>>, Flat(stack), NEW f,
         f.module = Top.module, LoopOf(f) = LoopOf(Top), Top.call \in LoopCalls
  PROVE  \A g \in Callers : ~Twins(f, g)
  BY FlatTop DEF Callers, Top, Twins

\* Two calls above a flat stack, the upper one outside of the loops.
LEMMA FlatPushingTwo ==
  ASSUME NEW F, NEW s \in Seq(F), NEW f \in F, NEW g \in F, Flat(s),
         f.call \notin LoopCalls, \A h \in OnStack(s) : ~Twins(g, h)
  PROVE  Flat(<<f>> \o (<<g>> \o s))
<1> DEFINE u == <<g>> \o s
<1>1. u \in Seq(F) /\ Flat(u)
  BY StackPush, FlatPush
<1> HIDE DEF u
<1>2. Flat(<<f>> \o u)
  BY <1>1, OutOfLoops, FlatPush
<1> QED
  BY <1>2 DEF u

LEMMA FlatCalling ==
  ASSUME stack \in Seq(Frames), stack # <<>>, Flat(stack), NEW f, NEW g, Call(f, g),
         f.call \notin LoopCalls, \A h \in Callers : ~Twins(g, h)
  PROVE  Flat(stack')
<1> DEFINE t == Tail(stack)
<1> DEFINE G == Frames \cup {f, g}
<1>1. t \in Seq(G) /\ f \in G /\ g \in G /\ Flat(t)
  BY TopFrame, SeqMonotonic, FlatTop
<1>2. stack' = <<f>> \o (<<g>> \o t) /\ \A h \in OnStack(t) : ~Twins(g, h)
  BY DEF Call, Callers
<1> HIDE DEF t, G
<1> QED
  BY <1>1, <1>2, FlatPushingTwo

LEMMA FlatThrowing ==
  ASSUME stack \in Seq(Frames), Flat(stack), Throw
  PROVE  Flat(stack')
<1> DEFINE catching == {i \in DOMAIN stack : stack[i].call = "getFunctionGraph"}
<1>1. CASE catching = {}
  BY <1>1 DEF Throw
<1>2. CASE catching # {}
  <2>1. PICK i \in DOMAIN stack : stack' = SubSeq(stack, i + 1, Len(stack))
    BY <1>2 DEF Throw
  <2> QED
    BY <2>1, FlatUnwind
<1> QED
  BY <1>1, <1>2

\* The flags are never reset, so that a loop stays marked.
FlagsStay ==
  importsResolved \subseteq importsResolved' /\ localDone \subseteq localDone'
    /\ importedDone \subseteq importedDone'

LEMMA MarksStay ==
  ASSUME FlagsStay, NEW f, Marked(f)
  PROVE  Marked(f)'
  BY DEF FlagsStay, Marked

\* A call that goes on in a loop which has its flag already.
LEMMA NextRound ==
  ASSUME Typed, FlatInv, FlagsStay, stack # <<>>, NEW f, Continue(f),
         f.module = Top.module, LoopOf(f) = LoopOf(Top), {f.call, Top.call} \subseteq LoopCalls
  PROVE  FlatInv'
<1>1. /\ stack \in Seq(Frames) /\ Flat(stack)
      /\ Top \in OnStack(stack) /\ Callers \subseteq OnStack(stack)
  BY TopFrame DEF Typed, FlatInv
<1>2. Flat(stack')
  BY <1>1, SameLoop, FlatContinuing
<1>3. Marked(f)
  BY <1>1 DEF FlatInv, Marked, LoopOf, LoopCalls
<1>4. \A g \in OnStack(stack') : Marked(g)
  BY <1>1, <1>3, Continuing DEF FlatInv
<1> QED
  BY <1>2, <1>4, MarksStay DEF FlatInv

\* A call that enters a loop, as it sets the flag: no such loop was under way.
LEMMA FirstRound ==
  ASSUME Typed, FlatInv, FlagsStay, stack # <<>>, NEW f, Continue(f), Marked(f)',
         \A g : Marked(g) => ~Twins(f, g)
  PROVE  FlatInv'
<1>1. stack \in Seq(Frames) /\ Flat(stack) /\ Callers \subseteq OnStack(stack)
  BY TopFrame DEF Typed, FlatInv
<1>2. \A g \in Callers : Marked(g) /\ ~Twins(f, g)
  BY <1>1 DEF FlatInv
<1>3. Flat(stack')
  BY <1>1, <1>2, FlatContinuing
<1>4. \A g \in OnStack(stack') : Marked(g)'
  BY <1>1, <1>2, MarksStay, Continuing
<1> QED
  BY <1>3, <1>4 DEF FlatInv

\* A call that is made outside of the loops, and in a loop that had its flag or in none.
LEMMA NextCall ==
  ASSUME Typed, FlatInv, FlagsStay, stack # <<>>, NEW f, NEW g, Call(f, g),
         f.call \notin LoopCalls,
         g.call = Top.call /\ g.module = Top.module
  PROVE  FlatInv'
<1>1. /\ stack \in Seq(Frames) /\ Flat(stack)
      /\ Top \in OnStack(stack) /\ Callers \subseteq OnStack(stack)
  BY TopFrame DEF Typed, FlatInv
<1>2. \A h \in Callers : ~Twins(g, h)
  <2>1. CASE Top.call \in LoopCalls
    BY <1>1, <2>1, SameLoop DEF LoopOf
  <2>2. CASE Top.call \notin LoopCalls
    BY <2>2, OutOfLoops
  <2> QED
    BY <2>1, <2>2
<1>3. Flat(stack')
  BY <1>1, <1>2, FlatCalling
<1>4. Marked(f) /\ Marked(g)
  BY <1>1 DEF FlatInv, Marked, LoopCalls
<1>5. \A h \in OnStack(stack') : Marked(h)
  BY <1>1, <1>4, Calling DEF FlatInv
<1> QED
  BY <1>3, <1>5, MarksStay DEF FlatInv

\* Calls that return or throw.
LEMMA CallsEnd ==
  ASSUME Typed, FlatInv, FlagsStay,
         (stack # <<>> /\ Return) \/ Throw \/ UNCHANGED stack
  PROVE  FlatInv'
<1>1. stack \in Seq(Frames) /\ Flat(stack)
  BY DEF Typed, FlatInv
<1>2. Flat(stack')
  BY <1>1, FlatReturning, FlatThrowing
<1>3. OnStack(stack') \subseteq OnStack(stack)
  <2>1. CASE stack # <<>> /\ Return
    BY <1>1, <2>1, Returning, TopFrame
  <2>2. CASE Throw
    BY <1>1, <2>2, Throwing
  <2> QED
    BY <2>1, <2>2
<1> QED
  BY <1>2, <1>3, MarksStay DEF FlatInv

LEMMA WalkIsFlat ==
  ASSUME Typed, FlatInv,
         \/ ImportsAlreadyResolved \/ ResolveProjectImports
         \/ LoadProjectImport \/ AllImportsLoaded \/ WalkProjectImport
  PROVE  FlatInv'
<1>0. /\ stack # <<>> /\ FlagsStay
      /\ \A c, m, T : Frame(c, m, T).call = c /\ Frame(c, m, T).module = m
  BY DEF ImportsAlreadyResolved, ResolveProjectImports, LoadProjectImport, AllImportsLoaded,
         WalkProjectImport, In, FlagsStay, passVars, Frame
<1>1. CASE ImportsAlreadyResolved
  BY <1>0, <1>1, CallsEnd DEF ImportsAlreadyResolved
<1>2. CASE ResolveProjectImports
  <2>1. CASE Top.module \in world.compiles
    <3>0. PICK f : f = Frame("load", Top.module, ProjectImports(Top.module))
      OBVIOUS
    <3>1. /\ Continue(f) /\ Top.module \notin importsResolved
          /\ importsResolved' = importsResolved \cup {Top.module}
      BY <3>0, <1>2, <2>1 DEF ResolveProjectImports
    <3>2. f.call = "load" /\ f.module = Top.module
      BY <1>0, <3>0
    <3>3. Marked(f)' /\ \A g : Marked(g) => ~Twins(f, g)
      BY <3>1, <3>2 DEF Marked, Twins, LoopOf, LoopCalls
    <3> QED
      BY <1>0, <3>1, <3>3, FirstRound
  <2>2. CASE Top.module \notin world.compiles
    BY <1>0, <1>2, <2>2, CallsEnd DEF ResolveProjectImports
  <2> QED
    BY <2>1, <2>2
<1>3. CASE LoadProjectImport \/ AllImportsLoaded
  <2>1. Top.call = "load"
    BY <1>3 DEF LoadProjectImport, AllImportsLoaded, In
  <2>2. \E T : Continue(Frame("load", Top.module, T)) \/ Continue(Frame("walk", Top.module, T))
    BY <1>3 DEF LoadProjectImport, AllImportsLoaded
  <2>6. PICK c \in {"load", "walk"} : \E T : Continue(Frame(c, Top.module, T))
    BY <2>2
  <2>7. PICK T : Continue(Frame(c, Top.module, T))
    BY <2>6
  <2> DEFINE f == Frame(c, Top.module, T)
  <2>3. f.call = c /\ f.module = Top.module
    BY <1>0
  <2>4. Continue(f)
    BY <2>7
  <2> HIDE DEF f
  <2>5. LoopOf(f) = LoopOf(Top) /\ {f.call, Top.call} \subseteq LoopCalls
    BY <2>1, <2>3 DEF LoopOf, LoopCalls
  <2> QED
    BY <1>0, <2>3, <2>4, <2>5, NextRound
<1>4. CASE WalkProjectImport
  <2>1. Top.call = "walk"
    BY <1>4 DEF WalkProjectImport, In
  <2>2. PICK m, T : Call(Frame("resolveProjectImports", m, {}), Frame("walk", Top.module, T))
    BY <1>4 DEF WalkProjectImport
  <2> DEFINE f == Frame("resolveProjectImports", m, {})
             g == Frame("walk", Top.module, T)
  <2>3. f.call \notin LoopCalls /\ g.call = Top.call /\ g.module = Top.module
    BY <1>0, <2>1 DEF LoopCalls
  <2>4. Call(f, g)
    BY <2>2
  <2> HIDE DEF f, g
  <2> QED
    BY <1>0, <2>3, <2>4, NextCall
<1> QED
  BY <1>1, <1>2, <1>3, <1>4

LEMMA ResolutionIsFlat ==
  ASSUME Typed, FlatInv,
         \/ LocalAlreadyDone \/ ResolveLocalIdentifiers \/ LoadImport \/ LoopDone
         \/ ResolveImportedIdentifiers \/ ResolveSpecifier
  PROVE  FlatInv'
<1>0. /\ stack # <<>> /\ FlagsStay
      /\ \A c, m, T : Frame(c, m, T).call = c /\ Frame(c, m, T).module = m
  BY DEF LocalAlreadyDone, ResolveLocalIdentifiers, LoadImport, LoopDone,
         ResolveImportedIdentifiers, ResolveSpecifier, In, FlagsStay, passVars, Frame
<1>1. CASE LocalAlreadyDone \/ LoopDone
  BY <1>0, <1>1, CallsEnd DEF LocalAlreadyDone, LoopDone
<1>2. CASE ResolveLocalIdentifiers
  <2>1. CASE Top.module \in world.compiles
    <3>0. PICK f : f = Frame("import", Top.module, world.imports[Top.module])
      OBVIOUS
    <3>1. /\ Continue(f) /\ Top.module \notin localDone
          /\ localDone' = localDone \cup {Top.module}
      BY <3>0, <1>2, <2>1 DEF ResolveLocalIdentifiers
    <3>2. f.call = "import" /\ f.module = Top.module
      BY <1>0, <3>0
    <3>3. Marked(f)' /\ \A g : Marked(g) => ~Twins(f, g)
      BY <3>1, <3>2 DEF Marked, Twins, LoopOf, LoopCalls
    <3> QED
      BY <1>0, <3>1, <3>3, FirstRound
  <2>2. CASE Top.module \notin world.compiles
    BY <1>0, <1>2, <2>2, CallsEnd DEF ResolveLocalIdentifiers
  <2> QED
    BY <2>1, <2>2
<1>3. CASE ResolveImportedIdentifiers
  <2>1. CASE Top.module \in importedDone
    BY <1>0, <1>3, <2>1, CallsEnd DEF ResolveImportedIdentifiers
  <2>2. CASE Top.module \notin importedDone
    <3>0. PICK f : f = Frame("specifiers", Top.module, world.imports[Top.module])
      OBVIOUS
    <3>1. Continue(f) /\ importedDone' = importedDone \cup {Top.module}
      BY <3>0, <1>3, <2>2 DEF ResolveImportedIdentifiers
    <3>2. f.call = "specifiers" /\ f.module = Top.module
      BY <1>0, <3>0
    <3>3. Marked(f)' /\ \A g : Marked(g) => ~Twins(f, g)
      BY <2>2, <3>1, <3>2 DEF Marked, Twins, LoopOf, LoopCalls
    <3> QED
      BY <1>0, <3>1, <3>3, FirstRound
  <2> QED
    BY <2>1, <2>2
<1>4. ASSUME NEW T, \/ In("import") /\ Continue(Frame("import", Top.module, T))
                    \/ In("specifiers") /\ Continue(Frame("specifiers", Top.module, T))
      PROVE  FlatInv'
  <2> DEFINE f == Frame(Top.call, Top.module, T)
  <2>1. Continue(f) /\ Top.call \in LoopCalls
    BY <1>4 DEF In, LoopCalls
  <2>2. f.call = Top.call /\ f.module = Top.module
    BY <1>0
  <2> HIDE DEF f
  <2> QED
    BY <1>0, <2>1, <2>2, NextRound DEF LoopOf
<1>5. CASE LoadImport
  BY <1>0, <1>4, <1>5, CallsEnd DEF LoadImport
<1>6. CASE ResolveSpecifier
  <2>1. In("specifiers")
    BY <1>6 DEF ResolveSpecifier
  <2>2. PICK m, T : \/ Continue(Frame("specifiers", Top.module, T))
                    \/ Throw \/ UNCHANGED stack
                    \/ Call(Frame("resolveLocalIdentifiers", m, {}), Frame("specifiers", Top.module, T))
    BY <1>6 DEF ResolveSpecifier
  <2>3. CASE Call(Frame("resolveLocalIdentifiers", m, {}), Frame("specifiers", Top.module, T))
    <3> DEFINE f == Frame("resolveLocalIdentifiers", m, {})
               g == Frame("specifiers", Top.module, T)
    <3>1. f.call \notin LoopCalls /\ g.call = Top.call /\ g.module = Top.module
      BY <1>0, <2>1 DEF LoopCalls, In
    <3>2. Call(f, g)
      BY <2>3
    <3> HIDE DEF f, g
    <3> QED
      BY <1>0, <3>1, <3>2, NextCall
  <2> QED
    BY <1>0, <1>4, <2>1, <2>2, <2>3, CallsEnd
<1> QED
  BY <1>1, <1>2, <1>3, <1>5, <1>6

LEMMA TypecheckIsFlat ==
  ASSUME Typed, FlatInv, FollowImport \/ GetFunctionGraph \/ BuildFromAst \/ TypechecksDone
  PROVE  FlatInv'
<1>0. /\ stack # <<>> /\ FlagsStay
      /\ \A c, m, T : Frame(c, m, T).call = c
  BY DEF FollowImport, GetFunctionGraph, BuildFromAst, TypechecksDone, In, FlagsStay, passVars, Frame
<1>1. CASE BuildFromAst \/ TypechecksDone
  BY <1>0, <1>1, CallsEnd DEF BuildFromAst, TypechecksDone
<1>2. CASE FollowImport
  <2>1. PICK k : \/ Throw \/ UNCHANGED stack
                 \/ Call(Frame("resolveLocalIdentifiers", k, {}), Top)
    BY <1>2 DEF FollowImport
  <2>2. CASE Call(Frame("resolveLocalIdentifiers", k, {}), Top)
    <3>1. Frame("resolveLocalIdentifiers", k, {}).call \notin LoopCalls
      BY <1>0 DEF LoopCalls
    <3> QED
      BY <1>0, <2>2, <3>1, NextCall
  <2> QED
    BY <1>0, <2>1, <2>2, CallsEnd
<1>3. CASE GetFunctionGraph
  <2>1. PICK m : stack' = <<Frame("resolveLocalIdentifiers", m, {})>>
                            \o (<<Frame("getFunctionGraph", m, {})>> \o stack)
    BY <1>3 DEF GetFunctionGraph
  <2> DEFINE f == Frame("resolveLocalIdentifiers", m, {})
             g == Frame("getFunctionGraph", m, {})
             G == Frames \cup {f, g}
  <2>2. f.call \notin LoopCalls /\ g.call \notin LoopCalls
    BY <1>0 DEF LoopCalls
  <2>3. stack' = <<f>> \o (<<g>> \o stack)
    BY <2>1
  <2>4. stack \in Seq(Frames) /\ Flat(stack) /\ stack \in Seq(G) /\ f \in G /\ g \in G
    BY SeqMonotonic DEF Typed, FlatInv
  <2> HIDE DEF f, g, G
  <2>5. Flat(stack')
    BY <2>2, <2>3, <2>4, OutOfLoops, FlatPushingTwo
  <2>6. \A h \in OnStack(stack') : Marked(h)
    <3>1. Marked(f) /\ Marked(g)
      BY <2>2 DEF Marked, LoopCalls
    <3> QED
      BY <2>3, <2>4, <3>1, CallingBoth DEF FlatInv
  <2> QED
    BY <1>0, <2>5, <2>6, MarksStay DEF FlatInv
<1> QED
  BY <1>1, <1>2, <1>3

\* main() calls out of the loops, on an empty stack.
LEMMA MainIsFlat ==
  ASSUME AnalyzedInv, FlatInv,
         \/ Start \/ LoadTarget \/ TargetsLoaded \/ ProjectLoaded
         \/ Analyze \/ Cleanup \/ ExitSuccess \/ ParseThreads
  PROVE  FlatInv'
<1>0. /\ Typed /\ FlagsStay
      /\ \A c, m, T : Frame(c, m, T).call = c
  BY DEF AnalyzedInv, Start, LoadTarget, TargetsLoaded, ProjectLoaded, Analyze, Cleanup,
         ExitSuccess, ParseThreads, FlagsStay, passVars, Frame
<1>1. ASSUME NEW m, stack' = <<Frame("resolveProjectImports", m, {})>>
      PROVE  FlatInv'
  <2> DEFINE f == Frame("resolveProjectImports", m, {})
  <2>1. f.call \notin LoopCalls /\ stack' = <<f>>
    BY <1>0, <1>1 DEF LoopCalls
  <2> HIDE DEF f
  <2> QED
    BY <2>1 DEF FlatInv, Flat, Twins, Marked, LoopCalls, OnStack
<1>2. CASE TargetsLoaded
  BY <1>0, <1>1, <1>2, CallsEnd DEF TargetsLoaded
<1>3. CASE Analyze
  <2>1. PICK m : stack' = <<Frame("resolveLocalIdentifiers", m, {}),
                            Frame("resolveImportedIdentifiers", m, {}),
                            Frame("runTypechecks", m, {})>>
    BY <1>3 DEF Analyze
  <2> DEFINE a == Frame("resolveLocalIdentifiers", m, {})
             b == Frame("resolveImportedIdentifiers", m, {})
             c == Frame("runTypechecks", m, {})
  <2>2. {a.call, b.call, c.call} \cap LoopCalls = {} /\ stack' = <<a, b, c>>
    BY <1>0, <2>1 DEF LoopCalls
  <2> HIDE DEF a, b, c
  <2>3. \A i \in DOMAIN stack' : stack'[i].call \notin LoopCalls
    BY <2>2
  <2> QED
    BY <2>3 DEF FlatInv, Flat, Twins, Marked, LoopCalls, OnStack
<1>4. CASE \/ Start \/ LoadTarget \/ ProjectLoaded \/ Cleanup \/ ExitSuccess \/ ParseThreads
  <2>1. UNCHANGED stack
    BY <1>4 DEF Start, LoadTarget, ProjectLoaded, Cleanup, ExitSuccess, ParseThreads
  <2> QED
    BY <1>0, <2>1, CallsEnd
<1> QED
  BY <1>2, <1>3, <1>4

\* A pass that is under way on a module is not entered a second time, whatever
\* cycles the imports make: the flags of module.cpp are set before the calls to
\* the modules imported are made, and the import walk is over when the analysis
\* begins.
THEOREM PassesAreEnteredOnce == SafeSpec => []CallsDoNotRepeat
<1>1. Init => FlatInv
  BY DEF Init, FlatInv, Flat, OnStack
<1>2. AnalyzedInv /\ FlatInv /\ [Next]_vars => FlatInv'
  <2> SUFFICES ASSUME AnalyzedInv, FlatInv, [Next]_vars PROVE FlatInv'
    OBVIOUS
  <2>0. Typed
    BY DEF AnalyzedInv
  <2>1. CASE UNCHANGED vars
    <3>1. FlagsStay /\ UNCHANGED stack
      BY <2>1 DEF vars, passVars, FlagsStay
    <3> QED
      BY <2>0, <3>1, CallsEnd
  <2>2. CASE MainThread
    BY <2>0, <2>2, WalkIsFlat, ResolutionIsFlat, TypecheckIsFlat, MainIsFlat DEF MainThread
  <2>3. CASE ParseThreads
    BY <2>3, MainIsFlat
  <2> QED
    BY <2>1, <2>2, <2>3 DEF Next, Over
<1>3. AnalyzedInv /\ FlatInv => CallsDoNotRepeat
  <2> SUFFICES ASSUME AnalyzedInv, FlatInv,
                      NEW i \in DOMAIN stack, NEW j \in DOMAIN stack, i # j,
                      stack[i].call \in LoopCalls, stack[j].call \in LoopCalls,
                      stack[i].module = stack[j].module
               PROVE  (stack[i].call = "specifiers") # (stack[j].call = "specifiers")
    BY DEF CallsDoNotRepeat
  <2>1. LoopOf(stack[i]) # LoopOf(stack[j])
    BY DEF FlatInv, Flat, Twins
  <2>2. stack[i].call \in WalkCalls <=> stack[j].call \in WalkCalls
    <3>1. stack[i] \in OnStack(stack) /\ stack[j] \in OnStack(stack)
      BY DEF OnStack
    <3>2. stack # <<>>
      OBVIOUS
    <3> QED
      BY <3>1, <3>2, CallStage DEF AnalyzedInv, StageInv
  <2> QED
    BY <2>1, <2>2 DEF LoopOf, LoopCalls, WalkCalls
<1> QED
  BY <1>1, <1>2, <1>3, LoaderInvariant, PTL DEF SafeSpec
=============================================================================
