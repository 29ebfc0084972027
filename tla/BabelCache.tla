------------------------------ MODULE BabelCache ------------------------------
(***************************************************************************)
(* The code cache of Babel: makeBabelObject and the functions around the   *)
(* cache file in src/ast/parse.cpp, with src/utils/utils.cpp.  A process   *)
(* of jsre has one pointer to a code cache, which its workers share        *)
(* without a lock; all processes (two runs, or the test cases that ctest   *)
(* runs side by side) share one file, which nobody locks either.  A        *)
(* process may die at any step.  The loop of a worker is ParsePool's: here *)
(* a worker is ready once it has its Babel object.                         *)
(***************************************************************************)
EXTENDS Naturals, Sequences, FiniteSets

CONSTANTS
  Processes,     \* places for processes of jsre, used again after one ends
  Workers,       \* the worker threads of a process
  First,         \* the one that loads the file and creates the others
  Builds,        \* builds of jsre: a version of V8 with a Babel script
  TagOf,         \* CachedDataVersionTag() of the V8 of each build
  BlobLength,    \* in how many pieces a code cache is written and read
  None,          \* no process, no cache, no file
  MaxLives,      \* bound: processes started
  MaxStarts      \* bound: calls of startParsingThreads, of all processes

\* A file of a build: the tag of its V8, then its code cache. A gap is what
\* nobody wrote: a hole of a file, the rest of a vector longer than the file.
Gap == "gap"
Pieces == {TagOf[b] : b \in Builds} \cup Builds \cup {Gap}

ASSUME CacheAssumption ==
  /\ First \in Workers
  /\ None \notin Builds \cup [vector : Nat, bytes : Seq(Pieces)]
  /\ BlobLength \in Nat \ {0}
  /\ MaxLives \in Nat
  /\ MaxStarts \in Nat

VARIABLES
  content,    \* what every file made so far holds, in the order they were made
  path,       \* which of them has the cache file's name, or 0
  build,      \* the build each process runs, or None
  lives,      \* processes started so far
  starts,     \* pools started so far
  cache,      \* babelCompileCache: a pointer to a blob, or None
  vectors,    \* how often babelCompileCacheBackingVector was assigned
  pc,         \* where each worker is
  file,       \* the file each worker has open, or 0
  size,       \* of the file that is read, in pieces
  data,       \* what was read of it
  used,       \* the blob each worker compiles from, or None
  written,    \* how many pieces each worker has written
  cut,        \* files whose last write was cut short or overlapped (history)
  doubtful    \* processes that read a file while it was not whole (history)

diskVars == <<content, path>>
lifeVars == <<build, lives, starts>>
loadVars == <<vectors, size, data>>
vars == <<diskVars, lifeVars, cache, loadVars, pc, file, used, written, cut,
          doubtful>>

------------------------------------------------------------------------------
(* A worker's program counter                                               *)
(*   unborn   not created                                                    *)
(*   open     First, in tryReadCacheFile      read     has the file open     *)
(*   check    First, has the vector           store    moved it              *)
(*   spawn    First, creates the others                                      *)
(*   load     before babelCompileCache.load() compile  compiles the script   *)
(*   publish  made a code cache of its own    create   in tryWriteCacheFile  *)
(*   write    writes the file                 ready    has its Babel object  *)
Loading == {"open", "read", "check", "store", "spawn"}
Saving == {"create", "write"}
PCs == {"unborn", "load", "compile", "publish", "ready"} \cup Loading \cup Saving

BlobOf(b) == [i \in 1 .. BlobLength |-> b]
FileOf(b) == <<TagOf[b]>> \o BlobOf(b)
Piece(s, i) == IF i \in DOMAIN s THEN s[i] ELSE Gap
Put(s, k, piece) ==
  [i \in 1 .. (IF k > Len(s) THEN k ELSE Len(s)) |-> IF i = k THEN piece ELSE Piece(s, i)]

\* A CachedData object: the buffer it points into (which assignment of the
\* backing vector, 0 for one of its own), and what that held.
OnHeap(b) == [vector |-> 0, bytes |-> BlobOf(b)]
InVector(k, bytes) == [vector |-> k, bytes |-> bytes]

Opened(l) == {f \in 1 .. Len(content) :
                \E p \in Processes, w \in Workers : pc[p][w] = l /\ file[p][w] = f}
AllReady(p) == \A w \in Workers : pc[p][w] = "ready"

\* What earlier processes left: no file, a whole one, or the start of one whose
\* writer was interrupted.
NoFile == content = <<>> /\ path = 0 /\ cut = {}
WholeFile == \E b \in Builds : content = <<FileOf(b)>> /\ path = 1 /\ cut = {}
ShortFile ==
  \E b \in Builds, n \in 0 .. BlobLength :
    content = <<SubSeq(FileOf(b), 1, n)>> /\ path = 1 /\ cut = {1}

Init ==
  /\ NoFile \/ WholeFile \/ ShortFile
  /\ build = [p \in Processes |-> None]
  /\ lives = 0
  /\ starts = 0
  /\ cache = [p \in Processes |-> None]
  /\ vectors = [p \in Processes |-> 0]
  /\ pc = [p \in Processes |-> [w \in Workers |-> "unborn"]]
  /\ file = [p \in Processes |-> [w \in Workers |-> 0]]
  /\ size = [p \in Processes |-> 0]
  /\ data = [p \in Processes |-> <<>>]
  /\ used = [p \in Processes |-> [w \in Workers |-> None]]
  /\ written = [p \in Processes |-> [w \in Workers |-> 0]]
  /\ doubtful = {}

Goto(p, w, l) == pc' = [pc EXCEPT ![p][w] = l]

------------------------------------------------------------------------------
(* Slips of this code that the checks below are tested against: each stands *)
(* in for the action it is named after.                                     *)

EndReadingUnclosed(p) ==     \* the file stays open
  /\ pc[p][First] = "read"
  /\ Len(data[p]) = size[p]
  /\ size' = [size EXCEPT ![p] = 0]
  /\ Goto(p, First, "check")
  /\ UNCHANGED <<diskVars, lifeVars, cache, vectors, data, file, used, written, cut,
                 doubtful>>

MoveVectorUnchecked(p) ==    \* the tag is not compared
  /\ pc[p][First] = "check"
  /\ vectors' = [vectors EXCEPT ![p] = @ + 1]
  /\ Goto(p, First, "store")
  /\ UNCHANGED <<diskVars, lifeVars, cache, size, data, file, used, written, cut,
                 doubtful>>

StoreCacheOnce(p) ==         \* a pointer of the pool before is kept
  /\ pc[p][First] = "store"
  /\ data' = [data EXCEPT ![p] = <<>>]
  /\ cache' = IF cache[p] # None THEN cache
              ELSE [cache EXCEPT ![p] =
                      InVector(vectors[p], SubSeq(data[p], 2, Len(data[p])))]
  /\ Goto(p, First, "spawn")
  /\ UNCHANGED <<diskVars, lifeVars, vectors, size, file, used, written, cut,
                 doubtful>>

PublishAlways(p, w) ==       \* a store instead of compare_exchange
  /\ pc[p][w] = "publish"
  /\ cache' = [cache EXCEPT ![p] = OnHeap(build[p])]
  /\ Goto(p, w, "create")
  /\ UNCHANGED <<diskVars, lifeVars, loadVars, file, used, written, cut, doubtful>>

PublishRetry(p, w) ==        \* the usual loop around compare_exchange
  /\ pc[p][w] = "publish"
  /\ cache[p] = None
  /\ cache' = [cache EXCEPT ![p] = OnHeap(build[p])]
  /\ Goto(p, w, "create")
  /\ UNCHANGED <<diskVars, lifeVars, loadVars, file, used, written, cut, doubtful>>

EndWritingShort(p, w) ==     \* the tag is not counted in the size of the file
  /\ pc[p][w] = "write"
  /\ written[p][w] = BlobLength
  /\ written' = [written EXCEPT ![p][w] = 0]
  /\ file' = [file EXCEPT ![p][w] = 0]
  /\ Goto(p, w, "ready")
  /\ UNCHANGED <<diskVars, lifeVars, cache, loadVars, used, cut, doubtful>>

------------------------------------------------------------------------------
(* The life of a process *)

\* main of a build, or of a test case.
StartProcess(p, b) ==
  /\ build[p] = None
  /\ lives < MaxLives
  /\ build' = [build EXCEPT ![p] = b]
  /\ lives' = lives + 1
  /\ UNCHANGED <<diskVars, starts, cache, loadVars, pc, file, used, written,
                 cut, doubtful>>

\* startParsingThreads, on a pool at rest.
StartPool(p) ==
  /\ build[p] # None
  /\ \A w \in Workers : pc[p][w] = "unborn"
  /\ starts < MaxStarts
  /\ starts' = starts + 1
  /\ Goto(p, First, "open")
  /\ UNCHANGED <<diskVars, build, lives, cache, loadVars, file, used, written,
                 cut, doubtful>>

\* stopParsingThreads: it waits until every worker has its Babel object.
StopPool(p) ==
  /\ AllReady(p)
  /\ pc' = [pc EXCEPT ![p] = [w \in Workers |-> "unborn"]]
  /\ UNCHANGED <<diskVars, lifeVars, cache, loadVars, file, used, written, cut,
                 doubtful>>

\* The process ends: main returns, an exception leaves a thread, a signal. A
\* file that is being written stays as it is.
Die(p) ==
  /\ build[p] # None
  /\ build' = [build EXCEPT ![p] = None]
  /\ cache' = [cache EXCEPT ![p] = None]
  /\ vectors' = [vectors EXCEPT ![p] = 0]
  /\ pc' = [pc EXCEPT ![p] = [w \in Workers |-> "unborn"]]
  /\ file' = [file EXCEPT ![p] = [w \in Workers |-> 0]]
  /\ size' = [size EXCEPT ![p] = 0]
  /\ data' = [data EXCEPT ![p] = <<>>]
  /\ used' = [used EXCEPT ![p] = [w \in Workers |-> None]]
  /\ written' = [written EXCEPT ![p] = [w \in Workers |-> 0]]
  /\ cut' = cut \cup {file[p][w] : w \in {v \in Workers : pc[p][v] = "write"}}
  /\ doubtful' = doubtful \ {p}
  /\ UNCHANGED <<diskVars, lives, starts>>

------------------------------------------------------------------------------
(* loadBabelCompileCacheFile, by the first worker, before it creates the rest *)

\* tryReadCacheFile opens the file and asks for its size, or finds none.
OpenForReading(p) ==
  /\ pc[p][First] = "open"
  /\ IF path = 0
     THEN Goto(p, First, "spawn") /\ UNCHANGED <<file, size, data, doubtful>>
     ELSE /\ Goto(p, First, "read")
          /\ file' = [file EXCEPT ![p][First] = path]
          /\ size' = [size EXCEPT ![p] = Len(content[path])]
          /\ data' = [data EXCEPT ![p] = <<>>]
          /\ doubtful' = IF path \in cut \cup Opened("write")
                         THEN doubtful \cup {p} ELSE doubtful
  /\ UNCHANGED <<diskVars, lifeVars, cache, vectors, used, written, cut>>

\* The vector has the size the file had; a file that got shorter leaves zeros.
ReadPiece(p) ==
  /\ pc[p][First] = "read"
  /\ Len(data[p]) < size[p]
  /\ data' = [data EXCEPT ![p] =
                Append(@, Piece(content[file[p][First]], Len(@) + 1))]
  /\ UNCHANGED <<diskVars, lifeVars, cache, vectors, size, pc, file, used,
                 written, cut, doubtful>>

EndReading(p) ==
  /\ pc[p][First] = "read"
  /\ Len(data[p]) = size[p]
  /\ size' = [size EXCEPT ![p] = 0]
  /\ file' = [file EXCEPT ![p][First] = 0]
  /\ Goto(p, First, "check")
  /\ UNCHANGED <<diskVars, lifeVars, cache, vectors, data, used, written, cut,
                 doubtful>>

\* memcpy of the tag, from a vector that may be shorter: then any tag may be
\* read (or the process dies). A foreign tag removes whatever file is there now.
TagsRead(p) == IF data[p] = <<>> THEN {TagOf[b] : b \in Builds} \cup {Gap} ELSE {data[p][1]}

RejectVersion(p) ==
  /\ pc[p][First] = "check"
  /\ \E tag \in TagsRead(p) : tag # TagOf[build[p]]
  /\ path' = 0
  /\ data' = [data EXCEPT ![p] = <<>>]
  /\ Goto(p, First, "spawn")
  /\ UNCHANGED <<content, lifeVars, cache, vectors, size, file, used, written,
                 cut, doubtful>>

\* The vector is assigned: what the old one held is freed.
MoveVector(p) ==
  /\ pc[p][First] = "check"
  /\ TagOf[build[p]] \in TagsRead(p)
  /\ vectors' = [vectors EXCEPT ![p] = @ + 1]
  /\ Goto(p, First, "store")
  /\ UNCHANGED <<diskVars, lifeVars, cache, size, data, file, used, written, cut,
                 doubtful>>

StoreCache(p) ==
  /\ pc[p][First] = "store"
  /\ data' = [data EXCEPT ![p] = <<>>]
  /\ cache' = [cache EXCEPT ![p] =
                 InVector(vectors[p], SubSeq(data[p], 2, Len(data[p])))]
  /\ Goto(p, First, "spawn")
  /\ UNCHANGED <<diskVars, lifeVars, vectors, size, file, used, written, cut,
                 doubtful>>

\* The other threads are created, and the first goes into the loop as well.
SpawnWorkers(p) ==
  /\ pc[p][First] = "spawn"
  /\ pc' = [pc EXCEPT ![p] = [w \in Workers |-> "load"]]
  /\ UNCHANGED <<diskVars, lifeVars, cache, loadVars, file, used, written, cut,
                 doubtful>>

------------------------------------------------------------------------------
(* makeBabelObject, by every worker *)

\* The pointer is read. The copy that is made for V8 shares the bytes.
LoadCache(p, w) ==
  /\ pc[p][w] = "load"
  /\ used' = [used EXCEPT ![p][w] = cache[p]]
  /\ Goto(p, w, "compile")
  /\ UNCHANGED <<diskVars, lifeVars, cache, loadVars, file, written, cut, doubtful>>

\* With a code cache, whether V8 accepts it or not, the worker is done;
\* without one it makes its own.
Compile(p, w) ==
  /\ pc[p][w] = "compile"
  /\ Goto(p, w, IF used[p][w] = None THEN "publish" ELSE "ready")
  /\ used' = [used EXCEPT ![p][w] = None]
  /\ UNCHANGED <<diskVars, lifeVars, cache, loadVars, file, written, cut, doubtful>>

\* compare_exchange_strong: the loser keeps, and leaks, its own.
Publish(p, w) ==
  /\ pc[p][w] = "publish"
  /\ IF cache[p] = None
     THEN /\ cache' = [cache EXCEPT ![p] = OnHeap(build[p])]
          /\ Goto(p, w, "create")
     ELSE /\ Goto(p, w, "ready")
          /\ UNCHANGED cache
  /\ UNCHANGED <<diskVars, lifeVars, loadVars, file, used, written, cut, doubtful>>

\* ofstream: the file is created, or made empty.
OpenForWriting(p, w) ==
  /\ pc[p][w] = "create"
  /\ LET f == IF path = 0 THEN Len(content) + 1 ELSE path
     IN /\ content' = IF path = 0 THEN Append(content, <<>>)
                      ELSE [content EXCEPT ![f] = <<>>]
        /\ path' = f
        /\ file' = [file EXCEPT ![p][w] = f]
        /\ cut' = IF f \in Opened("write") THEN cut \cup {f} ELSE cut \ {f}
        /\ doubtful' = doubtful \cup
             {q \in Processes : pc[q][First] = "read" /\ file[q][First] = f}
  /\ Goto(p, w, "write")
  /\ UNCHANGED <<lifeVars, cache, loadVars, used, written>>

\* The file cannot be opened: nothing is written, and nobody asks.
CannotOpen(p, w) ==
  /\ pc[p][w] = "create"
  /\ Goto(p, w, "ready")
  /\ UNCHANGED <<diskVars, lifeVars, cache, loadVars, file, used, written, cut,
                 doubtful>>

WritePiece(p, w) ==
  /\ pc[p][w] = "write"
  /\ written[p][w] < BlobLength + 1
  /\ LET k == written[p][w] + 1
         f == file[p][w]
     IN /\ content' = [content EXCEPT ![f] = Put(@, k, FileOf(build[p])[k])]
        /\ written' = [written EXCEPT ![p][w] = k]
  /\ UNCHANGED <<path, lifeVars, cache, loadVars, pc, file, used, cut, doubtful>>

EndWriting(p, w) ==
  /\ pc[p][w] = "write"
  /\ written[p][w] = BlobLength + 1
  /\ written' = [written EXCEPT ![p][w] = 0]
  /\ file' = [file EXCEPT ![p][w] = 0]
  /\ Goto(p, w, "ready")
  /\ UNCHANGED <<diskVars, lifeVars, cache, loadVars, used, cut, doubtful>>

\* A write fails (the disk is full): the rest is not written, and nobody asks.
WriteFails(p, w) ==
  /\ pc[p][w] = "write"
  /\ written[p][w] < BlobLength + 1
  /\ written' = [written EXCEPT ![p][w] = 0]
  /\ file' = [file EXCEPT ![p][w] = 0]
  /\ cut' = cut \cup {file[p][w]}
  /\ Goto(p, w, "ready")
  /\ UNCHANGED <<diskVars, lifeVars, cache, loadVars, used, doubtful>>

------------------------------------------------------------------------------
FirstStep(p) ==
  \/ OpenForReading(p) \/ ReadPiece(p) \/ EndReading(p)
  \/ RejectVersion(p) \/ MoveVector(p) \/ StoreCache(p) \/ SpawnWorkers(p)
WorkerStep(p, w) ==
  \/ LoadCache(p, w) \/ Compile(p, w) \/ Publish(p, w)
  \/ OpenForWriting(p, w) \/ CannotOpen(p, w) \/ WritePiece(p, w)
  \/ EndWriting(p, w) \/ WriteFails(p, w)

Threads(p) == FirstStep(p) \/ \E w \in Workers : WorkerStep(p, w)

Next ==
  \E p \in Processes :
    \/ \E b \in Builds : StartProcess(p, b)
    \/ StartPool(p) \/ StopPool(p) \/ Die(p)
    \/ Threads(p)

\* Some thread of a process runs as long as one can: no thread here waits for
\* another, so that no more is needed. Nobody has to start, stop or end a process.
Fairness == \A p \in Processes : WF_vars(Threads(p))

Spec == Init /\ [][Next]_vars /\ Fairness

------------------------------------------------------------------------------
\* Types; only the first worker loads the file, threads exist in processes only,
\* and a worker has a file open exactly while it reads or writes.
TypeOK ==
  /\ build \in [Processes -> Builds \cup {None}]
  /\ path \in 0 .. Len(content)
  /\ cut \subseteq 1 .. Len(content)
  /\ doubtful \subseteq Processes
  /\ vectors \in [Processes -> Nat]
  /\ pc \in [Processes -> [Workers -> PCs]]
  /\ file \in [Processes -> [Workers -> 0 .. Len(content)]]
  /\ written \in [Processes -> [Workers -> 0 .. BlobLength + 1]]
  /\ \A p \in Processes, w \in Workers :
       /\ (file[p][w] # 0) <=> pc[p][w] \in {"read", "write"}
       /\ pc[p][w] # "unborn" => build[p] # None
       /\ pc[p][w] \in Loading => w = First

\* At most one worker of a process ever writes the file, the one whose code
\* cache the others use: two threads writing one file would mix their pieces.
OneSaver(p) ==
  \A w \in Workers :
    pc[p][w] \in Saving =>
      /\ cache[p] = OnHeap(build[p])
      /\ \A v \in Workers : pc[p][v] \in Saving => v = w
OneWorkerSaves == \A p \in Processes : OneSaver(p)

\* No worker compiles from a blob whose bytes are gone: the vector is only
\* assigned while no worker can read the old pointer, although a pool that is
\* started again assigns it while the old pointer is still published.
NoDanglingBlob ==
  \A p \in Processes, w \in Workers :
    (pc[p][w] = "compile" /\ used[p][w] # None) =>
      used[p][w].vector \in {0, vectors[p]}

\* The cache file is whole (a tag and the code cache of one build) unless it is
\* being written, or its last write was cut short (by the end of a process, or a
\* full disk) or overlapped with another.
Whole(f) == \E b \in Builds : content[f] = FileOf(b)
FilesAreWhole ==
  \A f \in 1 .. Len(content) : Whole(f) \/ f \in cut \cup Opened("write")

\* A process that did not read a file in such a state has read its tag, and
\* hands its workers the whole code cache of a build with the same V8.
LoadsAreWhole ==
  \A p \in Processes \ doubtful :
    /\ pc[p][First] = "check" => data[p] # <<>>
    /\ cache[p] # None =>
         \E b \in Builds : TagOf[b] = TagOf[build[p]] /\ cache[p].bytes = BlobOf(b)

\* A pool that is started comes up, with a code cache published for the workers
\* of later starts, whoever wins and whatever state the file is in, unless the
\* process ends.
StartCompletes ==
  \A p \in Processes :
    pc[p][First] = "open" ~> \/ AllReady(p) /\ cache[p] # None
                             \/ build[p] = None
==============================================================================
