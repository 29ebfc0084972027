-------------------------- MODULE BabelCacheProofs --------------------------
(***************************************************************************)
(* Proofs about BabelCache for any number of processes, workers, builds,   *)
(* lives and starts, and code caches of any length.  All rest on one       *)
(* inductive invariant, IInv: the types (Typing), the life of a process    *)
(* (LifeInv), its pointer (PointerInv), the files (FileInv) and what is    *)
(* read of them (ReadInv).                                                 *)
(***************************************************************************)
EXTENDS BabelCache, SequenceTheorems, TLAPS

Blobs == [vector : Nat, bytes : Seq(Pieces)]

Typing ==
  /\ TypeOK
  /\ content \in Seq(Seq(Pieces))
  /\ cache \in [Processes -> Blobs \cup {None}]
  /\ size \in [Processes -> Nat]
  /\ data \in [Processes -> Seq(Pieces)]
  /\ used \in [Processes -> [Workers -> Blobs \cup {None}]]

\* While the first worker loads the file there is no other thread in the process;
\* a place without a process has no pointer; only a writer has written.
LifeInv ==
  \A p \in Processes :
    /\ pc[p][First] \in Loading => \A w \in Workers \ {First} : pc[p][w] = "unborn"
    /\ build[p] = None => cache[p] = None
    /\ \A w \in Workers : pc[p][w] # "write" => written[p][w] = 0

\* The pointer is to the vector as it is now, or to bytes of its own, except
\* between the assignment of the vector and that of the pointer.
PointerInv ==
  \A p \in Processes :
    (cache[p] # None /\ pc[p][First] # "store") => cache[p].vector \in {0, vectors[p]}

\* A file that one worker alone writes holds what that worker has written.
FirstPieces(b, n) == [i \in 1 .. n |-> FileOf(b)[i]]
WroteFirstPieces ==
  \A p \in Processes, w \in Workers :
    (pc[p][w] = "write" /\ file[p][w] \notin cut) =>
      content[file[p][w]] = FirstPieces(build[p], written[p][w])
WritesAlone ==
  \A p, q \in Processes, w, v \in Workers :
    (/\ pc[p][w] = "write" /\ file[p][w] \notin cut
     /\ pc[q][v] = "write" /\ file[q][v] = file[p][w]) => q = p /\ v = w
WriterInv == WroteFirstPieces /\ WritesAlone
FileInv == WriterInv /\ FilesAreWhole

\* A process that read no file in such a state holds the start of a whole file
\* that nobody opened for writing since, then all of it, then one of its own V8.
Reading(p) ==
  pc[p][First] = "read" =>
    /\ file[p][First] \notin cut \cup Opened("write")
    /\ size[p] = Len(content[file[p][First]])
    /\ Len(data[p]) <= size[p]
    /\ \A i \in 1 .. Len(data[p]) : data[p][i] = content[file[p][First]][i]
Checking(p) == pc[p][First] = "check" => \E b \in Builds : data[p] = FileOf(b)
SameV8(p, b) == TagOf[b] = TagOf[build[p]]
Storing(p) ==
  pc[p][First] = "store" => \E b \in Builds : SameV8(p, b) /\ data[p] = FileOf(b)
Published(p) ==
  cache[p] # None => \E b \in Builds : SameV8(p, b) /\ cache[p].bytes = BlobOf(b)
ReadInv ==
  \A p \in Processes \ doubtful : Reading(p) /\ Checking(p) /\ Storing(p) /\ Published(p)

IInv ==
  Typing /\ LifeInv /\ PointerInv /\ OneWorkerSaves /\ NoDanglingBlob /\ FileInv /\ ReadInv
------------------------------------------------------------------------------
(* Code caches and files *)

\* A code cache is a sequence of pieces, and a pointer to one is not None.
LEMMA BlobTypes ==
  ASSUME NEW b \in Builds
  PROVE  /\ BlobOf(b) \in Seq(Pieces)
         /\ OnHeap(b) \in Blobs
         /\ OnHeap(b) # None
<1>1. b \in Pieces
  BY DEF Pieces
<1>2. BlobOf(b) \in [1 .. BlobLength -> Pieces]
  BY <1>1 DEF BlobOf
<1>3. BlobOf(b) \in Seq(Pieces)
  BY <1>2, CacheAssumption
<1> QED
  BY <1>3, CacheAssumption DEF OnHeap, Blobs

\* What a file of a build holds, piece by piece.
LEMMA FileTypes ==
  ASSUME NEW b \in Builds
  PROVE  /\ FileOf(b) \in Seq(Pieces)
         /\ Len(FileOf(b)) = BlobLength + 1
         /\ FileOf(b)[1] = TagOf[b]
         /\ \A i \in 1 .. BlobLength : FileOf(b)[i + 1] = BlobOf(b)[i]
<1>1. <<TagOf[b]>> \in Seq(Pieces) /\ Len(<<TagOf[b]>>) = 1
  BY DEF Pieces
<1>2. BlobOf(b) \in Seq(Pieces) /\ Len(BlobOf(b)) = BlobLength
  BY BlobTypes, CacheAssumption DEF BlobOf
<1> HIDE DEF BlobOf
<1> QED
  BY <1>1, <1>2, CacheAssumption, ConcatProperties DEF FileOf

\* Behind its tag, a file of a build holds the code cache of this build.
LEMMA FileWithoutTag ==
  ASSUME NEW b \in Builds
  PROVE  SubSeq(FileOf(b), 2, Len(FileOf(b))) = BlobOf(b)
<1> DEFINE s == SubSeq(FileOf(b), 2, Len(FileOf(b)))
<1>1. s \in Seq(Pieces) /\ Len(s) = BlobLength
      /\ \A i \in 1 .. BlobLength : s[i] = FileOf(b)[i + 1]
  BY FileTypes, SubSeqProperties, ElementOfSeq, CacheAssumption
<1>2. BlobOf(b) \in Seq(Pieces) /\ Len(BlobOf(b)) = BlobLength
  BY BlobTypes, CacheAssumption DEF BlobOf
<1>3. \A i \in 1 .. Len(s) : s[i] = BlobOf(b)[i]
  BY <1>1, FileTypes
<1> QED
  BY <1>1, <1>2, <1>3, SeqEqual

\* A write keeps a file a sequence of pieces.
LEMMA PutTypes ==
  ASSUME NEW s \in Seq(Pieces), NEW k \in Nat \ {0}, NEW piece \in Pieces
  PROVE  Put(s, k, piece) \in Seq(Pieces)
<1> DEFINE n == IF k > Len(s) THEN k ELSE Len(s)
<1>1. n \in Nat
  OBVIOUS
<1>2. \A i \in 1 .. n : Piece(s, i) \in Pieces
  BY DEF Piece, Pieces
<1>3. Put(s, k, piece) \in [1 .. n -> Pieces]
  BY <1>2 DEF Put
<1> QED
  BY <1>1, <1>3

\* The next write of a worker that has the file for itself adds the next piece.
LEMMA PutNext ==
  ASSUME NEW b \in Builds, NEW n \in 0 .. BlobLength
  PROVE  Put(FirstPieces(b, n), n + 1, FileOf(b)[n + 1]) = FirstPieces(b, n + 1)
<1> USE CacheAssumption
<1>1. Len(FirstPieces(b, n)) = n /\ DOMAIN FirstPieces(b, n) = 1 .. n
  BY DEF FirstPieces
<1> QED
  BY <1>1 DEF Put, Piece, FirstPieces

\* A file is empty before the first write, and whole after the last.
LEMMA FirstAndLastPiece ==
  ASSUME NEW b \in Builds
  PROVE  FirstPieces(b, 0) = <<>> /\ FirstPieces(b, BlobLength + 1) = FileOf(b)
<1>1. DOMAIN FileOf(b) = 1 .. BlobLength + 1
  BY FileTypes
<1>2. FirstPieces(b, BlobLength + 1) = FileOf(b)
  BY <1>1, FileTypes, CacheAssumption DEF FirstPieces
<1> QED
  BY <1>2 DEF FirstPieces
------------------------------------------------------------------------------
(* Types *)

\* The types of what is not kept per worker, and of what a worker holds in memory.
DataTypes ==
  /\ build \in [Processes -> Builds \cup {None}]
  /\ content \in Seq(Seq(Pieces))
  /\ path \in 0 .. Len(content)
  /\ cut \subseteq 1 .. Len(content)
  /\ doubtful \subseteq Processes
  /\ vectors \in [Processes -> Nat]
  /\ cache \in [Processes -> Blobs \cup {None}]
  /\ size \in [Processes -> Nat]
  /\ data \in [Processes -> Seq(Pieces)]
WorkerTypes ==
  /\ pc \in [Processes -> [Workers -> PCs]]
  /\ file \in [Processes -> [Workers -> 0 .. Len(content)]]
  /\ written \in [Processes -> [Workers -> 0 .. BlobLength + 1]]
  /\ used \in [Processes -> [Workers -> Blobs \cup {None}]]
Place(p, w) ==
  /\ (file[p][w] # 0) <=> pc[p][w] \in {"read", "write"}
  /\ pc[p][w] # "unborn" => build[p] # None
  /\ pc[p][w] \in Loading => w = First
Places == \A p \in Processes, w \in Workers : Place(p, w)

\* The invariant of the types has these three parts.
LEMMA TypingParts == Typing <=> DataTypes /\ WorkerTypes /\ Places
BY Zenon DEF Typing, TypeOK, DataTypes, WorkerTypes, Places, Place

\* Every step keeps the types. SpawnWorkers needs that the others did not exist.
LEMMA TypingStep == Typing /\ LifeInv /\ Next => Typing'
<1> SUFFICES ASSUME DataTypes, WorkerTypes, Places, LifeInv, Next
             PROVE  DataTypes' /\ WorkerTypes' /\ Places'
  BY Zenon DEF Typing, TypeOK, DataTypes, WorkerTypes, Places, Place
<1> USE CacheAssumption
<1> USE DEF Goto, PCs, Loading, Saving, diskVars, lifeVars, loadVars
<1>1. ASSUME NEW p \in Processes, NEW b \in Builds, StartProcess(p, b) PROVE (DataTypes /\ WorkerTypes /\ Places)'
  <2> USE <1>1 DEF StartProcess
  <2>1. DataTypes'
    BY DEF DataTypes, WorkerTypes
  <2>2. WorkerTypes'
    BY DEF DataTypes, WorkerTypes
  <2>3. Places'
    BY DEF WorkerTypes, Places, Place
  <2> QED
    BY <2>1, <2>2, <2>3
<1>2. ASSUME NEW p \in Processes, StartPool(p) PROVE (DataTypes /\ WorkerTypes /\ Places)'
  <2> USE <1>2 DEF StartPool
  <2>1. DataTypes'
    BY DEF DataTypes, WorkerTypes
  <2>2. WorkerTypes'
    BY DEF DataTypes, WorkerTypes
  <2>3. Places'
    BY DEF WorkerTypes, Places, Place
  <2> QED
    BY <2>1, <2>2, <2>3
<1>3. ASSUME NEW p \in Processes, StopPool(p) PROVE (DataTypes /\ WorkerTypes /\ Places)'
  <2> USE <1>3 DEF StopPool
  <2>1. DataTypes'
    BY DEF DataTypes, WorkerTypes
  <2>2. WorkerTypes'
    BY DEF DataTypes, WorkerTypes
  <2>3. Places'
    BY DEF WorkerTypes, Places, Place, AllReady
  <2> QED
    BY <2>1, <2>2, <2>3
<1>4. ASSUME NEW p \in Processes, Die(p) PROVE (DataTypes /\ WorkerTypes /\ Places)'
  <2> USE <1>4 DEF Die
  <2>1. DataTypes'
    <3>1. \A v \in Workers : pc[p][v] = "write" => file[p][v] \in 1 .. Len(content)
      BY DEF WorkerTypes, Places, Place
    <3>2. cut' \subseteq 1 .. Len(content)
      BY <3>1 DEF DataTypes
    <3> QED
      BY <3>2, EmptySeq DEF DataTypes
  <2>2. WorkerTypes'
    BY DEF DataTypes, WorkerTypes
  <2>3. Places'
    BY DEF WorkerTypes, Places, Place
  <2> QED
    BY <2>1, <2>2, <2>3
<1>5. ASSUME NEW p \in Processes, OpenForReading(p) PROVE (DataTypes /\ WorkerTypes /\ Places)'
  <2>1. CASE path = 0
    <3>1. /\ pc' = [pc EXCEPT ![p][First] = "spawn"]
          /\ UNCHANGED <<diskVars, lifeVars, cache, loadVars, file, used, written, cut, doubtful>>
      BY <1>5, <2>1 DEF OpenForReading
    <3>2. DataTypes'
      BY <3>1 DEF DataTypes
    <3>3. WorkerTypes'
      BY <3>1 DEF WorkerTypes
    <3>4. Places'
      BY <3>1, <1>5 DEF OpenForReading, WorkerTypes, Places, Place
    <3> QED
      BY <3>2, <3>3, <3>4
  <2>2. CASE path # 0
    <3>1. /\ pc[p][First] = "open"
          /\ pc' = [pc EXCEPT ![p][First] = "read"]
          /\ file' = [file EXCEPT ![p][First] = path]
          /\ size' = [size EXCEPT ![p] = Len(content[path])]
          /\ data' = [data EXCEPT ![p] = <<>>]
          /\ doubtful' \subseteq doubtful \cup {p}
          /\ UNCHANGED <<diskVars, lifeVars, cache, vectors, used, written, cut>>
      BY <1>5, <2>2 DEF OpenForReading
    <3>2. path \in 1 .. Len(content) /\ Len(content[path]) \in Nat
      BY <2>2, ElementOfSeq DEF DataTypes
    <3>3. DataTypes'
      BY <3>1, <3>2 DEF DataTypes
    <3>4. WorkerTypes'
      BY <3>1, <3>2 DEF DataTypes, WorkerTypes
    <3>5. Places'
      <4>1. file'[p][First] # 0 /\ pc'[p][First] = "read" /\ build'[p] # None
        BY <3>1, <3>2 DEF WorkerTypes, Places, Place
      <4>2. \A q \in Processes, v \in Workers :
              (q # p \/ v # First) => /\ file'[q][v] = file[q][v]
                                     /\ pc'[q][v] = pc[q][v]
                                     /\ build'[q] = build[q]
        BY <3>1 DEF WorkerTypes
      <4> QED
        BY <4>1, <4>2 DEF Places, Place
    <3> QED
      BY <3>3, <3>4, <3>5
  <2> QED
    BY <2>1, <2>2
<1>6. ASSUME NEW p \in Processes, ReadPiece(p) PROVE (DataTypes /\ WorkerTypes /\ Places)'
  <2> USE <1>6 DEF ReadPiece
  <2>1. DataTypes'
    <3>1. file[p][First] \in 1 .. Len(content)
      BY DEF WorkerTypes, Places, Place
    <3>2. content[file[p][First]] \in Seq(Pieces)
      BY <3>1, ElementOfSeq DEF DataTypes
    <3>3. \A i : Piece(content[file[p][First]], i) \in Pieces
      BY <3>2 DEF Piece, Pieces
    <3>4. Append(data[p], Piece(content[file[p][First]], Len(data[p]) + 1)) \in Seq(Pieces)
      BY <3>3 DEF DataTypes
    <3> QED
      BY <3>4 DEF DataTypes
  <2>2. WorkerTypes'
    BY DEF DataTypes, WorkerTypes
  <2>3. Places'
    BY DEF WorkerTypes, Places, Place
  <2> QED
    BY <2>1, <2>2, <2>3
<1>7. ASSUME NEW p \in Processes, EndReading(p) PROVE (DataTypes /\ WorkerTypes /\ Places)'
  <2> USE <1>7 DEF EndReading
  <2>1. DataTypes'
    BY DEF DataTypes, WorkerTypes
  <2>2. WorkerTypes'
    BY DEF DataTypes, WorkerTypes
  <2>3. Places'
    BY DEF WorkerTypes, Places, Place
  <2> QED
    BY <2>1, <2>2, <2>3
<1>8. ASSUME NEW p \in Processes, RejectVersion(p) PROVE (DataTypes /\ WorkerTypes /\ Places)'
  <2> USE <1>8 DEF RejectVersion
  <2>1. DataTypes'
    BY DEF DataTypes, WorkerTypes
  <2>2. WorkerTypes'
    BY DEF DataTypes, WorkerTypes
  <2>3. Places'
    BY DEF WorkerTypes, Places, Place
  <2> QED
    BY <2>1, <2>2, <2>3
<1>9. ASSUME NEW p \in Processes, MoveVector(p) PROVE (DataTypes /\ WorkerTypes /\ Places)'
  <2>1. /\ pc[p][First] = "check" /\ pc' = [pc EXCEPT ![p][First] = "store"]
        /\ vectors' = [vectors EXCEPT ![p] = @ + 1]
        /\ UNCHANGED <<content, path, cut, doubtful, build, cache, size, data, file, written, used>>
    BY <1>9 DEF MoveVector
  <2>2. vectors' \in [Processes -> Nat]
    BY <2>1 DEF DataTypes
  <2>3. DataTypes'
    BY <2>1, <2>2 DEF DataTypes
  <2>4. WorkerTypes'
    BY <2>1 DEF WorkerTypes
  <2>5. Places'
    BY <2>1 DEF WorkerTypes, Places, Place
  <2> QED
    BY <2>3, <2>4, <2>5
<1>10. ASSUME NEW p \in Processes, StoreCache(p) PROVE (DataTypes /\ WorkerTypes /\ Places)'
  <2> USE <1>10 DEF StoreCache
  <2>1. DataTypes'
    <3>1. data[p] \in Seq(Pieces) /\ Len(data[p]) \in Int
      BY DEF DataTypes
    <3>2. SubSeq(data[p], 2, Len(data[p])) \in Seq(Pieces)
      BY <3>1, SubSeqProperties, ElementOfSeq
    <3>3. InVector(vectors[p], SubSeq(data[p], 2, Len(data[p]))) \in Blobs
      BY <3>2 DEF InVector, Blobs, DataTypes
    <3> QED
      BY <3>3, EmptySeq DEF DataTypes
  <2>2. WorkerTypes'
    BY DEF DataTypes, WorkerTypes
  <2>3. Places'
    BY DEF WorkerTypes, Places, Place
  <2> QED
    BY <2>1, <2>2, <2>3
<1>11. ASSUME NEW p \in Processes, SpawnWorkers(p) PROVE (DataTypes /\ WorkerTypes /\ Places)'
  <2> USE <1>11 DEF SpawnWorkers
  <2>1. DataTypes'
    BY DEF DataTypes, WorkerTypes
  <2>2. WorkerTypes'
    BY DEF DataTypes, WorkerTypes
  <2>3. Places'
    <3>1. \A v \in Workers : file[p][v] = 0
      BY DEF WorkerTypes, Places, Place, LifeInv
    <3> QED
      BY <3>1 DEF WorkerTypes, Places, Place
  <2> QED
    BY <2>1, <2>2, <2>3
<1>12. ASSUME NEW p \in Processes, NEW w \in Workers, LoadCache(p, w) PROVE (DataTypes /\ WorkerTypes /\ Places)'
  <2> USE <1>12 DEF LoadCache
  <2>1. DataTypes'
    BY DEF DataTypes, WorkerTypes
  <2>2. WorkerTypes'
    BY DEF DataTypes, WorkerTypes
  <2>3. Places'
    BY DEF WorkerTypes, Places, Place
  <2> QED
    BY <2>1, <2>2, <2>3
<1>13. ASSUME NEW p \in Processes, NEW w \in Workers, Compile(p, w) PROVE (DataTypes /\ WorkerTypes /\ Places)'
  <2> USE <1>13 DEF Compile
  <2>1. DataTypes'
    BY DEF DataTypes, WorkerTypes
  <2>2. WorkerTypes'
    BY DEF DataTypes, WorkerTypes
  <2>3. Places'
    BY DEF WorkerTypes, Places, Place
  <2> QED
    BY <2>1, <2>2, <2>3
<1>14. ASSUME NEW p \in Processes, NEW w \in Workers, Publish(p, w) PROVE (DataTypes /\ WorkerTypes /\ Places)'
  <2>1. build[p] \in Builds
    BY <1>14 DEF Publish, WorkerTypes, DataTypes, Places, Place
  <2>2. \E l \in {"create", "ready"} :
          /\ pc[p][w] = "publish"
          /\ pc' = [pc EXCEPT ![p][w] = l]
          /\ cache' \in {cache, [cache EXCEPT ![p] = OnHeap(build[p])]}
          /\ UNCHANGED <<diskVars, lifeVars, loadVars, file, used, written, cut, doubtful>>
    BY <1>14 DEF Publish
  <2>3. DataTypes'
    <3>1. cache' \in [Processes -> Blobs \cup {None}]
      BY <2>1, <2>2, BlobTypes DEF DataTypes
    <3> QED
      BY <2>2, <3>1 DEF DataTypes
  <2>4. WorkerTypes'
    <3>1. pc' \in [Processes -> [Workers -> PCs]]
      BY <2>2 DEF WorkerTypes
    <3> QED
      BY <2>2, <3>1 DEF WorkerTypes
  <2>5. Places'
    BY <2>2 DEF WorkerTypes, Places, Place
  <2> QED
    BY <2>3, <2>4, <2>5
<1>15. ASSUME NEW p \in Processes, NEW w \in Workers, OpenForWriting(p, w) PROVE (DataTypes /\ WorkerTypes /\ Places)'
  <2>1. /\ content' \in Seq(Seq(Pieces))
        /\ Len(content') \in Nat
        /\ Len(content') >= Len(content)
        /\ path' \in 1 .. Len(content')
        /\ cut' \subseteq cut \cup {path'}
        /\ doubtful' \subseteq Processes
    <3>1. CASE path = 0
      BY <1>15, <3>1 DEF DataTypes, OpenForWriting
    <3>2. CASE path # 0
      BY <1>15, <3>2, ExceptSeq, EmptySeq DEF DataTypes, OpenForWriting
    <3> QED
      BY <3>1, <3>2
  <2>2. /\ pc[p][w] = "create"
        /\ pc' = [pc EXCEPT ![p][w] = "write"]
        /\ file' = [file EXCEPT ![p][w] = path']
        /\ UNCHANGED <<lifeVars, cache, loadVars, used, written>>
    BY <1>15 DEF OpenForWriting
  <2>3. DataTypes'
    <3>1. 1 .. Len(content) \subseteq 1 .. Len(content') /\ path' \in 0 .. Len(content')
      BY <2>1 DEF DataTypes
    <3> QED
      BY <2>1, <2>2, <3>1 DEF DataTypes
  <2>4. WorkerTypes'
    <3>1. 0 .. Len(content) \subseteq 0 .. Len(content') /\ path' \in 0 .. Len(content')
      BY <2>1 DEF DataTypes
    <3>2. file \in [Processes -> [Workers -> 0 .. Len(content')]]
      BY <3>1 DEF WorkerTypes
    <3>3. file' \in [Processes -> [Workers -> 0 .. Len(content')]]
      BY <2>2, <3>1, <3>2
    <3> QED
      BY <2>2, <3>3 DEF WorkerTypes
  <2>5. Places'
    <3>1. file'[p][w] # 0 /\ pc'[p][w] = "write" /\ build'[p] # None
      BY <2>1, <2>2 DEF WorkerTypes, Places, Place
    <3>2. \A q \in Processes, v \in Workers :
            (q # p \/ v # w) => /\ file'[q][v] = file[q][v]
                               /\ pc'[q][v] = pc[q][v]
                               /\ build'[q] = build[q]
      BY <2>2 DEF WorkerTypes
    <3> QED
      BY <3>1, <3>2 DEF Places, Place
  <2> QED
    BY <2>3, <2>4, <2>5
<1>16. ASSUME NEW p \in Processes, NEW w \in Workers, CannotOpen(p, w) PROVE (DataTypes /\ WorkerTypes /\ Places)'
  <2> USE <1>16 DEF CannotOpen
  <2>1. DataTypes'
    BY DEF DataTypes, WorkerTypes
  <2>2. WorkerTypes'
    BY DEF DataTypes, WorkerTypes
  <2>3. Places'
    BY DEF WorkerTypes, Places, Place
  <2> QED
    BY <2>1, <2>2, <2>3
<1>17. ASSUME NEW p \in Processes, NEW w \in Workers, WritePiece(p, w) PROVE (DataTypes /\ WorkerTypes /\ Places)'
  <2> USE <1>17 DEF WritePiece
  <2> DEFINE f == file[p][w]
             k == written[p][w] + 1
  <2>1. f \in 1 .. Len(content) /\ k \in 1 .. BlobLength + 1 /\ build[p] \in Builds
    BY DEF WorkerTypes, DataTypes, Places, Place
  <2>2. FileOf(build[p])[k] \in Pieces /\ content[f] \in Seq(Pieces)
    BY <2>1, FileTypes, ElementOfSeq DEF DataTypes
  <2>3. Put(content[f], k, FileOf(build[p])[k]) \in Seq(Pieces)
    <3>1. k \in Nat \ {0}
      BY <2>1
    <3> QED
      BY <3>1, <2>2, PutTypes
  <2>4. content' \in Seq(Seq(Pieces)) /\ Len(content') = Len(content)
    BY <2>1, <2>3, ExceptSeq DEF DataTypes
  <2>5. DataTypes'
    BY <2>4 DEF DataTypes
  <2>6. WorkerTypes'
    BY <2>1, <2>4 DEF WorkerTypes
  <2>7. Places'
    BY DEF WorkerTypes, Places, Place
  <2> QED
    BY <2>5, <2>6, <2>7
<1>18. ASSUME NEW p \in Processes, NEW w \in Workers, EndWriting(p, w) PROVE (DataTypes /\ WorkerTypes /\ Places)'
  <2> USE <1>18 DEF EndWriting
  <2>1. DataTypes'
    BY DEF DataTypes, WorkerTypes
  <2>2. WorkerTypes'
    BY DEF DataTypes, WorkerTypes
  <2>3. Places'
    BY DEF WorkerTypes, Places, Place
  <2> QED
    BY <2>1, <2>2, <2>3
<1>19. ASSUME NEW p \in Processes, NEW w \in Workers, WriteFails(p, w) PROVE (DataTypes /\ WorkerTypes /\ Places)'
  <2> USE <1>19 DEF WriteFails
  <2>1. DataTypes'
    <3>1. file[p][w] \in 1 .. Len(content)
      BY DEF WorkerTypes, Places, Place
    <3> QED
      BY <3>1 DEF DataTypes
  <2>2. WorkerTypes'
    BY DEF DataTypes, WorkerTypes
  <2>3. Places'
    BY DEF WorkerTypes, Places, Place
  <2> QED
    BY <2>1, <2>2, <2>3
<1>20. QED
  BY <1>1, <1>2, <1>3, <1>4, <1>5, <1>6, <1>7, <1>8, <1>9, <1>10, <1>11, <1>12, <1>13, <1>14, <1>15, <1>16, <1>17, <1>18, <1>19
     DEF Next, Threads, FirstStep, WorkerStep
------------------------------------------------------------------------------
(* The pointer, the vector and the worker that saves: all within one process *)

\* What is true within one process.
LocalInv == LifeInv /\ PointerInv /\ OneWorkerSaves /\ NoDanglingBlob

\* Worker w of p goes to l; no other worker moves, nor changes what it compiles from or has written.
Moves(p, w, l) ==
  /\ pc'[p][w] = l
  /\ \A q \in Processes, v \in Workers :
       (q # p \/ v # w) => /\ pc'[q][v] = pc[q][v]
                           /\ used'[q][v] = used[q][v]
                           /\ written'[q][v] = written[q][v]

\* What Goto says of each worker.
LEMMA GotoMoves ==
  ASSUME WorkerTypes, NEW p \in Processes, NEW w \in Workers, NEW l, Goto(p, w, l),
         used' \in {used, [used EXCEPT ![p][w] = None], [used EXCEPT ![p][w] = cache[p]]},
         written' \in {written, [written EXCEPT ![p][w] = 0]}
  PROVE  Moves(p, w, l)
<1>1. /\ pc'[p][w] = l
      /\ \A q \in Processes, v \in Workers : (q # p \/ v # w) => pc'[q][v] = pc[q][v]
  BY DEF Goto, WorkerTypes
<1>2. \A q \in Processes, v \in Workers : (q # p \/ v # w) => used'[q][v] = used[q][v]
  BY DEF WorkerTypes
<1>3. \A q \in Processes, v \in Workers : (q # p \/ v # w) => written'[q][v] = written[q][v]
  BY DEF WorkerTypes
<1> QED
  BY <1>1, <1>2, <1>3 DEF Moves

\* A worker that is not about to store the pointer may go on: to load the file, if it is the only
\* one; to compile, from where the pointer leads; to save, if it does already.
LEMMA MoveKeeps ==
  ASSUME LocalInv, First \in Workers,
         NEW p \in Processes, NEW w \in Workers, NEW l, Moves(p, w, l),
         UNCHANGED <<build, cache, vectors>>,
         pc[p][w] # "store",
         w # First => pc[p][w] # "unborn",
         l \in Loading => /\ w = First
                          /\ pc[p][w] \in Loading \/ \A v \in Workers : pc[p][v] = "unborn",
         l = "compile" => used'[p][w] = cache[p],
         l \in Saving => pc[p][w] \in Saving,
         l # "write" => written'[p][w] = 0
  PROVE  LocalInv'
<1>1. w # First => pc[p][First] \notin Loading
  BY DEF LocalInv, LifeInv
<1>2. LifeInv'
  <2>1. ASSUME NEW q \in Processes, pc'[q][First] \in Loading
        PROVE  \A v \in Workers \ {First} : pc'[q][v] = "unborn"
    <3>1. CASE q = p
      <4>1. w = First /\ \A v \in Workers \ {First} : pc[p][v] = "unborn"
        BY <1>1, <2>1, <3>1 DEF LocalInv, LifeInv, Moves
      <4> QED
        BY <3>1, <4>1 DEF Moves
    <3>2. CASE q # p
      BY <2>1, <3>2 DEF LocalInv, LifeInv, Moves
    <3> QED
      BY <3>1, <3>2
  <2>2. \A q \in Processes, v \in Workers : pc'[q][v] # "write" => written'[q][v] = 0
    BY DEF LocalInv, LifeInv, Moves
  <2>3. \A q \in Processes : build'[q] = None => cache'[q] = None
    BY DEF LocalInv, LifeInv
  <2> QED
    BY <2>1, <2>2, <2>3 DEF LifeInv
<1>3. PointerInv'
  <2>1. \A q \in Processes : pc[q][First] = "store" => pc'[q][First] = "store"
    BY DEF Moves
  <2> QED
    BY <2>1 DEF LocalInv, PointerInv
<1>4. OneWorkerSaves'
  <2>1. \A q \in Processes, v \in Workers : pc'[q][v] \in Saving => pc[q][v] \in Saving
    BY DEF Moves
  <2> QED
    BY <2>1 DEF LocalInv, OneWorkerSaves, OneSaver
<1>5. NoDanglingBlob'
  <2>1. pc[p][First] # "store"
    BY <1>1 DEF Loading
  <2>2. cache[p] # None => cache[p].vector \in {0, vectors[p]}
    BY <2>1 DEF LocalInv, PointerInv
  <2> SUFFICES ASSUME NEW q \in Processes, NEW v \in Workers, pc'[q][v] = "compile", used'[q][v] # None
               PROVE  used'[q][v].vector \in {0, vectors[q]}
    BY DEF NoDanglingBlob
  <2>3. CASE q = p /\ v = w
    BY <2>2, <2>3 DEF Moves
  <2>4. CASE q # p \/ v # w
    BY <2>4 DEF Moves, LocalInv, NoDanglingBlob
  <2> QED
    BY <2>3, <2>4
<1> QED
  BY <1>2, <1>3, <1>4, <1>5 DEF LocalInv

\* All workers of a process come to the same place, and nothing is compiled or written there.
LEMMA AllMoveKeeps ==
  ASSUME LocalInv, First \in Workers, NEW p \in Processes, NEW l \in {"unborn", "load"},
         \A q \in Processes, v \in Workers :
           IF q = p THEN pc'[q][v] = l /\ written'[q][v] = 0
           ELSE /\ pc'[q][v] = pc[q][v] /\ used'[q][v] = used[q][v]
                /\ written'[q][v] = written[q][v],
         \A q \in Processes \ {p} :
           build'[q] = build[q] /\ cache'[q] = cache[q] /\ vectors'[q] = vectors[q],
         build'[p] = None => cache'[p] = None,
         cache'[p] # None => cache'[p].vector \in {0, vectors'[p]}
  PROVE  LocalInv'
<1> USE DEF LocalInv, Loading, Saving
<1>1. LifeInv'
  BY DEF LifeInv
<1>2. PointerInv'
  BY DEF PointerInv
<1>3. OneWorkerSaves'
  BY DEF OneWorkerSaves, OneSaver
<1>4. NoDanglingBlob'
  BY DEF NoDanglingBlob
<1> QED
  BY <1>1, <1>2, <1>3, <1>4

\* startParsingThreads, stopParsingThreads and the end of a process.
LEMMA ProcessKeeps ==
  ASSUME Typing, LocalInv, NEW p \in Processes,
         \/ \E b \in Builds : StartProcess(p, b)
         \/ StartPool(p) \/ StopPool(p) \/ Die(p)
  PROVE  LocalInv'
<1>0. DataTypes /\ WorkerTypes /\ First \in Workers
  BY TypingParts, CacheAssumption
<1>1. ASSUME NEW b \in Builds, StartProcess(p, b) PROVE LocalInv'
  <2>1. /\ build[p] = None /\ build' = [build EXCEPT ![p] = b]
        /\ UNCHANGED <<cache, vectors, pc, used, written>>
    BY <1>1 DEF StartProcess, loadVars
  <2>2. \A q \in Processes : build'[q] = None => build[q] = None
    BY <1>0, <2>1 DEF DataTypes
  <2>4. LifeInv' /\ PointerInv'
    BY <2>1, <2>2 DEF LocalInv, LifeInv, PointerInv
  <2>5. OneWorkerSaves'
    <3>1. \A v \in Workers : pc[p][v] = "unborn"
      BY <1>0, <2>1, TypingParts DEF Places, Place
    <3>2. \A q \in Processes : q # p => build'[q] = build[q]
      BY <1>0, <2>1 DEF DataTypes
    <3> QED
      BY <2>1, <3>1, <3>2 DEF LocalInv, OneWorkerSaves, OneSaver, Saving
  <2>6. NoDanglingBlob'
    BY <2>1 DEF LocalInv, NoDanglingBlob
  <2> QED
    BY <2>4, <2>5, <2>6 DEF LocalInv
<1>2. CASE StartPool(p)
  <2>1. /\ \A v \in Workers : pc[p][v] = "unborn"
        /\ Goto(p, First, "open") /\ UNCHANGED <<build, cache, vectors, used, written>>
    BY <1>2 DEF StartPool, loadVars
  <2>2. Moves(p, First, "open")
    BY <1>0, <2>1, GotoMoves
  <2>3. written'[p][First] = 0
    BY <1>0, <2>1 DEF LocalInv, LifeInv
  <2> QED
    BY <1>0, <2>1, <2>2, <2>3, MoveKeeps DEF Loading, Saving
<1>3. CASE StopPool(p)
  <2>1. /\ \A v \in Workers : pc[p][v] = "ready"
        /\ pc' = [pc EXCEPT ![p] = [w \in Workers |-> "unborn"]]
        /\ UNCHANGED <<build, cache, vectors, used, written>>
    BY <1>3 DEF StopPool, AllReady, lifeVars, loadVars
  <2>2. \A q \in Processes, v \in Workers :
          pc'[q][v] = IF q = p THEN "unborn" ELSE pc[q][v]
    BY <1>0, <2>1 DEF WorkerTypes
  <2>3. /\ \A v \in Workers : written[p][v] = 0
        /\ cache[p] # None => cache[p].vector \in {0, vectors[p]}
        /\ build[p] = None => cache[p] = None
    BY <1>0, <2>1 DEF LocalInv, LifeInv, PointerInv
  <2> QED
    BY <1>0, <2>1, <2>2, <2>3, AllMoveKeeps
<1>4. CASE Die(p)
  <2>1. \A q \in Processes, v \in Workers :
          IF q = p THEN pc'[q][v] = "unborn" /\ written'[q][v] = 0
          ELSE /\ pc'[q][v] = pc[q][v] /\ used'[q][v] = used[q][v]
               /\ written'[q][v] = written[q][v]
    BY <1>0, <1>4 DEF Die, WorkerTypes
  <2>2. /\ cache'[p] = None
        /\ \A q \in Processes \ {p} :
             build'[q] = build[q] /\ cache'[q] = cache[q] /\ vectors'[q] = vectors[q]
    BY <1>0, <1>4 DEF Die, DataTypes
  <2> QED
    BY <1>0, <2>1, <2>2, AllMoveKeeps
<1> QED
  BY <1>1, <1>2, <1>3, <1>4

\* The first worker loads the file while it is the only thread of its process.
LEMMA LoadingKeeps ==
  ASSUME Typing, LocalInv, NEW p \in Processes, FirstStep(p)
  PROVE  LocalInv'
<1>0. DataTypes /\ WorkerTypes /\ First \in Workers
  BY TypingParts, CacheAssumption
<1>1. \A v \in Workers : pc[p][v] # "write" => written[p][v] = 0
  BY DEF LocalInv, LifeInv
<1>2. ASSUME NEW l \in {"read", "check", "spawn"}, Goto(p, First, l),
             pc[p][First] \in {"open", "read", "check"},
             UNCHANGED <<build, cache, vectors, used, written>>
      PROVE  LocalInv'
  <2>1. Moves(p, First, l)
    BY <1>0, <1>2, GotoMoves
  <2>2. written'[p][First] = 0
    BY <1>0, <1>1, <1>2
  <2>3. /\ pc[p][First] \in Loading /\ pc[p][First] # "store"
        /\ l # "compile" /\ l \notin Saving
    BY <1>2 DEF Loading, Saving
  <2> QED
    BY <1>0, <1>2, <2>1, <2>2, <2>3, MoveKeeps
<1>3. CASE OpenForReading(p)
  <2>1. /\ pc[p][First] = "open"
        /\ Goto(p, First, "spawn") \/ Goto(p, First, "read")
        /\ UNCHANGED <<build, cache, vectors, used, written>>
    BY <1>3 DEF OpenForReading, lifeVars
  <2> QED
    BY <1>2, <1>3, <2>1 DEF OpenForReading
<1>4. CASE ReadPiece(p)
  <2>1. UNCHANGED <<build, cache, vectors, pc, used, written>>
    BY <1>4 DEF ReadPiece, lifeVars
  <2> QED
    BY <2>1 DEF LocalInv, LifeInv, PointerInv, OneWorkerSaves, OneSaver, NoDanglingBlob
<1>5. CASE EndReading(p)
  BY <1>2, <1>5 DEF EndReading, lifeVars
<1>6. CASE RejectVersion(p)
  BY <1>2, <1>6 DEF RejectVersion, lifeVars
<1>7. CASE MoveVector(p) \/ StoreCache(p)
  <2>1. PICK l \in {"store", "spawn"} : Goto(p, First, l)
    BY <1>7 DEF MoveVector, StoreCache
  <2>2. /\ pc[p][First] \in Loading /\ UNCHANGED <<build, used, written>>
        /\ \A q \in Processes \ {p} : cache'[q] = cache[q] /\ vectors'[q] = vectors[q]
    BY <1>0, <1>7 DEF MoveVector, StoreCache, lifeVars, Loading, DataTypes
  <2>3. Moves(p, First, l)
    BY <1>0, <2>1, <2>2, GotoMoves
  <2>4. \A v \in Workers \ {First} : pc[p][v] = "unborn"
    BY <2>2 DEF LocalInv, LifeInv
  <2>5. \A q \in Processes, v \in Workers :
          /\ q = p => pc'[q][v] \in {"unborn", "store", "spawn"}
          /\ q # p => pc'[q][v] = pc[q][v]
    BY <2>1, <2>3, <2>4 DEF Moves
  <2>6. LifeInv'
    <3>1. \A v \in Workers : written'[p][v] = 0
      BY <1>1, <2>2, <2>4 DEF Loading
    <3>2. \A v \in Workers \ {First} : pc'[p][v] = "unborn"
      BY <2>3, <2>4 DEF Moves
    <3>3. build'[p] # None
      BY <1>0, <2>2, TypingParts DEF Places, Place, Loading
    <3>4. ASSUME NEW q \in Processes, q # p
          PROVE  /\ pc'[q][First] \in Loading =>
                      \A v \in Workers \ {First} : pc'[q][v] = "unborn"
                 /\ build'[q] = None => cache'[q] = None
                 /\ \A v \in Workers : pc'[q][v] # "write" => written'[q][v] = 0
      BY <1>0, <2>2, <2>5, <3>4 DEF LocalInv, LifeInv
    <3> QED
      BY <3>1, <3>2, <3>3, <3>4 DEF LifeInv
  <2>7. PointerInv'
    <3>1. CASE MoveVector(p)
      <4>1. pc'[p][First] = "store"
        BY <3>1, <1>0 DEF MoveVector, Goto, WorkerTypes
      <4>2. \A q \in Processes : q # p =>
              /\ pc'[q][First] = pc[q][First]
              /\ cache'[q] = cache[q] /\ vectors'[q] = vectors[q]
        BY <1>0, <2>2, <2>5
      <4> QED
        BY <4>1, <4>2 DEF LocalInv, PointerInv
    <3>2. CASE StoreCache(p)
      <4>1. cache'[p].vector = vectors[p] /\ vectors' = vectors
        BY <3>2, <1>0 DEF StoreCache, InVector, DataTypes
      <4> QED
        BY <1>0, <2>2, <2>5, <4>1 DEF LocalInv, PointerInv
    <3> QED
      BY <1>7, <3>1, <3>2
  <2>8. OneWorkerSaves'
    BY <2>2, <2>5 DEF LocalInv, OneWorkerSaves, OneSaver, Saving
  <2>9. NoDanglingBlob'
    BY <2>2, <2>5 DEF LocalInv, NoDanglingBlob
  <2> QED
    BY <2>6, <2>7, <2>8, <2>9 DEF LocalInv
<1>8. CASE SpawnWorkers(p)
  <2>1. /\ pc[p][First] = "spawn"
        /\ pc' = [pc EXCEPT ![p] = [w \in Workers |-> "load"]]
        /\ UNCHANGED <<build, cache, vectors, used, written>>
    BY <1>8 DEF SpawnWorkers, lifeVars, loadVars
  <2>2. \A q \in Processes, v \in Workers : pc'[q][v] = IF q = p THEN "load" ELSE pc[q][v]
    BY <1>0, <2>1 DEF WorkerTypes
  <2>3. /\ \A v \in Workers : written[p][v] = 0
        /\ cache[p] # None => cache[p].vector \in {0, vectors[p]}
        /\ build[p] = None => cache[p] = None
    <3>1. \A v \in Workers : pc[p][v] # "write"
      BY <2>1 DEF LocalInv, LifeInv, Loading
    <3> QED
      BY <1>1, <2>1, <3>1 DEF LocalInv, LifeInv, PointerInv
  <2> QED
    BY <1>0, <2>1, <2>2, <2>3, AllMoveKeeps
<1> QED
  BY <1>3, <1>4, <1>5, <1>6, <1>7, <1>8 DEF FirstStep

\* Every worker takes the pointer, or wins it, and saves if it has won.
LEMMA WorkerKeeps ==
  ASSUME Typing, LocalInv, NEW p \in Processes, NEW w \in Workers, WorkerStep(p, w)
  PROVE  LocalInv'
<1>0. DataTypes /\ WorkerTypes /\ Places /\ First \in Workers
  BY TypingParts, CacheAssumption
<1>1. pc[p][w] # "write" => written[p][w] = 0
  BY DEF LocalInv, LifeInv
<1>2. ASSUME NEW l \in {"compile", "publish", "ready", "write"}, Goto(p, w, l),
             pc[p][w] \in {"load", "compile", "publish", "create", "write"},
             UNCHANGED <<build, cache, vectors>>,
             used' \in {used, [used EXCEPT ![p][w] = None], [used EXCEPT ![p][w] = cache[p]]},
             written' \in {written, [written EXCEPT ![p][w] = 0]},
             l = "compile" => used' = [used EXCEPT ![p][w] = cache[p]],
             l = "write" => pc[p][w] = "create",
             pc[p][w] = "write" => written' = [written EXCEPT ![p][w] = 0]
      PROVE  LocalInv'
  <2>1. Moves(p, w, l)
    BY <1>0, <1>2, GotoMoves
  <2>2. written'[p][w] = 0
    BY <1>0, <1>1, <1>2 DEF WorkerTypes
  <2>3. l = "compile" => used'[p][w] = cache[p]
    BY <1>0, <1>2 DEF WorkerTypes
  <2>4. /\ pc[p][w] # "store" /\ pc[p][w] # "unborn" /\ l \notin Loading
        /\ l \in Saving => pc[p][w] \in Saving
    BY <1>2 DEF Loading, Saving
  <2> QED
    BY <1>0, <1>2, <2>1, <2>2, <2>3, <2>4, MoveKeeps
<1>3. CASE LoadCache(p, w)
  BY <1>2, <1>3 DEF LoadCache, lifeVars, loadVars
<1>4. CASE Compile(p, w)
  <2>1. PICK l \in {"publish", "ready"} : Goto(p, w, l)
    BY <1>4 DEF Compile
  <2> QED
    BY <1>2, <1>4, <2>1 DEF Compile, lifeVars, loadVars
<1>5. CASE Publish(p, w)
  <2>1. CASE cache[p] # None
    BY <1>2, <1>5, <2>1 DEF Publish, lifeVars, loadVars
  <2>2. CASE cache[p] = None
    <3>1. /\ pc[p][w] = "publish" /\ Goto(p, w, "create")
          /\ cache' = [cache EXCEPT ![p] = OnHeap(build[p])]
          /\ UNCHANGED <<build, vectors, used, written>>
      BY <1>5, <2>2 DEF Publish, lifeVars, loadVars
    <3>2. Moves(p, w, "create")
      BY <1>0, <3>1, GotoMoves
    <3>3. build[p] \in Builds
      BY <1>0, <3>1 DEF Places, Place, DataTypes
    <3>4. /\ cache'[p] = OnHeap(build[p])
          /\ \A q \in Processes \ {p} : cache'[q] = cache[q]
      BY <1>0, <3>1 DEF DataTypes
    <3>5. OnHeap(build[p]).vector = 0 /\ OnHeap(build[p]) # None
      BY <3>3, BlobTypes DEF OnHeap
    <3>6. pc[p][First] \notin Loading
      BY <1>0, <3>1 DEF LocalInv, LifeInv, Loading
    <3>7. \A v \in Workers : pc[p][v] \notin Saving
      BY <2>2, <3>3, <3>5 DEF LocalInv, OneWorkerSaves, OneSaver
    <3>8. LifeInv'
      <4>1. pc'[p][First] \notin Loading /\ written'[p][w] = 0
        <5>1. pc'[p][First] = IF First = w THEN "create" ELSE pc[p][First]
          BY <1>0, <3>2 DEF Moves
        <5>2. written'[p][w] = 0
          BY <1>1, <3>1
        <5> QED
          BY <3>6, <5>1, <5>2 DEF Loading
      <4>2. \A q \in Processes, v \in Workers : pc'[q][v] # "write" => written'[q][v] = 0
        BY <3>2, <4>1 DEF Moves, LocalInv, LifeInv
      <4>3. \A q \in Processes : build'[q] = None => cache'[q] = None
        BY <1>0, <3>1, <3>3, <3>4, CacheAssumption DEF LocalInv, LifeInv
      <4>4. ASSUME NEW q \in Processes, pc'[q][First] \in Loading
            PROVE  \A v \in Workers \ {First} : pc'[q][v] = "unborn"
        BY <1>0, <3>2, <4>1, <4>4 DEF Moves, LocalInv, LifeInv
      <4> QED
        BY <4>2, <4>3, <4>4 DEF LifeInv
    <3>9. PointerInv'
      <4>1. \A q \in Processes : q # p => pc'[q][First] = pc[q][First]
        BY <1>0, <3>2 DEF Moves
      <4> QED
        BY <3>1, <3>4, <3>5, <4>1 DEF LocalInv, PointerInv
    <3>10. OneWorkerSaves'
      <4>1. \A v \in Workers : pc'[p][v] \in Saving => v = w
        BY <3>2, <3>7 DEF Moves
      <4>2. \A q \in Processes \ {p}, v \in Workers : pc'[q][v] = pc[q][v]
        BY <3>2 DEF Moves
      <4> QED
        BY <3>1, <3>4, <4>1, <4>2 DEF LocalInv, OneWorkerSaves, OneSaver
    <3>11. NoDanglingBlob'
      <4>1. \A q \in Processes, v \in Workers : pc'[q][v] = "compile" => pc[q][v] = "compile"
        BY <3>2 DEF Moves
      <4> QED
        BY <3>1, <4>1 DEF LocalInv, NoDanglingBlob
    <3> QED
      BY <3>8, <3>9, <3>10, <3>11 DEF LocalInv
  <2> QED
    BY <2>1, <2>2
<1>6. CASE OpenForWriting(p, w)
  BY <1>2, <1>6 DEF OpenForWriting, lifeVars, loadVars
<1>7. CASE CannotOpen(p, w)
  BY <1>2, <1>7 DEF CannotOpen, lifeVars, loadVars
<1>8. CASE WritePiece(p, w)
  <2>1. /\ pc[p][w] = "write" /\ UNCHANGED <<build, cache, vectors, pc, used>>
        /\ \A q \in Processes, v \in Workers : q # p \/ v # w => written'[q][v] = written[q][v]
    BY <1>0, <1>8 DEF WritePiece, lifeVars, loadVars, WorkerTypes
  <2>2. \A q \in Processes, v \in Workers : pc'[q][v] # "write" => written'[q][v] = 0
    BY <2>1 DEF LocalInv, LifeInv
  <2> QED
    BY <2>1, <2>2 DEF LocalInv, LifeInv, PointerInv, OneWorkerSaves, OneSaver, NoDanglingBlob
<1>9. CASE EndWriting(p, w)
  BY <1>2, <1>9 DEF EndWriting, lifeVars, loadVars
<1>10. CASE WriteFails(p, w)
  BY <1>2, <1>10 DEF WriteFails, lifeVars, loadVars
<1> QED
  BY <1>3, <1>4, <1>5, <1>6, <1>7, <1>8, <1>9, <1>10 DEF WorkerStep

\* Every step keeps it: nothing here reads a file.
LEMMA LocalStep == Typing /\ LocalInv /\ Next => LocalInv'
BY ProcessKeeps, LoadingKeeps, WorkerKeeps DEF Next, Threads
------------------------------------------------------------------------------
(* The files *)

\* A step that no writer and no file notices.
SameWriters ==
  /\ content' = content
  /\ cut' = cut
  /\ \A q \in Processes, v \in Workers :
       /\ pc'[q][v] = "write" <=> pc[q][v] = "write"
       /\ pc[q][v] = "write" => /\ file'[q][v] = file[q][v]
                                /\ written'[q][v] = written[q][v]
                                /\ build'[q] = build[q]

\* The steps that leave the files and their writers alone.
QuietStep(p) ==
  \/ \E b \in Builds : StartProcess(p, b)
  \/ StartPool(p) \/ StopPool(p) \/ FirstStep(p)
  \/ \E w \in Workers : LoadCache(p, w) \/ Compile(p, w) \/ Publish(p, w) \/ CannotOpen(p, w)

\* No writer and no file notices them.
LEMMA QuietSteps ==
  ASSUME Typing, LifeInv, NEW p \in Processes, QuietStep(p)
  PROVE  SameWriters
<1>0. DataTypes /\ WorkerTypes /\ Places
  BY TypingParts
<1> USE CacheAssumption, <1>0
<1> USE DEF Goto, PCs, Loading, Saving, diskVars, lifeVars, loadVars, DataTypes, WorkerTypes,
            Places, Place, SameWriters
<1>1. ASSUME NEW b \in Builds, StartProcess(p, b) PROVE SameWriters
  BY <1>1 DEF StartProcess
<1>2. CASE StartPool(p)
  BY <1>2 DEF StartPool
<1>3. CASE StopPool(p)
  BY <1>3 DEF StopPool, AllReady
<1>4. CASE OpenForReading(p)
  <2>1. CASE path = 0
    <3>1. pc[p][First] = "open" /\ pc' = [pc EXCEPT ![p][First] = "spawn"]
      BY <1>4, <2>1 DEF OpenForReading
    <3>2. UNCHANGED <<content, cut, build, written, file>>
      BY <1>4, <2>1 DEF OpenForReading
    <3> QED
      BY <3>1, <3>2
  <2>2. CASE path # 0
    <3>1. pc[p][First] = "open" /\ pc' = [pc EXCEPT ![p][First] = "read"]
      BY <1>4, <2>2 DEF OpenForReading
    <3>2. file' = [file EXCEPT ![p][First] = path] /\ UNCHANGED <<content, cut, build, written>>
      BY <1>4, <2>2 DEF OpenForReading
    <3> QED
      BY <3>1, <3>2
  <2> QED
    BY <2>1, <2>2
<1>5. CASE ReadPiece(p)
  BY <1>5 DEF ReadPiece
<1>6. CASE EndReading(p)
  BY <1>6 DEF EndReading
<1>7. CASE RejectVersion(p)
  BY <1>7 DEF RejectVersion
<1>8. CASE MoveVector(p)
  BY <1>8 DEF MoveVector
<1>9. CASE StoreCache(p)
  BY <1>9 DEF StoreCache
<1>10. CASE SpawnWorkers(p)
  BY <1>10 DEF SpawnWorkers, LifeInv
<1>11. ASSUME NEW w \in Workers, LoadCache(p, w) PROVE SameWriters
  BY <1>11 DEF LoadCache
<1>12. ASSUME NEW w \in Workers, Compile(p, w) PROVE SameWriters
  <2>1. CASE used[p][w] = None
    BY <1>12, <2>1 DEF Compile
  <2>2. CASE used[p][w] # None
    BY <1>12, <2>2 DEF Compile
  <2> QED
    BY <2>1, <2>2
<1>13. ASSUME NEW w \in Workers, Publish(p, w) PROVE SameWriters
  <2>1. CASE cache[p] = None
    <3>1. pc[p][w] = "publish" /\ pc' = [pc EXCEPT ![p][w] = "create"]
      BY <1>13, <2>1 DEF Publish
    <3>2. UNCHANGED <<content, cut, build, written, file>>
      BY <1>13, <2>1 DEF Publish
    <3> QED
      BY <3>1, <3>2
  <2>2. CASE cache[p] # None
    <3>1. pc[p][w] = "publish" /\ pc' = [pc EXCEPT ![p][w] = "ready"]
      BY <1>13, <2>2 DEF Publish
    <3>2. UNCHANGED <<content, cut, build, written, file>>
      BY <1>13, <2>2 DEF Publish
    <3> QED
      BY <3>1, <3>2
  <2> QED
    BY <2>1, <2>2
<1>14. ASSUME NEW w \in Workers, CannotOpen(p, w) PROVE SameWriters
  BY <1>14 DEF CannotOpen
<1> QED
  BY <1>1, <1>2, <1>3, <1>4, <1>5, <1>6, <1>7, <1>8, <1>9, <1>10, <1>11, <1>12, <1>13, <1>14 DEF QuietStep, FirstStep
\* Every other step of a process concerns a file: the end of the process, or a
\* step of a worker that writes.
LEMMA StepsOfAProcess ==
  ASSUME Next
  PROVE  \E p \in Processes :
           \/ QuietStep(p)
           \/ Die(p)
           \/ \E w \in Workers : \/ OpenForWriting(p, w) \/ WritePiece(p, w)
                                 \/ EndWriting(p, w) \/ WriteFails(p, w)
BY DEF Next, Threads, WorkerStep, QuietStep

\* A file that one worker writes holds what it wrote, and every other file is
\* whole or known to be cut, whatever happens to the writers.
LEMMA FileStep == Typing /\ LifeInv /\ FileInv /\ Next => FileInv'
<1> SUFFICES ASSUME Typing, LifeInv, WriterInv, FilesAreWhole, Next
             PROVE  WriterInv' /\ FilesAreWhole'
  BY DEF FileInv
<1>0. DataTypes /\ WorkerTypes /\ Places
  BY TypingParts
<1>1. ASSUME NEW p \in Processes, QuietStep(p) PROVE WriterInv' /\ FilesAreWhole'
  <2>1. SameWriters
    BY <1>1, QuietSteps
  <2>2. WriterInv'
    <3>1. WroteFirstPieces'
      BY <2>1 DEF SameWriters, WriterInv, WroteFirstPieces
    <3>2. WritesAlone'
      BY <2>1 DEF SameWriters, WriterInv, WritesAlone
    <3> QED
      BY <3>1, <3>2 DEF WriterInv
  <2>3. FilesAreWhole'
    <3>1. Opened("write")' = Opened("write")
      BY <2>1 DEF SameWriters, Opened
    <3> QED
      BY <2>1, <3>1 DEF SameWriters, FilesAreWhole, Whole
  <2> QED
    BY <2>2, <2>3
<1>2. ASSUME NEW p \in Processes, Die(p) PROVE WriterInv' /\ FilesAreWhole'
  <2>1. /\ content' = content
        /\ cut \subseteq cut'
        /\ \A w \in Workers : pc[p][w] = "write" => file[p][w] \in cut'
        /\ \A w \in Workers : pc'[p][w] = "unborn"
        /\ \A q \in Processes, v \in Workers :
             q # p => /\ pc'[q][v] = pc[q][v] /\ file'[q][v] = file[q][v]
                      /\ written'[q][v] = written[q][v] /\ build'[q] = build[q]
    BY <1>0, <1>2 DEF Die, diskVars, DataTypes, WorkerTypes
  <2>2. WriterInv'
    <3>1. \A q \in Processes, v \in Workers :
            (pc'[q][v] = "write" /\ file'[q][v] \notin cut') =>
              /\ pc[q][v] = "write" /\ file'[q][v] = file[q][v] /\ file[q][v] \notin cut
              /\ written'[q][v] = written[q][v] /\ build'[q] = build[q]
      BY <2>1
    <3>2. \A q \in Processes, v \in Workers :
            pc'[q][v] = "write" => pc[q][v] = "write" /\ file'[q][v] = file[q][v]
      BY <2>1
    <3>3. WroteFirstPieces'
      BY <2>1, <3>1 DEF WriterInv, WroteFirstPieces
    <3>4. WritesAlone'
      BY <3>1, <3>2 DEF WriterInv, WritesAlone
    <3> QED
      BY <3>3, <3>4 DEF WriterInv
  <2>3. FilesAreWhole'
    <3> SUFFICES ASSUME NEW f \in 1 .. Len(content), f \notin cut', f \notin Opened("write")'
                 PROVE  \E b \in Builds : content[f] = FileOf(b)
      BY <2>1 DEF FilesAreWhole, Whole
    <3>1. f \notin Opened("write")
      <4> SUFFICES ASSUME NEW q \in Processes, NEW v \in Workers, pc[q][v] = "write", file[q][v] = f
                   PROVE  FALSE
        BY DEF Opened
      <4>1. q # p
        BY <2>1
      <4> QED
        BY <2>1, <4>1 DEF Opened
    <3> QED
      BY <2>1, <3>1 DEF FilesAreWhole, Whole
  <2> QED
    BY <2>2, <2>3
<1>3. ASSUME NEW p \in Processes, NEW w \in Workers, OpenForWriting(p, w)
      PROVE  WriterInv' /\ FilesAreWhole'
  <2>1. /\ pc[p][w] = "create" /\ pc' = [pc EXCEPT ![p][w] = "write"]
        /\ file' = [file EXCEPT ![p][w] = path']
        /\ cut' = IF path' \in Opened("write") THEN cut \cup {path'} ELSE cut \ {path'}
        /\ UNCHANGED <<build, written>>
    BY <1>3 DEF OpenForWriting, Goto, lifeVars
  <2>2. /\ path' \in Nat /\ content'[path'] = <<>>
        /\ \A f \in 1 .. Len(content') :
             f # path' => f \in 1 .. Len(content) /\ content'[f] = content[f]
        /\ \A f \in 1 .. Len(content) : f # path' => content'[f] = content[f]
    <3>1. CASE path = 0
      BY <1>3, <3>1 DEF OpenForWriting
    <3>2. CASE path # 0
      BY <1>0, <1>3, <3>2 DEF OpenForWriting, DataTypes
    <3> QED
      BY <3>1, <3>2
  <2>3. /\ pc'[p][w] = "write" /\ file'[p][w] = path'
        /\ \A q \in Processes, v \in Workers :
             (q # p \/ v # w) => pc'[q][v] = pc[q][v] /\ file'[q][v] = file[q][v]
    BY <1>0, <2>1 DEF WorkerTypes
  <2>4. WriterInv'
    <3> SUFFICES ASSUME NEW q \in Processes, NEW v \in Workers,
                        pc'[q][v] = "write", file'[q][v] \notin cut'
                 PROVE  /\ content'[file'[q][v]] = FirstPieces(build[q], written[q][v])
                        /\ \A r \in Processes, u \in Workers :
                             (pc'[r][u] = "write" /\ file'[r][u] = file'[q][v]) => r = q /\ u = v
      BY <2>1 DEF WriterInv, WroteFirstPieces, WritesAlone
    <3>1. CASE q = p /\ v = w
      <4>1. path' \notin Opened("write")
        BY <2>1, <2>3, <3>1
      <4>2. build[p] \in Builds /\ written[p][w] = 0
        BY <1>0, <2>1 DEF LifeInv, DataTypes, Places, Place
      <4>3. content'[path'] = FirstPieces(build[p], written[p][w])
        BY <2>2, <4>2, FirstAndLastPiece
      <4>4. \A r \in Processes, u \in Workers :
              pc[r][u] = "write" => file[r][u] # path'
        <5>1. ASSUME NEW r \in Processes, NEW u \in Workers, pc[r][u] = "write"
              PROVE  file[r][u] \in Opened("write")
          <6>1. file[r][u] # 0
            BY <1>0, <5>1 DEF Places, Place
          <6>2. file[r][u] \in 0 .. Len(content) /\ Len(content) \in Nat
            BY <1>0 DEF WorkerTypes, DataTypes
          <6>3. file[r][u] \in 1 .. Len(content)
            BY <6>1, <6>2
          <6> QED
            BY <5>1, <6>3 DEF Opened
        <5> QED
          BY <4>1, <5>1
      <4> QED
        BY <2>3, <3>1, <4>3, <4>4
    <3>2. CASE q # p \/ v # w
      <4>1. pc[q][v] = "write" /\ file'[q][v] = file[q][v] /\ file[q][v] \in 1 .. Len(content)
        BY <1>0, <2>3, <3>2 DEF WorkerTypes, Places, Place
      <4>2. file[q][v] \in Opened("write")
        BY <4>1 DEF Opened
      <4>3. file[q][v] # path' /\ file[q][v] \notin cut
        BY <2>1, <4>1, <4>2
      <4>4. content'[file[q][v]] = content[file[q][v]]
        BY <2>2, <4>1, <4>3
      <4>5. content[file[q][v]] = FirstPieces(build[q], written[q][v])
        BY <4>1, <4>3 DEF WriterInv, WroteFirstPieces
      <4>6. ASSUME NEW r \in Processes, NEW u \in Workers,
                   pc'[r][u] = "write", file'[r][u] = file'[q][v]
            PROVE  r = q /\ u = v
        <5>1. r # p \/ u # w
          BY <2>3, <4>1, <4>3, <4>6
        <5>2. pc[r][u] = "write" /\ file[r][u] = file[q][v]
          BY <2>3, <4>1, <4>6, <5>1
        <5> QED
          BY <4>1, <4>3, <5>2 DEF WriterInv, WritesAlone
      <4> QED
        BY <4>1, <4>4, <4>5, <4>6
    <3> QED
      BY <3>1, <3>2
  <2>5. FilesAreWhole'
    <3> SUFFICES ASSUME NEW f \in 1 .. Len(content'), f \notin cut', f \notin Opened("write")'
                 PROVE  \E b \in Builds : content'[f] = FileOf(b)
      BY DEF FilesAreWhole, Whole
    <3>1. f # path'
      BY <2>3 DEF Opened
    <3>2. f \in 1 .. Len(content) /\ content'[f] = content[f] /\ f \notin cut
      BY <2>1, <2>2, <3>1
    <3>3. f \notin Opened("write")
      <4> SUFFICES ASSUME NEW q \in Processes, NEW v \in Workers, pc[q][v] = "write", file[q][v] = f
                   PROVE  FALSE
        BY DEF Opened
      <4>1. q # p \/ v # w
        BY <2>1
      <4> QED
        BY <2>3, <4>1 DEF Opened
    <3> QED
      BY <3>2, <3>3 DEF FilesAreWhole, Whole
  <2> QED
    BY <2>4, <2>5
<1>4. ASSUME NEW p \in Processes, NEW w \in Workers, WritePiece(p, w)
      PROVE  WriterInv' /\ FilesAreWhole'
  <2> DEFINE f == file[p][w]
             k == written[p][w]
  <2>1. /\ pc[p][w] = "write" /\ k < BlobLength + 1
        /\ content' = [content EXCEPT ![f] = Put(@, k + 1, FileOf(build[p])[k + 1])]
        /\ written' = [written EXCEPT ![p][w] = k + 1]
        /\ UNCHANGED <<build, pc, file, cut>>
    BY <1>4 DEF WritePiece, lifeVars
  <2>2. f \in 1 .. Len(content) /\ build[p] \in Builds /\ k \in 0 .. BlobLength
    BY <1>0, <2>1, CacheAssumption DEF DataTypes, WorkerTypes, Places, Place
  <2>3. /\ content'[f] = Put(content[f], k + 1, FileOf(build[p])[k + 1])
        /\ \A g \in 1 .. Len(content) : g # f => content'[g] = content[g]
        /\ Len(content') = Len(content)
    BY <1>0, <2>1, <2>2 DEF DataTypes
  <2>4. /\ written'[p][w] = k + 1
        /\ \A q \in Processes, v \in Workers : (q # p \/ v # w) => written'[q][v] = written[q][v]
    BY <1>0, <2>1 DEF WorkerTypes
  <2>5. WriterInv'
    <3> SUFFICES ASSUME NEW q \in Processes, NEW v \in Workers,
                        pc[q][v] = "write", file[q][v] \notin cut
                 PROVE  content'[file[q][v]] = FirstPieces(build[q], written'[q][v])
      <4>1. ASSUME NEW q \in Processes, NEW v \in Workers, NEW r \in Processes, NEW u \in Workers,
                   pc[q][v] = "write", file[q][v] \notin cut,
                   pc[r][u] = "write", file[r][u] = file[q][v]
            PROVE  r = q /\ u = v
        BY <4>1 DEF WriterInv, WritesAlone
      <4> QED
        BY <2>1, <4>1 DEF WriterInv, WroteFirstPieces, WritesAlone
    <3>1. content[file[q][v]] = FirstPieces(build[q], written[q][v])
      BY DEF WriterInv, WroteFirstPieces
    <3>2. CASE q = p /\ v = w
      BY <2>1, <2>2, <2>3, <2>4, <3>1, <3>2, PutNext
    <3>3. CASE q # p \/ v # w
      <4>1. file[q][v] # f /\ file[q][v] \in 1 .. Len(content)
        BY <1>0, <2>1, <3>3 DEF WriterInv, WritesAlone, WorkerTypes, Places, Place
      <4> QED
        BY <2>3, <2>4, <3>1, <3>3, <4>1
    <3> QED
      BY <3>2, <3>3
  <2>6. FilesAreWhole'
    <3>1. f \in Opened("write") /\ Opened("write")' = Opened("write")
      BY <2>1, <2>2, <2>3 DEF Opened
    <3> QED
      BY <2>1, <2>3, <3>1 DEF FilesAreWhole, Whole
  <2> QED
    BY <2>5, <2>6
<1>5. ASSUME NEW p \in Processes, NEW w \in Workers, EndWriting(p, w) \/ WriteFails(p, w)
      PROVE  WriterInv' /\ FilesAreWhole'
  <2> DEFINE f == file[p][w]
  <2>1. /\ pc[p][w] = "write" /\ pc' = [pc EXCEPT ![p][w] = "ready"]
        /\ file' = [file EXCEPT ![p][w] = 0]
        /\ written' = [written EXCEPT ![p][w] = 0]
        /\ cut \subseteq cut' /\ content' = content /\ build' = build
        /\ f \notin cut' => written[p][w] = BlobLength + 1
    BY <1>5 DEF EndWriting, WriteFails, Goto, diskVars, lifeVars
  <2>2. /\ pc'[p][w] = "ready"
        /\ \A q \in Processes, v \in Workers :
             (q # p \/ v # w) => /\ pc'[q][v] = pc[q][v] /\ file'[q][v] = file[q][v]
                                 /\ written'[q][v] = written[q][v]
    BY <1>0, <2>1 DEF WorkerTypes
  <2>3. WriterInv'
    <3>1. \A q \in Processes, v \in Workers :
            pc'[q][v] = "write" => /\ pc[q][v] = "write" /\ file'[q][v] = file[q][v]
                                   /\ written'[q][v] = written[q][v]
      BY <2>2
    <3> QED
      BY <2>1, <3>1 DEF WriterInv, WroteFirstPieces, WritesAlone
  <2>4. FilesAreWhole'
    <3> SUFFICES ASSUME NEW g \in 1 .. Len(content), g \notin cut', g \notin Opened("write")'
                 PROVE  \E b \in Builds : content[g] = FileOf(b)
      BY <2>1 DEF FilesAreWhole, Whole
    <3>1. CASE g = f
      <4>1. build[p] \in Builds
        BY <1>0, <2>1 DEF DataTypes, Places, Place
      <4>2. content[g] = FirstPieces(build[p], BlobLength + 1)
        BY <2>1, <3>1 DEF WriterInv, WroteFirstPieces
      <4> QED
        BY <4>1, <4>2, FirstAndLastPiece
    <3>2. CASE g # f
      <4>1. g \notin Opened("write")
        BY <2>1, <2>2, <3>2 DEF Opened
      <4> QED
        BY <2>1, <4>1 DEF FilesAreWhole, Whole
    <3> QED
      BY <3>1, <3>2
  <2> QED
    BY <2>3, <2>4
<1> QED
  BY StepsOfAProcess, <1>1, <1>2, <1>3, <1>4, <1>5
------------------------------------------------------------------------------
(* What is read *)

\* A whole file that nobody writes stays so, or its readers are known to read
\* one that is not.
LEMMA KeptFiles ==
  ASSUME Typing, LifeInv, Next,
         NEW f \in 1 .. Len(content), f \notin cut, f \notin Opened("write")
  PROVE  \/ content'[f] = content[f] /\ f \notin cut' /\ f \notin Opened("write")'
         \/ \A q \in Processes :
              (pc[q][First] = "read" /\ file[q][First] = f) => q \in doubtful'
<1>0. DataTypes /\ WorkerTypes /\ Places
  BY TypingParts
<1>w. ASSUME NEW q \in Processes, NEW v \in Workers, pc[q][v] = "write"
      PROVE  file[q][v] # f
  BY <1>w DEF Opened
<1>1. ASSUME NEW p \in Processes, QuietStep(p)
      PROVE  content'[f] = content[f] /\ f \notin cut' /\ f \notin Opened("write")'
  <2>1. SameWriters
    BY <1>1, QuietSteps
  <2> QED
    BY <2>1, <1>w DEF SameWriters, Opened
<1>2. ASSUME NEW p \in Processes, Die(p)
      PROVE  content'[f] = content[f] /\ f \notin cut' /\ f \notin Opened("write")'
  <2>1. /\ content' = content
        /\ cut' = cut \cup {file[p][w] : w \in {v \in Workers : pc[p][v] = "write"}}
    BY <1>2 DEF Die, diskVars
  <2>2. \A q \in Processes, v \in Workers :
          pc'[q][v] = "write" => pc[q][v] = "write" /\ file'[q][v] = file[q][v]
    BY <1>0, <1>2 DEF Die, WorkerTypes
  <2> QED
    BY <2>1, <2>2, <1>w DEF Opened
<1>3. ASSUME NEW p \in Processes, NEW w \in Workers, OpenForWriting(p, w), path' # f
      PROVE  content'[f] = content[f] /\ f \notin cut' /\ f \notin Opened("write")'
  <2>1. f \notin cut'
    BY <1>3 DEF OpenForWriting
  <2>2. content'[f] = content[f]
    <3>1. CASE path = 0
      BY <1>3, <3>1 DEF OpenForWriting
    <3>2. CASE path # 0
      BY <1>0, <1>3, <3>2 DEF OpenForWriting, DataTypes
    <3> QED
      BY <3>1, <3>2
  <2>3. /\ pc' = [pc EXCEPT ![p][w] = "write"]
        /\ file' = [file EXCEPT ![p][w] = path']
    BY <1>3 DEF OpenForWriting, Goto
  <2>4. /\ file'[p][w] = path'
        /\ \A q \in Processes, v \in Workers :
             (q # p \/ v # w) => pc'[q][v] = pc[q][v] /\ file'[q][v] = file[q][v]
    BY <1>0, <2>3 DEF WorkerTypes
  <2> QED
    BY <2>1, <2>2, <2>4, <1>3, <1>w DEF Opened
<1>4. ASSUME NEW p \in Processes, NEW w \in Workers, OpenForWriting(p, w), path' = f
      PROVE  \A q \in Processes :
               (pc[q][First] = "read" /\ file[q][First] = f) => q \in doubtful'
  BY <1>4 DEF OpenForWriting
<1>5. ASSUME NEW p \in Processes, NEW w \in Workers, WritePiece(p, w)
      PROVE  content'[f] = content[f] /\ f \notin cut' /\ f \notin Opened("write")'
  <2>1. /\ pc[p][w] = "write"
        /\ \E s : content' = [content EXCEPT ![file[p][w]] = s]
        /\ UNCHANGED <<pc, file, cut>>
    BY <1>5 DEF WritePiece
  <2>2. content'[f] = content[f]
    BY <1>0, <1>w, <2>1 DEF DataTypes
  <2> QED
    BY <2>1, <2>2, <1>w DEF Opened
<1>6. ASSUME NEW p \in Processes, NEW w \in Workers, EndWriting(p, w) \/ WriteFails(p, w)
      PROVE  content'[f] = content[f] /\ f \notin cut' /\ f \notin Opened("write")'
  <2>1. /\ pc[p][w] = "write" /\ pc' = [pc EXCEPT ![p][w] = "ready"]
        /\ file' = [file EXCEPT ![p][w] = 0]
        /\ cut' \subseteq cut \cup {file[p][w]} /\ content' = content
    BY <1>6 DEF EndWriting, WriteFails, Goto, diskVars
  <2>2. \A q \in Processes, v \in Workers :
          pc'[q][v] = "write" => pc[q][v] = "write" /\ file'[q][v] = file[q][v]
    BY <1>0, <2>1 DEF WorkerTypes
  <2> QED
    BY <2>1, <2>2, <1>w DEF Opened
<1> QED
  BY StepsOfAProcess, <1>1, <1>2, <1>3, <1>4, <1>5, <1>6

\* What one process does leaves what another has read, and its doubts, alone.
Apart(q) ==
  /\ pc'[q] = pc[q] /\ file'[q] = file[q] /\ size'[q] = size[q] /\ data'[q] = data[q]
  /\ build'[q] = build[q] /\ cache'[q] = cache[q]
  /\ q \in doubtful => q \in doubtful'
ProcessStep(p) ==
  \/ \E b \in Builds : StartProcess(p, b)
  \/ StartPool(p) \/ StopPool(p) \/ Die(p)
  \/ Threads(p)

\* It is so for every step.
LEMMA StepsApart ==
  ASSUME Typing, NEW p \in Processes, ProcessStep(p), NEW q \in Processes, q # p
  PROVE  Apart(q)
<1>0. DataTypes /\ WorkerTypes
  BY TypingParts
<1> USE <1>0
<1> USE DEF Apart, DataTypes, WorkerTypes, Goto, diskVars, lifeVars, loadVars
<1>1. ASSUME NEW b \in Builds, StartProcess(p, b) PROVE Apart(q)
  BY <1>1 DEF StartProcess
<1>2. CASE StartPool(p)
  BY <1>2 DEF StartPool
<1>3. CASE StopPool(p)
  BY <1>3 DEF StopPool
<1>4. CASE Die(p)
  BY <1>4 DEF Die
<1>5. CASE OpenForReading(p)
  <2>1. CASE path = 0
    BY <1>5, <2>1 DEF OpenForReading
  <2>2. CASE path # 0
    BY <1>5, <2>2 DEF OpenForReading
  <2> QED
    BY <2>1, <2>2
<1>6. CASE ReadPiece(p)
  BY <1>6 DEF ReadPiece
<1>7. CASE EndReading(p)
  BY <1>7 DEF EndReading
<1>8. CASE RejectVersion(p)
  BY <1>8 DEF RejectVersion
<1>9. CASE MoveVector(p)
  BY <1>9 DEF MoveVector
<1>10. CASE StoreCache(p)
  BY <1>10 DEF StoreCache
<1>11. CASE SpawnWorkers(p)
  BY <1>11 DEF SpawnWorkers
<1>12. ASSUME NEW w \in Workers, LoadCache(p, w) PROVE Apart(q)
  BY <1>12 DEF LoadCache
<1>13. ASSUME NEW w \in Workers, Compile(p, w) PROVE Apart(q)
  <2>1. CASE used[p][w] = None
    BY <1>13, <2>1 DEF Compile
  <2>2. CASE used[p][w] # None
    BY <1>13, <2>2 DEF Compile
  <2> QED
    BY <2>1, <2>2
<1>14. ASSUME NEW w \in Workers, Publish(p, w) PROVE Apart(q)
  <2>1. CASE cache[p] = None
    BY <1>14, <2>1 DEF Publish
  <2>2. CASE cache[p] # None
    BY <1>14, <2>2 DEF Publish
  <2> QED
    BY <2>1, <2>2
<1>15. ASSUME NEW w \in Workers, OpenForWriting(p, w) PROVE Apart(q)
  BY <1>15 DEF OpenForWriting
<1>16. ASSUME NEW w \in Workers, CannotOpen(p, w) PROVE Apart(q)
  BY <1>16 DEF CannotOpen
<1>17. ASSUME NEW w \in Workers, WritePiece(p, w) PROVE Apart(q)
  BY <1>17 DEF WritePiece
<1>18. ASSUME NEW w \in Workers, EndWriting(p, w) PROVE Apart(q)
  BY <1>18 DEF EndWriting
<1>19. ASSUME NEW w \in Workers, WriteFails(p, w) PROVE Apart(q)
  BY <1>19 DEF WriteFails
<1> QED
  BY <1>1, <1>2, <1>3, <1>4, <1>5, <1>6, <1>7, <1>8, <1>9, <1>10, <1>11, <1>12, <1>13, <1>14, <1>15, <1>16, <1>17, <1>18, <1>19
     DEF ProcessStep, Threads, FirstStep, WorkerStep
\* What a process read stays true while another process runs.
LEMMA OthersRead ==
  ASSUME Typing, LifeInv, Next, NEW q \in Processes, q \notin doubtful', Apart(q),
         Reading(q), Checking(q), Storing(q), Published(q)
  PROVE  Reading(q)' /\ Checking(q)' /\ Storing(q)' /\ Published(q)'
<1>0. DataTypes /\ WorkerTypes /\ Places
  BY TypingParts
<1>1. Reading(q)'
  <2> SUFFICES ASSUME pc[q][First] = "read"
               PROVE  Reading(q)'
    BY DEF Reading, Apart
  <2> DEFINE f == file[q][First]
  <2>1. f \in 1 .. Len(content)
    BY <1>0, CacheAssumption DEF WorkerTypes, Places, Place
  <2>2. f \notin cut /\ f \notin Opened("write")
    BY DEF Reading
  <2>3. content'[f] = content[f] /\ f \notin cut' /\ f \notin Opened("write")'
    BY <2>1, <2>2, KeptFiles
  <2>4. file'[q][First] = f
    BY DEF Apart
  <2> QED
    BY <2>3, <2>4 DEF Reading, Apart
<1>2. Checking(q)'
  BY DEF Checking, Apart
<1>3. Storing(q)'
  BY DEF Storing, SameV8, Apart
<1>4. Published(q)'
  BY DEF Published, SameV8, Apart
<1> QED
  BY <1>1, <1>2, <1>3, <1>4

\* A step of a process after which its first worker does not read, check or store.
Idle(p) ==
  /\ pc'[p][First] \notin {"read", "check", "store"}
  /\ \/ cache'[p] = None
     \/ /\ cache'[p] = cache[p] /\ build'[p] = build[p]
        /\ p \in doubtful => p \in doubtful'
     \/ \E b \in Builds : cache'[p] = OnHeap(b) /\ build'[p] = b

\* After such a step a process without doubts still has only whole things.
LEMMA IdleReads ==
  ASSUME NEW p \in Processes, p \notin doubtful', ReadInv, Idle(p)
  PROVE  Reading(p)' /\ Checking(p)' /\ Storing(p)' /\ Published(p)'
<1>1. Reading(p)' /\ Checking(p)' /\ Storing(p)'
  BY DEF Reading, Checking, Storing, Idle
<1>2. Published(p)'
  <2>1. CASE cache'[p] = None
    BY <2>1 DEF Published
  <2>2. CASE cache'[p] = cache[p] /\ build'[p] = build[p] /\ (p \in doubtful => p \in doubtful')
    BY <2>2 DEF Published, SameV8, ReadInv
  <2>3. CASE \E b \in Builds : cache'[p] = OnHeap(b) /\ build'[p] = b
    BY <2>3 DEF Published, SameV8, OnHeap
  <2> QED
    BY <2>1, <2>2, <2>3 DEF Idle
<1> QED
  BY <1>1, <1>2

\* Steps that are idle: those of the life of a process, and of makeBabelObject.
IdleStep(p) ==
  \/ \E b \in Builds : StartProcess(p, b)
  \/ StartPool(p) \/ StopPool(p) \/ Die(p)
  \/ RejectVersion(p) \/ SpawnWorkers(p) \/ (OpenForReading(p) /\ path = 0)
  \/ \E w \in Workers : WorkerStep(p, w)

LEMMA IdleSteps ==
  ASSUME Typing, LifeInv, NEW p \in Processes, IdleStep(p)
  PROVE  Idle(p)
<1>0. DataTypes /\ WorkerTypes /\ Places
  BY TypingParts
<1> USE <1>0, CacheAssumption
<1> USE DEF Idle, DataTypes, WorkerTypes, Places, Place, Goto, Loading, diskVars, lifeVars, loadVars
<1>1. ASSUME NEW b \in Builds, StartProcess(p, b) PROVE Idle(p)
  BY <1>1 DEF StartProcess, LifeInv
<1>2. CASE StartPool(p)
  BY <1>2 DEF StartPool
<1>3. CASE StopPool(p)
  BY <1>3 DEF StopPool
<1>4. CASE Die(p)
  BY <1>4 DEF Die
<1>5. CASE RejectVersion(p)
  BY <1>5 DEF RejectVersion
<1>6. CASE SpawnWorkers(p)
  BY <1>6 DEF SpawnWorkers
<1>7. CASE OpenForReading(p) /\ path = 0
  BY <1>7 DEF OpenForReading
<1>8. ASSUME NEW w \in Workers, LoadCache(p, w) PROVE Idle(p)
  <2>1. pc[p][First] \notin Loading
    BY <1>8 DEF LoadCache, LifeInv
  <2> QED
    BY <1>8, <2>1 DEF LoadCache
<1>9. ASSUME NEW w \in Workers, Compile(p, w) PROVE Idle(p)
  <2>1. pc[p][First] \notin Loading
    BY <1>9 DEF Compile, LifeInv
  <2>2. CASE used[p][w] = None
    BY <1>9, <2>1, <2>2 DEF Compile
  <2>3. CASE used[p][w] # None
    BY <1>9, <2>1, <2>3 DEF Compile
  <2> QED
    BY <2>2, <2>3
<1>10. ASSUME NEW w \in Workers, Publish(p, w) PROVE Idle(p)
  <2>1. pc[p][First] \notin Loading
    BY <1>10 DEF Publish, LifeInv
  <2>2. CASE cache[p] = None
    BY <1>10, <2>1, <2>2 DEF Publish
  <2>3. CASE cache[p] # None
    BY <1>10, <2>1, <2>3 DEF Publish
  <2> QED
    BY <2>2, <2>3
<1>11. ASSUME NEW w \in Workers, OpenForWriting(p, w) PROVE Idle(p)
  <2>1. pc[p][First] \notin Loading
    BY <1>11 DEF OpenForWriting, LifeInv
  <2> QED
    BY <1>11, <2>1 DEF OpenForWriting
<1>12. ASSUME NEW w \in Workers, CannotOpen(p, w) PROVE Idle(p)
  <2>1. pc[p][First] \notin Loading
    BY <1>12 DEF CannotOpen, LifeInv
  <2> QED
    BY <1>12, <2>1 DEF CannotOpen
<1>13. ASSUME NEW w \in Workers, WritePiece(p, w) PROVE Idle(p)
  <2>1. pc[p][First] \notin Loading
    BY <1>13 DEF WritePiece, LifeInv
  <2> QED
    BY <1>13, <2>1 DEF WritePiece
<1>14. ASSUME NEW w \in Workers, EndWriting(p, w) PROVE Idle(p)
  <2>1. pc[p][First] \notin Loading
    BY <1>14 DEF EndWriting, LifeInv
  <2> QED
    BY <1>14, <2>1 DEF EndWriting
<1>15. ASSUME NEW w \in Workers, WriteFails(p, w) PROVE Idle(p)
  <2>1. pc[p][First] \notin Loading
    BY <1>15 DEF WriteFails, LifeInv
  <2> QED
    BY <1>15, <2>1 DEF WriteFails
<1> QED
  BY <1>1, <1>2, <1>3, <1>4, <1>5, <1>6, <1>7, <1>8, <1>9, <1>10, <1>11, <1>12, <1>13, <1>14, <1>15 DEF IdleStep, WorkerStep

\* Every load is whole: the steps of loadBabelCompileCacheFile one by one.
LEMMA ReadStep == Typing /\ LifeInv /\ FilesAreWhole /\ ReadInv /\ Next => ReadInv'
<1> SUFFICES ASSUME Typing, LifeInv, FilesAreWhole, ReadInv, Next,
                    NEW q \in Processes, q \notin doubtful'
             PROVE  Reading(q)' /\ Checking(q)' /\ Storing(q)' /\ Published(q)'
  BY DEF ReadInv
<1>0. DataTypes /\ WorkerTypes /\ Places
  BY TypingParts
<1>p. PICK p \in Processes : ProcessStep(p)
  BY DEF Next, ProcessStep
<1>1. CASE q # p
  <2>1. Apart(q)
    BY <1>p, <1>1, StepsApart
  <2>2. q \notin doubtful
    BY <2>1 DEF Apart
  <2> QED
    BY <2>1, <2>2, OthersRead DEF ReadInv
<1>2. CASE q = p /\ Idle(p)
  BY <1>2, IdleReads
<1>3. CASE q = p /\ OpenForReading(p) /\ path # 0
  <2>1. /\ pc' = [pc EXCEPT ![p][First] = "read"]
        /\ file' = [file EXCEPT ![p][First] = path]
        /\ size' = [size EXCEPT ![p] = Len(content[path])]
        /\ data' = [data EXCEPT ![p] = <<>>]
        /\ p \in doubtful => p \in doubtful'
        /\ path \in cut \cup Opened("write") => p \in doubtful'
        /\ UNCHANGED <<content, build, cache, cut>>
    BY <1>3 DEF OpenForReading, Goto, diskVars, lifeVars
  <2>2. /\ pc'[p][First] = "read" /\ file'[p][First] = path
        /\ size'[p] = Len(content[path]) /\ data'[p] = <<>> /\ path \in 1 .. Len(content)
    BY <1>0, <1>3, <2>1, CacheAssumption DEF DataTypes, WorkerTypes
  <2>3. path \notin cut' /\ path \notin Opened("write")'
    <3>1. SameWriters
      BY <1>3, QuietSteps DEF QuietStep, FirstStep
    <3>2. path \notin cut /\ path \notin Opened("write")
      BY <1>3, <2>1
    <3>3. \A r \in Processes, v \in Workers : pc[r][v] = "write" => file[r][v] # path
      BY <2>2, <3>2 DEF Opened
    <3> QED
      BY <3>1, <3>2, <3>3 DEF SameWriters, Opened
  <2>4. Len(content[path]) \in Nat
    BY <1>0, <2>2, ElementOfSeq DEF DataTypes
  <2>5. Reading(p)'
    BY <2>1, <2>2, <2>3, <2>4 DEF Reading
  <2>6. Checking(p)' /\ Storing(p)'
    BY <2>2 DEF Checking, Storing
  <2>7. Published(p)'
    BY <1>3, <2>1 DEF Published, SameV8, ReadInv
  <2> QED
    BY <1>3, <2>5, <2>6, <2>7
<1>4. CASE q = p /\ ReadPiece(p)
  <2> DEFINE f == file[p][First]
  <2>1. /\ pc[p][First] = "read" /\ Len(data[p]) < size[p]
        /\ data' = [data EXCEPT ![p] = Append(@, Piece(content[f], Len(@) + 1))]
        /\ UNCHANGED <<content, build, cache, size, pc, file, cut, doubtful>>
    BY <1>4 DEF ReadPiece, diskVars, lifeVars
  <2>2. Reading(p) /\ Published(p)
    BY <1>4, <2>1 DEF ReadInv
  <2>3. /\ f \in 1 .. Len(content) /\ content[f] \in Seq(Pieces) /\ data[p] \in Seq(Pieces)
        /\ data'[p] = Append(data[p], Piece(content[f], Len(data[p]) + 1))
    <3>1. f \in 1 .. Len(content)
      BY <1>0, <2>1, CacheAssumption DEF WorkerTypes, Places, Place
    <3> QED
      BY <1>0, <2>1, <3>1, ElementOfSeq DEF DataTypes
  <2>4. Piece(content[f], Len(data[p]) + 1) = content[f][Len(data[p]) + 1]
    BY <2>1, <2>2, <2>3 DEF Reading, Piece
  <2>5. Len(data'[p]) <= size[p] /\ \A i \in 1 .. Len(data'[p]) : data'[p][i] = content[f][i]
    BY <2>1, <2>2, <2>3, <2>4 DEF Reading
  <2>6. f \notin cut' /\ f \notin Opened("write")'
    BY <2>1, <2>2 DEF Reading, Opened
  <2>7. Reading(p)'
    BY <2>1, <2>2, <2>5, <2>6 DEF Reading
  <2>8. Checking(p)' /\ Storing(p)' /\ Published(p)'
    BY <2>1, <2>2 DEF Checking, Storing, Published, SameV8
  <2> QED
    BY <1>4, <2>7, <2>8
<1>5. CASE q = p /\ EndReading(p)
  <2> DEFINE f == file[p][First]
  <2>1. /\ pc[p][First] = "read" /\ Len(data[p]) = size[p]
        /\ pc' = [pc EXCEPT ![p][First] = "check"]
        /\ UNCHANGED <<build, cache, data, doubtful>>
    BY <1>5 DEF EndReading, Goto, lifeVars
  <2>2. Reading(p) /\ Published(p)
    BY <1>5, <2>1 DEF ReadInv
  <2>3. f \in 1 .. Len(content)
    BY <1>0, <2>1, CacheAssumption DEF WorkerTypes, Places, Place
  <2>4. content[f] \in Seq(Pieces) /\ data[p] \in Seq(Pieces)
    BY <1>0, <2>3, ElementOfSeq DEF DataTypes
  <2>5. data[p] = content[f]
    BY <2>1, <2>2, <2>4, SeqEqual DEF Reading
  <2>6. \E b \in Builds : data[p] = FileOf(b)
    BY <2>1, <2>2, <2>3, <2>5 DEF FilesAreWhole, Whole, Reading
  <2>7. pc'[p][First] = "check"
    BY <1>0, <2>1, CacheAssumption DEF WorkerTypes
  <2> QED
    BY <1>5, <2>1, <2>2, <2>6, <2>7 DEF Reading, Checking, Storing, Published, SameV8
<1>6. CASE q = p /\ MoveVector(p)
  <2>1. /\ pc[p][First] = "check" /\ TagOf[build[p]] \in TagsRead(p)
        /\ pc' = [pc EXCEPT ![p][First] = "store"]
        /\ UNCHANGED <<build, cache, data, doubtful>>
    BY <1>6 DEF MoveVector, Goto, lifeVars
  <2>2. Checking(p) /\ Published(p)
    BY <1>6, <2>1 DEF ReadInv
  <2>3. PICK b \in Builds : data[p] = FileOf(b)
    BY <2>1, <2>2 DEF Checking
  <2>4. data[p] # <<>> /\ data[p][1] = TagOf[b]
    BY <2>3, FileTypes, CacheAssumption
  <2>5. SameV8(p, b)
    BY <2>1, <2>4 DEF SameV8, TagsRead
  <2>6. pc'[p][First] = "store"
    BY <1>0, <2>1, CacheAssumption DEF WorkerTypes
  <2> QED
    BY <1>6, <2>1, <2>2, <2>3, <2>5, <2>6 DEF Reading, Checking, Storing, Published, SameV8
<1>7. CASE q = p /\ StoreCache(p)
  <2>1. /\ pc[p][First] = "store"
        /\ pc' = [pc EXCEPT ![p][First] = "spawn"]
        /\ cache' = [cache EXCEPT ![p] = InVector(vectors[p], SubSeq(data[p], 2, Len(data[p])))]
        /\ UNCHANGED <<build, doubtful>>
    BY <1>7 DEF StoreCache, Goto, lifeVars
  <2>2. PICK b \in Builds : SameV8(p, b) /\ data[p] = FileOf(b)
    BY <1>7, <2>1 DEF ReadInv, Storing
  <2>3. SubSeq(data[p], 2, Len(data[p])) = BlobOf(b)
    BY <2>2, FileWithoutTag
  <2>4. cache'[p].bytes = BlobOf(b)
    BY <1>0, <2>1, <2>3 DEF DataTypes, InVector
  <2>5. Published(p)'
    BY <2>1, <2>2, <2>4 DEF Published, SameV8
  <2>6. pc'[p][First] = "spawn"
    BY <1>0, <2>1, CacheAssumption DEF WorkerTypes
  <2> QED
    BY <1>7, <2>5, <2>6 DEF Reading, Checking, Storing
<1>8. \/ Idle(p) \/ (OpenForReading(p) /\ path # 0)
      \/ ReadPiece(p) \/ EndReading(p) \/ MoveVector(p) \/ StoreCache(p)
  <2>1. \/ IdleStep(p) \/ (OpenForReading(p) /\ path # 0)
        \/ ReadPiece(p) \/ EndReading(p) \/ MoveVector(p) \/ StoreCache(p)
    BY <1>p DEF ProcessStep, Threads, FirstStep, IdleStep
  <2> QED
    BY <2>1, IdleSteps
<1> QED
  BY <1>1, <1>2, <1>3, <1>4, <1>5, <1>6, <1>7, <1>8
------------------------------------------------------------------------------
(* The theorems *)

\* The first process starts with no file, a whole one, or the start of one.
LEMMA InitIInv == Init => IInv
<1> SUFFICES ASSUME Init PROVE IInv
  OBVIOUS
<1> USE CacheAssumption DEF Init
<1>1. /\ content \in Seq(Seq(Pieces)) /\ path \in 0 .. Len(content) /\ cut \subseteq 1 .. Len(content)
      /\ \A f \in 1 .. Len(content) : Whole(f) \/ f \in cut
  <2>1. CASE NoFile
    BY <2>1, EmptySeq DEF NoFile
  <2>2. CASE WholeFile
    BY <2>2, FileTypes DEF WholeFile, Whole
  <2>3. CASE ShortFile
    <3>1. PICK b \in Builds, n \in 0 .. BlobLength :
            content = <<SubSeq(FileOf(b), 1, n)>> /\ path = 1 /\ cut = {1}
      BY <2>3 DEF ShortFile
    <3>2. SubSeq(FileOf(b), 1, n) \in Seq(Pieces)
      BY FileTypes, ElementOfSeq, SubSeqProperties
    <3> QED
      BY <3>1, <3>2
  <2> QED
    BY <2>1, <2>2, <2>3
<1>2. Typing
  <2>1. DataTypes
    BY <1>1, EmptySeq DEF DataTypes
  <2>2. WorkerTypes
    BY DEF WorkerTypes, PCs
  <2>3. Places
    BY DEF Places, Place, Loading
  <2> QED
    BY <2>1, <2>2, <2>3, TypingParts
<1>3. LifeInv /\ PointerInv /\ OneWorkerSaves /\ NoDanglingBlob
  BY DEF LifeInv, PointerInv, OneWorkerSaves, OneSaver, NoDanglingBlob, Loading, Saving
<1>4. FileInv
  BY <1>1 DEF FileInv, WriterInv, WroteFirstPieces, WritesAlone, FilesAreWhole
<1>5. ReadInv
  BY DEF ReadInv, Reading, Checking, Storing, Published
<1> QED
  BY <1>2, <1>3, <1>4, <1>5 DEF IInv

\* Every step, and stuttering, keeps the invariant.
LEMMA NextIInv == IInv /\ [Next]_vars => IInv'
<1>1. IInv /\ Next => IInv'
  BY TypingStep, LocalStep, FileStep, ReadStep DEF IInv, LocalInv, FileInv
<1>2. IInv /\ UNCHANGED vars => IInv'
  <2> SUFFICES ASSUME IInv, UNCHANGED vars PROVE IInv'
    OBVIOUS
  <2> USE DEF vars, diskVars, lifeVars, loadVars
  <2>1. Typing'
    BY DEF IInv, Typing, TypeOK
  <2>2. LifeInv' /\ PointerInv' /\ OneWorkerSaves' /\ NoDanglingBlob'
    BY DEF IInv, LifeInv, PointerInv, OneWorkerSaves, OneSaver, NoDanglingBlob
  <2>3. FileInv'
    BY DEF IInv, FileInv, WriterInv, WroteFirstPieces, WritesAlone, FilesAreWhole, Whole, Opened
  <2>4. ReadInv'
    BY DEF IInv, ReadInv, Reading, Checking, Storing, Published, SameV8, Opened
  <2> QED
    BY <2>1, <2>2, <2>3, <2>4 DEF IInv
<1> QED
  BY <1>1, <1>2

\* The inductive invariant of the code cache, behind the theorems below.
THEOREM CacheInvariant == Spec => []IInv
BY InitIInv, NextIInv, PTL DEF Spec

\* A worker has a file open exactly while it reads or writes, threads exist in
\* processes only, and only the first worker of a pool loads the cache file.
THEOREM TypeCorrect == Spec => []TypeOK
<1>1. IInv => TypeOK
  BY DEF IInv, Typing
<1> QED
  BY <1>1, CacheInvariant, PTL

\* compare_exchange_strong lets one worker of a process write the cache file, the
\* one whose code cache is published, however often the pool starts.
THEOREM OneSaves == Spec => []OneWorkerSaves
<1>1. IInv => OneWorkerSaves
  BY DEF IInv
<1> QED
  BY <1>1, CacheInvariant, PTL

\* No worker compiles from the vector of an earlier start of the pool, although
\* the pointer to it stays published while the vector is assigned.
THEOREM NoUseAfterAssignment == Spec => []NoDanglingBlob
<1>1. IInv => NoDanglingBlob
  BY DEF IInv
<1> QED
  BY <1>1, CacheInvariant, PTL

\* A file on the disk is the whole file of one build, unless somebody writes it or
\* a write of it is known to have been cut short or overlapped with another.
THEOREM FilesStayWhole == Spec => []FilesAreWhole
<1>1. IInv => FilesAreWhole
  BY DEF IInv, FileInv
<1> QED
  BY <1>1, CacheInvariant, PTL

\* A process that read no file in such a state hands its workers the whole code
\* cache of a build whose V8 tag is its own: which build, the tag does not tell.
THEOREM LoadsStayWhole == Spec => []LoadsAreWhole
<1>1. IInv => LoadsAreWhole
  <2> SUFFICES ASSUME IInv, NEW p \in Processes \ doubtful
               PROVE  /\ pc[p][First] = "check" => data[p] # <<>>
                      /\ cache[p] # None =>
                           \E b \in Builds : TagOf[b] = TagOf[build[p]] /\ cache[p].bytes = BlobOf(b)
    BY DEF LoadsAreWhole
  <2>1. Checking(p) /\ Published(p)
    BY DEF IInv, ReadInv
  <2>2. \A b \in Builds : FileOf(b) # <<>>
    BY FileTypes, CacheAssumption
  <2> QED
    BY <2>1, <2>2 DEF Checking, Published, SameV8
<1> QED
  BY <1>1, CacheInvariant, PTL
=============================================================================
