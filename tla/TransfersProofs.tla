-------------------------- MODULE TransfersProofs --------------------------
(***************************************************************************)
(* Proofs about Transfers, for any files, contents and scenarios, any      *)
(* number of concurrent transfers, attempts and faults.                    *)
(***************************************************************************)
EXTENDS Transfers, FiniteSetTheorems, SequenceTheorems, TLAPS

-----------------------------------------------------------------------------
(* Keys, listings and contents                                             *)

\* Two files have two keys, none of them that of the stray object or the manifest.
LEMMA KeysDiffer ==
  /\ \A i, j \in Indices : Key(i) = Key(j) => i = j
  /\ \A i \in Indices : Key(i) # Stray /\ Key(i) \in Keys /\ Key(i) # ManifestFile
<1>1. \A i \in Indices : Files[i] \in Paths
  BY FilesAssumption DEF Indices
<1>2. ASSUME NEW i \in Indices, NEW j \in Indices, Key(i) = Key(j) PROVE i = j
  <2>1. Files[i].dir = Files[j].dir /\ Files[i].name = Files[j].name
    BY <1>1, <1>2 DEF Key, path_maybe_with_parent, Paths
  <2>2. Files[i] = Files[j]
    BY <1>1, <2>1 DEF Paths
  <2> QED BY <2>2, FilesAssumption DEF IsInjective, Indices
<1>3. ASSUME NEW i \in Indices PROVE Key(i) # Stray
  BY <1>1, FilesAssumption DEF Key, path_maybe_with_parent, Stray, Indices
<1>4. ASSUME NEW i \in Indices PROVE Key(i) # ManifestFile
  BY DEF Key, path_maybe_with_parent, ManifestFile
<1> QED
  BY <1>2, <1>3, <1>4 DEF Keys

LEMMA IndicesFinite == IsFiniteSet(Indices)
BY FilesAssumption, FS_Interval DEF Indices

\* A listing of some files has each of them once.
LEMMA ListingOf ==
  ASSUME NEW S \in SUBSET Indices
  PROVE  /\ SetToSeq(S) \in Seq(Indices)
         /\ Range(SetToSeq(S)) = S
         /\ IsInjective(SetToSeq(S))
<1> DEFINE n == Cardinality(S)
<1>1. IsFiniteSet(S) /\ n \in Nat
  BY IndicesFinite, FS_Subset, FS_CardinalityType
<1>2. PICK k \in Nat : ExistsBijection(1..k, S)
  BY <1>1, FS_NatBijection
<1>3. k = n
  BY <1>2, FS_CountingElements
<1>4. \E f \in [1..n -> S] : IsInjective(f)
  BY <1>2, <1>3 DEF ExistsBijection, Bijection, Injection
<1>5. SetToSeq(S) \in [1..n -> S] /\ IsInjective(SetToSeq(S))
  BY <1>4 DEF SetToSeq
<1>6. SetToSeq(S) \in Injection(1..n, S)
  BY <1>5 DEF Injection
<1>7. Cardinality(1..n) = n
  BY <1>1, FS_Interval
<1>8. SetToSeq(S) \in Surjection(1..n, S)
  BY <1>1, <1>6, <1>7, FS_Injection
<1>9. Range(SetToSeq(S)) = S
  BY <1>5, <1>8 DEF Surjection, Range
<1>10. SetToSeq(S) \in Seq(S)
  BY <1>1, <1>5
<1> QED
  BY <1>5, <1>9, <1>10

\* Two lists of different files, one after the other.
LEMMA JoinOf ==
  ASSUME NEW s \in Seq(Indices), NEW t \in Seq(Indices),
         IsInjective(s), IsInjective(t), Range(s) \cap Range(t) = {}
  PROVE  /\ s \o t \in Seq(Indices)
         /\ Len(s \o t) = Len(s) + Len(t)
         /\ \A m \in 1 .. Len(s) + Len(t) :
               (s \o t)[m] = IF m <= Len(s) THEN s[m] ELSE t[m - Len(s)]
         /\ Range(s \o t) = Range(s) \cup Range(t)
         /\ IsInjective(s \o t)
<1> DEFINE S == Range(s)
           T == Range(t)
<1>1. /\ s \in Seq(Indices) /\ Range(s) = S /\ IsInjective(s)
      /\ t \in Seq(Indices) /\ Range(t) = T /\ IsInjective(t) /\ S \cap T = {}
  OBVIOUS
<1> HIDE DEF S, T
<1>2. /\ s \o t \in Seq(Indices) /\ Len(s \o t) = Len(s) + Len(t)
      /\ \A m \in 1 .. Len(s) + Len(t) :
           (s \o t)[m] = IF m <= Len(s) THEN s[m] ELSE t[m - Len(s)]
  BY <1>1, ConcatProperties
<1>3. \A m \in 1 .. Len(s) : s[m] \in S
  BY <1>1 DEF Range
<1>4. \A m \in 1 .. Len(t) : t[m] \in T
  BY <1>1 DEF Range
<1>5. IsInjective(s \o t)
  <2> SUFFICES ASSUME NEW a \in 1 .. Len(s) + Len(t), NEW b \in 1 .. Len(s) + Len(t),
                      (s \o t)[a] = (s \o t)[b]
               PROVE  a = b
    BY <1>2 DEF IsInjective
  <2>0. Len(s) \in Nat /\ Len(t) \in Nat
    BY <1>1
  <2>1. CASE a <= Len(s) /\ b <= Len(s)
    BY <1>1, <1>2, <2>0, <2>1 DEF IsInjective
  <2>2. CASE ~(a <= Len(s)) /\ ~(b <= Len(s))
    <3>1. t[a - Len(s)] = t[b - Len(s)] /\ a - Len(s) \in 1 .. Len(t) /\ b - Len(s) \in 1 .. Len(t)
      BY <1>2, <2>0, <2>2
    <3>2. a - Len(s) = b - Len(s)
      BY <1>1, <3>1 DEF IsInjective
    <3> QED BY <2>0, <3>2
  <2>3. CASE a <= Len(s) /\ ~(b <= Len(s))
    <3>1. (s \o t)[a] \in S /\ (s \o t)[b] \in T
      BY <1>2, <1>3, <1>4, <2>0, <2>3
    <3> QED BY <1>1, <3>1
  <2>4. CASE ~(a <= Len(s)) /\ b <= Len(s)
    <3>1. (s \o t)[b] \in S /\ (s \o t)[a] \in T
      BY <1>2, <1>3, <1>4, <2>0, <2>4
    <3> QED BY <1>1, <3>1
  <2> QED BY <2>1, <2>2, <2>3, <2>4
<1>6. Range(s \o t) = S \cup T
  <2>1. ASSUME NEW x \in Range(s \o t) PROVE x \in S \cup T
    BY <1>1, <1>2, <1>3, <1>4, <2>1 DEF Range
  <2>2. ASSUME NEW x \in S PROVE x \in Range(s \o t)
    <3>1. PICK m \in 1 .. Len(s) : s[m] = x
      BY <1>1, <2>2 DEF Range
    <3>2. m \in 1 .. Len(s) + Len(t) /\ (s \o t)[m] = x
      BY <1>1, <1>2, <3>1
    <3> QED BY <1>2, <3>2 DEF Range
  <2>3. ASSUME NEW x \in T PROVE x \in Range(s \o t)
    <3>1. PICK m \in 1 .. Len(t) : t[m] = x
      BY <1>1, <2>3 DEF Range
    <3>2. Len(s) + m \in 1 .. Len(s) + Len(t) /\ (s \o t)[Len(s) + m] = x
      BY <1>1, <1>2, <3>1
    <3> QED BY <1>2, <3>2 DEF Range
  <2> QED BY <2>1, <2>2, <2>3
<1> QED
  BY <1>2, <1>5, <1>6 DEF S, T

\* Two listings of different files.
LEMMA ListingsOf ==
  ASSUME NEW S \in SUBSET Indices, NEW T \in SUBSET Indices, S \cap T = {}
  PROVE  /\ SetToSeq(S) \o SetToSeq(T) \in Seq(Indices)
         /\ Range(SetToSeq(S) \o SetToSeq(T)) = S \cup T
         /\ IsInjective(SetToSeq(S) \o SetToSeq(T))
<1>1. /\ SetToSeq(S) \in Seq(Indices) /\ Range(SetToSeq(S)) = S /\ IsInjective(SetToSeq(S))
      /\ SetToSeq(T) \in Seq(Indices) /\ Range(SetToSeq(T)) = T /\ IsInjective(SetToSeq(T))
  BY ListingOf
<1> QED
  BY <1>1, JoinOf

\* Contents, what is missing and what is cut off are told apart.
LEMMA ObjectsDiffer ==
  /\ \A c \in Objects : c \in [size : Nat, body : Bodies]
  /\ \A c \in Contents : c \in Objects /\ c # Nothing /\ c # Partial
  /\ Nothing \in Objects /\ Partial \in Objects /\ Nothing # Partial
  /\ Nothing.size = 0 /\ Partial.size = 0
<1>1. Nothing # Partial /\ Nothing.size = 0 /\ Partial.size = 0
  BY DEF Nothing, Partial
<1>2. \A c \in Contents : c # Nothing /\ c # Partial
  BY PartialsAssumption
<1>3. Nothing \in [size : Nat, body : Bodies] /\ Partial \in [size : Nat, body : Bodies]
  <2>1. Nothing.body \in Bodies /\ Partial.body \in Bodies
    BY DEF Bodies, Objects
  <2> QED BY <2>1 DEF Nothing, Partial
<1>4. ASSUME NEW c \in Contents PROVE c \in [size : Nat, body : Bodies]
  <2>1. c.body \in Bodies
    BY DEF Bodies, Objects
  <2>2. c \in [size : Nat, body : STRING]
    BY ContentsAssumption
  <2> QED BY <2>1, <2>2
<1> QED
  BY <1>1, <1>2, <1>3, <1>4 DEF Objects

\* What a digest is.
LEMMA HashType == ASSUME NEW c \in Objects PROVE StoredHash(c) \in Hashes
<1>1. c \in [size : Nat, body : Bodies] /\ Nothing.body \in Bodies
  BY ObjectsDiffer
<1> DEFINE n == (c.size + MultipartChunksize - 1) \div MultipartChunksize
<1>2. n \in Nat /\ MultipartChunksize \in Nat
  BY <1>1, NumbersAssumption
<1>3. StoredHash(c) \in {NoHash, generate_md5_hash(c), DigestOfParts(c, n, MultipartChunksize)}
  BY DEF StoredHash
<1>4. NoHash \in Hashes
  BY <1>1 DEF NoHash, Hashes
<1> HIDE DEF n
<1>5. generate_md5_hash(c) \in Hashes /\ DigestOfParts(c, n, MultipartChunksize) \in Hashes
  BY <1>1, <1>2 DEF Hashes, generate_md5_hash, DigestOfParts
<1> QED
  BY <1>3, <1>4, <1>5

\* A digest tells contents of one size apart, unless there is none.
LEMMA HashTells ==
  ASSUME NEW c \in Objects, NEW d \in Objects, c.size = d.size
  PROVE  /\ FileHash(c) = StoredHash(d) => c = d
         /\ StoredHash(c) = StoredHash(d) /\ StoredHash(c) # NoHash => c = d
<1>1. c \in [size : Nat, body : Bodies] /\ d \in [size : Nat, body : Bodies]
  BY ObjectsDiffer
<1>2. FileHash(c) = StoredHash(d) => c.body = d.body
  BY DEF FileHash, StoredHash, NoHash, generate_md5_hash, md5_multipart, DigestOfParts
<1>3. StoredHash(c) = StoredHash(d) /\ StoredHash(c) # NoHash => c.body = d.body
  BY DEF StoredHash, NoHash, generate_md5_hash, DigestOfParts
<1>4. c.body = d.body => c = d
  BY <1>1
<1> QED
  BY <1>2, <1>3, <1>4

-----------------------------------------------------------------------------
(* The type invariant                                                      *)

LEMMA TypeInit == Init => TypeOK
<1> SUFFICES ASSUME Init PROVE TypeOK
  OBVIOUS
<1>1. PICK s \in Scenarios :
         /\ disk = s.disk
         /\ bucket = [k \in Keys |-> IF k \in DOMAIN s.bucket THEN s.bucket[k] ELSE Nothing]
  BY DEF Init
<1>2. disk \in [Indices -> Objects]
  BY <1>1, ScenariosAssumption DEF Objects
<1>3. bucket \in [Keys -> Objects]
  <2>1. s.bucket \in [DOMAIN s.bucket -> Objects]
    BY ScenariosAssumption
  <2> QED BY <1>1, <2>1, ObjectsDiffer
<1>4. call \in Calls /\ task \in [Indices -> Tasks]
  BY NumbersAssumption DEF Init, Calls, Kinds, Tasks, NoTask
<1>5. manifest \in Seq(ManifestObjects) /\ faults \in 0 .. MaxFaults
      /\ changed \subseteq Keys \union {ManifestFile}
  BY FaultsAssumption DEF Init
<1> QED
  BY <1>2, <1>3, <1>4, <1>5 DEF Init, TypeOK

\* The entries that are read from the storage for a list of files.
LEMMA EntriesType ==
  ASSUME TypeOK, NEW files \in Seq(Indices)
  PROVE  /\ Entries(files) \in Seq(ManifestObjects)
         /\ Len(Entries(files)) = Len(files)
         /\ \A m \in 1 .. Len(files) : Entries(files)[m] = Entry(files[m], bucket[Key(files[m])])
<1>1. ASSUME NEW m \in 1 .. Len(files)
      PROVE  Entry(files[m], bucket[Key(files[m])]) \in ManifestObjects
  <2>1. files[m] \in Indices
    OBVIOUS
  <2>2. Key(files[m]) \in Keys /\ bucket[Key(files[m])] \in Objects
    BY <2>1, KeysDiffer DEF TypeOK
  <2>3. bucket[Key(files[m])].size \in Nat
    BY <2>2, ObjectsDiffer
  <2> QED
    BY <2>2, <2>3, HashType DEF Entry, ManifestObjects
<1>2. Entries(files) \in [1 .. Len(files) -> ManifestObjects]
  BY <1>1 DEF Entries
<1>3. Entries(files) \in Seq(ManifestObjects) /\ Len(Entries(files)) = Len(files)
  BY <1>2
<1> QED
  BY <1>3 DEF Entries

\* Entries that are put after others.
LEMMA Appended ==
  ASSUME NEW s \in Seq(ManifestObjects), NEW t \in Seq(ManifestObjects)
  PROVE  /\ s \o t \in Seq(ManifestObjects) /\ Len(s \o t) = Len(s) + Len(t)
         /\ \A m \in 1 .. Len(s) + Len(t) :
               (s \o t)[m] = IF m <= Len(s) THEN s[m] ELSE t[m - Len(s)]
BY ConcatProperties

\* The chunk is a part of the list.
LEMMA ChunkOf ==
  ASSUME TypeOK
  PROVE  /\ ChunkEnd \in Nat /\ ChunkEnd <= Len(call.files)
         /\ Chunk \subseteq Range(call.files) /\ Range(call.files) \subseteq Indices
         /\ ChunkInOrder \in Seq(Indices)
         /\ Len(ChunkInOrder) = IF call.next < ChunkEnd THEN ChunkEnd - call.next ELSE 0
         /\ \A m \in 1 .. Len(ChunkInOrder) : ChunkInOrder[m] = call.files[call.next + m]
<1>1. call.files \in Seq(Indices) /\ call.next \in Nat
  BY DEF TypeOK, Calls
<1>2. ChunkEnd \in Nat /\ ChunkEnd <= Len(call.files)
  BY <1>1, NumbersAssumption DEF ChunkEnd
<1>3. Chunk \subseteq Range(call.files) /\ Range(call.files) \subseteq Indices
  BY <1>1, <1>2 DEF Chunk, Range
<1>4. /\ ChunkInOrder \in Seq(Indices)
      /\ Len(ChunkInOrder) = IF call.next < ChunkEnd THEN ChunkEnd - call.next ELSE 0
      /\ \A m \in 1 .. Len(ChunkInOrder) : ChunkInOrder[m] = call.files[call.next + m]
  <2> DEFINE first == call.next + 1
  <2>1. first \in Int /\ ChunkEnd \in Int /\ \A m \in first .. ChunkEnd : call.files[m] \in Indices
    BY <1>1, <1>2
  <2>2. /\ ChunkInOrder \in Seq(Indices)
        /\ Len(ChunkInOrder) = IF first <= ChunkEnd THEN ChunkEnd - first + 1 ELSE 0
        /\ \A m \in 1 .. ChunkEnd - first + 1 : ChunkInOrder[m] = call.files[first + m - 1]
    BY <2>1, SubSeqProperties DEF ChunkInOrder
  <2>3. ASSUME NEW m \in 1 .. Len(ChunkInOrder) PROVE ChunkInOrder[m] = call.files[call.next + m]
    <3>1. m \in 1 .. ChunkEnd - first + 1 /\ first + m - 1 = call.next + m
      BY <1>1, <1>2, <2>2
    <3> QED BY <2>2, <3>1
  <2> QED BY <1>1, <1>2, <2>2, <2>3
<1> QED
  BY <1>2, <1>3, <1>4

\* The states from which a transfer takes a step.
Running == {"ready", "opening", "opened", "moving", "moved", "error"}

\* The transfers of a call that has returned are done: no thread is at work.
LEMMA ReturnedDone ==
  ASSUME TransfersInvariant, call.pc \in Returned
  PROVE  ThreadsDone /\ \A i \in Indices : task[i].pc \in {"none", "done"}
<1>1. call.files \in Seq(Indices) /\ call.next \in Nat
  BY DEF TransfersInvariant, TypeOK, Calls
<1>2. ASSUME NEW i \in Indices PROVE task[i].pc \in {"none", "done"}
  <2>1. CASE i \in Range(call.files)
    <3>1. PICK m \in 1 .. Len(call.files) : call.files[m] = i
      BY <1>1, <2>1 DEF Range
    <3>2. m <= call.next
      BY <1>1, <3>1 DEF TransfersInvariant, ChunksInOrder
    <3> QED BY <1>1, <3>1, <3>2 DEF TransfersInvariant, ChunksInOrder
  <2>2. CASE i \notin Range(call.files)
    BY <2>2 DEF TransfersInvariant, ChunksInOrder
  <2> QED BY <2>1, <2>2
<1> QED
  BY <1>2 DEF ThreadsDone, InThread

\* A transfer runs only for a file of the call, while the call does, or after it has
\* raised; when its storage is left, only in a thread.
LEMMA TaskRuns ==
  ASSUME TransfersInvariant, NEW i \in Indices, TaskStep(i)
  PROVE  /\ task[i].pc \in Running
         /\ i \in Range(call.files)
         /\ call.kind # "none"
         /\ call.pc \in {"chunk", "gather", "raised", "left"}
         /\ call.pc = "left" => InThread(i)
         /\ UNCHANGED <<provider, md5, call, manifest, changed>>
<1>1. task[i].pc \in Running
  BY DEF TaskStep, StartTransfer, Open, Write, Move, Answer, TransferFails, Retry, Running
<1>2. UNCHANGED <<provider, md5, call, manifest, changed>>
  BY DEF TaskStep, StartTransfer, Open, Write, Move, Answer, TransferFails, Retry
<1>3. LoopRuns \/ InThread(i)
  BY DEF TaskStep, StartTransfer, Open, Write, Move, Answer, TransferFails, Retry, Proceeds
<1>4. i \in Range(call.files)
  BY <1>1 DEF TransfersInvariant, ChunksInOrder, Running
<1>5. call.files \in Seq(Indices) /\ call.next \in Nat /\ call \in Calls
  BY DEF TransfersInvariant, TypeOK, Calls
<1>6. call.pc # "open"
  BY <1>4, <1>5 DEF TransfersInvariant, ChunksInOrder, Range
<1>7. call.pc \notin Returned
  BY <1>1, ReturnedDone DEF Running
<1>8. call.pc # "failed" /\ (call.pc = "left" => InThread(i))
  BY <1>3 DEF TransfersInvariant, NoThreads, ThreadsDone, LoopRuns, Ended
<1> QED
  BY <1>1, <1>2, <1>4, <1>5, <1>6, <1>7, <1>8
     DEF TransfersInvariant, ChunksInOrder, Calls, Returned, Entered, Ended

\* The steps of one transfer.
LEMMA TaskStepType == ASSUME TransfersInvariant, NEW i \in Indices, TaskStep(i) PROVE TypeOK'
<1> USE DEF TypeOK
<1> TypeOK
  BY DEF TransfersInvariant
<1>0. /\ Key(i) \in Keys /\ task[i] \in Tasks /\ disk[i] \in Objects /\ bucket[Key(i)] \in Objects
      /\ Nothing \in Objects /\ Partial \in Objects /\ call.kind \in Kinds
  BY KeysDiffer, ObjectsDiffer DEF Calls
<1>1. \A pc \in {"opening", "opened", "moving", "moved", "error", "done"} :
         [task EXCEPT ![i].pc = pc] \in [Indices -> Tasks]
  <2>1. \A pc \in {"opening", "opened", "moving", "moved", "error", "done"} :
           [task[i] EXCEPT !.pc = pc] \in Tasks
    BY <1>0 DEF Tasks
  <2> QED BY <2>1
<1>2. CASE StartTransfer(i)
  <2>1. task' \in [Indices -> Tasks]
    BY <1>1, <1>2 DEF StartTransfer, Set
  <2> QED BY <1>0, <1>2, <2>1 DEF StartTransfer
<1>7. CASE Open(i)
  <2>1. task' \in [Indices -> Tasks]
    BY <1>1, <1>7 DEF Open, Set
  <2> QED BY <1>0, <1>7, <2>1 DEF Open
<1>8. CASE Write(i)
  BY <1>1, <1>8 DEF Write, Set
<1>3. CASE Move(i)
  <2>1. task' \in [Indices -> Tasks]
    BY <1>1, <1>3 DEF Move, Set
  <2>2. disk' \in [Indices -> Objects]
    BY <1>0, <1>3 DEF Move
  <2>3. bucket' \in [Keys -> Objects]
    <3>1. CASE call.kind \in Uploads \union {"delete", "download"}
      BY <1>0, <1>3, <3>1 DEF Move, Uploads
    <3> QED BY <1>0, <3>1, TaskRuns DEF Kinds
  <2> QED BY <1>3, <2>1, <2>2, <2>3 DEF Move
<1>4. CASE Answer(i)
  BY <1>1, <1>4 DEF Answer, Set
<1>5. CASE TransferFails(i)
  BY <1>1, <1>5, FaultsAssumption DEF TransferFails, Set
<1>6. CASE Retry(i)
  <2>1. task[i].attempts + 1 \in 0 .. MaxAttempts \/ ~(task[i].attempts < Attempts)
    BY <1>0, NumbersAssumption DEF Attempts, Tasks
  <2>2. task' \in [Indices -> Tasks]
    BY <1>0, <1>6, <2>1 DEF Retry, Tasks
  <2> QED BY <1>6, <2>2 DEF Retry
<1> QED
  BY <1>2, <1>3, <1>4, <1>5, <1>6, <1>7, <1>8 DEF TaskStep

-----------------------------------------------------------------------------
(* A step of one transfer keeps the invariant.                             *)

\* What the driver and the options decide does not change.
LEMMA DriverFixed ==
  ASSUME UNCHANGED <<provider, md5>>
  PROVE  /\ \A c : StoredHash(c)' = StoredHash(c)
         /\ UsesHashes' = UsesHashes
         /\ Attempts' = Attempts
BY DEF StoredHash, UsesHashes, Attempts, generate_md5_hash, DigestOfParts

\* A transfer of file i that keeps to the rules for i leaves the others alone.
LEMMA OneTransfer ==
  ASSUME TransfersInvariant, NEW i \in Indices, TaskStep(i),
         \A j \in Indices \ {i} : /\ task'[j] = task[j] /\ disk'[j] = disk[j]
                                  /\ bucket'[Key(j)] = bucket[Key(j)],
         call.kind # "download" => disk' = disk,
         faults <= faults', task'[i].pc # "none",
         TransferDid(i)', Counted(i)'
  PROVE  TransfersInvariant'
<1>0. /\ TypeOK' /\ TypeOK
      /\ task[i].pc \in Running
      /\ i \in Range(call.files) /\ call.pc \in {"chunk", "gather", "raised", "left"}
      /\ UNCHANGED <<provider, md5, call, manifest, changed>>
  BY TaskStepType, TaskRuns DEF TransfersInvariant
<1>1. IsFiniteSet(changed)'
  BY <1>0 DEF TransfersInvariant
<1>2. ChunksInOrder'
  <2>1. \A m \in DOMAIN call.files : m <= call.next => call.files[m] \in Indices \ {i}
    <3>1. \A m \in DOMAIN call.files : call.files[m] \in Indices
      BY <1>0 DEF TypeOK, Calls
    <3> QED BY <1>0, <3>1 DEF TransfersInvariant, ChunksInOrder, Running
  <2>2. \A j \in Indices : task'[j].pc # "none" => j \in Range(call.files)
    BY <1>0 DEF TransfersInvariant, ChunksInOrder
  <2>3. \A m \in DOMAIN call.files : m <= call.next => task'[call.files[m]].pc = "done"
    BY <2>1 DEF TransfersInvariant, ChunksInOrder
  <2> QED BY <1>0, <2>2, <2>3 DEF TransfersInvariant, ChunksInOrder
<1>3. DiskThere'
  BY <1>0 DEF TransfersInvariant, DiskThere
<1>4. TransfersDone'
  <2>1. ASSUME NEW j \in Indices \ {i}, TransferDid(j) PROVE TransferDid(j)'
    BY <1>0, <2>1 DEF TransferDid
  <2>2. ASSUME NEW j \in Indices \ {i}, LeftOut(j) PROVE LeftOut(j)'
    BY <1>0, <2>2, DriverFixed DEF LeftOut
  <2> QED BY <1>0, <2>1, <2>2 DEF TransfersInvariant, TransfersDone
<1>5. ManifestFollows'
  <2>1. CASE call.kind \in Uploads /\ call.pc \in {"chunk", "gather", "returned"}
    <3>1. /\ Len(manifest) = IF call.next < Len(call.files) THEN call.next ELSE Len(call.files)
          /\ \A m \in DOMAIN manifest : EntryOf(manifest[m], call.files[m])
      BY <2>1 DEF TransfersInvariant, ManifestFollows
    <3>2. call.next \in Nat /\ call.files \in Seq(Indices) /\ manifest \in Seq(ManifestObjects)
      BY <1>0 DEF TypeOK, Calls
    <3>3. ASSUME NEW m \in DOMAIN manifest PROVE EntryOf(manifest[m], call.files[m])'
      <4>1. m \in DOMAIN call.files /\ m <= call.next
        BY <3>1, <3>2
      <4>2. call.files[m] \in Indices \ {i}
        BY <1>0, <3>2, <4>1 DEF TransfersInvariant, ChunksInOrder, Running
      <4> QED
        BY <1>0, <3>1, <4>2, DriverFixed DEF EntryOf, Entry
    <3> QED BY <1>0, <2>1, <3>1, <3>3 DEF TransfersInvariant, ManifestFollows, Entered
  <2> QED BY <1>0, <2>1 DEF TransfersInvariant, ManifestFollows, Entered
<1>6. AttemptsCounted'
  <2>1. ASSUME NEW j \in Indices \ {i} PROVE Counted(j)'
    <3>1. faults \in Nat /\ faults' \in Nat /\ task[j].attempts \in Nat
      BY <1>0, FaultsAssumption DEF TypeOK, Tasks
    <3>2. Counted(j)
      BY DEF TransfersInvariant, AttemptsCounted
    <3> QED BY <1>0, <3>1, <3>2, DriverFixed DEF Counted, Gone
  <2> QED BY <2>1 DEF AttemptsCounted
<1>7. RaisedByTask'
  <2>1. call.files # <<>>
    BY <1>0 DEF Range, TypeOK
  <2>2. \A j \in Indices : task[j].pc = "failed" => task'[j].pc = "failed"
    BY <1>0 DEF Running
  <2>3. Range(call.files) \subseteq Indices
    BY <1>0, ChunkOf
  <2> QED BY <1>0, <2>1, <2>2, <2>3 DEF TransfersInvariant, RaisedByTask
<1>8. NoThreads' /\ VerifyTells'
  BY <1>0 DEF NoThreads, VerifyTells, Ended
<1> QED
  BY <1>0, <1>1, <1>2, <1>3, <1>4, <1>5, <1>6, <1>7, <1>8 DEF TransfersInvariant

\* What is gone stays gone, and a file or object is only written by its own transfer.
LEMMA TransferWrites ==
  ASSUME TransfersInvariant, NEW i \in Indices, TaskStep(i)
  PROVE  /\ \A j \in Indices \ {i} : /\ task'[j] = task[j] /\ disk'[j] = disk[j]
                                     /\ bucket'[Key(j)] = bucket[Key(j)]
         /\ call.kind # "download" => disk' = disk
         /\ Gone(i) => Gone(i)'
<1> USE DEF TypeOK
<1>0. /\ TypeOK /\ Key(i) \in Keys /\ \A j \in Indices \ {i} : Key(j) \in Keys /\ Key(j) # Key(i)
      /\ call.kind \in Kinds \ {"none"} /\ UNCHANGED <<call, provider>>
  BY KeysDiffer, TaskRuns DEF TransfersInvariant, Calls
<1>1. CASE StartTransfer(i)
  <2>1. task' = [task EXCEPT ![i].pc = IF Gone(i) THEN "error"
                                       ELSE IF ThroughAiofiles THEN "opening" ELSE "moving"]
    BY <1>1 DEF StartTransfer, Set
  <2>2. \A j \in Indices \ {i} : /\ task'[j] = task[j] /\ disk'[j] = disk[j]
                                 /\ bucket'[Key(j)] = bucket[Key(j)]
    BY <1>0, <1>1, <2>1 DEF StartTransfer
  <2>3. call.kind # "download" => disk' = disk
    BY <1>0, <1>1 DEF StartTransfer
  <2>4. Gone(i) => bucket'[Key(i)] = bucket[Key(i)]
    BY <1>0, <1>1 DEF StartTransfer, Gone, Uploads
  <2> QED BY <1>0, <2>2, <2>3, <2>4 DEF Gone
<1>2. CASE Move(i)
  <2>1. task' = [task EXCEPT ![i].pc = IF call.kind = "download" THEN "done" ELSE "moved"]
    BY <1>2 DEF Move, Set
  <2>2. \A j \in Indices \ {i} : /\ task'[j] = task[j] /\ disk'[j] = disk[j]
                                 /\ bucket'[Key(j)] = bucket[Key(j)]
    BY <1>0, <1>2, <2>1 DEF Move
  <2>3. call.kind # "download" => disk' = disk
    BY <1>0, <1>2 DEF Move
  <2>4. Gone(i) => bucket'[Key(i)] = Nothing
    BY <1>0, <1>2 DEF Move, Gone, Uploads
  <2> QED BY <1>0, <2>2, <2>3, <2>4 DEF Gone
<1>5. CASE Open(i)
  <2>1. task' = [task EXCEPT ![i].pc = "opened"]
    BY <1>5 DEF Open, Set
  <2>2. \A j \in Indices \ {i} : /\ task'[j] = task[j] /\ disk'[j] = disk[j]
                                 /\ bucket'[Key(j)] = bucket[Key(j)]
    BY <1>0, <1>5, <2>1 DEF Open
  <2>3. call.kind # "download" => disk' = disk
    BY <1>0, <1>5 DEF Open
  <2>4. Gone(i) => bucket'[Key(i)] = bucket[Key(i)]
    BY <1>0, <1>5 DEF Open, Gone, Uploads
  <2> QED BY <1>0, <2>2, <2>3, <2>4 DEF Gone
<1>3. CASE Write(i) \/ Answer(i) \/ TransferFails(i)
  <2>1. UNCHANGED <<disk, bucket>>
    BY <1>3 DEF Write, Answer, TransferFails
  <2>2. \A j \in Indices \ {i} : task'[j] = task[j]
    BY <1>0, <1>3 DEF Write, Answer, TransferFails, Set
  <2> QED BY <1>0, <2>1, <2>2 DEF Gone
<1>4. CASE Retry(i)
  <2>1. UNCHANGED <<disk, bucket>>
    BY <1>4 DEF Retry
  <2>2. \A j \in Indices \ {i} : task'[j] = task[j]
    BY <1>0, <1>4 DEF Retry
  <2> QED BY <1>0, <2>1, <2>2 DEF Gone
<1> QED
  BY <1>1, <1>2, <1>3, <1>4, <1>5 DEF TaskStep

\* The steps of the transfer of file i.
LEMMA TaskStepKeeps ==
  ASSUME TransfersInvariant, NEW i \in Indices, TaskStep(i) PROVE TransfersInvariant'
<1>0. /\ TypeOK /\ TypeOK' /\ Key(i) \in Keys /\ call.kind \in Kinds \ {"none"}
      /\ UNCHANGED <<provider, md5, call, manifest, changed>>
      /\ task[i] \in Tasks /\ TransferDid(i) /\ Counted(i)
      /\ faults \in Nat /\ faults' \in Nat /\ task[i].attempts \in Nat
  BY KeysDiffer, TaskRuns, TaskStepType, FaultsAssumption
     DEF TransfersInvariant, TransfersDone, AttemptsCounted, TypeOK, Calls, Tasks
<1>1. Attempts' = Attempts /\ Attempts \in Nat \ {0}
  BY <1>0, DriverFixed, NumbersAssumption DEF Attempts
<1>2. Gone(i) => Gone(i)'
  BY TransferWrites
<1>3. CASE StartTransfer(i)
  <2>1. /\ task[i].pc = "ready"
        /\ task'[i].pc \in {"error", "opening", "moving"} /\ (task'[i].pc = "error" <=> Gone(i))
        /\ task'[i].attempts = task[i].attempts /\ faults' = faults
    BY <1>0, <1>3 DEF StartTransfer, Set, TypeOK, Tasks
  <2>2. call.kind = "download" => bucket'[Key(i)] = bucket[Key(i)]
    BY <1>0, <1>3 DEF StartTransfer, TypeOK, Uploads
  <2>3. TransferDid(i)'
    BY <1>0, <2>1, <2>2 DEF TransferDid, Gone
  <2>4. Counted(i)'
    BY <1>0, <1>1, <1>2, <2>1 DEF Counted
  <2> QED
    BY <2>1, <2>3, <2>4, <1>0, TransferWrites, OneTransfer
<1>8. CASE Open(i) \/ Write(i)
  <2>1. /\ \/ task[i].pc = "opening" /\ task'[i].pc = "opened"
           \/ task[i].pc = "opened" /\ task'[i].pc = "moving"
        /\ task'[i].attempts = task[i].attempts /\ faults' = faults
    BY <1>0, <1>8 DEF Open, Write, Set, TypeOK, Tasks
  <2>2. call.kind = "download" => bucket'[Key(i)] = bucket[Key(i)]
    BY <1>0, <1>8 DEF Open, Write, TypeOK, Uploads
  <2>3. TransferDid(i)'
    BY <1>0, <2>1, <2>2 DEF TransferDid
  <2>4. Counted(i)'
    BY <1>0, <1>1, <1>2, <2>1 DEF Counted
  <2> QED
    BY <2>1, <2>3, <2>4, <1>0, TransferWrites, OneTransfer
<1>4. CASE Move(i)
  <2>1. /\ task[i].pc = "moving"
        /\ task'[i].pc = (IF call.kind = "download" THEN "done" ELSE "moved")
        /\ task'[i].attempts = task[i].attempts /\ faults' = faults
    BY <1>0, <1>4 DEF Move, Set, TypeOK, Tasks
  <2>2. /\ call.kind \in Uploads => bucket'[Key(i)] = disk[i] /\ disk'[i] = disk[i]
        /\ call.kind = "delete" => bucket'[Key(i)] = Nothing
        /\ call.kind = "download" => bucket'[Key(i)] = bucket[Key(i)] /\ disk'[i] = bucket[Key(i)]
    BY <1>0, <1>4 DEF Move, TypeOK, Uploads
  <2>3. TransferDid(i)'
    BY <1>0, <2>1, <2>2 DEF TransferDid, Uploads
  <2>4. Counted(i)'
    BY <1>0, <1>1, <1>2, <2>1 DEF Counted
  <2> QED
    BY <2>1, <2>3, <2>4, <1>0, TransferWrites, OneTransfer
<1>5. CASE Answer(i)
  <2>1. /\ task[i].pc = "moved" /\ task'[i].pc = "done"
        /\ task'[i].attempts = task[i].attempts /\ UNCHANGED <<faults, disk, bucket>>
    BY <1>0, <1>5 DEF Answer, Set, TypeOK, Tasks
  <2>2. TransferDid(i)' /\ Counted(i)'
    BY <1>0, <1>1, <2>1 DEF TransferDid, Counted
  <2> QED
    BY <2>1, <2>2, <1>0, TransferWrites, OneTransfer
<1>6. CASE TransferFails(i)
  <2>1. /\ task[i].pc \in {"opening", "moving", "moved"} /\ task'[i].pc = "error"
        /\ task'[i].attempts = task[i].attempts /\ faults' = faults + 1
    BY <1>0, <1>6 DEF TransferFails, Set, TypeOK, Tasks
  <2>2. TransferDid(i)'
    BY <2>1 DEF TransferDid
  <2>3. Counted(i)'
    BY <1>0, <1>1, <1>2, <2>1 DEF Counted
  <2> QED
    BY <2>1, <2>2, <2>3, <1>0, TransferWrites, OneTransfer
<1>7. CASE Retry(i)
  <2>1. /\ task[i].pc = "error" /\ UNCHANGED faults
        /\ task'[i] = IF task[i].attempts < Attempts
                      THEN [pc |-> "ready", attempts |-> task[i].attempts + 1]
                      ELSE [task[i] EXCEPT !.pc = "failed"]
    BY <1>0, <1>7 DEF Retry, TypeOK
  <2>2. \/ task[i].attempts < Attempts /\ task'[i].pc = "ready"
                                       /\ task'[i].attempts = task[i].attempts + 1
        \/ ~(task[i].attempts < Attempts) /\ task'[i].pc = "failed"
                                          /\ task'[i].attempts = task[i].attempts
    BY <1>0, <2>1 DEF Tasks
  <2>3. TransferDid(i)'
    BY <2>2 DEF TransferDid
  <2>4. Counted(i)'
    BY <1>0, <1>1, <1>2, <2>1, <2>2 DEF Counted
  <2>5. faults <= faults' /\ task'[i].pc # "none"
    BY <1>0, <2>1, <2>2
  <2> QED
    BY <2>3, <2>4, <2>5, TransferWrites, OneTransfer
<1> QED
  BY <1>3, <1>4, <1>5, <1>6, <1>7, <1>8 DEF TaskStep

-----------------------------------------------------------------------------
(* The steps of the call keep the invariant.                               *)

\* Before the call there are no tasks and no entries.
LEMMA NotBegun ==
  ASSUME TransfersInvariant, call.pc = "open"
  PROVE  /\ call = [kind |-> "none", pc |-> "open", files |-> <<>>, next |-> 0]
         /\ manifest = <<>> /\ changed = {}
         /\ \A i \in Indices : task[i].pc = "none"
         /\ disk \in [Indices -> Contents]
<1>1. call = [kind |-> "none", pc |-> "open", files |-> <<>>, next |-> 0]
  BY DEF TransfersInvariant, ChunksInOrder
<1>2. Range(call.files) = {}
  BY <1>1 DEF Range
<1> QED
  BY <1>1, <1>2 DEF TransfersInvariant, ChunksInOrder, ManifestFollows, DiskThere, Entered

\* A call begins with a list of files, and with the others in order.
LEMMA BeginKeeps ==
  ASSUME TransfersInvariant, NEW kind \in Kinds \ {"none"}, NEW files \in Seq(Indices),
         Begin(kind, files), IsInjective(files), TypeOK', DiskThere',
         \A i \in Indices \ Range(files) : LeftOut(i)'
  PROVE  TransfersInvariant'
<1>0. /\ call.pc = "open" /\ UNCHANGED <<provider, md5, task, manifest, faults, changed>>
      /\ call' = [call EXCEPT !.kind = kind, !.pc = "chunk", !.files = files]
  BY DEF Begin
<1>1. /\ call = [kind |-> "none", pc |-> "open", files |-> <<>>, next |-> 0]
      /\ manifest = <<>> /\ changed = {}
      /\ \A i \in Indices : task[i].pc = "none"
  BY <1>0, NotBegun
<1>2. call'.kind = kind /\ call'.pc = "chunk" /\ call'.files = files /\ call'.next = 0
  BY <1>0, <1>1
<1>3. ChunksInOrder'
  <2>1. \A m \in DOMAIN files : ~(m <= 0)
    OBVIOUS
  <2> QED BY <1>0, <1>1, <1>2, <2>1 DEF ChunksInOrder, Returned, Entered
<1>4. TransfersDone'
  BY <1>0, <1>1, <1>2 DEF TransfersDone, TransferDid
<1>5. ManifestFollows'
  <2>1. Len(files) \in Nat
    OBVIOUS
  <2>2. manifest' = <<>> /\ changed' = {} /\ Len(manifest') = 0 /\ DOMAIN manifest' = {}
    BY <1>0, <1>1
  <2> QED BY <1>2, <2>1, <2>2 DEF ManifestFollows, Entered
<1>6. AttemptsCounted'
  BY <1>0, <1>1, DriverFixed DEF TransfersInvariant, AttemptsCounted, Counted
<1>7. RaisedByTask' /\ NoThreads' /\ VerifyTells'
  BY <1>2 DEF RaisedByTask, NoThreads, VerifyTells, Ended
<1>8. IsFiniteSet(changed)'
  BY <1>0 DEF TransfersInvariant
<1> QED
  BY <1>3, <1>4, <1>5, <1>6, <1>7, <1>8 DEF TransfersInvariant

\* A differential upload leaves out what the comparison could not tell from the file.
LEMMA BeginUploadKeeps == ASSUME TransfersInvariant, BeginUpload PROVE TransfersInvariant'
<1> DEFINE S == {i \in Indices : NeedsBackup(i)}
           T == {i \in Indices : NeedsReupload(i)}
           files == SetToSeq(S) \o SetToSeq(T)
<1>0. TypeOK /\ Begin("differential", files) /\ UNCHANGED <<disk, bucket>>
  BY DEF TransfersInvariant, BeginUpload
<1>1. files \in Seq(Indices) /\ Range(files) = S \cup T /\ IsInjective(files)
  <2>1. S \cap T = {}
    BY DEF NeedsReupload
  <2> QED BY <2>1, ListingsOf
<1> HIDE DEF files
<1>2. /\ call.pc = "open" /\ UNCHANGED <<provider, md5, task, manifest, faults, changed>>
      /\ call' = [call EXCEPT !.kind = "differential", !.pc = "chunk", !.files = files]
      /\ call'.kind = "differential"
  BY <1>0 DEF Begin, TypeOK, Calls
<1>3. TypeOK'
  BY <1>0, <1>1, <1>2 DEF TypeOK, Calls, Kinds, Uploads
<1>4. disk \in [Indices -> Contents] /\ DiskThere'
  BY <1>0, <1>2, NotBegun DEF DiskThere
<1>5. ASSUME NEW i \in Indices \ Range(files) PROVE LeftOut(i)'
  <2>1. AlreadyBackedUp(i)
    BY <1>1, <1>5 DEF NeedsReupload
  <2>2. disk[i] \in Objects /\ bucket[Key(i)] \in Objects
    BY <1>0, KeysDiffer DEF TypeOK
  <2>3. /\ disk[i].size = bucket[Key(i)].size
        /\ UsesHashes => FileHash(disk[i]) = StoredHash(bucket[Key(i)])
    BY <2>1 DEF AlreadyBackedUp, file_matches_storage, compare_with_manifest, Entry
  <2>4. UsesHashes => bucket[Key(i)] = disk[i]
    BY <2>2, <2>3, HashTells
  <2>5. UsesHashes' = UsesHashes
    BY <1>2, DriverFixed
  <2> QED
    BY <1>0, <1>2, <2>3, <2>4, <2>5 DEF LeftOut
<1> QED
  BY <1>0, <1>1, <1>3, <1>4, <1>5, BeginKeeps DEF Kinds, Uploads

\* The other calls have a rule for every file.
LEMMA BeginOthersKeep ==
  ASSUME TransfersInvariant, BeginFullUpload \/ BeginDownload \/ BeginDelete
  PROVE  TransfersInvariant'
<1>0. TypeOK /\ Nothing \in Objects /\ \A i \in Indices : Key(i) \in Keys
  BY ObjectsDiffer, KeysDiffer DEF TransfersInvariant
<1>1. ASSUME NEW kind \in Kinds, NEW files \in Seq(Indices), Begin(kind, files)
      PROVE  /\ call.pc = "open" /\ UNCHANGED <<provider, md5, task, manifest, faults, changed>>
             /\ call' \in Calls /\ call'.kind = kind
             /\ disk \in [Indices -> Contents]
  <2>1. call.pc = "open" /\ UNCHANGED <<provider, md5, task, manifest, faults, changed>>
    BY <1>1 DEF Begin
  <2>2. call' \in Calls /\ call'.kind = kind
    BY <1>0, <1>1 DEF Begin, TypeOK, Calls
  <2> QED BY <2>1, <2>2, NotBegun
<1>2. CASE BeginFullUpload
  <2>1. SetToSeq(Indices) \in Seq(Indices) /\ Range(SetToSeq(Indices)) = Indices
        /\ IsInjective(SetToSeq(Indices))
    BY ListingOf
  <2>2. /\ Begin("full", SetToSeq(Indices)) /\ UNCHANGED disk /\ "full" \in Kinds \ {"none"}
        /\ bucket' = [k \in Keys |-> IF k = Stray THEN bucket[k] ELSE Nothing]
    BY <1>2 DEF BeginFullUpload, Kinds, Uploads
  <2>3. TypeOK' /\ DiskThere'
    BY <1>0, <1>1, <2>1, <2>2 DEF TypeOK, DiskThere
  <2> QED BY <2>1, <2>2, <2>3, BeginKeeps
<1>3. CASE BeginDownload
  <2>1. SetToSeq(Indices) \in Seq(Indices) /\ Range(SetToSeq(Indices)) = Indices
        /\ IsInjective(SetToSeq(Indices))
    BY ListingOf
  <2>2. /\ Begin("download", SetToSeq(Indices)) /\ UNCHANGED bucket
        /\ disk' = [i \in Indices |-> Nothing] /\ "download" \in Kinds \ {"none"}
    BY <1>3 DEF BeginDownload, Kinds, Uploads
  <2>3. TypeOK' /\ DiskThere'
    BY <1>0, <1>1, <2>1, <2>2 DEF TypeOK, DiskThere
  <2> QED BY <2>1, <2>2, <2>3, BeginKeeps
<1>4. CASE BeginDelete
  <2> DEFINE S == {i \in Indices : bucket[Key(i)].size > 0}
             files == SetToSeq(S)
  <2>1. files \in Seq(Indices) /\ Range(files) = S /\ IsInjective(files)
    BY ListingOf
  <2>2. Begin("delete", files) /\ UNCHANGED <<disk, bucket>> /\ "delete" \in Kinds \ {"none"}
    BY <1>4 DEF BeginDelete, Kinds, Uploads
  <2> HIDE DEF files
  <2>3. TypeOK' /\ DiskThere' /\ call'.kind = "delete"
    BY <1>0, <1>1, <2>1, <2>2 DEF TypeOK, DiskThere
  <2>4. ASSUME NEW i \in Indices \ Range(files) PROVE LeftOut(i)'
    <3>1. ~(bucket[Key(i)].size > 0)
      BY <2>1, <2>4
    <3>2. bucket[Key(i)].size \in Nat
      BY <1>0, ObjectsDiffer DEF TypeOK
    <3> QED BY <2>2, <2>3, <3>1, <3>2 DEF LeftOut
  <2> QED BY <2>1, <2>2, <2>3, <2>4, BeginKeeps
<1> QED
  BY <1>2, <1>3, <1>4

\* Only the state of the call changes: what the invariant says of files, objects and
\* entries stays as it was.
LEMMA OnlyTheCall ==
  ASSUME TransfersInvariant, call' \in Calls, call'.kind = call.kind, call'.files = call.files,
         UNCHANGED <<provider, md5, disk, bucket, task, faults, changed>>
  PROVE  /\ manifest' \in Seq(ManifestObjects) => TypeOK'
         /\ IsFiniteSet(changed)' /\ DiskThere' /\ AttemptsCounted'
         /\ \A i \in Indices : TransferDid(i)' /\ LeftOut(i)' = LeftOut(i)
         /\ \A i \in Indices : \A e : EntryOf(e, i)' = EntryOf(e, i)
         /\ ComparisonRaises' = ComparisonRaises
         /\ ThreadsDone' = ThreadsDone
<1>1. manifest' \in Seq(ManifestObjects) => TypeOK'
  BY DEF TransfersInvariant, TypeOK
<1>2. IsFiniteSet(changed)' /\ DiskThere'
  BY DEF TransfersInvariant, DiskThere
<1>3. AttemptsCounted'
  BY DriverFixed DEF TransfersInvariant, AttemptsCounted, Counted, Gone
<1>4. ASSUME NEW i \in Indices PROVE TransferDid(i)' /\ LeftOut(i)' = LeftOut(i)
  BY DriverFixed DEF TransfersInvariant, TransfersDone, TransferDid, LeftOut
<1>5. ASSUME NEW i \in Indices, NEW e PROVE EntryOf(e, i)' = EntryOf(e, i)
  BY DriverFixed DEF EntryOf, Entry
<1>6. ComparisonRaises' = ComparisonRaises
  BY DriverFixed DEF ComparisonRaises, NeedsBackup
<1>7. ThreadsDone' = ThreadsDone
  BY DEF ThreadsDone, InThread, ThroughAiofiles
<1> QED
  BY <1>1, <1>2, <1>3, <1>4, <1>5, <1>6, <1>7

\* A call that raises before it has begun, and one whose gather raises.
LEMMA RaisesKeep ==
  ASSUME TransfersInvariant, BeginUploadRaises \/ GatherRaises PROVE TransfersInvariant'
<1> USE DEF TransfersInvariant
<1>0. call \in Calls /\ TypeOK
  BY DEF TypeOK
<1>1. CASE BeginUploadRaises
  <2>1. /\ call.pc = "open" /\ ComparisonRaises
        /\ call' = [call EXCEPT !.kind = "differential", !.pc = "raised"]
        /\ UNCHANGED <<provider, md5, disk, bucket, task, manifest, faults, changed>>
    BY <1>1 DEF BeginUploadRaises
  <2>2. /\ call = [kind |-> "none", pc |-> "open", files |-> <<>>, next |-> 0]
        /\ manifest = <<>> /\ changed = {}
        /\ \A i \in Indices : task[i].pc = "none"
        /\ disk \in [Indices -> Contents]
    BY <2>1, NotBegun
  <2>3. /\ call'.kind = "differential" /\ call'.pc = "raised" /\ call'.files = <<>>
        /\ call'.next = 0 /\ call' \in Calls
    BY <1>0, <2>1, <2>2 DEF Calls, Kinds, Uploads
  <2>4. TypeOK' /\ DiskThere' /\ IsFiniteSet(changed)'
    BY <2>1, <2>2, <2>3 DEF TypeOK, DiskThere
  <2>5. ChunksInOrder'
    BY <2>1, <2>2, <2>3 DEF ChunksInOrder, Returned, Entered, IsInjective
  <2>6. TransfersDone'
    BY <2>1, <2>2, <2>3 DEF TransfersDone, TransferDid
  <2>7. ManifestFollows' /\ NoThreads' /\ VerifyTells'
    BY <2>1, <2>2, <2>3 DEF ManifestFollows, NoThreads, VerifyTells, Entered, Ended
  <2>8. AttemptsCounted'
    BY <2>1, <2>2, DriverFixed DEF AttemptsCounted, Counted
  <2>9. RaisedByTask'
    BY <2>1, <2>3, DriverFixed DEF RaisedByTask, ComparisonRaises, NeedsBackup
  <2> QED
    BY <2>4, <2>5, <2>6, <2>7, <2>8, <2>9
<1>2. CASE GatherRaises
  <2>1. /\ call.pc = "gather" /\ \E i \in Chunk : task[i].pc = "failed"
        /\ call' = [call EXCEPT !.pc = "raised"]
        /\ UNCHANGED <<provider, md5, disk, bucket, task, manifest, faults, changed>>
    BY <1>2 DEF GatherRaises
  <2>2. /\ call'.kind = call.kind /\ call'.pc = "raised" /\ call'.files = call.files
        /\ call'.next = call.next /\ call' \in Calls
    BY <1>0, <2>1 DEF Calls
  <2>3. /\ TypeOK' /\ DiskThere' /\ IsFiniteSet(changed)' /\ AttemptsCounted'
        /\ \A i \in Indices : TransferDid(i)'
    <3>1. manifest' \in Seq(ManifestObjects)
      BY <2>1 DEF TypeOK
    <3> QED BY <2>1, <2>2, <3>1, OnlyTheCall
  <2>4. ChunksInOrder'
    BY <2>1, <2>2 DEF ChunksInOrder, Returned, Entered
  <2>5. TransfersDone'
    BY <2>2, <2>3 DEF TransfersDone
  <2>6. ManifestFollows' /\ NoThreads' /\ VerifyTells'
    BY <2>1, <2>2 DEF ManifestFollows, NoThreads, VerifyTells, Entered, Ended
  <2>7. RaisedByTask'
    BY <1>0, <2>1, <2>2, ChunkOf DEF RaisedByTask
  <2> QED
    BY <2>3, <2>4, <2>5, <2>6, <2>7
<1> QED
  BY <1>1, <1>2

\* The coroutines of a chunk are new, and none of them is for a file that is done.
LEMMA StartChunkKeeps == ASSUME TransfersInvariant, StartChunk PROVE TransfersInvariant'
<1> USE DEF TransfersInvariant
<1>0. /\ TypeOK /\ call \in Calls /\ call.files \in Seq(Indices) /\ call.next \in Nat
      /\ Chunk \subseteq Range(call.files) /\ Range(call.files) \subseteq Indices
      /\ Len(call.files) \in Nat /\ ConcurrentTransfers \in Nat \ {0}
  BY ChunkOf, NumbersAssumption DEF TypeOK, Calls
<1>1. call.pc = "chunk" /\ UNCHANGED <<provider, md5, disk, bucket, manifest, faults, changed>>
  BY DEF StartChunk
<1>2. CASE Chunk = {}
  <2>1. call' = [call EXCEPT !.pc = "returned"] /\ UNCHANGED task
    BY <1>2 DEF StartChunk
  <2>2. /\ call'.kind = call.kind /\ call'.pc = "returned" /\ call'.files = call.files
        /\ call'.next = call.next /\ call' \in Calls
    BY <1>0, <2>1 DEF Calls, Ended
  <2>3. Len(call.files) <= call.next
    <3>1. ASSUME call.next < Len(call.files) PROVE FALSE
      <4>1. call.next + 1 \in call.next + 1 .. ChunkEnd
        BY <1>0, <3>1 DEF ChunkEnd
      <4> QED BY <1>2, <4>1 DEF Chunk
    <3> QED BY <1>0, <3>1
  <2>4. /\ TypeOK' /\ DiskThere' /\ IsFiniteSet(changed)' /\ AttemptsCounted'
        /\ \A i \in Indices : TransferDid(i)' /\ LeftOut(i)' = LeftOut(i)
        /\ \A i \in Indices : \A e : EntryOf(e, i)' = EntryOf(e, i)
    <3>1. manifest' \in Seq(ManifestObjects)
      BY <1>1 DEF TypeOK
    <3> QED BY <1>1, <2>1, <2>2, <3>1, OnlyTheCall
  <2>5. ChunksInOrder'
    BY <1>1, <2>1, <2>2, <2>3 DEF ChunksInOrder, Returned, Entered
  <2>6. TransfersDone'
    BY <1>1, <2>2, <2>4 DEF TransfersDone
  <2>7. ManifestFollows'
    <3>1. call.kind \in Uploads =>
             /\ Len(manifest) = IF call.next < Len(call.files) THEN call.next ELSE Len(call.files)
             /\ \A m \in DOMAIN manifest : EntryOf(manifest[m], call.files[m])
      BY <1>1 DEF ManifestFollows
    <3>2. call.kind \in Uploads => \A m \in DOMAIN manifest : call.files[m] \in Indices
      <4>1. manifest \in Seq(ManifestObjects)
        BY <1>0 DEF TypeOK
      <4> QED BY <1>0, <3>1, <4>1
    <3> QED
      BY <1>1, <2>2, <2>4, <3>1, <3>2 DEF ManifestFollows, Entered
  <2>8. RaisedByTask' /\ NoThreads' /\ VerifyTells'
    BY <2>2 DEF RaisedByTask, NoThreads, VerifyTells, Ended
  <2> QED
    BY <2>4, <2>5, <2>6, <2>7, <2>8
<1>3. CASE Chunk # {}
  <2>1. /\ call' = [call EXCEPT !.pc = "gather"]
        /\ task' = [i \in Indices |->
                      IF i \in Chunk THEN [pc |-> "ready", attempts |-> 1] ELSE task[i]]
    BY <1>3 DEF StartChunk
  <2>2. /\ call'.kind = call.kind /\ call'.pc = "gather" /\ call'.files = call.files
        /\ call'.next = call.next /\ call' \in Calls
    BY <1>0, <2>1 DEF Calls
  <2>3. TypeOK'
    <3>1. [pc |-> "ready", attempts |-> 1] \in Tasks
      BY NumbersAssumption DEF Tasks
    <3>2. task' \in [Indices -> Tasks]
      BY <1>0, <2>1, <3>1 DEF TypeOK
    <3> QED BY <1>0, <1>1, <2>2, <3>2 DEF TypeOK
  <2>4. ChunksInOrder'
    <3>1. ASSUME NEW m \in DOMAIN call.files, m <= call.next PROVE call.files[m] \notin Chunk
      <4>1. ASSUME NEW n \in call.next + 1 .. ChunkEnd, call.files[n] = call.files[m] PROVE FALSE
        <5>1. n \in DOMAIN call.files /\ n # m
          BY <1>0, <3>1, ChunkOf
        <5> QED BY <4>1, <5>1 DEF ChunksInOrder, IsInjective
      <4> QED BY <4>1 DEF Chunk
    <3>2. \A m \in DOMAIN call.files : m <= call.next => task'[call.files[m]].pc = "done"
      BY <1>0, <2>1, <3>1 DEF ChunksInOrder
    <3>3. \A i \in Indices : task'[i].pc # "none" => i \in Range(call.files)
      BY <1>0, <2>1 DEF ChunksInOrder
    <3> QED
      BY <1>1, <2>2, <3>2, <3>3 DEF ChunksInOrder, Returned, Entered
  <2>5. TransfersDone'
    <3>1. ASSUME NEW i \in Indices PROVE TransferDid(i)'
      BY <1>0, <1>1, <2>1, <2>2 DEF TransfersDone, TransferDid
    <3>2. ASSUME NEW i \in Indices PROVE LeftOut(i)' = LeftOut(i)
      BY <1>1, <2>2, DriverFixed DEF LeftOut
    <3> QED BY <1>1, <2>2, <3>1, <3>2 DEF TransfersDone
  <2>6. ManifestFollows'
    <3>1. \A i : \A e : EntryOf(e, i)' = EntryOf(e, i)
      BY <1>1, DriverFixed DEF EntryOf, Entry
    <3> QED BY <1>1, <2>2, <3>1 DEF ManifestFollows, Entered
  <2>7. AttemptsCounted'
    <3>1. Attempts \in Nat \ {0} /\ faults \in Nat
      BY <1>0, NumbersAssumption, FaultsAssumption DEF Attempts, TypeOK
    <3>2. ASSUME NEW i \in Indices PROVE Counted(i)'
      <4>1. CASE i \in Chunk
        BY <1>1, <2>1, <3>1, <4>1, DriverFixed DEF Counted
      <4>2. CASE i \notin Chunk
        <5>1. task'[i] = task[i] /\ Counted(i)
          BY <2>1, <4>2 DEF AttemptsCounted
        <5> QED BY <1>1, <2>2, <5>1, DriverFixed DEF Counted, Gone
      <4> QED BY <4>1, <4>2
    <3> QED BY <3>2 DEF AttemptsCounted
  <2>8. DiskThere' /\ IsFiniteSet(changed)' /\ RaisedByTask' /\ NoThreads' /\ VerifyTells'
    BY <1>1, <2>2 DEF DiskThere, RaisedByTask, NoThreads, VerifyTells, Ended
  <2> QED
    BY <2>3, <2>4, <2>5, <2>6, <2>7, <2>8
<1> QED
  BY <1>2, <1>3

\* A chunk that is done is as on the disk when its entries are made from the bucket.
LEMMA GatherReturnsKeeps == ASSUME TransfersInvariant, GatherReturns PROVE TransfersInvariant'
<1> USE DEF TransfersInvariant
<1> DEFINE width == ConcurrentTransfers
           end == IF call.next < Len(call.files) THEN call.next ELSE Len(call.files)
<1>0. /\ TypeOK /\ call \in Calls /\ call.files \in Seq(Indices) /\ call.next \in Nat
      /\ manifest \in Seq(ManifestObjects)
      /\ Chunk \subseteq Range(call.files) /\ Range(call.files) \subseteq Indices
      /\ Len(call.files) \in Nat /\ width \in Nat \ {0}
  BY ChunkOf, NumbersAssumption DEF TypeOK, Calls
<1>1. /\ call.pc = "gather" /\ \A i \in Chunk : task[i].pc = "done"
      /\ call' = [call EXCEPT !.pc = "chunk", !.next = @ + ConcurrentTransfers]
      /\ manifest' = IF call.kind \in Uploads THEN manifest \o Entries(ChunkInOrder) ELSE manifest
      /\ UNCHANGED <<provider, md5, disk, bucket, task, faults, changed>>
  BY DEF GatherReturns
<1>2. /\ call'.kind = call.kind /\ call'.pc = "chunk" /\ call'.files = call.files
      /\ call'.next = call.next + width /\ call' \in Calls
  <2>1. call.next + ConcurrentTransfers \in Nat
    BY <1>0
  <2>2. call' = [call EXCEPT !.pc = "chunk", !.next = call.next + ConcurrentTransfers]
    BY <1>0, <1>1 DEF Calls
  <2> QED BY <1>0, <2>1, <2>2 DEF Calls
<1>3. /\ ChunkInOrder \in Seq(Indices) /\ Entries(ChunkInOrder) \in Seq(ManifestObjects)
      /\ Len(Entries(ChunkInOrder)) = Len(ChunkInOrder)
      /\ \A m \in 1 .. Len(ChunkInOrder) :
           Entries(ChunkInOrder)[m] =
             Entry(call.files[call.next + m], bucket[Key(call.files[call.next + m])])
  BY <1>0, ChunkOf, EntriesType
<1>4. manifest' \in Seq(ManifestObjects)
  BY <1>0, <1>1, <1>3, ConcatProperties
<1>5. /\ TypeOK' /\ DiskThere' /\ IsFiniteSet(changed)' /\ AttemptsCounted'
      /\ \A i \in Indices : TransferDid(i)' /\ LeftOut(i)' = LeftOut(i)
      /\ \A i \in Indices : \A e : EntryOf(e, i)' = EntryOf(e, i)
  BY <1>1, <1>2, <1>4, OnlyTheCall
<1>6. ASSUME NEW m \in DOMAIN call.files, m <= call.next + width
      PROVE  m <= call.next \/ call.files[m] \in Chunk
  <2>1. ~(m <= call.next) => m \in call.next + 1 .. ChunkEnd
    BY <1>0, <1>6 DEF ChunkEnd
  <2> QED BY <2>1 DEF Chunk
<1>7. ChunksInOrder'
  BY <1>0, <1>1, <1>2, <1>6 DEF ChunksInOrder, Returned, Entered
<1>8. TransfersDone'
  BY <1>1, <1>2, <1>5 DEF TransfersDone
<1>9. ManifestFollows'
  <2>1. CASE call.kind \notin Uploads
    BY <1>1, <1>2, <2>1 DEF ManifestFollows, Entered
  <2>2. CASE call.kind \in Uploads
    <3>1. /\ Len(manifest) = end /\ changed = {}
          /\ \A m \in DOMAIN manifest : EntryOf(manifest[m], call.files[m])
      BY <1>1, <2>2 DEF ManifestFollows, Entered
    <3>2. /\ Len(manifest') = Len(manifest) + Len(ChunkInOrder)
          /\ \A m \in 1 .. Len(manifest) + Len(ChunkInOrder) :
               manifest'[m] = IF m <= Len(manifest) THEN manifest[m]
                              ELSE Entries(ChunkInOrder)[m - Len(manifest)]
      BY <1>0, <1>1, <1>3, <2>2, Appended
    <3>3. Len(ChunkInOrder) = IF call.next < ChunkEnd THEN ChunkEnd - call.next ELSE 0
      BY <1>0, ChunkOf
    <3>4. /\ Len(manifest') = IF call.next + width < Len(call.files)
                              THEN call.next + width ELSE Len(call.files)
          /\ Len(manifest) < Len(manifest') => Len(manifest) = call.next
      BY <1>0, <3>1, <3>2, <3>3 DEF ChunkEnd
    <3>5. ASSUME NEW m \in DOMAIN manifest' PROVE EntryOf(manifest'[m], call.files[m])
      <4>1. CASE m <= Len(manifest)
        BY <1>0, <1>4, <3>1, <3>2, <4>1
      <4>2. CASE ~(m <= Len(manifest))
        <5>1. /\ m - Len(manifest) \in 1 .. Len(ChunkInOrder)
              /\ call.next + (m - Len(manifest)) = m
              /\ m \in DOMAIN call.files /\ m <= call.next + width /\ ~(m <= call.next)
          <6>1. m \in 1 .. Len(manifest')
            BY <1>4
          <6>2. /\ Len(manifest) \in Nat /\ Len(ChunkInOrder) \in Nat /\ call.next \in Nat
                /\ Len(call.files) \in Nat /\ width \in Nat
            BY <1>0, <1>3
          <6>3. Len(manifest) = call.next
            <7>1. Len(manifest) < Len(manifest')
              BY <3>2, <4>2, <6>1, <6>2
            <7> QED BY <3>4, <7>1
          <6>4. Len(manifest') <= call.next + width /\ Len(manifest') <= Len(call.files)
            BY <3>4, <6>2
          <6>5. m \in 1 .. Len(call.files) /\ m <= call.next + width
            BY <3>2, <6>1, <6>2, <6>4
          <6>6. m \in DOMAIN call.files
            BY <1>0, <6>5
          <6> QED BY <3>2, <4>2, <6>1, <6>2, <6>3, <6>5, <6>6
        <5>2. manifest'[m] = Entry(call.files[m], bucket[Key(call.files[m])])
          <6>1. m \in 1 .. Len(manifest) + Len(ChunkInOrder)
            BY <1>4, <3>2
          <6>2. manifest'[m] = Entries(ChunkInOrder)[m - Len(manifest)]
            BY <3>2, <4>2, <6>1
          <6> QED BY <1>3, <5>1, <6>2
        <5>3. call.files[m] \in Indices /\ task[call.files[m]].pc = "done"
          BY <1>0, <1>1, <1>6, <5>1
        <5>4. bucket[Key(call.files[m])] = disk[call.files[m]]
          BY <2>2, <3>1, <5>3 DEF TransfersDone, TransferDid
        <5> QED BY <5>2, <5>4 DEF EntryOf, Entry
      <4> QED BY <4>1, <4>2
    <3>6. \A m \in DOMAIN manifest' : call.files[m] \in Indices
      BY <1>0, <1>4, <3>4
    <3> QED
      BY <1>1, <1>2, <1>5, <2>2, <3>1, <3>4, <3>5, <3>6 DEF ManifestFollows, Entered
  <2> QED BY <2>1, <2>2
<1>10. RaisedByTask' /\ NoThreads' /\ VerifyTells'
  BY <1>2 DEF RaisedByTask, NoThreads, VerifyTells, Ended
<1> QED
  BY <1>5, <1>7, <1>8, <1>9, <1>10

\* The entries of the chunks and those of the files that were kept are all the files.
LEMMA KeepRestKeeps == ASSUME TransfersInvariant, KeepRest PROVE TransfersInvariant'
<1> USE DEF TransfersInvariant
<1> DEFINE rest == SetToSeq(Indices \ Range(call.files))
           all == call.files \o rest
<1>0. /\ TypeOK /\ call \in Calls /\ call.files \in Seq(Indices) /\ call.next \in Nat
      /\ manifest \in Seq(ManifestObjects) /\ Range(call.files) \subseteq Indices
  BY ChunkOf DEF TypeOK, Calls
<1>1. /\ call.pc = "returned" /\ call.kind \in Uploads
      /\ manifest' = manifest \o Entries(rest)
      /\ call' = [call EXCEPT !.pc = "entered"]
      /\ UNCHANGED <<provider, md5, disk, bucket, task, faults, changed>>
  BY DEF KeepRest
<1>2. /\ call'.kind = call.kind /\ call'.pc = "entered" /\ call'.files = call.files
      /\ call'.next = call.next /\ call' \in Calls
  BY <1>0, <1>1 DEF Calls
<1>3. /\ rest \in Seq(Indices) /\ Range(rest) = Indices \ Range(call.files) /\ IsInjective(rest)
      /\ IsInjective(call.files) /\ Range(call.files) \cap Range(rest) = {}
  BY ListingOf DEF ChunksInOrder
<1> HIDE DEF rest
<1>4. /\ all \in Seq(Indices) /\ Len(all) = Len(call.files) + Len(rest)
      /\ \A m \in 1 .. Len(call.files) + Len(rest) :
           all[m] = IF m <= Len(call.files) THEN call.files[m] ELSE rest[m - Len(call.files)]
      /\ Range(all) = Indices /\ IsInjective(all)
  <2>1. Range(call.files) \cup Range(rest) = Indices
    BY <1>0, <1>3
  <2> QED BY <1>0, <1>3, <2>1, JoinOf
<1> HIDE DEF all
<1>5. /\ Entries(rest) \in Seq(ManifestObjects) /\ Len(Entries(rest)) = Len(rest)
      /\ \A m \in 1 .. Len(rest) : Entries(rest)[m] = Entry(rest[m], bucket[Key(rest[m])])
  BY <1>0, <1>3, EntriesType
<1>6. /\ manifest' \in Seq(ManifestObjects) /\ Len(manifest') = Len(manifest) + Len(rest)
      /\ \A m \in 1 .. Len(manifest) + Len(rest) :
           manifest'[m] = IF m <= Len(manifest) THEN manifest[m]
                          ELSE Entries(rest)[m - Len(manifest)]
  BY <1>0, <1>1, <1>5, Appended
<1>7. /\ TypeOK' /\ DiskThere' /\ IsFiniteSet(changed)' /\ AttemptsCounted'
      /\ \A i \in Indices : TransferDid(i)' /\ LeftOut(i)' = LeftOut(i)
      /\ \A i \in Indices : \A e : EntryOf(e, i)' = EntryOf(e, i)
  BY <1>1, <1>2, <1>6, OnlyTheCall
<1>8. ChunksInOrder'
  BY <1>1, <1>2 DEF ChunksInOrder, Returned, Entered
<1>9. TransfersDone'
  BY <1>1, <1>2, <1>7 DEF TransfersDone
<1>10. /\ Len(manifest) = Len(call.files) /\ changed = {}
       /\ \A m \in DOMAIN manifest : EntryOf(manifest[m], call.files[m])
  BY <1>0, <1>1 DEF ManifestFollows, ChunksInOrder, Returned, Entered
<1>11. ASSUME NEW m \in DOMAIN manifest' PROVE all[m] \in Indices /\ EntryOf(manifest'[m], all[m])
  <2>0. m \in 1 .. Len(call.files) + Len(rest) /\ m \in DOMAIN all
    BY <1>4, <1>6, <1>10
  <2>1. CASE m <= Len(call.files)
    BY <1>0, <1>4, <1>6, <1>10, <2>0, <2>1
  <2>2. CASE ~(m <= Len(call.files))
    <3>1. m - Len(manifest) \in 1 .. Len(rest) /\ all[m] = rest[m - Len(manifest)]
      BY <1>0, <1>3, <1>4, <1>10, <2>0, <2>2
    <3>2. manifest'[m] = Entry(all[m], bucket[Key(all[m])])
      BY <1>0, <1>5, <1>6, <1>10, <2>0, <2>2, <3>1
    <3>3. all[m] \in Indices /\ all[m] \notin Range(call.files)
      BY <1>3, <3>1 DEF Range
    <3>4. LeftOut(all[m])
      BY <1>1, <3>3 DEF TransfersDone
    <3>5. /\ bucket[Key(all[m])].size = disk[all[m]].size
          /\ UsesHashes => bucket[Key(all[m])] = disk[all[m]]
      BY <1>1, <1>10, <3>4 DEF LeftOut, Uploads
    <3> QED BY <3>2, <3>3, <3>5 DEF EntryOf, Entry
  <2> QED BY <2>1, <2>2
<1>12. ManifestFollows'
  <2>0. DOMAIN manifest' = DOMAIN all
    BY <1>4, <1>6, <1>10
  <2>1. ASSUME NEW i \in Indices PROVE \E m \in DOMAIN manifest' : EntryOf(manifest[m], i)'
    <3>1. PICK m \in DOMAIN all : all[m] = i
      BY <1>4 DEF Range
    <3> QED BY <1>7, <1>11, <2>0, <3>1
  <2>2. \A m \in DOMAIN manifest' : \E i \in Indices : EntryOf(manifest[m], i)'
    BY <1>7, <1>11
  <2>3. ASSUME NEW m \in DOMAIN manifest', NEW n \in DOMAIN manifest',
               manifest'[m].path = manifest'[n].path
        PROVE  m = n
    <3>1. Key(all[m]) = Key(all[n]) /\ all[m] \in Indices /\ all[n] \in Indices
      BY <1>11, <2>3 DEF EntryOf
    <3>2. all[m] = all[n]
      BY <3>1, KeysDiffer
    <3> QED BY <1>4, <2>0, <3>2 DEF IsInjective
  <2> QED
    BY <1>2, <2>1, <2>2, <2>3 DEF ManifestFollows, Entered
<1>13. RaisedByTask' /\ NoThreads' /\ VerifyTells'
  BY <1>2 DEF RaisedByTask, NoThreads, VerifyTells, Ended
<1> QED
  BY <1>7, <1>8, <1>9, <1>12, <1>13

\* The storage is left when no thread runs, or when nobody waits for them.
LEMMA DisconnectKeeps ==
  ASSUME TransfersInvariant, Disconnect \/ DisconnectLeaves PROVE TransfersInvariant'
<1> USE DEF TransfersInvariant
<1>0. /\ TypeOK /\ call \in Calls /\ Range(call.files) \subseteq Indices
  BY ChunkOf DEF TypeOK
<1>1. /\ call.pc \in {"returned", "entered", "raised"}
      /\ call.pc = "returned" => call.kind \notin Uploads
      /\ UNCHANGED <<provider, md5, disk, bucket, task, manifest, faults, changed>>
  BY DEF Disconnect, DisconnectLeaves, Leave
<1>2. /\ call'.kind = call.kind /\ call'.files = call.files /\ call'.next = call.next
      /\ call'.pc \in (IF call.pc = "raised" THEN {"failed", "left"} ELSE {"closed"})
      /\ call' \in Calls
      /\ call'.pc = "failed" => Disconnect
  BY <1>0 DEF Disconnect, DisconnectLeaves, Leave, Calls, Ended
<1>8. call'.pc # "left" => ThreadsDone
  <2>1. CASE call.pc = "raised"
    <3>1. Disconnect => ThreadsDone
      BY DEF Disconnect, ThreadsDone, InThread, ThroughAiofiles
    <3> QED BY <1>2, <2>1, <3>1
  <2>2. CASE call.pc \in {"returned", "entered"}
    BY <2>2, ReturnedDone DEF Returned, Entered
  <2> QED BY <1>1, <2>1, <2>2
<1>3. /\ TypeOK' /\ DiskThere' /\ IsFiniteSet(changed)' /\ AttemptsCounted'
      /\ \A i \in Indices : TransferDid(i)' /\ LeftOut(i)' = LeftOut(i)
      /\ \A i \in Indices : \A e : EntryOf(e, i)' = EntryOf(e, i)
      /\ ComparisonRaises' = ComparisonRaises /\ ThreadsDone' = ThreadsDone
  <2>1. manifest' \in Seq(ManifestObjects)
    BY <1>1 DEF TypeOK
  <2> QED BY <1>1, <1>2, <2>1, OnlyTheCall
<1>4. ChunksInOrder'
  BY <1>1, <1>2 DEF ChunksInOrder, Returned, Entered
<1>5. TransfersDone'
  BY <1>1, <1>2, <1>3 DEF TransfersDone
<1>6. ManifestFollows'
  BY <1>1, <1>2, <1>3 DEF ManifestFollows, Entered
<1>7. RaisedByTask' /\ NoThreads' /\ VerifyTells'
  BY <1>1, <1>2, <1>3, <1>8 DEF RaisedByTask, NoThreads, VerifyTells
<1> QED
  BY <1>3, <1>4, <1>5, <1>6, <1>7

\* Objects of a finished upload that change are kept account of.
LEMMA ObjectChangesKeeps ==
  ASSUME TransfersInvariant, NEW k \in Keys, ObjectChanges(k) PROVE TransfersInvariant'
<1> USE DEF TransfersInvariant
<1>0. TypeOK /\ call \in Calls
  BY DEF TypeOK
<1>1. /\ call.pc = "closed" /\ call.kind \in Uploads
      /\ changed' = changed \union {k}
      /\ UNCHANGED <<provider, md5, disk, call, task, manifest, faults>>
  BY DEF ObjectChanges
<1>2. PICK c \in Contents \union {Nothing} : bucket' = [bucket EXCEPT ![k] = c]
  BY DEF ObjectChanges
<1>3. TypeOK' /\ DiskThere' /\ IsFiniteSet(changed)'
  <2>1. IsFiniteSet(changed')
    BY <1>1, FS_AddElement
  <2>2. TypeOK'
    BY <1>0, <1>1, <1>2, ObjectsDiffer DEF TypeOK
  <2> QED BY <1>1, <2>1, <2>2 DEF DiskThere
<1>4. \A i \in Indices : Key(i) \in changed' \/ bucket'[Key(i)] = bucket[Key(i)]
  BY <1>0, <1>1, <1>2, KeysDiffer DEF TypeOK
<1>5. ChunksInOrder' /\ RaisedByTask'
  BY <1>1 DEF ChunksInOrder, RaisedByTask
<1>6. TransfersDone'
  <2>1. ASSUME NEW i \in Indices PROVE TransferDid(i)'
    BY <1>1, <1>4 DEF TransfersDone, TransferDid, Uploads
  <2>2. ASSUME NEW i \in Indices, LeftOut(i) PROVE LeftOut(i)'
    BY <1>1, <1>4, <2>2, DriverFixed DEF LeftOut, Uploads
  <2> QED BY <1>1, <2>1, <2>2 DEF TransfersDone
<1>7. ManifestFollows'
  <2>1. ASSUME NEW i \in Indices, NEW e, EntryOf(e, i) PROVE EntryOf(e, i)'
    BY <1>1, <1>4, <2>1, DriverFixed DEF EntryOf, Entry
  <2> QED BY <1>1, <2>1 DEF ManifestFollows, Entered
<1>8. AttemptsCounted'
  <2>1. ASSUME NEW i \in Indices PROVE Gone(i)' = Gone(i)
    BY <1>1 DEF Gone, Uploads
  <2> QED BY <1>1, <2>1, DriverFixed DEF AttemptsCounted, Counted
<1>9. NoThreads' /\ VerifyTells'
  BY <1>1 DEF NoThreads, VerifyTells, ThreadsDone, InThread, ThroughAiofiles
<1> QED
  BY <1>3, <1>5, <1>6, <1>7, <1>8, <1>9

\* So is a manifest that cannot be read.
LEMMA ManifestUnreadableKeeps ==
  ASSUME TransfersInvariant, ManifestUnreadable PROVE TransfersInvariant'
<1> USE DEF TransfersInvariant
<1>1. /\ call.pc = "closed" /\ call.kind \in Uploads
      /\ changed' = changed \union {ManifestFile}
      /\ UNCHANGED <<provider, md5, disk, bucket, call, task, manifest, faults>>
  BY DEF ManifestUnreadable
<1>2. TypeOK' /\ DiskThere' /\ IsFiniteSet(changed)'
  BY <1>1, FS_AddElement DEF TypeOK, DiskThere
<1>3. ChunksInOrder' /\ RaisedByTask'
  BY <1>1 DEF ChunksInOrder, RaisedByTask
<1>4. TransfersDone'
  <2>1. ASSUME NEW i \in Indices PROVE TransferDid(i)'
    BY <1>1 DEF TransfersDone, TransferDid
  <2>2. ASSUME NEW i \in Indices, LeftOut(i) PROVE LeftOut(i)'
    BY <1>1, <2>2, DriverFixed DEF LeftOut
  <2> QED BY <1>1, <2>1, <2>2 DEF TransfersDone
<1>5. ManifestFollows'
  <2>1. ASSUME NEW i \in Indices, NEW e, EntryOf(e, i) PROVE EntryOf(e, i)'
    BY <1>1, <2>1, DriverFixed DEF EntryOf, Entry
  <2> QED BY <1>1, <2>1 DEF ManifestFollows, Entered
<1>6. AttemptsCounted'
  BY <1>1, DriverFixed DEF AttemptsCounted, Counted, Gone
<1>7. NoThreads' /\ VerifyTells'
  BY <1>1 DEF NoThreads, VerifyTells, ThreadsDone, InThread, ThroughAiofiles
<1> QED
  BY <1>2, <1>3, <1>4, <1>5, <1>6, <1>7

\* The file that an entry of a finished manifest is of.
LEMMA FileOfEntry ==
  ASSUME TransfersInvariant, call.kind \in Uploads, call.pc \in Entered
  PROVE  /\ \A i \in Indices : \E e \in Range(manifest) : EntryOf(e, i)
         /\ \A e \in Range(manifest) : \E i \in Indices : EntryOf(e, i)
BY DEF TransfersInvariant, ManifestFollows, Range

\* What the verification finds is what has changed.
LEMMA ValidationTells ==
  ASSUME TransfersInvariant, call.pc = "closed", call.kind \in Uploads
  PROVE  /\ ~ValidationRaises /\ validate_manifest = {} /\ UsesHashes
            /\ ManifestFile \notin changed =>
              \A i \in Indices : Checked(Key(i)) /\ ~MayDiffer(Key(i)) => bucket[Key(i)] = disk[i]
         /\ validate_manifest # {} =>
              \/ changed \ {ManifestFile} # {} \/ bucket[Stray] # Nothing
              \/ \E i \in Indices : disk[i].size = 0
<1> USE DEF TransfersInvariant
<1>0. /\ TypeOK /\ call.pc \in Entered
      /\ \A i \in Indices : /\ Key(i) \in Keys /\ bucket[Key(i)] \in Objects
                            /\ disk[i] \in Objects /\ disk[i] \in Contents
      /\ \A c \in Objects : c.size \in Nat
  BY KeysDiffer, ObjectsDiffer DEF TypeOK, DiskThere, Entered, Uploads
<1> DEFINE listed == {e \in Range(manifest) : Checked(e.path)}
           bad == {x \in Verified : \/ ~InListing(x.path)
                                    \/ ~blob_matches_manifest(x) /\ ~MayDiffer(x.path)}
           extra == {k \in Keys : /\ call.kind = "full" /\ ManifestFile \notin changed
                                  /\ InListing(k) /\ Checked(k)
                                  /\ k \notin {e.path : e \in Verified}}
<1>4. /\ Verified \subseteq listed
      /\ ManifestFile \notin changed => Verified = listed
  BY DEF Verified
<1>1. validate_manifest = {e.path : e \in bad} \union extra
  BY DEF validate_manifest
<1>2. ASSUME ~ValidationRaises, validate_manifest = {}, UsesHashes, ManifestFile \notin changed,
             NEW i \in Indices, Checked(Key(i)), ~MayDiffer(Key(i))
      PROVE  bucket[Key(i)] = disk[i]
  <2>1. PICK e \in Range(manifest) : EntryOf(e, i)
    BY <1>0, FileOfEntry
  <2>2. /\ e.path = Key(i) /\ e.size = disk[i].size /\ e.hash = StoredHash(disk[i])
    BY <1>2, <2>1 DEF EntryOf
  <2>3. e \in Verified /\ e \notin bad
    BY <1>1, <1>2, <1>4, <2>1, <2>2
  <2>4. InListing(e.path) /\ blob_matches_manifest(e)
    BY <1>2, <2>2, <2>3
  <2>5. bucket[Key(i)].size = e.size /\ StoredHash(bucket[Key(i)]) = e.hash
    BY <1>2, <2>2, <2>4 DEF blob_matches_manifest, compare_with_manifest
  <2>6. e.hash # NoHash
    <3> SUFFICES ASSUME e.hash = NoHash PROVE FALSE
      OBVIOUS
    <3>1. e.hash[1] # "multi" /\ ~Decodable(e.hash)
      BY DEF Decodable, NoHash
    <3> QED BY <1>2, <2>3, <2>4, <3>1 DEF ValidationRaises
  <2> QED
    BY <1>0, <2>2, <2>5, <2>6, HashTells
<1>3. ASSUME changed \ {ManifestFile} = {}, bucket[Stray] = Nothing,
             \A i \in Indices : disk[i].size # 0
      PROVE  bad = {} /\ extra = {}
  <2>0. \A i \in Indices : Key(i) \notin changed
    BY <1>3, KeysDiffer
  <2>1. ASSUME NEW e \in bad PROVE FALSE
    <3>1. e \in Range(manifest)
      BY <1>4
    <3>2. PICK i \in Indices : EntryOf(e, i)
      BY <1>0, <3>1, FileOfEntry
    <3>3. e = Entry(i, bucket[Key(i)]) /\ e.path = Key(i) /\ e.size = disk[i].size
      BY <2>0, <3>2 DEF EntryOf
    <3>4. e.size = bucket[Key(i)].size /\ e.hash = StoredHash(bucket[Key(i)])
      BY <3>3 DEF Entry
    <3>5. InListing(e.path)
      <4>1. bucket[Key(i)].size \in Nat /\ bucket[Key(i)].size # 0
        BY <1>0, <1>3, <3>3, <3>4
      <4> QED BY <3>3, <4>1 DEF InListing
    <3>6. blob_matches_manifest(e)
      BY <3>3, <3>4 DEF blob_matches_manifest, compare_with_manifest
    <3> QED BY <2>1, <3>3, <3>5, <3>6
  <2>2. ASSUME NEW k \in extra PROVE FALSE
    <3>1. CASE k = Stray
      BY <1>3, <2>2, <3>1, ObjectsDiffer DEF InListing
    <3>2. ASSUME NEW i \in Indices, k = Key(i) PROVE FALSE
      <4>1. PICK e \in Range(manifest) : EntryOf(e, i)
        BY <1>0, FileOfEntry
      <4>2. e.path = k
        BY <3>2, <4>1 DEF EntryOf
      <4>3. e \in Verified
        BY <1>4, <2>2, <4>1, <4>2
      <4> QED BY <2>2, <4>2, <4>3
    <3> QED BY <3>1, <3>2 DEF Keys
  <2> QED BY <2>1, <2>2
<1> QED
  BY <1>1, <1>2, <1>3

LEMMA VerifyKeeps == ASSUME TransfersInvariant, Verify PROVE TransfersInvariant'
<1> USE DEF TransfersInvariant
<1>0. TypeOK /\ call \in Calls
  BY DEF TypeOK
<1>1. /\ call.pc = "closed" /\ call.kind \in Uploads
      /\ call' = [call EXCEPT !.pc = IF ValidationRaises THEN "unverified"
                                     ELSE IF validate_manifest = {} THEN "valid" ELSE "invalid"]
      /\ UNCHANGED <<provider, md5, disk, bucket, task, manifest, faults, changed>>
  BY DEF Verify
<1>2. /\ call'.kind = call.kind /\ call'.files = call.files /\ call'.next = call.next
      /\ call' \in Calls /\ call'.pc \in {"unverified", "valid", "invalid"}
      /\ call'.pc = "valid" => ~ValidationRaises /\ validate_manifest = {}
      /\ call'.pc = "invalid" => validate_manifest # {}
  BY <1>0, <1>1 DEF Calls, Ended
<1>3. /\ TypeOK' /\ DiskThere' /\ IsFiniteSet(changed)' /\ AttemptsCounted'
      /\ \A i \in Indices : TransferDid(i)' /\ LeftOut(i)' = LeftOut(i)
      /\ \A i \in Indices : \A e : EntryOf(e, i)' = EntryOf(e, i)
      /\ ThreadsDone' = ThreadsDone
  <2>1. manifest' \in Seq(ManifestObjects)
    BY <1>0, <1>1 DEF TypeOK
  <2> QED BY <1>1, <1>2, <2>1, OnlyTheCall
<1>4. ChunksInOrder'
  BY <1>1, <1>2 DEF ChunksInOrder, Returned, Entered
<1>5. TransfersDone'
  BY <1>1, <1>2, <1>3 DEF TransfersDone
<1>6. ManifestFollows'
  BY <1>1, <1>2, <1>3 DEF ManifestFollows, Entered
<1>7. RaisedByTask' /\ NoThreads'
  BY <1>1, <1>2, <1>3 DEF RaisedByTask, NoThreads, Ended
<1>8. VerifyTells'
  <2>1. UsesHashes' = UsesHashes
    BY <1>1, DriverFixed
  <2> QED BY <1>1, <1>2, <2>1, ValidationTells DEF VerifyTells
<1> QED
  BY <1>3, <1>4, <1>5, <1>6, <1>7, <1>8

-----------------------------------------------------------------------------
(* The theorems                                                            *)

LEMMA InvariantInit == Init => TransfersInvariant
<1> SUFFICES ASSUME Init PROVE TransfersInvariant
  OBVIOUS
<1>1. TypeOK
  BY TypeInit
<1>2. /\ call = [kind |-> "none", pc |-> "open", files |-> <<>>, next |-> 0]
      /\ task = [i \in Indices |-> NoTask] /\ manifest = <<>> /\ faults = 0 /\ changed = {}
  BY DEF Init
<1>3. IsFiniteSet(changed)
  BY <1>2, FS_EmptySet
<1>4. ChunksInOrder
  BY <1>2 DEF ChunksInOrder, IsInjective, NoTask, Returned, Entered
<1>5. DiskThere
  BY ScenariosAssumption DEF Init, DiskThere
<1>6. TransfersDone
  BY <1>2 DEF TransfersDone, TransferDid, Uploads
<1>7. ManifestFollows
  BY <1>2 DEF ManifestFollows, Uploads
<1>8. AttemptsCounted
  <2>1. Attempts \in Nat
    BY NumbersAssumption DEF Attempts
  <2> QED BY <1>2, <2>1 DEF AttemptsCounted, Counted, NoTask
<1>9. RaisedByTask /\ NoThreads /\ VerifyTells
  BY <1>2 DEF RaisedByTask, NoThreads, VerifyTells, Ended
<1> QED
  BY <1>1, <1>3, <1>4, <1>5, <1>6, <1>7, <1>8, <1>9 DEF TransfersInvariant

LEMMA InvariantStutters ==
  ASSUME TransfersInvariant, UNCHANGED vars PROVE TransfersInvariant'
<1>0. call' \in Calls /\ UNCHANGED vars /\ manifest \in Seq(ManifestObjects)
  BY DEF vars, TransfersInvariant, TypeOK
<1>1. /\ TypeOK' /\ DiskThere' /\ IsFiniteSet(changed)' /\ AttemptsCounted'
      /\ \A i \in Indices : TransferDid(i)' /\ LeftOut(i)' = LeftOut(i)
      /\ \A i \in Indices : \A e : EntryOf(e, i)' = EntryOf(e, i)
      /\ ComparisonRaises' = ComparisonRaises /\ ThreadsDone' = ThreadsDone
  BY <1>0, OnlyTheCall DEF vars
<1>2. ChunksInOrder' /\ RaisedByTask' /\ NoThreads'
  BY <1>0, <1>1 DEF vars, TransfersInvariant, ChunksInOrder, RaisedByTask, NoThreads
<1>3. TransfersDone'
  BY <1>0, <1>1 DEF vars, TransfersInvariant, TransfersDone
<1>4. VerifyTells'
  BY <1>0, DriverFixed DEF vars, TransfersInvariant, VerifyTells
<1>5. ManifestFollows'
  <2>1. \A i : \A e : EntryOf(e, i)' = EntryOf(e, i)
    BY <1>0, DriverFixed DEF vars, EntryOf, Entry
  <2> QED BY <1>0, <2>1 DEF vars, TransfersInvariant, ManifestFollows
<1> QED
  BY <1>1, <1>2, <1>3, <1>4, <1>5 DEF TransfersInvariant

LEMMA InvariantNext == TransfersInvariant /\ [Next]_vars => TransfersInvariant'
<1> SUFFICES ASSUME TransfersInvariant, [Next]_vars PROVE TransfersInvariant'
  OBVIOUS
<1>1. CASE CallStep
  BY <1>1, BeginUploadKeeps, BeginOthersKeep, RaisesKeep, StartChunkKeeps, GatherReturnsKeeps,
     KeepRestKeeps, DisconnectKeeps, VerifyKeeps DEF CallStep
<1>2. CASE \E i \in Indices : TaskStep(i)
  BY <1>2, TaskStepKeeps
<1>3. CASE \E k \in Keys : ObjectChanges(k)
  BY <1>3, ObjectChangesKeeps
<1>4. CASE ManifestUnreadable
  BY <1>4, ManifestUnreadableKeeps
<1>5. CASE UNCHANGED vars
  BY <1>5, InvariantStutters
<1> QED
  BY <1>1, <1>2, <1>3, <1>4, <1>5 DEF Next

\* The inductive invariant of a connection: chunks, transfers, manifest and attempts
\* agree, whatever transfers fail, are retried or outlive the call.
THEOREM TransfersInvariantHolds == Spec => []TransfersInvariant
BY InvariantInit, InvariantNext, PTL DEF Spec

\* Every variable keeps its type.
THEOREM TypeCorrect == Spec => []TypeOK
<1>1. TransfersInvariant => TypeOK
  BY DEF TransfersInvariant
<1> QED
  BY <1>1, TransfersInvariantHolds, PTL

\* A call that returns has done what it promises: upload_blobs, download_blobs and
\* delete_objects of abstract_storage.py, with any number of chunks and retries.
THEOREM ReturnedCallsAreDone == Spec => []ReturnedIsDone
<1>1. ASSUME TransfersInvariant PROVE ReturnedIsDone
  <2> SUFFICES ASSUME call.pc = "closed", changed = {}, NEW i \in Indices
               PROVE  /\ call.kind \in Uploads =>
                           /\ Cardinality(Listed(i)) = 1
                           /\ \A k \in Listed(i) : manifest[k] = Entry(i, bucket[Key(i)])
                           /\ bucket[Key(i)].size = disk[i].size
                           /\ UsesHashes \/ i \in Range(call.files) => bucket[Key(i)] = disk[i]
                      /\ call.kind = "download" => disk[i] = bucket[Key(i)] /\ disk[i] # Nothing
                      /\ call.kind = "delete" => bucket[Key(i)].size = 0
                      /\ call.kind \in Uploads \union {"download", "delete"}
    BY DEF ReturnedIsDone, Uploads
  <2>0. /\ call.kind \in Uploads \union {"download", "delete"}
        /\ call.files \in Seq(Indices) /\ call.next \in Nat
    BY <1>1 DEF TransfersInvariant, TypeOK, Calls, Kinds, ChunksInOrder
  <2>1. i \in Range(call.files) => task[i].pc = "done"
    <3>1. ASSUME NEW m \in DOMAIN call.files PROVE m <= call.next
      BY <1>1, <2>0 DEF TransfersInvariant, ChunksInOrder, Returned, Entered
    <3> QED BY <1>1, <3>1 DEF TransfersInvariant, ChunksInOrder, Range
  <2>2. TransferDid(i) /\ (i \notin Range(call.files) => LeftOut(i))
    BY <1>1 DEF TransfersInvariant, TransfersDone
  <2>3. ASSUME call.kind \in Uploads
        PROVE  /\ Cardinality(Listed(i)) = 1
               /\ \A k \in Listed(i) : manifest[k] = Entry(i, bucket[Key(i)])
               /\ bucket[Key(i)].size = disk[i].size
    <3>1. PICK m \in DOMAIN manifest : EntryOf(manifest[m], i)
      BY <1>1, <2>3 DEF TransfersInvariant, ManifestFollows, Entered
    <3>2. /\ manifest[m] = Entry(i, bucket[Key(i)]) /\ manifest[m].path = Key(i)
          /\ manifest[m].size = disk[i].size
      BY <3>1 DEF EntryOf
    <3>3. Listed(i) = {m}
      BY <1>1, <2>3, <3>1, <3>2 DEF Listed, TransfersInvariant, ManifestFollows, Entered
    <3>4. Cardinality(Listed(i)) = 1
      BY <3>3, FS_Singleton
    <3>5. manifest[m].size = bucket[Key(i)].size
      BY <3>2 DEF Entry
    <3> QED BY <3>2, <3>3, <3>4, <3>5
  <2>4. ASSUME call.kind \in Uploads, UsesHashes \/ i \in Range(call.files)
        PROVE  bucket[Key(i)] = disk[i]
    BY <2>1, <2>2, <2>4 DEF TransferDid, LeftOut, Uploads
  <2>5. call.kind = "download" => disk[i] = bucket[Key(i)] /\ disk[i] # Nothing
    BY <2>1, <2>2 DEF TransferDid, LeftOut
  <2>6. call.kind = "delete" => bucket[Key(i)].size = 0
    BY <2>1, <2>2, ObjectsDiffer DEF TransferDid, LeftOut
  <2> QED
    BY <2>0, <2>3, <2>4, <2>5, <2>6
<1> QED
  BY <1>1, TransfersInvariantHolds, PTL

\* A call fails after as many failures as a transfer has attempts, or because of an
\* object that is gone or a digest that Azure does not have.
THEOREM FailuresHaveAReason == Spec => []FailsForAReason
<1>1. ASSUME TransfersInvariant PROVE FailsForAReason
  <2> SUFFICES ASSUME NEW i \in Range(call.files), task[i].pc = "failed"
               PROVE  \/ faults >= Attempts
                      \/ Gone(i) /\ task[i].attempts = Attempts
    BY <1>1 DEF TransfersInvariant, RaisedByTask, FailsForAReason
  <2>1. i \in Indices
    BY <1>1, ChunkOf DEF TransfersInvariant
  <2>2. task[i].attempts = Attempts /\ (task[i].attempts <= faults \/ Gone(i))
    BY <1>1, <2>1 DEF TransfersInvariant, AttemptsCounted, Counted
  <2>3. Attempts \in Nat /\ faults \in Nat
    BY <1>1, NumbersAssumption, FaultsAssumption DEF TransfersInvariant, TypeOK, Attempts
  <2> QED BY <2>2, <2>3
<1> QED
  BY <1>1, TransfersInvariantHolds, PTL

\* What validate_manifest finds is what has changed: a backup whose manifest can be
\* read and that verifies with digests is the snapshot; one that does not verify has
\* changed, had a stray object in its directory or holds an empty file.
THEOREM VerificationTells == Spec => []VerifyTells
<1>1. TransfersInvariant => VerifyTells
  BY DEF TransfersInvariant
<1> QED
  BY <1>1, TransfersInvariantHolds, PTL

\* Nothing is written once a call has succeeded or S3 has waited for its executor;
\* where nobody waits, only a file that a thread is at work on is.
THEOREM NothingWritesLate == Spec => NoLateWrites
<1>0. ASSUME CallStep, call.pc \in Ended PROVE UNCHANGED <<disk, task, bucket>>
  <2>1. CASE Disconnect \/ DisconnectLeaves \/ Verify
    BY <2>1 DEF Disconnect, DisconnectLeaves, Leave, Verify
  <2>2. CASE BeginUpload \/ BeginUploadRaises \/ BeginFullUpload \/ BeginDownload \/ BeginDelete
    BY <1>0, <2>2 DEF BeginUpload, BeginUploadRaises, BeginFullUpload, BeginDownload,
                      BeginDelete, Begin, Ended
  <2>3. CASE StartChunk \/ GatherReturns \/ GatherRaises \/ KeepRest
    BY <1>0, <2>3 DEF StartChunk, GatherReturns, GatherRaises, KeepRest, Ended
  <2> QED BY <1>0, <2>1, <2>2, <2>3 DEF CallStep
<1>1. ASSUME TransfersInvariant, [Next]_vars, call.pc \in {"closed", "failed"}
      PROVE  /\ UNCHANGED <<disk, task>>
             /\ bucket' = bucket \/ Cardinality(changed') > Cardinality(changed)
  <2>1. CASE CallStep
    BY <1>0, <1>1, <2>1 DEF Ended
  <2>2. CASE \E i \in Indices : TaskStep(i)
    BY <1>1, <2>2, TaskRuns
  <2>3. CASE \E k \in Keys : ObjectChanges(k)
    <3>1. PICK k \in Keys : ObjectChanges(k)
      BY <2>3
    <3>2. changed' = changed \union {k} /\ k \notin changed /\ UNCHANGED <<disk, task>>
      BY <3>1 DEF ObjectChanges
    <3>3. IsFiniteSet(changed) /\ Cardinality(changed) \in Nat
      BY <1>1, FS_CardinalityType DEF TransfersInvariant
    <3>4. Cardinality(changed') = Cardinality(changed) + 1
      BY <3>2, <3>3, FS_AddElement
    <3> QED BY <3>2, <3>3, <3>4
  <2>4. CASE ManifestUnreadable \/ UNCHANGED vars
    BY <2>4 DEF ManifestUnreadable, vars
  <2> QED
    BY <1>1, <2>1, <2>2, <2>3, <2>4 DEF Next
<1>2. ASSUME TransfersInvariant, [Next]_vars, call.pc = "left", NEW i \in Indices, ~InThread(i)
      PROVE  disk'[i] = disk[i] /\ task'[i] = task[i] /\ bucket'[Key(i)] = bucket[Key(i)]
  <2>1. CASE CallStep
    BY <1>0, <1>2, <2>1 DEF Ended
  <2>2. CASE \E j \in Indices : TaskStep(j)
    <3>1. PICK j \in Indices : TaskStep(j)
      BY <2>2
    <3>2. InThread(j)
      BY <1>2, <3>1, TaskRuns
    <3> QED BY <1>2, <3>1, <3>2, TransferWrites
  <2>3. CASE ManifestUnreadable \/ (\E k \in Keys : ObjectChanges(k)) \/ UNCHANGED vars
    BY <1>2, <2>3 DEF ManifestUnreadable, ObjectChanges, vars
  <2> QED
    BY <1>2, <2>1, <2>2, <2>3 DEF Next
<1>3. ASSUME TransfersInvariant, [Next]_vars
      PROVE  /\ call.pc \in {"closed", "failed"} =>
                    /\ UNCHANGED <<disk, task>>
                    /\ bucket' = bucket \/ Cardinality(changed') > Cardinality(changed)
             /\ call.pc = "left" =>
                    \A i \in Indices :
                        \/ InThread(i)
                        \/ /\ disk'[i] = disk[i] /\ task'[i] = task[i]
                           /\ bucket'[Key(i)] = bucket[Key(i)]
  BY <1>1, <1>2, <1>3
<1> QED
  BY <1>3, TransfersInvariantHolds, PTL DEF Spec, NoLateWrites
=============================================================================
