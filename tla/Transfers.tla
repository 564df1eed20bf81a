------------------------------ MODULE Transfers ------------------------------
(***************************************************************************)
(* How the storage drivers move files.  upload_blobs, download_blobs and   *)
(* delete_objects of abstract_storage.py take a list in chunks of          *)
(* concurrent_transfers coroutines, wait for each chunk with asyncio.gather*)
(* and stop at the first coroutine that fails; the drivers retry a single  *)
(* transfer.  A coroutine only runs while the event loop runs, but threads *)
(* do not stop when a call has failed: the S3 driver hands whole transfers *)
(* to an executor of its own, and aiofiles hands every open and write of   *)
(* the local driver and of Google's downloads to the one of the loop.      *)
(*                                                                         *)
(* A behaviour is one connection to the storage with one call: the upload  *)
(* of a backup of one table, a download or a deletion.  A differential     *)
(* upload first compares the files with the objects that are there         *)
(* (backup_node.check_already_uploaded).  A finished upload is verified    *)
(* later (verify.py), when objects may have been lost or overwritten.      *)
(***************************************************************************)
EXTENDS Integers, Sequences, FiniteSets, SequencesExt

CONSTANTS
    Files,                \* the files of one table
    Contents,             \* what a file may hold: records [size, body]
    Scenarios,            \* the files and objects there are: records [disk, bucket]
    Providers,            \* among "s3", "google", "azure", "local"
    ConcurrentTransfers,  \* concurrent_transfers
    MaxAttempts,          \* MAX_UP_DOWN_LOAD_RETRIES
    SingleUploadSize,     \* external: from here on boto and Azure's client upload in parts
    MultipartChunksize,   \* multipart_chunksize: the parts of an upload to S3
    PartSize,             \* MULTIPART_PART_SIZE_IN_MB: the parts of a computed digest
    MultipartThreshold,   \* multi_part_upload_threshold: files digested in parts
    MaxFaults             \* bound: transfers that fail and objects that change

\* A file is known by the folder and the name its path ends in.
Paths == [dir : STRING, name : STRING]

ASSUME FilesAssumption ==
    /\ Files \in Seq(Paths)
    /\ IsInjective(Files)
    /\ \A i \in DOMAIN Files : Files[i].name # "stray"
ASSUME ContentsAssumption == Contents \subseteq [size : Nat, body : STRING]
ASSUME NumbersAssumption ==
    {ConcurrentTransfers, MaxAttempts, SingleUploadSize, MultipartChunksize, PartSize,
     MultipartThreshold} \subseteq Nat \ {0}
ASSUME FaultsAssumption == MaxFaults \in Nat

VARIABLES
    provider,  \* the driver
    md5,       \* --enable-md5-checks
    disk,      \* per file: its content, on the node or in the download directory
    bucket,    \* per object key: its content
    call,      \* the call: what it does, where it is, for which files, and how many of
               \* them come before the chunk it is at
    task,      \* per file: the coroutine and the transfer of the file
    manifest,  \* the manifest objects an upload has come to
    faults,    \* faults of transfers so far
    changed    \* the objects of the backup that changed after the upload

vars == <<provider, md5, disk, bucket, call, task, manifest, faults, changed>>

Indices == DOMAIN Files
Nothing == [size |-> 0, body |-> "nothing"]
Partial == [size |-> 0, body |-> "partial"]  \* a local file that was not written to its end

\* Mutant of path_maybe_with_parent: the sub-folder is dropped.
path_without_parent(file) == <<file.name>>

\* Files of secondary indexes and of DSE keep their sub-folder.
path_maybe_with_parent(file) ==
    IF file.dir # "table" THEN <<file.dir, file.name>> ELSE <<file.name>>

Key(i) == path_maybe_with_parent(Files[i])

\* An object of the table that is no file of this backup.
Stray == <<"stray">>
Keys == {Key(i) : i \in Indices} \union {Stray}

\* The object the manifest is written to.
ManifestFile == <<"backup", "meta", "manifest.json">>

ASSUME PartialsAssumption == {Nothing, Partial} \cap Contents = {}

Objects == Contents \union {Nothing, Partial}
Bodies == {c.body : c \in Objects}

\* The files of the node are there, the objects are files or parts of files.
ASSUME ScenariosAssumption ==
    \A s \in Scenarios : /\ s.disk \in [Indices -> Contents]
                         /\ s.bucket \in [DOMAIN s.bucket -> Objects]

Uploads == {"differential", "full"}
Kinds == Uploads \union {"none", "download", "delete"}
NoTask == [pc |-> "none", attempts |-> 0]

Init ==
    /\ provider \in Providers
    /\ md5 \in BOOLEAN
    /\ \E s \in Scenarios :
           /\ Partial \in Range(s.bucket) => provider = "local"
           /\ disk = s.disk
           /\ bucket = [k \in Keys |-> IF k \in DOMAIN s.bucket THEN s.bucket[k] ELSE Nothing]
    /\ call = [kind |-> "none", pc |-> "open", files |-> <<>>, next |-> 0]
    /\ task = [i \in Indices |-> NoTask]
    /\ manifest = <<>>
    /\ faults = 0
    /\ changed = {}

(***************************************************************************)
(* Which files are in the storage already.  A digest is known by how it    *)
(* was made and what it was made of.                                       *)
(***************************************************************************)
generate_md5_hash(c) == <<"single", c.body, 1, c.size>>

\* The digest of the digests of n parts; the first one tells how the file is cut.
DigestOfParts(c, n, part) == <<"multi", c.body, n, IF part < c.size THEN part ELSE c.size>>

\* The last part is the one that reads the end of the file: a file of whole parts
\* gets an empty one.
md5_multipart(c) == DigestOfParts(c, (c.size \div PartSize) + 1, PartSize)

NoHash == <<"no-md5-hash", Nothing.body, 0, 0>>

\* Large files go up in parts: S3 digests the parts' digests, Azure has no digest,
\* and the local driver never uses one.
StoredHash(c) ==
    CASE provider = "local" -> NoHash
      [] provider = "azure" /\ c.size >= SingleUploadSize -> NoHash
      [] provider = "s3" /\ c.size >= SingleUploadSize ->
             DigestOfParts(c, (c.size + MultipartChunksize - 1) \div MultipartChunksize,
                           MultipartChunksize)
      [] OTHER -> generate_md5_hash(c)

FileHash(c) ==
    IF provider = "s3" /\ c.size >= MultipartThreshold
    THEN md5_multipart(c) ELSE generate_md5_hash(c)

\* The local driver compares sizes only.
UsesHashes == md5 /\ provider # "local"

\* What b64decode takes: not Azure's placeholder, and the ETag of an upload in
\* parts only when the number of its parts has four digits.
Decodable(hash) ==
    /\ hash # NoHash
    /\ hash[1] = "multi" => hash[3] \in 1000 .. 9999

\* Mutant of compare_with_manifest: the digests are not compared.
compare_sizes(size, hash, entry) == size = entry.size

\* Sizes, and digests when they are asked for and the driver has them.
compare_with_manifest(size, hash, entry) ==
    /\ size = entry.size
    /\ ~UsesHashes \/ hash = entry.hash

\* What the manifest says of an object, and what a listing does.
Entry(i, c) == [path |-> Key(i), size |-> c.size, hash |-> StoredHash(c)]

file_matches_storage(i) ==
    compare_with_manifest(disk[i].size, FileHash(disk[i]), Entry(i, bucket[Key(i)]))

NeedsBackup(i) == bucket[Key(i)] = Nothing
AlreadyBackedUp(i) == ~NeedsBackup(i) /\ file_matches_storage(i)
NeedsReupload(i) == ~NeedsBackup(i) /\ ~AlreadyBackedUp(i)

(***************************************************************************)
(* The calls.                                                              *)
(***************************************************************************)
Begin(kind, files) ==
    /\ call.pc = "open"
    /\ call' = [call EXCEPT !.kind = kind, !.pc = "chunk", !.files = files]
    /\ UNCHANGED <<provider, md5, task, manifest, faults, changed>>

\* file_matches_storage decodes what it compares; on S3 neither digest of a
\* multipart file or object.
ComparisonRaises ==
    /\ UsesHashes /\ provider # "s3"
    /\ \E i \in Indices : ~NeedsBackup(i) /\ ~Decodable(StoredHash(bucket[Key(i)]))

\* A differential backup uploads what is missing or different and keeps the rest.
\* Directories are listed in an order that the code does not choose (SetToSeq).
BeginUpload ==
    /\ ~ComparisonRaises
    /\ Begin("differential", SetToSeq({i \in Indices : NeedsBackup(i)})
                             \o SetToSeq({i \in Indices : NeedsReupload(i)}))
    /\ UNCHANGED <<disk, bucket>>

\* A digest that cannot be decoded ends the backup.
BeginUploadRaises ==
    /\ ComparisonRaises
    /\ call.pc = "open"
    /\ call' = [call EXCEPT !.kind = "differential", !.pc = "raised"]
    /\ UNCHANGED <<provider, md5, disk, bucket, task, manifest, faults, changed>>

\* A full backup uploads everything, to a directory of its own, where an
\* interrupted backup may have left an object.
BeginFullUpload ==
    /\ Begin("full", SetToSeq(Indices))
    /\ bucket' = [k \in Keys |-> IF k = Stray THEN bucket[k] ELSE Nothing]
    /\ UNCHANGED disk

\* A restore downloads to an empty directory; the objects may be gone.
BeginDownload ==
    /\ Begin("download", SetToSeq(Indices))
    /\ disk' = [i \in Indices |-> Nothing]
    /\ UNCHANGED bucket

\* A purge deletes the objects it has listed.
BeginDelete ==
    /\ Begin("delete", SetToSeq({i \in Indices : bucket[Key(i)].size > 0}))
    /\ UNCHANGED <<disk, bucket>>

\* The places of the chunk in the list of files, and the files there.
ChunkEnd ==
    IF call.next + ConcurrentTransfers < Len(call.files)
    THEN call.next + ConcurrentTransfers ELSE Len(call.files)
Chunk == {call.files[m] : m \in call.next + 1 .. ChunkEnd}
ChunkInOrder == SubSeq(call.files, call.next + 1, ChunkEnd)

\* The coroutines of the next chunk are made, or there is none.
StartChunk ==
    /\ call.pc = "chunk"
    /\ IF Chunk = {}
       THEN /\ call' = [call EXCEPT !.pc = "returned"]
            /\ UNCHANGED task
       ELSE /\ call' = [call EXCEPT !.pc = "gather"]
            /\ task' = [i \in Indices |->
                           IF i \in Chunk THEN [pc |-> "ready", attempts |-> 1] ELSE task[i]]
    /\ UNCHANGED <<provider, md5, disk, bucket, manifest, faults, changed>>

\* The manifest objects of files, from the objects in the bucket.
Entries(files) == [k \in DOMAIN files |-> Entry(files[k], bucket[Key(files[k])])]

\* All of the chunk are done: the results are in the order of the coroutines.
GatherReturns ==
    /\ call.pc = "gather"
    /\ \A i \in Chunk : task[i].pc = "done"
    /\ call' = [call EXCEPT !.pc = "chunk", !.next = @ + ConcurrentTransfers]
    /\ manifest' = IF call.kind \in Uploads THEN manifest \o Entries(ChunkInOrder) ELSE manifest
    /\ UNCHANGED <<provider, md5, disk, bucket, task, faults, changed>>

\* One fails, when all have run up to their first wait: the others are left alone.
GatherRaises ==
    /\ call.pc = "gather"
    /\ \E i \in Chunk : task[i].pc = "failed"
    /\ \A i \in Chunk : task[i].pc = "ready" => task[i].attempts > 1
    /\ call' = [call EXCEPT !.pc = "raised"]
    /\ UNCHANGED <<provider, md5, disk, bucket, task, manifest, faults, changed>>

\* The files that were kept are entered in the manifest again.
KeepRest ==
    /\ call.pc = "returned"
    /\ call.kind \in Uploads
    /\ manifest' = manifest \o Entries(SetToSeq(Indices \ Range(call.files)))
    /\ call' = [call EXCEPT !.pc = "entered"]
    /\ UNCHANGED <<provider, md5, disk, bucket, task, faults, changed>>

(***************************************************************************)
(* One transfer.  The coroutines run while the event loop does; what they  *)
(* have handed to a thread goes on by itself.                              *)
(***************************************************************************)
\* The drivers of Google and Azure run the loop again to disconnect.
LoopRuns ==
    \/ call.pc = "gather"
    \/ call.pc = "raised" /\ provider \in {"google", "azure"}

\* Files are opened and written through aiofiles, each time in a thread.
ThroughAiofiles ==
    \/ provider = "local" /\ call.kind # "delete"
    \/ provider = "google" /\ call.kind = "download"

InThread(i) ==
    \/ provider = "s3" /\ call.kind # "delete" /\ task[i].pc \in {"moving", "moved"}
    \/ ThroughAiofiles /\ task[i].pc \in {"opening", "moving"}
Proceeds(i) == LoopRuns \/ InThread(i)

Set(i, pc) == task' = [task EXCEPT ![i].pc = pc]

\* The retry policy: the local driver has none.
Attempts == IF provider = "local" THEN 1 ELSE MaxAttempts

\* Downloads and, except on S3, deletions of what is gone fail.
Gone(i) ==
    /\ bucket[Key(i)] = Nothing
    /\ \/ call.kind = "download"
       \/ call.kind = "delete" /\ provider # "s3"

\* The coroutine runs up to its transfer, or up to where it opens the file it
\* writes.  Azure's download has opened it, which empties it; boto downloads to a
\* file of another name.
StartTransfer(i) ==
    /\ task[i].pc = "ready"
    /\ LoopRuns
    /\ Set(i, IF Gone(i) THEN "error" ELSE IF ThroughAiofiles THEN "opening" ELSE "moving")
    /\ disk' = [disk EXCEPT ![i] = IF call.kind = "download" /\ ~Gone(i) /\ provider = "azure"
                                   THEN Partial ELSE @]
    /\ UNCHANGED <<provider, md5, bucket, call, manifest, faults, changed>>

\* The thread opens the file, which empties it.
Open(i) ==
    /\ task[i].pc = "opening"
    /\ Proceeds(i)
    /\ Set(i, "opened")
    /\ disk' = [disk EXCEPT ![i] = IF call.kind = "download" THEN Partial ELSE @]
    /\ bucket' = [bucket EXCEPT ![Key(i)] = IF call.kind \in Uploads THEN Partial ELSE @]
    /\ UNCHANGED <<provider, md5, call, manifest, faults, changed>>

\* The coroutine goes on to write.
Write(i) ==
    /\ task[i].pc = "opened"
    /\ LoopRuns
    /\ Set(i, "moving")
    /\ UNCHANGED <<provider, md5, disk, bucket, call, manifest, faults, changed>>

\* The bytes are moved.  A file of several buffers is whole with the last of them.
Move(i) ==
    /\ task[i].pc = "moving"
    /\ Proceeds(i)
    /\ Set(i, IF call.kind = "download" THEN "done" ELSE "moved")
    /\ disk' = [disk EXCEPT ![i] = IF call.kind = "download" THEN bucket[Key(i)] ELSE @]
    /\ bucket' = [bucket EXCEPT ![Key(i)] = CASE call.kind \in Uploads -> disk[i]
                                              [] call.kind = "delete" -> Nothing
                                              [] call.kind = "download" -> @]
    /\ UNCHANGED <<provider, md5, call, manifest, faults, changed>>

\* The answer arrives, with the properties of the object.
Answer(i) ==
    /\ task[i].pc = "moved"
    /\ Proceeds(i)
    /\ Set(i, "done")
    /\ UNCHANGED <<provider, md5, disk, bucket, call, manifest, faults, changed>>

\* The transfer fails, or it is done and its answer is lost.
TransferFails(i) ==
    /\ \/ task[i].pc \in {"opening", "moving"}
       \/ task[i].pc = "moved" /\ provider # "local"
    /\ Proceeds(i)
    /\ faults < MaxFaults
    /\ faults' = faults + 1
    /\ Set(i, "error")
    /\ UNCHANGED <<provider, md5, disk, bucket, call, manifest, changed>>

\* Mutant of Retry: one attempt less.
RetryLess(i) ==
    /\ task[i].pc = "error"
    /\ LoopRuns
    /\ task' = [task EXCEPT ![i] = IF @.attempts + 1 < Attempts
                                   THEN [pc |-> "ready", attempts |-> @.attempts + 1]
                                   ELSE [@ EXCEPT !.pc = "failed"]]
    /\ UNCHANGED <<provider, md5, disk, bucket, call, manifest, faults, changed>>

\* Mutant of Retry: one attempt more.
RetryMore(i) ==
    /\ task[i].pc = "error"
    /\ LoopRuns
    /\ task' = [task EXCEPT ![i] = IF @.attempts <= Attempts
                                   THEN [pc |-> "ready", attempts |-> @.attempts + 1]
                                   ELSE [@ EXCEPT !.pc = "failed"]]
    /\ UNCHANGED <<provider, md5, disk, bucket, call, manifest, faults, changed>>

\* Mutant of Retry: the attempts are not counted.
RetryAlways(i) ==
    /\ task[i].pc = "error"
    /\ LoopRuns
    /\ Set(i, "ready")
    /\ UNCHANGED <<provider, md5, disk, bucket, call, manifest, faults, changed>>

\* tenacity starts the coroutine again until the attempts are used up.
Retry(i) ==
    /\ task[i].pc = "error"
    /\ LoopRuns
    /\ task' = [task EXCEPT ![i] = IF @.attempts < Attempts
                                   THEN [pc |-> "ready", attempts |-> @.attempts + 1]
                                   ELSE [@ EXCEPT !.pc = "failed"]]
    /\ UNCHANGED <<provider, md5, disk, bucket, call, manifest, faults, changed>>

\* Mutant of ThreadsDone: shutdown does not wait.
ThreadsIgnored == TRUE

\* No thread is at work for the call.
ThreadsDone == \A i \in Indices : ~InThread(i)

\* The call has ended and the backup, restore or purge leaves its storage.
Leave(failed) ==
    /\ call.pc \in {"returned", "entered", "raised"}
    /\ call.pc = "returned" => call.kind \notin Uploads
    /\ call' = [call EXCEPT !.pc = IF @ = "raised" THEN failed ELSE "closed"]
    /\ UNCHANGED <<provider, md5, disk, bucket, task, manifest, faults, changed>>

\* S3 shuts its executor down and waits for the threads; Azure has none.
Disconnect ==
    /\ provider \in {"s3", "azure"}
    /\ provider = "s3" => ThreadsDone
    /\ Leave("failed")

\* Nobody waits for the threads of aiofiles, and S3 skips the shutdown when
\* closing the client raises.
DisconnectLeaves ==
    /\ provider # "azure"
    /\ Leave("left")

(***************************************************************************)
(* The verification of an uploaded backup.                                 *)
(***************************************************************************)
\* An object of the backup is lost, or overwritten by a later differential backup
\* whose file has its name.
ObjectChanges(k) ==
    /\ call.pc = "closed"
    /\ call.kind \in Uploads
    /\ Cardinality(changed) < MaxFaults
    /\ k \notin changed \union {Stray}
    /\ \E c \in Contents \union {Nothing} :
           /\ c # bucket[k]
           /\ c # Nothing => call.kind = "differential"
           /\ bucket' = [bucket EXCEPT ![k] = c]
    /\ changed' = changed \union {k}
    /\ UNCHANGED <<provider, md5, disk, call, task, manifest, faults>>

\* The manifest is lost, or it cannot be read or parsed when it is needed.
ManifestUnreadable ==
    /\ call.pc = "closed"
    /\ call.kind \in Uploads
    /\ Cardinality(changed) < MaxFaults
    /\ ManifestFile \notin changed
    /\ changed' = changed \union {ManifestFile}
    /\ UNCHANGED <<provider, md5, disk, bucket, call, task, manifest, faults>>

HasName(path, name) == path[Len(path)] = name

\* Statistics are not looked at, and summaries may differ.
Checked(path) == ~HasName(path, "Statistics")
MayDiffer(path) == HasName(path, "Summary")

blob_matches_manifest(entry) ==
    LET c == bucket[entry.path]
    IN  compare_with_manifest(c.size, StoredHash(c), entry)

\* The entries a verification goes through: none when it cannot read the
\* manifest, which it logs and takes for no error.
Verified ==
    IF ManifestFile \in changed THEN {} ELSE {e \in Range(manifest) : Checked(e.path)}

\* list_objects leaves empty objects out.
InListing(path) == bucket[path].size > 0

\* Objects that are missing, objects that differ and, for a full backup, objects
\* that are not in the manifest.
validate_manifest ==
    {e.path : e \in {x \in Verified :
        \/ ~InListing(x.path)
        \/ ~blob_matches_manifest(x) /\ ~MayDiffer(x.path)}}
    \union
    {k \in Keys : /\ call.kind = "full" /\ ManifestFile \notin changed
                  /\ InListing(k) /\ Checked(k)
                  /\ k \notin {e.path : e \in Verified}}

\* Digests are decoded to be compared, on S3 unless the one in the manifest is of
\* an upload in parts; one that cannot be ends the verification.
ValidationRaises ==
    /\ UsesHashes
    /\ \E e \in Verified :
           /\ InListing(e.path)
           /\ provider = "s3" => e.hash[1] # "multi"
           /\ ~Decodable(e.hash) \/ ~Decodable(StoredHash(bucket[e.path]))

Verify ==
    /\ call.pc = "closed"
    /\ call.kind \in Uploads
    /\ call' = [call EXCEPT !.pc = IF ValidationRaises THEN "unverified"
                                   ELSE IF validate_manifest = {} THEN "valid" ELSE "invalid"]
    /\ UNCHANGED <<provider, md5, disk, bucket, task, manifest, faults, changed>>

CallStep ==
    \/ BeginUpload \/ BeginUploadRaises \/ BeginFullUpload \/ BeginDownload \/ BeginDelete
    \/ StartChunk \/ GatherReturns \/ GatherRaises \/ KeepRest
    \/ Disconnect \/ DisconnectLeaves \/ Verify

TaskStep(i) ==
    \/ StartTransfer(i) \/ Open(i) \/ Write(i) \/ Move(i) \/ Answer(i)
    \/ TransferFails(i) \/ Retry(i)

Next ==
    \/ CallStep
    \/ \E i \in Indices : TaskStep(i)
    \/ \E k \in Keys : ObjectChanges(k)
    \/ ManifestUnreadable

Spec == Init /\ [][Next]_vars

\* The process goes on, and so does every transfer.
FairSpec == Spec /\ WF_vars(CallStep) /\ \A i \in Indices : WF_vars(TaskStep(i))

-----------------------------------------------------------------------------
(***************************************************************************)
(* Properties.                                                             *)
(***************************************************************************)
Ended == {"closed", "failed", "left", "valid", "invalid", "unverified"}

Calls ==
    [kind : Kinds,
     pc : Ended \union {"open", "chunk", "gather", "returned", "entered", "raised"},
     files : Seq(Indices), next : Nat]
Tasks == [pc : {"none", "ready", "opening", "opened", "moving", "moved", "error", "failed", "done"},
          attempts : 0 .. MaxAttempts]
Hashes == {"single", "multi", "no-md5-hash"} \X Bodies \X Nat \X Nat
ManifestObjects == [path : Keys, size : Nat, hash : Hashes]

\* Every variable keeps its type: the chunks that a call takes, the attempts
\* that tenacity counts and the entries a gathered upload returns among them.
TypeOK ==
    /\ provider \in Providers /\ md5 \in BOOLEAN
    /\ disk \in [Indices -> Objects]
    /\ bucket \in [Keys -> Objects]
    /\ call \in Calls
    /\ task \in [Indices -> Tasks]
    /\ manifest \in Seq(ManifestObjects)
    /\ faults \in 0 .. MaxFaults
    /\ changed \subseteq Keys \union {ManifestFile}

\* The first place where the manifest of an upload lists a file.
Listed(i) == {k \in DOMAIN manifest : manifest[k].path = Key(i)}

\* What a call promises when it returns, whatever was retried on the way
\* (abstract_storage.py upload_blobs, download_blobs, delete_objects): after an
\* upload the manifest lists every file once, as it is in the bucket, and the bucket
\* holds the file that was uploaded, or one that the checks could not tell from it;
\* after a download the files are the objects; after a deletion they are gone.
ReturnedIsDone ==
    call.pc = "closed" /\ changed = {} =>
        \A i \in Indices :
            CASE call.kind \in Uploads ->
                     /\ Cardinality(Listed(i)) = 1
                     /\ \A k \in Listed(i) : manifest[k] = Entry(i, bucket[Key(i)])
                     /\ bucket[Key(i)].size = disk[i].size
                     /\ UsesHashes \/ i \in Range(call.files) => bucket[Key(i)] = disk[i]
              [] call.kind = "download" -> disk[i] = bucket[Key(i)] /\ disk[i] # Nothing
              [] call.kind = "delete" -> bucket[Key(i)].size = 0

\* A call only fails when a transfer has used up its attempts, and that takes as many
\* failures: fewer are made good by the retries (@retry of the drivers).  The other
\* reasons are an object that is gone, also because a deletion whose answer was
\* lost is repeated, and a digest that Azure does not have.
FailsForAReason ==
    call.pc \in {"raised", "failed", "left"} =>
        \/ faults >= Attempts
        \/ \E i \in Range(call.files) : Gone(i) /\ task[i].attempts = Attempts
        \/ call.files = <<>> /\ ComparisonRaises

\* Once a call has succeeded and its storage is disconnected, or has failed and S3
\* has waited for its executor, what is in the bucket and on the disk stays as it
\* is, so a retry of the command does not meet transfers of the first attempt
\* (S3BaseStorage.disconnect).  Where nobody waits for the threads of a call that
\* has failed (LocalStorage.disconnect, GoogleStorage.disconnect, S3 when close()
\* raises), only a file that a thread is at work on changes, and no other is begun.
NoLateWrites ==
    [][/\ call.pc \in {"closed", "failed"} =>
              /\ UNCHANGED <<disk, task>>
              /\ bucket' = bucket \/ Cardinality(changed') > Cardinality(changed)
       /\ call.pc = "left" =>
              \A i \in Indices :
                  \/ InThread(i)
                  \/ /\ disk'[i] = disk[i] /\ task'[i] = task[i]
                     /\ bucket'[Key(i)] = bucket[Key(i)]]_vars

\* A backup that was made and verified with digests gives the snapshot back, except
\* for the statistics and summaries that the verification leaves out, and except
\* when its manifest could not be read: verify says OK then without looking at
\* anything.  A verification only fails when objects changed, when the directory
\* of a full backup held an object before, or when a file is empty, which
\* list_objects hides (verify.validate_manifest).
VerifyTells ==
    /\ call.pc = "valid" /\ UsesHashes /\ ManifestFile \notin changed =>
           \A i \in Indices : Checked(Key(i)) /\ ~MayDiffer(Key(i)) => bucket[Key(i)] = disk[i]
    /\ call.pc = "invalid" =>
           \/ changed \ {ManifestFile} # {}
           \/ bucket[Stray] # Nothing
           \/ \E i \in Indices : disk[i].size = 0

\* Every call ends and the connection is closed, with retries, failures and threads
\* that outlive the call (delays of the retries aside).
CallsEnd == <>(call.pc \in Ended)

-----------------------------------------------------------------------------
(***************************************************************************)
(* The inductive invariant behind them.                                    *)
(***************************************************************************)
\* The call has returned, and the pcs of an upload whose manifest is made.
Entered == {"entered", "closed", "valid", "invalid", "unverified"}
Returned == Entered \union {"returned"}

\* The files of the call are taken one after the other and once each: those before
\* the chunk are done, tasks are only there for files, and for all files in the end.
ChunksInOrder ==
    /\ IsInjective(call.files)
    /\ \A i \in Indices : task[i].pc # "none" => i \in Range(call.files)
    /\ \A m \in DOMAIN call.files : m <= call.next => task[call.files[m]].pc = "done"
    /\ call.pc \in Returned => Len(call.files) <= call.next
    /\ call.pc = "open" => call = [kind |-> "none", pc |-> "open", files |-> <<>>, next |-> 0]
    /\ call.pc # "open" => call.kind # "none"
    /\ call.pc \in Entered \ {"closed"} => call.kind \in Uploads

\* The files on the node are there, except while they are downloaded.
DiskThere == call.kind # "download" => disk \in [Indices -> Contents]

\* What the transfer of a file has done: nothing else writes to the file or object.
TransferDid(i) ==
    /\ call.kind \in Uploads /\ task[i].pc \in {"moved", "done"} =>
           bucket[Key(i)] = disk[i] \/ Key(i) \in changed
    /\ call.kind = "download" /\ task[i].pc \in {"opening", "opened", "moving", "moved", "done"} =>
           bucket[Key(i)] # Nothing /\ task[i].pc # "moved"
    /\ call.kind = "download" /\ task[i].pc = "done" => disk[i] = bucket[Key(i)]
    /\ call.kind = "delete" /\ task[i].pc \in {"moved", "done"} => bucket[Key(i)] = Nothing

\* A file that is left out of the call needs no transfer.
LeftOut(i) ==
    CASE call.kind = "differential" ->
             \/ Key(i) \in changed
             \/ /\ bucket[Key(i)].size = disk[i].size
                /\ UsesHashes => bucket[Key(i)] = disk[i]
      [] call.kind = "delete" -> bucket[Key(i)].size = 0
      [] OTHER -> FALSE

TransfersDone ==
    \A i \in Indices :
        /\ TransferDid(i)
        /\ call.pc \notin {"open", "raised", "failed", "left"} /\ i \notin Range(call.files) => LeftOut(i)

\* An entry of the manifest tells of file i what the storage had of it.
EntryOf(entry, i) ==
    /\ entry.path = Key(i)
    /\ entry.size = disk[i].size
    /\ UsesHashes => entry.hash = StoredHash(disk[i])
    /\ Key(i) \in changed \/ entry = Entry(i, bucket[Key(i)])

\* The manifest follows the chunks, and in the end has one entry per file.
ManifestFollows ==
    /\ call.pc \notin Entered => changed = {}
    /\ call.pc = "open" => manifest = <<>>
    /\ call.kind \in Uploads /\ call.pc \in {"chunk", "gather", "returned"} =>
           /\ Len(manifest) = IF call.next < Len(call.files) THEN call.next ELSE Len(call.files)
           /\ \A m \in DOMAIN manifest : EntryOf(manifest[m], call.files[m])
    /\ call.kind \in Uploads /\ call.pc \in Entered =>
           /\ \A i \in Indices : \E m \in DOMAIN manifest : EntryOf(manifest[m], i)
           /\ \A m \in DOMAIN manifest : \E i \in Indices : EntryOf(manifest[m], i)
           /\ \A m, n \in DOMAIN manifest : manifest[m].path = manifest[n].path => m = n

\* Every attempt but the last has failed; a failure is counted or due to a missing object.
Counted(i) ==
    /\ task[i].attempts <= Attempts
    /\ task[i].pc = "failed" => task[i].attempts = Attempts
    /\ task[i].pc \in {"error", "failed"} => task[i].attempts <= faults \/ Gone(i)
    /\ task[i].pc \in {"ready", "opening", "opened", "moving", "moved"} => task[i].attempts <= faults + 1 \/ Gone(i)
AttemptsCounted == \A i \in Indices : Counted(i)

\* A call raises because of a task that has failed, or before it has made any.
RaisedByTask ==
    call.pc \in {"raised", "failed", "left"} =>
        \/ \E i \in Range(call.files) : task[i].pc = "failed"
        \/ call.files = <<>> /\ ComparisonRaises

\* No thread is at work when a call has ended, except where nobody waits for it.
NoThreads == call.pc \in Ended \ {"left"} => ThreadsDone

TransfersInvariant ==
    /\ TypeOK
    /\ IsFiniteSet(changed)
    /\ ChunksInOrder
    /\ DiskThere
    /\ TransfersDone
    /\ ManifestFollows
    /\ AttemptsCounted
    /\ RaisedByTask
    /\ NoThreads
    /\ VerifyTells
=============================================================================
