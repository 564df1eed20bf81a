----------------------------- MODULE NodeBackups -----------------------------
(****************************************************************************)
(* The backups of one Cassandra node in its storage bucket: what "medusa    *)
(* backup", "purge", "delete-backup", "build-index", "report-last-backup"   *)
(* and the listing commands read and write there, one action per storage    *)
(* call whose order matters, with a failure or a crash possible between     *)
(* any two of them.                                                         *)
(*                                                                          *)
(* The bucket is kept as                                                    *)
(*   <fqdn>/<name>/meta/<kind>               meta[b], with manifest, born,  *)
(*                                           doneAt for content and mtimes  *)
(*   index/backup_index/<name>/<kind>_<fqdn> idx[b], stamp[b]               *)
(*   index/latest_backup/<fqdn>/             latest                         *)
(*   <fqdn>/data/...                         blobs, mtime, torn             *)
(* The data of a full backup lives in a directory of its own that no other  *)
(* backup reads and only its own purge deletes; it is left out, so the      *)
(* manifest of a full backup names no file of the shared data directory.    *)
(****************************************************************************)
EXTENDS Integers, FiniteSets, Sequences

CONSTANTS
  Names,             \* backup names; their order as numbers is their listing order
  Files,             \* SSTable file names of the node, never reused by Cassandra
  NamePrefix,        \* <<b, c>>: name c is longer than name b and starts with it
  Grace,             \* backup_grace_period_in_days, in ticks
  MaxAge,            \* max_backup_age, 0: no purge by age
  MaxCount,          \* max_backup_count, 0: no purge by count
  MaxTime,           \* bound: the clock stops here
  MaxDuration,       \* the clock moves at most this far while a command runs
  MaxFailures,       \* bound: commands that fail or are killed
  Modes,             \* the --mode values in use
  KeepFlags,         \* the --keep-snapshot values in use
  SnapshotOwners,    \* "medusa": the backup takes its snapshot;
                     \* "operator": --use-existing-snapshot
  Overlap,           \* may a purge run while a backup or a build-index runs
  PurgeRunning,      \* may a purge be asked for a backup that is running
  ConcurrentBackups, \* may two backups of this node run at once
  SortedListing,     \* the storage lists objects by name (S3, GCS, Azure),
                     \* or in any order (a local file system)
  AtomicUploads,     \* an object appears whole (S3, GCS, Azure), or an
                     \* interrupted upload leaves a part of it (local)
  IndexLoss          \* may the index be lost, to be built again by build-index

Owners == {"medusa", "operator"}

ASSUME NamesAreNumbers == Names \subseteq Nat \ {0}
ASSUME PrefixesAreNames ==
  /\ NamePrefix \subseteq Names \X Names
  /\ \A b \in Names : <<b, b>> \notin NamePrefix
ASSUME PeriodsAreNaturals ==
  /\ Grace \in Nat /\ MaxAge \in Nat /\ MaxCount \in Nat
  /\ MaxTime \in Nat /\ MaxFailures \in Nat /\ MaxDuration \in Nat
ASSUME OptionsInUse ==
  /\ Modes \subseteq {"full", "differential"}
  /\ KeepFlags \subseteq BOOLEAN
  /\ SnapshotOwners \subseteq Owners
ASSUME SwitchesAreBoolean ==
  /\ Overlap \in BOOLEAN
  /\ PurgeRunning \in BOOLEAN
  /\ ConcurrentBackups \in BOOLEAN
  /\ SortedListing \in BOOLEAN
  /\ AtomicUploads \in BOOLEAN
  /\ IndexLoss \in BOOLEAN

VARIABLES
  now,       \* the clock
  failures,  \* commands that failed or were killed so far
  sstable,   \* sstable[f]: "unborn", "live" or "compacted"
  snaps,     \* the snapshot tags on the node's disk
  linked,    \* linked[t]: the files snapshot t holds
  blobs,     \* the files of <fqdn>/data
  mtime,     \* mtime[f]: last modification of blob f
  torn,      \* the blobs whose size is not that of their file
  meta,      \* meta[b]: the kinds of objects in <fqdn>/<b>/meta
  manifest,  \* manifest[b]: the files of <fqdn>/data its manifest.json lists
  born,      \* born[b]: mtime of its schema.cql
  doneAt,    \* doneAt[b]: mtime of its manifest.json
  idx,       \* idx[b]: the kinds of objects of b and this node in the index
  stamp,     \* stamp[b]: the start time the index gives for b
  latest,    \* the backup named by the latest_backup marker, or NoName
  bk,        \* bk[b]: the process running "medusa backup --backup-name b"
  pg         \* the process running "medusa purge" or "medusa delete-backup"

nodeVars == <<sstable, snaps, linked>>
dataVars == <<blobs, mtime, torn>>
metaVars == <<meta, manifest, born, doneAt>>
indexVars == <<idx, stamp, latest>>
vars == <<now, failures, nodeVars, dataVars, metaVars, indexVars, bk, pg>>

NoName == 0
Tags == Owners \X Names

MetaKinds == {"schema", "tokenmap", "server_version", "differential", "manifest"}
IndexKinds == {"tokenmap", "schema", "started", "differential", "manifest", "finished",
               "malformed"}   \* a time stamp whose name ends in None

\* The steps of a backup, named after the object the step writes ("i_": in the index).
BackupSteps ==
  {"idle", "schema", "tokenmap", "server_version", "differential",
   "i_tokenmap", "i_schema", "i_started", "i_differential",
   "stagger", "snapshot", "list", "upload",
   "manifest", "i_manifest", "i_finished", "latest"}

PurgeSteps == {"idle", "purge", "meta", "index", "scan", "delete"}

\* A backup process: its options, when it began, the time of the schema it found
\* under its name if there was one, the files it has still to upload, those it
\* found in the storage and those it has uploaded.
BackupState ==
  [pc : BackupSteps, mode : {"full", "differential"}, keep : BOOLEAN, owner : Owners,
   since : Nat, cached : SUBSET Nat, todo : SUBSET Files, kept : SUBSET Files, sent : SUBSET Files]

\* A purge process: the backups it has still to purge and the one it is at, the
\* objects it listed and has still to delete; then, for the cleanup, the paths
\* of the manifests, and the files to delete with the time they are older than.
PurgeState ==
  [pc : PurgeSteps, since : Nat, targets : SUBSET Names, current : Names \cup {NoName},
   objects : SUBSET (Names \X (MetaKinds \cup IndexKinds)),
   paths : SUBSET Files, cutoff : Int, orphans : SUBSET Files]

Idle == [pc |-> "idle", mode |-> "full", keep |-> FALSE, owner |-> "medusa",
         since |-> 0, cached |-> {}, todo |-> {}, kept |-> {}, sent |-> {}]

NoPurge == [pc |-> "idle", since |-> 0, targets |-> {}, current |-> NoName,
            objects |-> {}, paths |-> {}, cutoff |-> 0, orphans |-> {}]

Init ==
  /\ now = 0
  /\ failures = 0
  /\ sstable = [f \in Files |-> "unborn"]
  /\ snaps = {}
  /\ linked = [t \in Tags |-> {}]
  /\ blobs = {}
  /\ mtime = [f \in Files |-> 0]
  /\ torn = {}
  /\ meta = [b \in Names |-> {}]
  /\ manifest = [b \in Names |-> {}]
  /\ born = [b \in Names |-> 0]
  /\ doneAt = [b \in Names |-> 0]
  /\ idx = [b \in Names |-> {}]
  /\ stamp = [b \in Names |-> 0]
  /\ latest = NoName
  /\ bk = [b \in Names |-> Idle]
  /\ pg = NoPurge

------------------------------------------------------------------------------
(* Reading the bucket: Storage and NodeBackup                               *)

\* NodeBackup.exists: its schema.cql is in the storage.
Exists(b) == "schema" \in meta[b]

\* Mutant of Matching: a listing that also returns the names that sort after b.
MatchingLater(b) == {c \in Names : c >= b}

\* The names a listing with the prefix b, which has no trailing slash, returns.
Matching(b) == {b} \cup {c \in Names : <<b, c>> \in NamePrefix}

\* NodeBackup.started of an index entry: the index's time stamp, else the
\* time of the schema in the backup's own directory.
HasStarted(b) == idx[b] \cap {"started", "schema"} # {} \/ Exists(b)
Started(b) == IF idx[b] \cap {"started", "schema"} # {} THEN stamp[b] ELSE born[b]

\* An entry of the index is its tokenmap; entries without a start time are dropped.
Entries == {b \in Names : "tokenmap" \in idx[b] /\ HasStarted(b)}

\* b is sorted before c: by start time, entries of one time in listing order.
Earlier(b, c) == Started(b) < Started(c) \/ (Started(b) = Started(c) /\ b < c)

\* Mutant of ListedBackups: nothing is expected after an entry that is missing.
ListedUntilMissing ==
  {b \in Entries : Exists(b) /\ \A c \in Entries : Earlier(c, b) => Exists(c)}

\* Storage.list_node_backups: the entries that exist, and every entry after
\* the first that exists; existence is not checked any more from there on.
ListedBackups ==
  {b \in Entries : Exists(b) \/ \E c \in Entries : Exists(c) /\ Earlier(c, b)}

\* The entries list_node_backups found only in the index and removes from it.
Ghosts == Entries \ ListedBackups

Cleaned(b) == \E g \in Ghosts : b \in Matching(g)

\* get_fqdn_from_any_index_blob asserts that it can parse every name.
IndexReadable == \A b \in Names : "malformed" \notin idx[b]

\* What every listing does to the index on its way.
RemoveGhosts ==
  /\ IndexReadable
  /\ idx' = [b \in Names |-> IF Cleaned(b) THEN {} ELSE idx[b]]
  /\ stamp' = [b \in Names |-> IF Cleaned(b) THEN 0 ELSE stamp[b]]

\* A complete backup: it exists and its manifest.json has been written.
Complete(b) == Exists(b) /\ "manifest" \in meta[b]

\* A command that fails or is killed.
Failure ==
  /\ failures < MaxFailures
  /\ failures' = failures + 1

NoBackupRuns == \A b \in Names : bk[b].pc = "idle"

------------------------------------------------------------------------------
(* The environment: time, Cassandra, the operator                           *)

Tick ==
  /\ now < MaxTime
  /\ \A b \in Names : bk[b].pc # "idle" => now - bk[b].since < MaxDuration
  /\ pg.pc # "idle" => now - pg.since < MaxDuration
  /\ now' = now + 1
  /\ UNCHANGED <<failures, nodeVars, dataVars, metaVars, indexVars, bk, pg>>

\* Cassandra writes a new SSTable, or compaction drops one.
Flush(f) ==
  /\ sstable[f] = "unborn"
  /\ sstable' = [sstable EXCEPT ![f] = "live"]
  /\ UNCHANGED <<now, failures, snaps, linked, dataVars, metaVars, indexVars, bk, pg>>

Compact(f) ==
  /\ sstable[f] = "live"
  /\ sstable' = [sstable EXCEPT ![f] = "compacted"]
  /\ UNCHANGED <<now, failures, snaps, linked, dataVars, metaVars, indexVars, bk, pg>>

LiveFiles == {f \in Files : sstable[f] = "live"}

\* The operator takes a snapshot by hand for a later --use-existing-snapshot.
OperatorSnapshot(b) ==
  /\ "operator" \in SnapshotOwners
  /\ <<"operator", b>> \notin snaps
  /\ snaps' = snaps \cup {<<"operator", b>>}
  /\ linked' = [linked EXCEPT ![<<"operator", b>>] = LiveFiles]
  /\ UNCHANGED <<now, failures, sstable, dataVars, metaVars, indexVars, bk, pg>>

\* The index is lost, or was never written by the version that took the backups.
LoseIndex ==
  /\ IndexLoss
  /\ NoBackupRuns /\ pg.pc = "idle"
  /\ idx' = [b \in Names |-> {}]
  /\ stamp' = [b \in Names |-> 0]
  /\ latest' = NoName
  /\ UNCHANGED <<now, failures, nodeVars, dataVars, metaVars, bk, pg>>

------------------------------------------------------------------------------
(* medusa backup: handle_backup, start_backup, do_backup, backup_snapshots  *)

Tag(b) == <<bk[b].owner, b>>

Advance(b, from, to) ==
  /\ bk[b].pc = from
  /\ bk' = [bk EXCEPT ![b].pc = to]

\* A name in use is refused unless --use-existing-snapshot is given, which
\* needs the snapshot.  The in-progress marker never refuses anything: a new
\* MedusaTempFile says that it does not exist (ConcurrentBackups).  The schema
\* blob the check finds stays in the NodeBackup's cache.
HandleBackup(b, mode, keep, owner) ==
  /\ bk[b].pc = "idle"
  /\ Overlap \/ pg.pc = "idle"
  /\ PurgeRunning \/ b \notin pg.targets
  /\ ConcurrentBackups \/ NoBackupRuns
  /\ Exists(b) => owner = "operator"
  /\ owner = "operator" => <<owner, b>> \in snaps
  /\ bk' = [bk EXCEPT ![b] = [Idle EXCEPT !.pc = "schema", !.mode = mode,
                                          !.keep = keep, !.owner = owner,
                                          !.since = now,
                                          !.cached = {t \in {born[b]} : Exists(b)}]]
  /\ UNCHANGED <<now, failures, nodeVars, dataVars, metaVars, indexVars, pg>>

SaveSchema(b) ==
  /\ Advance(b, "schema", "tokenmap")
  /\ meta' = [meta EXCEPT ![b] = @ \cup {"schema"}]
  /\ born' = [born EXCEPT ![b] = now]
  /\ UNCHANGED <<now, failures, nodeVars, dataVars, manifest, doneAt, indexVars, pg>>

\* The other objects of the meta directory that are written before the data.
SaveMeta(b, kind, next) ==
  /\ Advance(b, kind, next)
  /\ meta' = [meta EXCEPT ![b] = @ \cup {kind}]
  /\ UNCHANGED <<now, failures, nodeVars, dataVars, manifest, born, doneAt, indexVars, pg>>

IsDifferential(b) == bk[b].mode = "differential"

SaveTokenmap(b) == SaveMeta(b, "tokenmap", "server_version")
SaveServerVersion(b) ==
  SaveMeta(b, "server_version",
           IF IsDifferential(b) THEN "differential" ELSE "i_tokenmap")
SaveDifferential(b) == SaveMeta(b, "differential", "i_tokenmap")

\* The object of the meta directory that a step reads back to copy it into the
\* index; without it the upload raises.
Source ==
  [i_tokenmap |-> "tokenmap", i_schema |-> "schema",
   i_manifest |-> "manifest", latest |-> "tokenmap"]

SaveIndex(b, kind, from, next) ==
  /\ Advance(b, from, next)
  /\ idx' = [idx EXCEPT ![b] = @ \cup {kind}]
  /\ UNCHANGED <<now, failures, nodeVars, dataVars, metaVars, latest, pg>>

IndexTokenmap(b) ==
  /\ Source["i_tokenmap"] \in meta[b]
  /\ SaveIndex(b, "tokenmap", "i_tokenmap", "i_schema")
  /\ UNCHANGED stamp

IndexSchema(b) ==
  /\ Source["i_schema"] \in meta[b]
  /\ SaveIndex(b, "schema", "i_schema", "i_started")
  /\ stamp' = IF "started" \in idx[b] THEN stamp ELSE [stamp EXCEPT ![b] = now]

\* NodeBackup.started of a running backup: the time of the schema blob in its
\* cache, which a run over a name in use took before it wrote its own, else of
\* the one in the storage; none when that has been deleted.
StartedTimes(b) ==
  IF bk[b].cached # {} THEN bk[b].cached ELSE {t \in {born[b]} : Exists(b)}

\* The start time is part of the object's name: the index keeps the stamps of
\* earlier runs and the first one, the earliest, is read.
IndexStarted(b) ==
  /\ SaveIndex(b, IF StartedTimes(b) = {} THEN "malformed" ELSE "started", "i_started",
               IF IsDifferential(b) THEN "i_differential" ELSE "stagger")
  /\ IF "started" \in idx[b] \/ StartedTimes(b) = {}
     THEN UNCHANGED stamp
     ELSE \E t \in StartedTimes(b) : stamp' = [stamp EXCEPT ![b] = t]

IndexDifferential(b) ==
  /\ SaveIndex(b, "differential", "i_differential", "stagger")
  /\ UNCHANGED stamp

\* The last round of the stagger loop, the one that lets the backup go on.  The
\* rounds before it only list the node's backups, which is a ListBackups step,
\* and sleep; without a stagger time nothing is listed; the deadline is a
\* BackupFails step.
Stagger(b) ==
  /\ Advance(b, "stagger", "snapshot")
  /\ RemoveGhosts \/ UNCHANGED <<idx, stamp>>
  /\ UNCHANGED <<now, failures, nodeVars, dataVars, metaVars, latest, pg>>

\* create_snapshot takes one unless the tag exists, get_snapshot needs it.
TakeSnapshot(b) ==
  /\ Advance(b, "snapshot", "list")
  /\ bk[b].owner = "operator" => Tag(b) \in snaps
  /\ snaps' = snaps \cup {Tag(b)}
  /\ linked' = IF Tag(b) \in snaps THEN linked
               ELSE [linked EXCEPT ![Tag(b)] = LiveFiles]
  /\ UNCHANGED <<now, failures, sstable, dataVars, metaVars, indexVars, pg>>

\* The files check_already_uploaded looks at in the shared data directory.
Wanted(b) == IF IsDifferential(b) THEN linked[Tag(b)] ELSE {}

\* Mutant of ListStorage: a file is kept for its name, whatever its size.
ListStorageByName(b) ==
  /\ bk[b].pc = "list"
  /\ LET kept == Wanted(b) \cap blobs
     IN  bk' = [bk EXCEPT ![b].pc = "upload", ![b].kept = kept,
                          ![b].todo = Wanted(b) \ kept]
  /\ UNCHANGED <<now, failures, nodeVars, dataVars, metaVars, indexVars, pg>>

\* The storage is listed once, before the first table: files found whole are
\* kept for the manifest as they are, the others are uploaded.
ListStorage(b) ==
  /\ bk[b].pc = "list"
  /\ LET kept == Wanted(b) \cap (blobs \ torn)
     IN  bk' = [bk EXCEPT ![b].pc = "upload", ![b].kept = kept,
                          ![b].todo = Wanted(b) \ kept]
  /\ UNCHANGED <<now, failures, nodeVars, dataVars, metaVars, indexVars, pg>>

\* Mutant of Upload: the file stays in the list of the files to upload.
UploadForever(b, f) ==
  /\ bk[b].pc = "upload"
  /\ f \in bk[b].todo
  /\ blobs' = blobs \cup {f}
  /\ mtime' = [mtime EXCEPT ![f] = now]
  /\ torn' = torn \ {f}
  /\ bk' = [bk EXCEPT ![b].sent = @ \cup {f}]
  /\ UNCHANGED <<now, failures, nodeVars, metaVars, indexVars, pg>>

Upload(b, f) ==
  /\ bk[b].pc = "upload"
  /\ f \in bk[b].todo
  /\ blobs' = blobs \cup {f}
  /\ mtime' = [mtime EXCEPT ![f] = now]
  /\ torn' = torn \ {f}
  /\ bk' = [bk EXCEPT ![b].todo = @ \ {f}, ![b].sent = @ \cup {f}]
  /\ UNCHANGED <<now, failures, nodeVars, metaVars, indexVars, pg>>

\* Snapshot.__exit__, delete_snapshot
ExitSnapshot(b) ==
  IF bk[b].keep
  THEN UNCHANGED <<snaps, linked>>
  ELSE /\ snaps' = snaps \ {Tag(b)}
       /\ linked' = [linked EXCEPT ![Tag(b)] = {}]

LeaveSnapshot(b) ==
  /\ bk[b].todo = {}
  /\ Advance(b, "upload", "manifest")
  /\ ExitSnapshot(b)
  /\ UNCHANGED <<now, failures, sstable, dataVars, metaVars, indexVars, pg>>

\* Mutant of SaveManifest: the files that were kept are not entered again.
SaveManifestOfSent(b) ==
  /\ Advance(b, "manifest", "i_manifest")
  /\ meta' = [meta EXCEPT ![b] = @ \cup {"manifest"}]
  /\ manifest' = [manifest EXCEPT ![b] = bk[b].sent]
  /\ doneAt' = [doneAt EXCEPT ![b] = now]
  /\ UNCHANGED <<now, failures, nodeVars, dataVars, born, indexVars, pg>>

SaveManifest(b) ==
  /\ Advance(b, "manifest", "i_manifest")
  /\ meta' = [meta EXCEPT ![b] = @ \cup {"manifest"}]
  /\ manifest' = [manifest EXCEPT ![b] = bk[b].kept \cup bk[b].sent]
  /\ doneAt' = [doneAt EXCEPT ![b] = now]
  /\ UNCHANGED <<now, failures, nodeVars, dataVars, born, indexVars, pg>>

IndexManifest(b) ==
  /\ Source["i_manifest"] \in meta[b]
  /\ SaveIndex(b, "manifest", "i_manifest", "i_finished")
  /\ UNCHANGED stamp

\* The time of the manifest is part of the object's name.
IndexFinished(b) ==
  /\ SaveIndex(b, IF "manifest" \in meta[b] THEN "finished" ELSE "malformed",
               "i_finished", "latest")
  /\ UNCHANGED stamp

SetLatest(b) ==
  /\ bk[b].pc = "latest"
  /\ Source["latest"] \in meta[b]
  /\ latest' = b
  /\ bk' = [bk EXCEPT ![b] = Idle]
  /\ UNCHANGED <<now, failures, nodeVars, dataVars, metaVars, idx, stamp, pg>>

\* What an interrupted backup leaves in the data directory: the files of a chunk
\* are uploaded at the same time, any of them may be torn.
LeavesUpload(b) ==
  \/ UNCHANGED dataVars
  \/ /\ ~AtomicUploads
     /\ bk[b].pc = "upload"
     /\ \E chunk \in SUBSET bk[b].todo :
          /\ blobs' = blobs \cup chunk
          /\ mtime' = [f \in Files |-> IF f \in chunk THEN now ELSE mtime[f]]
          /\ torn' = torn \cup chunk

\* The next step raises whatever the storage does: what it reads is gone, or
\* the index cannot be listed.
BackupRaises(b) ==
  \/ bk[b].pc \in DOMAIN Source /\ Source[bk[b].pc] \notin meta[b]
  \/ bk[b].pc = "stagger" /\ ~IndexReadable
  \/ bk[b].pc = "snapshot" /\ bk[b].owner = "operator" /\ Tag(b) \notin snaps

\* An exception: the snapshot's __exit__ runs, the process ends.
BackupFails(b) ==
  /\ bk[b].pc # "idle"
  /\ Failure \/ (BackupRaises(b) /\ UNCHANGED failures)
  /\ LeavesUpload(b)
  /\ bk' = [bk EXCEPT ![b] = Idle]
  /\ IF bk[b].pc \in {"list", "upload"}
     THEN ExitSnapshot(b) ELSE UNCHANGED <<snaps, linked>>
  /\ UNCHANGED <<now, sstable, metaVars, indexVars, pg>>

\* The process is killed: the snapshot stays.
BackupCrashes(b) ==
  /\ bk[b].pc # "idle"
  /\ Failure
  /\ LeavesUpload(b)
  /\ bk' = [bk EXCEPT ![b] = Idle]
  /\ UNCHANGED <<now, nodeVars, metaVars, indexVars, pg>>

BackupStep(b) ==
  \/ SaveSchema(b) \/ SaveTokenmap(b) \/ SaveServerVersion(b) \/ SaveDifferential(b)
  \/ IndexTokenmap(b) \/ IndexSchema(b) \/ IndexStarted(b) \/ IndexDifferential(b)
  \/ Stagger(b) \/ TakeSnapshot(b) \/ ListStorage(b)
  \/ \E f \in Files : Upload(b, f)
  \/ LeaveSnapshot(b) \/ SaveManifest(b)
  \/ IndexManifest(b) \/ IndexFinished(b) \/ SetLatest(b)

------------------------------------------------------------------------------
(* medusa purge and medusa delete-backup                                    *)

BackupsToPurgeByAge ==
  {b \in ListedBackups : MaxAge > 0 /\ Started(b) < now - MaxAge}

\* Mutant of BackupsToPurgeByCount: the list is sorted the other way round.
NewestToPurgeByCount ==
  {b \in ListedBackups :
     MaxCount > 0 /\ Cardinality({c \in ListedBackups : Earlier(c, b)}) >= MaxCount}

\* All but the last MaxCount of the sorted list.
BackupsToPurgeByCount ==
  {b \in ListedBackups :
     MaxCount > 0 /\ Cardinality({c \in ListedBackups : Earlier(b, c)}) >= MaxCount}

StartPurging(targets) ==
  /\ pg.pc = "idle"
  /\ Overlap \/ NoBackupRuns
  /\ PurgeRunning \/ \A b \in targets : bk[b].pc = "idle"
  /\ pg' = [NoPurge EXCEPT !.pc = "purge", !.since = now, !.targets = targets]
  /\ RemoveGhosts
  /\ UNCHANGED <<now, failures, nodeVars, dataVars, metaVars, latest, bk>>

Purge == StartPurging(BackupsToPurgeByAge \cup BackupsToPurgeByCount)

\* A name that is not listed raises KeyError: see ListBackups.
DeleteBackup(names) ==
  /\ names # {} /\ names \subseteq ListedBackups
  /\ StartPurging(names)

\* purge_backup: list <fqdn>/<name>, delete what was listed, clean the index.
PurgeBackup(b) ==
  /\ pg.pc = "purge"
  /\ b \in pg.targets
  /\ pg' = [pg EXCEPT !.pc = "meta", !.current = b,
                      !.objects = {o \in Names \X MetaKinds :
                                     o[1] \in Matching(b) /\ o[2] \in meta[o[1]]}]
  /\ UNCHANGED <<now, failures, nodeVars, dataVars, metaVars, indexVars, bk>>

\* The kinds that sort before a kind, among both meta and index objects.
Before ==
  [differential |-> {},
   finished |-> {"differential"},
   malformed |-> {"differential"},
   manifest |-> {"differential", "finished"},
   schema |-> {"differential", "finished", "manifest"},
   server_version |-> {"differential", "finished", "manifest", "schema"},
   started |-> {"differential", "finished", "manifest", "schema", "server_version"},
   tokenmap |-> {"differential", "finished", "manifest", "schema", "server_version", "started"}]

\* Mutant of MayDelete: the deletions are not kept in order.
MayDeleteAnyTime(c, k) == <<c, k>> \in pg.objects

\* The objects of a listing are deleted in the order the storage listed them.
MayDelete(c, k) ==
  /\ <<c, k>> \in pg.objects
  /\ SortedListing => \A j \in Before[k] : <<c, j>> \notin pg.objects

PurgeObject(c, k) ==
  /\ pg.pc = "meta"
  /\ MayDelete(c, k)
  /\ meta' = [meta EXCEPT ![c] = @ \ {k}]
  /\ manifest' = IF k = "manifest" THEN [manifest EXCEPT ![c] = {}] ELSE manifest
  /\ doneAt' = IF k = "manifest" THEN [doneAt EXCEPT ![c] = 0] ELSE doneAt
  /\ born' = IF k = "schema" THEN [born EXCEPT ![c] = 0] ELSE born
  /\ pg' = [pg EXCEPT !.objects = @ \ {<<c, k>>}]
  /\ UNCHANGED <<now, failures, nodeVars, dataVars, indexVars, bk>>

CleanBackupFromIndex ==
  /\ pg.pc = "meta"
  /\ pg.objects = {}
  /\ pg' = [pg EXCEPT !.pc = "index",
                      !.objects = {o \in Names \X IndexKinds :
                                     /\ o[1] \in Matching(pg.current)
                                     /\ o[2] \in idx[o[1]]}]
  /\ UNCHANGED <<now, failures, nodeVars, dataVars, metaVars, indexVars, bk>>

CleanIndexObject(c, k) ==
  /\ pg.pc = "index"
  /\ MayDelete(c, k)
  /\ idx' = [idx EXCEPT ![c] = @ \ {k}]
  /\ stamp' = IF idx[c] \cap {"started", "schema"} \subseteq {k}
              THEN [stamp EXCEPT ![c] = 0] ELSE stamp
  /\ pg' = [pg EXCEPT !.objects = @ \ {<<c, k>>}]
  /\ UNCHANGED <<now, failures, nodeVars, dataVars, metaVars, latest, bk>>

BackupPurged ==
  /\ pg.pc = "index"
  /\ pg.objects = {}
  /\ pg' = [pg EXCEPT !.pc = "purge", !.targets = @ \ {pg.current}, !.current = NoName]
  /\ UNCHANGED <<now, failures, nodeVars, dataVars, metaVars, indexVars, bk>>

\* Mutant of CompleteDifferential: the index says which backups have finished.
FinishedDifferential ==
  {b \in ListedBackups : "differential" \in idx[b] /\ "finished" \in idx[b]}

\* The differential backups cleanup_obsolete_files reads the manifests of: the
\* mode comes from the index, the manifest from the backup's own directory.
CompleteDifferential ==
  {b \in ListedBackups : "differential" \in idx[b] /\ "manifest" \in meta[b]}

\* cleanup_obsolete_files, its first half: the paths of all the manifests.
ReadManifests ==
  /\ pg.pc = "purge"
  /\ pg.targets = {}
  /\ pg' = [pg EXCEPT !.pc = "scan",
                      !.paths = UNION {manifest[b] : b \in CompleteDifferential}]
  /\ RemoveGhosts
  /\ UNCHANGED <<now, failures, nodeVars, dataVars, metaVars, latest, bk>>

\* Mutant of OlderThanGrace: the grace period is not subtracted.
OlderThanNow(f) == mtime[f] <= now

\* is_older_than_gc_grace; the clock is read while the storage is listed.
OlderThanGrace(f) == mtime[f] <= now - Grace

\* Mutant of ScanStorage: a file of exactly the grace period's age is spared.
ScanStorageStrict ==
  /\ pg.pc = "scan"
  /\ pg' = [pg EXCEPT !.pc = "delete", !.paths = {}, !.cutoff = now - Grace,
                      !.orphans = {f \in blobs \ pg.paths : mtime[f] < now - Grace}]
  /\ UNCHANGED <<now, failures, nodeVars, dataVars, metaVars, indexVars, bk>>

\* Its second half: the files of the data directory that are in none of them
\* and older than the grace period.
ScanStorage ==
  /\ pg.pc = "scan"
  /\ pg' = [pg EXCEPT !.pc = "delete", !.paths = {}, !.cutoff = now - Grace,
                      !.orphans = {f \in blobs \ pg.paths : OlderThanGrace(f)}]
  /\ UNCHANGED <<now, failures, nodeVars, dataVars, metaVars, indexVars, bk>>

DeleteOrphan(f) ==
  /\ pg.pc = "delete"
  /\ f \in pg.orphans
  /\ blobs' = blobs \ {f}
  /\ mtime' = [mtime EXCEPT ![f] = 0]
  /\ torn' = torn \ {f}
  /\ pg' = [pg EXCEPT !.orphans = @ \ {f}]
  /\ UNCHANGED <<now, failures, nodeVars, metaVars, indexVars, bk>>

PurgeEnds ==
  /\ pg.pc = "delete"
  /\ pg.orphans = {}
  /\ pg' = NoPurge
  /\ UNCHANGED <<now, failures, nodeVars, dataVars, metaVars, indexVars, bk>>

\* An exception ends the command, or it is killed: nothing is undone.
PurgeRaises == pg.pc = "purge" /\ pg.targets = {} /\ ~IndexReadable

PurgeStops ==
  /\ pg.pc # "idle"
  /\ Failure \/ (PurgeRaises /\ UNCHANGED failures)
  /\ pg' = NoPurge
  /\ UNCHANGED <<now, nodeVars, dataVars, metaVars, indexVars, bk>>

PurgeStep ==
  \/ \E b \in Names : PurgeBackup(b)
  \/ \E c \in Names : \E k \in MetaKinds : PurgeObject(c, k)
  \/ CleanBackupFromIndex
  \/ \E c \in Names : \E k \in IndexKinds : CleanIndexObject(c, k)
  \/ BackupPurged \/ ReadManifests \/ ScanStorage
  \/ \E f \in Files : DeleteOrphan(f)
  \/ PurgeEnds

------------------------------------------------------------------------------
(* The commands that read the bucket and repair it on the way               *)

\* list-backups, status, and every other command that stops after a listing.
ListBackups ==
  /\ RemoveGhosts
  /\ UNCHANGED <<now, failures, nodeVars, dataVars, metaVars, latest, bk, pg>>

\* process_backup: a complete backup is entered into the index again.  The
\* NodeBackup that discover_node_backups made carries no differential blob, so
\* that is_differential is False for all of them.
IndexOrder == <<"tokenmap", "schema", "started", "manifest", "finished">>
AllIndexed(b) ==
  IF Complete(b) THEN idx[b] \cup {IndexOrder[i] : i \in DOMAIN IndexOrder} ELSE idx[b]
AllStamped(b) ==
  IF Complete(b) /\ "started" \notin idx[b] THEN born[b] ELSE stamp[b]

TokenmapsThere == \A b \in Names : Complete(b) => "tokenmap" \in meta[b]

\* The complete backup that finished last, if there is one, gets the marker.
LatestComplete(b) ==
  /\ Complete(b)
  /\ \A c \in Names : Complete(c) =>
       doneAt[c] < doneAt[b] \/ (doneAt[c] = doneAt[b] /\ c <= b)

MarkLatest(otherwise) ==
  IF \E b \in Names : Complete(b)
  THEN \E b \in Names : LatestComplete(b) /\ latest' = b
  ELSE latest' = otherwise

\* build_indices
BuildIndex ==
  /\ Overlap \/ pg.pc = "idle"
  /\ TokenmapsThere
  /\ idx' = [b \in Names |-> AllIndexed(b)]
  /\ stamp' = [b \in Names |-> AllStamped(b)]
  /\ MarkLatest(latest)
  /\ UNCHANGED <<now, failures, nodeVars, dataVars, metaVars, bk, pg>>

\* It is killed, or it raises over a tokenmap that is missing, after n objects
\* of b: the backups are processed in the order of their names.  When
\* report-last-backup called it, the marker has been removed before.
BuildIndexStops(b, n) ==
  /\ Overlap \/ pg.pc = "idle"
  /\ Complete(b)
  /\ \A c \in Names : Complete(c) /\ c < b => "tokenmap" \in meta[c]
  /\ IF "tokenmap" \in meta[b] THEN Failure ELSE n = 0 /\ UNCHANGED failures
  /\ idx' = [c \in Names |-> CASE c < b -> AllIndexed(c)
                               [] c = b -> idx[b] \cup {IndexOrder[i] : i \in 1..n}
                               [] OTHER -> idx[c]]
  /\ stamp' = [c \in Names |-> CASE c < b \/ (c = b /\ n > 2) -> AllStamped(c)
                                 [] c = b /\ n = 2 /\ "started" \notin idx[b] -> now
                                 [] OTHER -> stamp[c]]
  /\ UNCHANGED latest \/ (latest # NoName /\ ~Exists(latest) /\ latest' = NoName)
  /\ UNCHANGED <<now, nodeVars, dataVars, metaVars, bk, pg>>

\* report-last-backup: a marker that points to a backup that does not exist is
\* removed, and without a marker the index is built again; the listings that
\* follow use the index as it was read before.
ReportLatest ==
  /\ Overlap \/ pg.pc = "idle"
  /\ latest # NoName => ~Exists(latest)
  /\ TokenmapsThere
  /\ LET gone(b) == IndexReadable /\ Cleaned(b)
     IN  /\ idx' = [b \in Names |-> IF gone(b) THEN {} ELSE AllIndexed(b)]
         /\ stamp' = [b \in Names |-> IF gone(b) THEN 0 ELSE AllStamped(b)]
  /\ MarkLatest(NoName)
  /\ UNCHANGED <<now, failures, nodeVars, dataVars, metaVars, bk, pg>>

------------------------------------------------------------------------------
Next ==
  \/ Tick
  \/ \E f \in Files : Flush(f) \/ Compact(f)
  \/ LoseIndex
  \/ \E b \in Names :
       \/ OperatorSnapshot(b)
       \/ \E mode \in Modes, keep \in KeepFlags, owner \in SnapshotOwners :
            HandleBackup(b, mode, keep, owner)
       \/ BackupStep(b)
       \/ BackupFails(b)
       \/ BackupCrashes(b)
  \/ Purge
  \/ \E names \in SUBSET Names : DeleteBackup(names)
  \/ PurgeStep
  \/ PurgeStops
  \/ ListBackups
  \/ BuildIndex
  \/ \E b \in Names, n \in 0..4 : BuildIndexStops(b, n)
  \/ ReportLatest

Spec == Init /\ [][Next]_vars

\* A running process is one thread that takes its next step or raises; nothing
\* makes the operator start one.
Fairness ==
  /\ \A b \in Names : WF_vars(BackupStep(b) \/ BackupFails(b))
  /\ WF_vars(PurgeStep \/ PurgeStops)

FairSpec == Spec /\ Fairness

------------------------------------------------------------------------------
(* Properties                                                               *)

\* The state has its shape; a torn blob is in the storage, what a purge works
\* on is there only in the step that uses it.
TypeOK ==
  /\ now \in Nat
  /\ failures \in Nat
  /\ sstable \in [Files -> {"unborn", "live", "compacted"}]
  /\ snaps \subseteq Tags
  /\ linked \in [Tags -> SUBSET Files]
  /\ blobs \subseteq Files
  /\ mtime \in [Files -> Nat]
  /\ torn \subseteq blobs
  /\ meta \in [Names -> SUBSET MetaKinds]
  /\ manifest \in [Names -> SUBSET Files]
  /\ born \in [Names -> Nat]
  /\ doneAt \in [Names -> Nat]
  /\ idx \in [Names -> SUBSET IndexKinds]
  /\ stamp \in [Names -> Nat]
  /\ latest \in Names \cup {NoName}
  /\ bk \in [Names -> BackupState]
  /\ pg \in PurgeState

\* Every file a complete backup's manifest lists is in the storage, whole: the
\* backup can be restored, whatever was uploaded, kept, purged, cleaned up or
\* interrupted before (backup_snapshots, cleanup_obsolete_files).
CompleteBackupsIntact ==
  \A b \in Names : Complete(b) => manifest[b] \subseteq blobs \ torn

\* docs/design.md: schema.cql is the first object of a backup and manifest.json
\* the last, so a manifest is never there without the rest, not even in what an
\* interrupted backup or purge leaves.
ManifestIsLast ==
  \A b \in Names :
    "manifest" \in meta[b] => {"schema", "tokenmap", "server_version"} \subseteq meta[b]

\* list_node_backups never hides a complete backup: the purge and the cleanup
\* know every manifest there is.
CompleteBackupsListed ==
  \A b \in Names : Complete(b) => b \in ListedBackups

\* A purge or a delete-backup takes objects from the directories of the backups
\* it was asked to purge and from no other.
OnlyTargetsPurged ==
  [][\A b \in Names : meta[b] \subseteq meta'[b] \/ b \in pg.targets]_vars

\* "medusa purge" takes the oldest backups of the list and leaves max_backup_count
\* of them unless they are too old.
PurgeTakesOldest ==
  [][Purge => LET kept == ListedBackups \ pg'.targets
              IN  /\ \A b \in pg'.targets, c \in kept : Started(b) <= Started(c)
                  /\ MaxCount > 0 => Cardinality(kept) <= MaxCount
                  /\ MaxCount > 0 /\ MaxAge = 0 /\ pg'.targets # {} =>
                       Cardinality(kept) = MaxCount]_vars

\* docs/Usage.md: SSTable files are protected from deletion within the grace period.
GraceRespected ==
  [][\A f \in blobs \ blobs' : mtime[f] + Grace <= now]_vars

\* docs/Usage.md: the grace period keeps a purge from deleting the files an
\* ongoing backup has uploaded so far.
FreshUploadsSurvive ==
  \A b \in Names : bk[b].sent \subseteq blobs

\* docs/Usage.md: a file of the data directory is deleted only when it is absent
\* from all manifests, here those of the complete backups in the index.
CleanupSparesIndexed ==
  [][\A f \in blobs \ blobs' :
       ~ \E b \in Names : /\ Complete(b) /\ "tokenmap" \in idx[b]
                          /\ f \in manifest[b]]_vars

\* docs/Usage.md: all the files that were past the grace period and absent from
\* all manifests are gone when a purge ends.
CleanupComplete ==
  [][PurgeEnds => \A f \in blobs : mtime[f] <= pg.cutoff =>
                    \E b \in Names : Complete(b) /\ f \in manifest[b]]_vars

\* The catalogue of backups that the bucket stands for: a backup is complete with
\* its manifest, and a restore gets the listed files that are there and whole.
Restorable(b) == IF "manifest" \in meta[b] THEN manifest[b] \cap (blobs \ torn) ELSE {}
StatusOf(b) == CASE Complete(b) -> "complete"
                 [] ~Complete(b) /\ meta[b] # {} -> "partial"
                 [] OTHER -> "absent"
Cut(b) == CASE bk[b].pc \in {"list", "upload"} -> {Wanted(b)}
            [] bk[b].pc = "manifest" -> {bk[b].kept \cup bk[b].sent}
            [] OTHER -> {}

Cat == INSTANCE Catalogue WITH
  status <- [b \in Names |-> StatusOf(b)],
  content <- [b \in Names |-> Restorable(b)],
  cut <- [b \in Names |-> Cut(b)]

\* The bucket implements the catalogue: with all the steps of backups, purges,
\* cleanups, rebuilds and failures, a backup becomes complete in one step and with
\* the very files of its snapshot (SaveManifest), stays restorable with these files
\* while others are uploaded, kept, purged and cleaned up, and is removed in one step.
ImplementsCatalogue == Cat!Spec

\* Every command that was started ends.
CommandsEnd ==
  /\ \A b \in Names : bk[b].pc # "idle" ~> bk[b].pc = "idle"
  /\ pg.pc # "idle" ~> pg.pc = "idle"

------------------------------------------------------------------------------
(* The inductive invariant behind CompleteBackupsIntact                     *)

\* How the commands have to be used for it: no purge overlaps a backup, no name
\* starts another, the storage lists by name, the index is never lost, and
\* backups overlap only on a storage whose uploads are atomic.
Disciplined ==
  /\ ~Overlap
  /\ NamePrefix = {}
  /\ SortedListing
  /\ ~IndexLoss
  /\ AtomicUploads \/ ~ConcurrentBackups

PurgeAlone == pg.pc # "idle" => NoBackupRuns

OneBackup ==
  ~ConcurrentBackups =>
    \A b, c \in Names : bk[b].pc # "idle" /\ bk[c].pc # "idle" => b = c

\* What a running backup has written so far.
BeforeTokenmap == {"idle", "schema", "tokenmap"}
BeforeIndex == {"idle", "schema", "tokenmap", "server_version", "differential", "i_tokenmap"}
BeforeData == BeforeIndex \cup {"i_schema", "i_started", "i_differential"}
AfterManifest == {"i_manifest", "i_finished", "latest"}
Wrote(b) ==
  /\ bk[b].pc \notin {"idle", "schema"} => "schema" \in meta[b]
  /\ bk[b].pc \notin BeforeTokenmap => "tokenmap" \in meta[b]
  /\ bk[b].pc \notin BeforeTokenmap \cup {"server_version"} => "server_version" \in meta[b]
  /\ bk[b].pc \notin BeforeIndex => "tokenmap" \in idx[b]
  /\ bk[b].pc \notin BeforeData /\ IsDifferential(b) => "differential" \in idx[b]
  /\ bk[b].pc \in AfterManifest => "manifest" \in meta[b]
BackupWrote == \A b \in Names : Wrote(b)

\* The files a running backup will list are whole, in a differential backup only.
BackupHolds ==
  \A b \in Names :
    /\ bk[b].kept \cup bk[b].sent \subseteq blobs \ torn
    /\ bk[b].todo \cup bk[b].kept \cup bk[b].sent # {} =>
         IsDifferential(b) /\ bk[b].pc \notin BeforeData

\* A file still to be uploaded is missing or torn, unless another backup uploads too.
TodoMissing ==
  ~ConcurrentBackups => \A b \in Names : bk[b].todo \cap (blobs \ torn) = {}

\* The index knows every manifest, and which of them are differential.
ManifestsIndexed ==
  \A b \in Names :
    "manifest" \in meta[b] =>
      /\ "tokenmap" \in idx[b]
      /\ manifest[b] # {} => "differential" \in idx[b]

\* What a purge has listed covers all that is left of the backup it deletes.
PurgeLists ==
  /\ pg.pc = "meta" =>
       /\ pg.current \in pg.targets
       /\ \A o \in pg.objects : o[1] = pg.current
       /\ \A k \in meta[pg.current] : <<pg.current, k>> \in pg.objects
  /\ pg.pc = "index" => \A o \in pg.objects : "manifest" \notin meta[o[1]]

\* The cleanup knows the files of every complete backup and deletes none of them.
CleanupKnows ==
  \A b \in Names : "manifest" \in meta[b] =>
    /\ pg.pc = "scan" => manifest[b] \subseteq pg.paths
    /\ pg.pc = "delete" => manifest[b] \cap pg.orphans = {}

\* What every step of a disciplined use keeps: the complete backups stay intact
\* because of all the rest (see the module NodeBackupsProofs).
BucketInvariant ==
  /\ TypeOK
  /\ PurgeAlone
  /\ OneBackup
  /\ BackupWrote
  /\ BackupHolds
  /\ TodoMissing
  /\ ManifestIsLast
  /\ ManifestsIndexed
  /\ PurgeLists
  /\ CleanupKnows
  /\ IndexReadable
  /\ CompleteBackupsIntact

------------------------------------------------------------------------------
(* What ImplementsCatalogue and CleanupComplete need besides                *)

\* The snapshot a backup reads is on the disk until the backup leaves it, and each
\* of its files is kept, sent or still to be uploaded.
HoldsSnapshot(b) ==
  /\ bk[b].pc \in {"list", "upload"} => Tag(b) \in snaps
  /\ bk[b].pc = "upload" => bk[b].kept \cup bk[b].sent \cup bk[b].todo = Wanted(b)
  /\ bk[b].pc \in BeforeData \cup {"stagger", "snapshot", "list"} => bk[b].sent = {}
SnapshotsHeld == \A b \in Names : HoldsSnapshot(b)

\* The paths the cleanup goes by are those of complete backups, and a file past the
\* grace period that no complete backup lists is on its list.
CleanupCovers ==
  /\ pg.pc = "scan" =>
       \A f \in pg.paths : \E b \in Names : Complete(b) /\ f \in manifest[b]
  /\ pg.pc = "delete" =>
       \A f \in blobs \ pg.orphans : mtime[f] <= pg.cutoff =>
         \E b \in Names : Complete(b) /\ f \in manifest[b]

\* All that a disciplined use keeps true: the invariant that makes the bucket a
\* catalogue and the cleanup complete (see the module CatalogueProofs).
CatalogueInvariant ==
  /\ BucketInvariant
  /\ SnapshotsHeld
  /\ CleanupCovers

------------------------------------------------------------------------------
(* The inductive invariant behind GraceRespected and FreshUploadsSurvive    *)

\* A file that waits for its deletion is not uploaded meanwhile: no purge overlaps
\* a backup, or there is one backup at a time and the storage has no torn objects.
OneWriter == ~Overlap \/ (AtomicUploads /\ ~ConcurrentBackups)

\* With atomic uploads and one backup, what is still to be uploaded is not there.
UploadsAreNew ==
  AtomicUploads =>
    /\ torn = {}
    /\ ~ConcurrentBackups => \A b \in Names : bk[b].todo \cap blobs = {}

\* A file waits for its deletion only if it is past the grace period.
OrphansAreOld ==
  \A f \in pg.orphans : pg.pc = "delete" /\ f \in blobs /\ mtime[f] + Grace <= now

\* What a running backup has uploaded is younger than the backup, which is not
\* older than MaxDuration.
UploadsAreYoung ==
  \A b \in Names :
    /\ bk[b].pc # "idle" => bk[b].since <= now /\ now <= bk[b].since + MaxDuration
    /\ bk[b].pc \notin {"upload", "manifest"} \cup AfterManifest =>
         bk[b].todo = {} /\ bk[b].sent = {}
    /\ \A f \in bk[b].sent \cap blobs : bk[b].since <= mtime[f]

\* What every step of a use with one writer keeps (see the module GraceProofs).
GraceInvariant ==
  /\ TypeOK
  /\ ~Overlap => PurgeAlone
  /\ OneBackup
  /\ UploadsAreNew
  /\ OrphansAreOld
  /\ UploadsAreYoung
  /\ MaxDuration < Grace \/ ~Overlap => FreshUploadsSurvive

==============================================================================
