# A verification project for Cassandra Medusa

Medusa takes, lists, purges and restores backups of a Cassandra cluster. A
backup is a set of objects in a storage bucket that many short-lived commands,
on many nodes, read and write without locks; the correctness of a backup is a
statement about the order of those reads and writes and about what is left when
one of them stops half-way. Over many nodes it is also a statement about batches
of ssh commands of which some fail, and a restore is a statement about what
Cassandra is started on. That is what this project models.

## 1. Inventory

| Component | State | Operations | Interacts with |
|---|---|---|---|
| Node backup (`backup_node.py`) | the running backup: options, files kept and uploaded | `handle_backup`, `start_backup`, `stagger`, `do_backup`, `backup_snapshots`, `check_already_uploaded` | snapshot, storage, index, marker file |
| Backup index (`index.py`) | `index/backup_index/<name>/...`, `index/latest_backup/<fqdn>/...` | `add_backup_start_to_index`, `add_backup_finish_to_index`, `set_latest_backup_in_index`, `build_indices`, `clean_backup_from_index` | written by backups, read by every listing |
| Purge, delete-backup (`purge.py`) | the list of backups to purge, of objects to delete | `main`, `backups_to_purge_by_age`, `_by_count`, `_by_name`, `purge_backups`, `purge_backup`, `cleanup_obsolete_files` | storage, index |
| Storage catalogue (`storage/__init__.py`, `node_backup.py`) | none of its own: names of objects are the database | `list_node_backups`, `discover_node_backups`, `latest_node_backup`, `NodeBackup.exists/started/finished/is_differential` | every command |
| Storage drivers (`storage/*_storage.py`) | connections | upload, download, list by prefix, delete, compare | the bucket |
| Snapshots (`cassandra_utils.py`, `service/snapshot`) | snapshot tags on the node's disk | create, find, delete | node backup |
| Listing, status, reports | none | print; repair the index on the way | catalogue, index |
| Backup manager, gRPC service (`backup_manager.py`, `service/grpc`) | the registry of futures and statuses, the in-progress marker | register, set and remove futures, status, delete, purge | node backup, purge; threads and an event loop |
| Cluster backup, orchestration (`backup_cluster.py`, `orchestration.py`, `cluster_backup.py`) | hosts per phase, batches | snapshot phase, upload phase, index; `is_complete` | ssh to every node |
| Cluster restore (`restore_cluster.py`) | host map, seeds, batches | mapping by token map or seed list, prepare, restore in batches | ssh, node restore |
| Node restore (`restore_node.py`, `download.py`, `filtering.py`) | data directories | download, stop, clean, move, start | storage, Cassandra |
| Verification (`verify.py`, `verify_restore.py`) | none | compare manifests with the storage | catalogue |
| Purge of decommissioned nodes | none | purge all backups of nodes that are gone | catalogue, purge |
| Configuration, command line, monitoring, name resolution | settings | read once | all |

What is hard here, and what makes each part correct:

- **Node backup.** A differential backup does not upload a file it finds in the
  storage: its manifest names objects it did not write and whose life it does
  not control. It must never end complete with a file missing or cut short, also
  after other commands died in the middle, after files were compacted away or
  when the same name is used again.
- **Index.** A copy of what the backups' own directories say, updated
  separately. It must never hide a complete backup, lose a backup's mode, or hold
  a name that the listings cannot parse (they assert, for every node).
- **Purge.** Takes the oldest backups and only those; deletes a shared file
  only when no manifest names it; races with backups, with a grace period as the
  only protection; can die between any two deletions.
- **Catalogue.** Its listing stops checking existence after the first backup
  that exists and removes index entries on the way.
- **Service.** Statuses derived from futures and from the bucket must not
  contradict each other or lose a failure; handlers run on threads, the
  asynchronous ones on an event loop.
- **Cluster backup and restore.** One failing host among many, batches and
  their order (seeds first), hosts mapped one to one.

The hazards, each with its line and the properties aimed at it, are listed in
`PROJECT.json`.

## 2. Modules

| Module | Contents |
|---|---|
| `NodeBackups` | the node backup, the index, purge and delete-backup, the catalogue and the commands that repair the index, for one node |
| `Catalogue` | abstract: what a node's backups promise whoever restores them; `NodeBackups` implements it |
| `BackupService` | the gRPC service of one node: its handlers on threads and on the event loop, `BackupMan`'s registry, the futures, the marker file |
| `ClusterBackup` | backup-cluster over ssh, what the storage calls a complete cluster backup, delete-backup on all nodes, purge-decommissioned |
| `RingMapping` | pure: which node of the target cluster restores the backup of which node |
| `ClusterRestore` | restore-cluster, restore-node, sstableloader and the pods of Kubernetes; uses `RingMapping` |
| `Transfers` | the storage drivers: chunks of coroutines, retries, threads, digests; which files a differential backup uploads; verify |
| `MC...` | the small instances for TLC |
| `NodeBackupsProofs` | theorems: types, the bucket invariant, what backups, purges and listings keep, what a purge takes |
| `CatalogueProofs` | theorems: `NodeBackups` implements `Catalogue`; the cleanup is complete |
| `GraceProofs` | theorems: the grace period, also while a purge and a backup overlap |
| `BackupServiceProofs` | theorems: types, a success is one, a late status request tells the end |
| `TransfersProofs` | theorems: what a call has done when it returns, fails or is verified |
| `ClusterBackupProofs`, `CutProofs` | theorems: backup-cluster, with overlapping runs and without |
| `ClusterRestoreProofs` | theorems: the mapping of the rings, what a restore does to the hosts |

The modules fit together along the calls of the code. `ClusterBackup` runs
backup-node on many hosts and keeps of each run the steps that meet other hosts;
`NodeBackups` has all steps of one run. `NodeBackups` uploads a file in one step
(with a torn object when it is interrupted); `Transfers` has the chunks, retries
and threads behind that step. `ClusterRestore` downloads in one step for the same
reason. What a restore relies on, a backup that gives back the snapshot it took,
is the abstract `Catalogue`.

### NodeBackups and the code

The state is the bucket (`meta`, `manifest`, `born`, `doneAt`; `idx`, `stamp`,
`latest`; `blobs`, `mtime`, `torn`), the node (`sstable`, `snaps`, `linked`),
the processes (`bk[b]` for a running `medusa backup` of name `b`, `pg` for a
purge or a delete-backup) and a clock.

- *Backup*: `HandleBackup` is `handle_backup` and the checks of `start_backup`.
  Then one action per object written, in the order of the code: `SaveSchema`,
  `SaveTokenmap`, `SaveServerVersion`, `SaveDifferential`, the four index entries
  of `add_backup_start_to_index`, `Stagger`, `TakeSnapshot`, `ListStorage`,
  `Upload` file by file, `LeaveSnapshot`, `SaveManifest`, the two entries of
  `add_backup_finish_to_index` and `SetLatest`. `Stagger` is the last round of the
  stagger loop; the earlier ones only list (`ListBackups`) and sleep, the deadline is
  a failure. A run over a name in use (`--use-existing-snapshot`) keeps the schema blob
  it found in its cache, so that it enters the old start time in the index (`cached`,
  `StartedTimes`). `BackupFails` is an exception
  anywhere (the snapshot's `__exit__` runs), `BackupCrashes` a kill (it does not
  run); both can tear any of the files that were still to be uploaded. Several steps read back an object they need (`Source`) and raise when it
  is gone.
- *Purge*: `Purge` and `DeleteBackup` choose the targets from a listing;
  `PurgeBackup` lists the objects of one target, `PurgeObject` deletes them in
  the order in which the storage lists them, `CleanBackupFromIndex` and
  `CleanIndexObject` do the same in the index; `ReadManifests`, `ScanStorage` and
  `DeleteOrphan` are `cleanup_obsolete_files`. `PurgeStops` ends it anywhere.
- *Listings*: `ListedBackups`, `Ghosts` and `RemoveGhosts` are
  `list_node_backups` with its shortcut on existence.
- *Index*: `BuildIndex`, `BuildIndexStops` (dead after any object) and
  `ReportLatest`. `LoseIndex` is the operator's accident, allowed only by the
  constant `IndexLoss`.
- *Environment*: `Tick`, `Flush`, `Compact`, `OperatorSnapshot`.

The constants `Overlap`, `PurgeRunning`, `ConcurrentBackups`, `SortedListing`,
`AtomicUploads`, `IndexLoss` and `NamePrefix` say in what surroundings the
commands are used; the code enforces none of them. The formula `Disciplined`
collects those the guarantees need.

### BackupService and the code

The state is the registry (`registered`, `reg`: a future and a status for each
name), the bucket as far as the service reads it (`schema`, `manifest`), the
in-progress `marker`, the threads that run backups (`run[r]`) and their futures
(`fut[r]`), the event loop's `AsyncBackup` handler (`loop`), the threads that
serve status requests (`poll[p]`) and the one that deletes (`del`).

- *Requests for a backup*: `AsyncBackup` registers, `RunInExecutor` hands
  `handle_backup` to a thread, `SetBackupFuture` stores the future. The handler
  does not await, so the loop does nothing else in between; the other threads do.
  `Backup` runs `handle_backup` on its own thread.
- *`handle_backup`*: `CreateMarker`, `Connect` (outside the `try`, so that
  `ConnectFails` runs no `finally`), `CheckExists`, `SetInProgress`, `SaveSchema`,
  `SaveManifest`, `SetSuccess`; `BackupRaises`, `SetFailed`, `DeleteMarker` are an
  exception, the `except` and the `finally` clauses. `ReportFailed` is the `except`
  clause of the synchronous handler.
- *Futures*: `Resolve` is the loop hearing of a thread's end. Overwriting or
  removing an entry cancels a future that is not done; that stops a thread only if
  it has not begun (`CancelQueued`).
- *Status*: `BackupStatus`, then a step per call that `BackupStatus` and
  `_determine_backup_status` make: is it finished, register without overwriting (a
  check and a store), get the future, look at it, is it finished, update, record.
  The answer is what the registry holds at `PollRecord`; UNKNOWN is answered as
  IN_PROGRESS, the default of the response. A `CancelledError` is no `Exception`:
  it ends the request without an answer.
- *Deletion*: `DeleteBackup` with its check of the registry, `PurgeBackups` without
  one, the manifest and the schema deleted in this order (`NodeBackups` has the rest
  of a purge), `HandleBackupRemoval`.
- *End*: `Shutdown` (`remove_all_backups`, the threads run to their ends) and
  `Restart`; `Crash` takes the threads along.

Each call of `BackupMan` makes a lock of its own, so the locks exclude nothing. One
call is one step nevertheless, except the non-overwriting `register_backup`, whose
check and store are two: that pair is where the missing lock shows. The flag
`is_async` is stored but nothing in the service reads it, and `GetBackup` and
`GetBackups` change nothing. The field `late` of a status request is history: it
says that the request began after the backup's end and that no entry was stored
behind its back; no action depends on it.

### The abstract catalogue

`Catalogue` knows for each name a status (absent, partial, complete), the files a
restore gives, and the snapshot of a backup under way. A backup becomes complete
in one step, with exactly the files of its snapshot; a complete backup changes in
no step but its removal, which is one step too. `NodeBackups` instantiates it
(`Cat`) with the refinement mapping

- `StatusOf(b)`: complete when the manifest is there, partial when another object
  of it is, absent otherwise;
- `Restorable(b)`: the files of the manifest that are in the storage and whole;
- `Cut(b)`: the snapshot that the running backup has linked.

`ImplementsCatalogue` says that every step of backups, purges, index builds,
failures and crashes is a step of `Catalogue` or none. It relates the snapshot at
the beginning of a backup to what a restore gives much later, and fails when a
file that is kept is lost meanwhile, when the manifest lists less than the
snapshot, or when a deletion of one name touches another.

### ClusterBackup and the code

One backup name. The state is the ring, the snapshots per host (Medusa's tag
`snap`, the operator's `handmade`), the node backups in the storage and the index in
the order of their start entries, the runs of backup-cluster (`job`), the command
of each run on each host (`cmd`, `using`, `clear`) and a purge-decommissioned.

- *Orchestration*: `Begin` is `orchestrate` up to the check of the name,
  `ReadHosts` the token map of one session, `RunBatch` and `JoinBatch` one turn of
  the loop of `pssh_run`; after the last turn the results are counted and the next
  phase or the cleanup begins. `RunBatchRaises`, `ReadHostsFails` are exceptions of
  the ssh client and of the session, `Kill` the death of the operator's process.
  A connection can also break while a command runs: either join gets no exit code of
  that host (`LoseHost`, the host counts as failed) or it raises and gives up the whole
  batch (`JoinRaises`). The commands go on in both cases. `lost` are the hosts of the
  phase that were lost so far; `broken` is history: the run has lost sight of a host in
  its uploads.
- *Hosts*: `NodetoolSnapshot` and `NodetoolClear` are the commands of the two
  phases; `NodeStart`, `NodeSnapshot`, `NodeUpload`, `NodeFinish` with their failures
  are backup-node; `NodeStartFails` is one that ends between its first blobs and its
  entry in the index, so that its backup exists and nobody lists it. They go on when the orchestrator has lost sight of them.
- *Completeness*: `ClusterTokenmap`, `missing_nodes`, `is_complete`.
- *Ring*: `Join`, `Leave`; `PurgeList`, `PurgeLive`, `PurgeNode` are
  purge-decommissioned, between whose steps the ring may change.

The hosts of a run are a set; parallel-ssh's list of them is the order of their
addresses (`Address`, `Place`), and `next` is the place of the first host of the
coming batch. The content of a node backup is known by the run and the kind of snapshot it came
from ("cut", "late", "operator", "gaps"), which is what tells a consistent cluster
backup from a mixture.

### RingMapping, ClusterRestore and the code

`RingMapping` follows `_populate_ringmap` function by function: a ring is a
sequence of records (host, rack, tokens) in address order; sets that Python lists
in any order give a set of results. Sorting is stated by rank: `Before` is the order
of the keys and `Nth` the element with so many before it. The assumptions on the
constants are what a token map gives: a ring has nodes, with names of their own and
tokens (`Rings`); what the bucket has is known of every source a request names
(`Requests`); the sections include Cassandra's `system.local` (`LocalAssumption`).

`ClusterRestore` has one request (`sc`: rings, host list, options, what is stored),
the run (`job`), per host the process (`proc`), Cassandra up, down or unseen (it runs,
but was taken for down), where the files of each section come from (`data`), the commit log, the tokens in cassandra.yaml
and those Cassandra runs with, and for sstableloader what the tables hold.

- *Preparation*: `PrepareRing`, `PrepareList` with `HostMap`, `Confirm`, `Cancel`.
- *sstableloader*: `RestoreSchema` drops and creates all non-system tables, whatever
  `--keyspace` and `--table` say, and with them their files (`DropTables`).
- *Over ssh*: the stop command, then restore-node, in batches as above, with
  `JoinRaises` when a connection breaks; `HostVariables` is the substitution that
  parallel-ssh makes. A host that is lost without an exception counts as one whose
  stop has failed.
- *restore-node*: `Lookup`, `Download`, `Shutdown`, `WaitForDown`, `CleanCommitLog`,
  `MoveSection` section by section, `WaitForSeeds` or `GiveUpOnSeeds`,
  `StartCassandra`; `NodeFails` anywhere, in `MoveSection` also between the removal
  of a table and its replacement. `WaitForDown` says "down" of a Cassandra that runs
  when the check fails itself (`is_node_up`): the restore then works under it and what
  it moves gets mixed (`Placed`). `LoadSource` is one source of sstableloader.
  `PeersTables` are the names that start with `peers`.
- *Pods*: `PodRecreated`, the init container with the same steps without shutdown and
  seeds, `WriteKey`, `PodStarts`, `PodRestarts` (docker-entrypoint.sh).

### Transfers and the code

One connection, one call, the files of one table; the driver is chosen at the
start. `BeginUpload` is `check_already_uploaded` with the comparison of the driver,
then `StartChunk`, `GatherReturns`, `GatherRaises` are the loops of
`abstract_storage.py`, `KeepRest` the entries of the kept files, `Disconnect` and
`DisconnectLeaves` the end. The files of a call are listed in some order (`SetToSeq`), `next` is the place of
the first of the next chunk and `ChunkEnd` its last. A transfer
is `StartTransfer`, `Move`, `Answer`: it can fail before or after its effect, so that a
retry meets what is already done.

A coroutine stops with the loop, a thread does not (`InThread`). The S3 driver hands
whole transfers to its executor, which `Disconnect` waits for; aiofiles hands each open
and each write of the local driver and of Google's downloads to the executor of the
loop (`ThroughAiofiles`, `Open`, `Write`), which nobody waits for. A failed call whose
threads may still be at work has ended in "left" (`DisconnectLeaves`); so has one of
S3 when closing the client raises, for that skips the shutdown.

A digest is an uninterpreted value made of the kind of upload, the content, and the
number and size of the parts; uploads to S3 are cut by `MultipartChunksize`, computed
digests by `PartSize`. `SingleUploadSize` is external: boto's and Azure's own limit for
an upload in one piece. `Decodable` is what b64decode takes: not Azure's placeholder,
and an ETag with parts only when its length happens to fit (1000 to 9999 parts).
`Verify` is `validate_manifest` after objects were lost or overwritten
(`ObjectChanges`) or with a manifest that cannot be read (`ManifestUnreadable`), where
it goes through nothing and finds no error.

### What is abstracted

- Names are numbers: their order is the listing order; that one name starts
  another is a relation of its own, `NamePrefix`.
- Cassandra never uses an SSTable file name twice. A blob is whole or torn:
  torn stands for a non-empty part left by an interrupted upload, which is what
  the comparison of sizes can tell. (An empty object is invisible to the
  listings, as if it were not there.)
- The data of a full backup is private to it and is left out; its manifest names
  no shared file.
- A listing with its removal of ghosts is one step, and so is `build-index` when
  nothing stops it; `BuildIndexStops` covers every place where it may die, not
  other commands between its objects.
- Object contents other than the manifest's files, digests, sizes, statistics,
  throttling, monitoring and what is printed are left out. `--noop` changes
  nothing. `--all-nodes` repeats the same steps for the directories of other
  nodes.
- `MaxDuration` limits how far the clock moves while a command runs: whether a
  command may outlast the grace period is a choice of the run.

## 3. Runs

| Run | Question | Result |
|---|---|---|
| `serial` | one command at a time, local storage (torn uploads), one failure | all safety properties and the refinement hold |
| `overlap` | a purge overlaps a backup, may even purge it | a backup shorter than the grace period keeps its uploads |
| `options` | both modes, kept snapshots, `--use-existing-snapshot` over a name in use, a lost index; does every command end | what stays true; yes |
| `service_status` | two requests for a backup of one name, synchronous or not, two status requests at once, a restart or crash | what is reported is true |
| `service_liveness` | requests of all kinds with deletions and a restart: do they end | they do |
| `cluster` | two runs of backup-cluster of one name, a changing ring, faults, lost connections, deletions, purge-decommissioned | done is complete and one cut |
| `restore` | mappings between rings; twelve requests of one batch with faults and repetitions | restored is restored, nothing starts on a mixture |
| `transfers` | chunks, retries, threads and digests of four drivers, then verify | what returns is done |
| `overlap_grace` | does the grace period prevent races of purge and backup | no, see below |
| `rebuild` | are files absent from all manifests the only ones deleted after `build-index` | no |
| `prefix` | does delete-backup delete the given backup only | no |
| `restore_batches` | is the cluster restored when targets are restored in batches | no |

**Bounds of `NodeBackups`.** At most two names (two backups are needed for a
shared file, for an older and a newer one and for a count to cut) and two files
(one is kept while the other is uploaded). The clock has the two or three values
that tell "within the grace period" from "past it", boundary included. One failure
or kill is allowed, at any step of any command; what it leaves is then met by any
number of later commands. Names are free again after a purge, so every run holds
unbounded sequences of backup, purge and backup of the same name. `options` has one
name: its question is about every combination of options of two runs of that name.

**Bounds of `BackupService`.** Two requests for one name are a retry with both
threads alive; two status requests are the least that can come between each
other's check and store; a restart can fall on any step. A second name adds nothing
there, for the registry treats each name by itself. Deletions are off in
`service_status` because a deleted backup's status outlives it for a few steps
(`HandleBackupRemoval` comes after the deletion), and on in `service_liveness`.

**Bounds of `ClusterBackup`.** Three hosts, of which one may join or leave once;
snapshots one by one, uploads and cleanups in batches of two: there are several
batches, a full and a short one, and a host that is waiting while others fail. Two
runs, the second with snapshots of its own or with existing ones, which the operator
has made on all hosts but the one that may join: it meets everything the first can leave.
`--keep-snapshot` differs in one step, what backup-node does with the snapshot at its
end; it is left to the proofs. One fault reaches every failure by itself, a lost
connection in the uploads with all commands alive among them. `MaxMoves` is one change of the ring at any step.

**Bounds of `ClusterRestore`.** `MappingSound` is checked on all pairs of 4 backup
rings of three nodes and 48 target rings of two or three (same and other hosts,
racks and tokens in several orders, one token or vnodes), with and without racks:
every branch of `_populate_ringmap` is taken and the order of addresses, racks and
tokens disagrees. The requests that are carried out have two targets, five sections
(one for each way a section is treated) and two faults over two runs: a failure, a
repetition, and a failure of that; or a stop and a health check of one host. In
`restore` all targets are one batch; what happens with more is `restore_batches` and
what is said below about the seeds.

**Bounds of `Transfers`.** Four files in chunks of two: two chunks, the second run
only if the first succeeds; three attempts and three faults: a transfer can use up
its attempts. The files are those that are treated differently: a data file, the
one of the same name of a secondary index, summary and statistics; contents of the
same size with other bodies, of more than one part, and empty. A part of an upload
is larger than a part of a computed digest, as it is by default, and the thresholds
are below the large file.

Deadlock is not checked where everything comes to rest for good when the operator
does nothing: in the cluster, restore and transfer runs; and in `overlap`, where a
purged backup can leave an unreadable index, after which all commands stop with an
assertion error. There the liveness properties say that nothing rests too early.

The properties of `NodeBackups`:

- `CompleteBackupsIntact`: all files of a complete backup's manifest are in
  the storage and whole.
- `ImplementsCatalogue`: see above.
- `ManifestIsLast`: a manifest is never without schema, token map and server
  version.
- `CompleteBackupsListed`: no listing hides a complete backup.
- `OnlyTargetsPurged`, `PurgeTakesOldest`: what a purge takes.
- `GraceRespected`, `FreshUploadsSurvive`, `CleanupSparesIndexed`,
  `CleanupComplete`: what the cleanup may and must delete.
- `CommandsEnd`: liveness. `CatalogueInvariant`: the inductive invariant of the proofs.

Of `BackupService`:

- `SuccessIsComplete`: the registry calls a backup a success only when its manifest
  is in the storage, whoever wrote the status last and however old what it read was.
- `PollTellsEnd`: a status request that begins after the backup's end answers
  with the outcome, also when the service was restarted in between.
- `RequestsEnd`: every backup that was accepted ends, its future is resolved or
  cancelled, and every request is answered.
- `ServiceInvariant`: the inductive invariant of the proofs.

Of `ClusterBackup`:

- `DoneIsComplete`: after "Backup of the cluster done" every host of the token map
  has finished, and the storage agrees that the backup is complete.
- `CutBeforeUpload`, `CompleteIsOneCut`: what a successful run uploaded, and what
  the storage calls complete whether the run reported it or not, comes from the
  snapshots of one snapshot phase. The second excepts a run that lost the connection
  to a host in its uploads, whose backup can become complete after its cleanup has
  cleared snapshots: it is then still the work of that run alone.
- `CleanedUp`: once uploads have begun, a failed run leaves no snapshot where its
  cleanup went through, also not of commands that were still running then.
- `OnlyGonePurged`: purge-decommissioned takes only nodes that had left.
- `JobsEnd`: a run ends if its commands do. pssh has no timeout: one that hangs holds
  the run. `SerialInvariant`: the inductive invariant of the proofs.

Of `ClusterRestore`:

- `MappingSound`: no source is lost or restored twice, racks stay together, a ring
  restored on itself gives every node its own backup.
- `DoneIsRestored`: what 'Successfully restored the cluster' means.
- `WipedOnlyWhenDown`: restore-node touches no files under a running Cassandra unless
  two faults come together, of the stop and of the check that is to see it.
- `StartsWhole`: Cassandra never starts on files of two origins or on the old commit
  log, whatever failed before.
- `UnrequestedKept`: tables not asked for stay, except with sstableloader, where they
  may be dropped, never replaced.
- `SeedsFirst`, `FailsForAReason`, `RestoreEnds`: seeds come first, waiting for them
  makes no restore of one batch fail that could succeed, and it ends.
- `RestoredOnce`: a pod is not restored again when it is restarted.
- `BatchInvariant`: the inductive invariant of the proofs for requests of one batch;
  `RestoreInvariant` is the part of it that needs no hypothesis on batches.

Of `Transfers`:

- `ReturnedIsDone`: when a call returns, the bucket, the disk and the manifest say so.
- `FailsForAReason`: it fails only when the attempts are used up, an object is gone,
  or a digest cannot be decoded.
- `VerifyTells`: a backup that verify accepts with digests, having read its manifest,
  gives back the snapshot; one it refuses was changed, shares its directory with a
  stray object, or has an empty file.
- `NoLateWrites`: nothing is transferred after a call has succeeded or S3 has waited for
  its threads; where nobody waits, only files that a thread is at work on change, and
  no other transfer begins.
- `CallsEnd`: liveness. `TransfersInvariant`: the inductive invariant of the proofs.

**Assumptions that the runs make visible.** A stop command that works stops Cassandra
before the health check gives up. What makes the stop of restore-cluster fail makes the
one of restore-node fail again, so both are one fault. A stop that arrives after pssh
gave up its host is not modelled. Waiting for seeds takes longer to give up than a
restore takes, unless a fault says otherwise. All nodes are in one
data centre. Two runs of backup-cluster of one name do not overlap
(`OverlappingJobs`), as the operator is told by nothing in the code: the name is
checked long before it is taken. `Disciplined` collects the assumptions of the
theorems on `NodeBackups`.

**Fairness.** `options` assumes weak fairness of the next step of a running
backup (or its failure) and of a running purge: each is one thread that does
nothing but go on, and each storage call returns or raises. Nothing forces the
operator to start a command, Cassandra to flush, or the clock to move; a command
waiting in `stagger` ends by its deadline, which is a failure.

`service_liveness` assumes weak fairness of each thread, of the handler on the loop
and of the loop's callbacks: the loop's only handler that touches this state never
blocks, and the threads share no lock. The restart after a shutdown is the
supervisor's (`k8s`). Clients, shutdowns and crashes are not forced.

`cluster` assumes it of each run only: commands may hang, and `JobsEnd` has as its
hypothesis that those a run waits for do not. `restore` assumes it of the run and of the
hosts as long as one has a step to take (the waits of restore-node
poll and have a limit), `transfers` of the call and of each transfer: they are
processes, threads and coroutines that nothing holds back, and each network call
is taken to return or raise (Google's uploads have no timeout of their own). Faults, kills, changes of the ring and restarts of pods after a
success are never forced.

### Where the code and its documents disagree

1. `overlap_grace`: `medusa-example.ini` says the grace period prevents races
   between purge and running backups. It protects what a backup has *uploaded*;
   a file that the backup *keeps* is as old as its first upload, and a purge at
   the same time deletes it when no finished manifest names it. The backup then
   ends complete without that file.
2. `rebuild`: `build_indices` gets its backups from `discover_node_backups`,
   which carries no differential blob, so the rebuilt index has no differential
   markers and the next cleanup ignores the manifests of those backups.
3. `prefix`: objects are listed by a prefix without a trailing slash: purging
   `b` takes the objects of every backup whose name starts with `b`.
4. `restore_batches`: `_restore_data` makes a list of sources and seeds for all
   targets, `pssh_run` hands the whole list to the client of each batch, and
   parallel-ssh takes its i-th element for the i-th host of the batch. With
   `--parallel-restores` below the number of targets, the second batch is restored
   from the sources of the first, with their tokens, and success is reported.

Met while modelling, without a run of their own:

- Objects are deleted in listing order. Sorted by name the manifest goes before the
  schema; a local directory walk has no such order, and an interrupted deletion can
  leave a manifest that vouches for the next backup of that name. (`SortedListing`.)
- "Attempted to delete a running backup" (`server.py:290`) is decided by one read of
  the registry. The status is UNKNOWN until `handle_backup` has checked the storage,
  and a status request during a synchronous backup, which has no future, stores
  FAILED: in both cases the deletion is admitted.
- A new `MedusaTempFile` has no handle, so `exists()` is always false and concurrent
  backups are not prevented; the first to end unlinks the marker of the other. When
  the storage cannot be reached the marker stays, for the connection is made outside
  the `try` whose `finally` deletes it. Two backups of the node at once are left to
  the proofs: `BucketInvariant` is proved with `ConcurrentBackups`, for a storage
  with atomic uploads.
- Asking twice for the same name overwrites the entry and cancels the first future:
  the first backup goes on and may end well, and what is reported for good is the
  failure of the second (`PollTellsEnd` is about the last request).
- purge-decommissioned ("Delete obsolete backups of decommissioned nodes",
  `medusacli.py:375`) takes the nodes of the token map for the live ones, and the token
  map holds one data centre (`cassandra_utils.py:204`): with two, all backups of the
  other one are purged.
- The completeness of a backup is not checked before a restore: `kubernetes.enabled`
  is the string "False" (`restore_cluster.py:135`, `config.py:179`).
- `restore_node.py:304-305` drops every table whose name starts with `peers`, of any
  keyspace, in a remote restore: `and` binds closer than `or`. The comment above it
  (line 297) speaks of `system.local` and `system.peers` only. The theorem
  `StartsAreWhole`, and those about one batch, assume that no table but Cassandra's
  own has such a name (`PeersAreSystem`): the proofs do not go through without it,
  and the node would start without that table.
- A running backup that is purged writes `None` into the name of an index object
  (`index.py:115`), after which every listing of every node ends in an assertion
  (`storage/__init__.py:330`). It happens in `overlap`; `IndexReadable` is a conjunct of
  `BucketInvariant`, for uses in which nobody purges a running backup, and no property
  of its own.
- When `client.join` raises (`orchestration.py:80`), backup-cluster clears the snapshots
  (`backup_cluster.py:99-114`) while backup-node works on them. All hosts can then
  finish, from snapshots that were emptied or taken again: the storage calls complete
  what is no cut of the cluster.
- `is_node_up` answers "down" on any exception (`cassandra_utils.py:727-730`): after a
  stop that failed, the files of a running Cassandra are replaced.
- With `--parallel-restores` below the number of targets, a target of the first batch
  waits for a seed that the second batch restores and that was stopped with all
  others, gives up and fails, without any fault.
- With sstableloader, `--table` restores the named tables and empties all others of the
  backup's schema (`restore_cluster.py:486-488`).
- verify says OK of a backup whose manifest it cannot read (`verify.py:67-71`), and
  refuses a backup with an empty file, which listings leave out
  (`abstract_storage.py:75`).
- Files that S3 gets in parts never match with md5 checks by default: they go up in
  parts of 50MB (`config.py:122`) and are compared by parts of 8MB
  (`abstract_storage.py:32`).
- After a failed call, threads of aiofiles may go on to write to the local storage or
  the download directory of the next attempt.
- With several sources for one host the sstableloader loop leaves by `sys.exit(0)` at
  the first source whose manifest has none of the requested tables
  (`restore_node.py:182`): the later ones are not loaded and the host counts as
  restored. That is why `DoneRestoresTargets` assumes `LoadsAll`.
- A pod uses only the first of its sources (`service/grpc/restore.py:72`).
- md5 checks end a backup on Azure when an object is larger than one part
  (`azure_storage.py:119`, `:275`), and lead to needless uploads on S3 for files of
  whole parts and between the sizes of the two thresholds.

## 4. Proofs

`NodeBackupsProofs` proves, for any sets of names and files, any periods and
bounds:

- `TypeCorrect`: `Spec => []TypeOK`, from the named assumptions on the constants
  only;
- `InvariantHolds`: `Spec => []BucketInvariant`, and from it `BackupsStayIntact`,
  `ManifestStaysLast`, `BackupsStayListed`, and the action
  properties `PurgeKeepsToTargets` and `CleanupSparesManifests`, all under
  `Disciplined`: no purge overlaps a backup, no name starts another, the storage
  lists by name, the index is not lost, and backups overlap only on a storage with
  atomic uploads. The violation runs show the first two and the fourth of these to be
  necessary, the third is explained above; the last is needed because an interrupted second upload of a file can
  tear the blob that another backup has already counted.
- `OldestPurged`: `Spec => PurgeTakesOldest`, for any finite set of names and without
  `Disciplined`. A backup's place is the number of backups after it in the sorted
  list; no two share a place, so that n backups take all places from 0 to n - 1, and
  those that stay are the last `max_backup_count` of them.

The argument. That complete backups are intact is not inductive: the step that
could break it, `DeleteOrphan`, acts on a set computed earlier. So
`CleanupKnows` says that the cleanup's paths cover every manifest;
that holds when they are read because of `ManifestsIndexed` (every manifest has a
token map in the index, and a differential marker if it names shared files) and
`CompleteBackupsListed`, which follows from `ManifestIsLast`: what has a manifest
has a schema, and the listing keeps what exists. `PurgeLists` carries those two
through a deletion that may stop anywhere: what is left of a backup is still
to be deleted in order, and the index goes last. On the writer's side `BackupWrote` says which objects a
running backup has written at each step, `BackupHolds` that the files it will
list are whole, and `TodoMissing` and `OneBackup` that an upload that is cut off
tears no file that somebody counts on. `PurgeAlone` keeps the two sides apart.
The proof has one lemma per group of actions and, in it, a step per action and
per conjunct the action can disturb.

`CatalogueProofs` adds two conjuncts and proves from `CatalogueInvariant`, under
`Disciplined`:

- `BucketImplementsCatalogue`: `Spec => ImplementsCatalogue`. `Init` implies the
  abstract `Init`, and every step, named action by action, is mapped to
  a step of `Catalogue` or to none. It needs `SnapshotsHeld`: what a running backup
  has kept, uploaded and still to upload is exactly its snapshot, so that what
  `SaveManifest` writes is what was linked many steps before.
- `CleanupLeavesNothing`: `Spec => CleanupComplete`. It needs `CleanupCovers`: paths
  read are of complete backups, and whatever is old and not waiting for its deletion
  is in a manifest.

`GraceProofs` is about what `Disciplined` excludes, a purge during a backup:

- `GraceKept`: `Spec => GraceRespected`;
- `UploadsSurviveOverlap`: `Spec => []FreshUploadsSurvive`.

Both assume `OneWriter` (no overlap, or one backup at a time on a storage with
atomic uploads): a file that waits in the cleanup's list could otherwise be uploaded
again meanwhile. The second also assumes a backup shorter than the grace period
when they overlap. `GraceInvariant` carries through the steps between the listing and
the deletion that what waits is old (`OrphansAreOld`), that what is still to be
uploaded is not in the storage (`UploadsAreNew`), and that a backup's uploads are no
older than its start (`UploadsAreYoung`).

Of `NodeBackups` only model-checked: `CommandsEnd` (liveness).

`BackupServiceProofs` proves, for any sets of names, requests and handler threads
and any number of restarts:

- `ServiceTypeCorrect`: `Spec => []TypeOK`, deletions included;
- `ServiceInvariantHolds` and from it `SuccessIsTrue`: `Spec => []SuccessIsComplete`,
  and `StatusTellsEnd`: `Spec => []PollTellsEnd`, when no deletions are requested.
  That assumption is needed: between the deletion of the manifest and the removal of
  the entry the registry still says SUCCESS.

`SuccessIsComplete` is not inductive since a status is computed several steps
before it is stored. `PollCarries` says that what a status request has seen or is
about to store is true of the storage, `RunCarries` that a thread about to report
success has written its manifest, and `NothingDeleted` that the manifest both rely
on stays.

`PollTellsEnd` is about the end of a long conversation between threads: the
registry, the futures, the loop and other status requests can each put something
else into the entry before the answer is read. `EntriesFit` ties the
future of an entry to a thread that runs a backup of this name, `LoopFits` does the same for the
`AsyncBackup` handler between its three steps, `PollsRegistered` says that a status
request past its registration finds its entry. `PollsKnow` is the heart: as long as
somebody waits for a late answer about a name (`Watched`), the name is settled, and
*every* status request of it, late or not, holds the entry's future or the outcome, so
that no slower request can overwrite the answer with something else.

Only model-checked: `RequestsEnd` (liveness).

`TransfersProofs` proves, for any files, driver, chunk size, number of attempts and of
faults, without further assumptions: `TransfersInvariantHolds`, `TypeCorrect`,
`ReturnedCallsAreDone` (`ReturnedIsDone`), `FailuresHaveAReason`
(`FailsForAReason`), `VerificationTells` (`VerifyTells`) and the action property
`NothingWritesLate` (`NoLateWrites`). `TransfersInvariant` says which files have a
coroutine (`ChunksInOrder`: each at most one, and those of the earlier chunks have
succeeded), what a transfer in each of its states has done to
bucket and disk, also one that is repeated after its effect or goes on in a thread
(`TransfersDone`, `DiskThere`), that the manifest follows the chunks (`ManifestFollows`), that attempts
are paid for by faults (`AttemptsCounted`), why a call has raised (`RaisedByTask`),
and that no thread is at work after a call that was not just left (`NoThreads`). Only model-checked: `CallsEnd` (liveness).

`ClusterBackupProofs` and `CutProofs` prove, for any hosts and addresses, batch
sizes, numbers of runs, faults and changes of the ring:

- without further assumptions, overlapping runs included: `ClusterInvariantHolds`,
  `TypeCorrect`, `SnapshotsCleanedUp` (`CleanedUp`); for one data centre
  (`SingleCentre`) `OnlyGoneNodesPurged` (`OnlyGonePurged`);
- for runs of one name that do not overlap (`~OverlappingJobs`): `CutInvariantHolds`
  and `CompleteBackupsAreOneCut` (`CompleteIsOneCut`); with `SingleCentre` also
  `BackupsThereHolds`, `SerialInvariantHolds`, `DoneBackupsAreComplete`
  (`DoneIsComplete`) and `UploadsAreTheCut` (`CutBeforeUpload`).

The first layer, `ClusterInvariant`, says per run what a command on a host can be in
each phase and batch (`RunFits`, `Cleared`). The second, `CutInvariant`, is about two
runs: at most one is at work, counting the commands that outlive a killed
orchestrator; the index has entries of one run; the snapshots a run
holds are its own; what it has uploaded has the contents of its cut or the run
cannot end well any more (`ContentsCut`, `Spoiled`), or it has lost sight of a host in
its uploads (`broken`), when only the run that everything comes from is known. The third, `BackupsThere`, is
that what was uploaded stays, which is where the purge and the data centres come
in. "Complete" is a statement about the token map of one node backup, so `SameRing`
ties all token maps to the ring as long as it has not changed.
`~OverlappingJobs` is about the commands too: a run begins when no command of an
earlier one is alive. Only model-checked: `JobsEnd` (liveness).

`ClusterRestoreProofs` proves, for any rings, requests, sections, parallelism,
repetitions and faults:

- `RestoreInvariantHolds`, `TypeCorrect`;
- `MappingIsSound`: `Spec => []MappingSound`;
- `PodsRestoredOnce` (`RestoredOnce`), `UnrequestedFilesKept` (`UnrequestedKept`);
- `StartsAreWhole` (`StartsWhole`), assuming `PeersAreSystem` (see above);
- for requests that fit one batch (`OneBatch`), with `PeersAreSystem`:
  `BatchInvariantHolds`, `UnseenNeedsTwoFaults`, `TouchedOnlyWhenDown`
  (`WipedOnlyWhenDown`), `FailuresHaveReasons` (`FailsForAReason`), `SeedsComeFirst`
  (`SeedsFirst`), and, when sstableloader meets no empty backup (`LoadsAll`),
  `DoneRestoresTargets` (`DoneIsRestored`).

`OneBatch` says that `--parallel-restores` is no less than the number of targets. It
cannot be dropped: `restore_batches` is the run in which `DoneIsRestored` fails
without it. `UnseenNeedsTwoFaults` rests
on it through `QuietFits`: a target that is up when its restore-node looks has survived
a stop that failed, which is the first fault; the check that failed is the second.

The mapping has no induction over lists. Every place in a sorted list is an element
and every element has a place (`Nth`, by counting what comes before); an injection
between finite sets of one size reaches everything, so that pairing by rank loses
nothing; dealing by remainder gives every target its share; and that racks are
paired with racks of their size follows by taking the least place where two sorted
lists of sizes would differ. For the hosts the invariant says, per node: what is down
while its files are touched (`DownFor`), when a pod has its key (`KeyFits`), what the
command has done up to its step (`WorkFits`), which sections have been moved and from
where the others are (`Moved`), for the run as a whole which phases and commands go
together (`JobFits`), and that a pod is restored from whole backups or not
at all (`PodWhole`). A failed restore leaves hosts half-way, and the next run finds
them so: that is why `Moved` speaks of origins, and not of the run that moved.

`BatchInvariant` adds what a run of one batch knows of its hosts. `MapFits`: the
mapping is one batch, a target is entered once, sources are in the storage, seeds are
targets. `PhaseFits`: sstableloader has its own phases, and the rows of a requested
table come from nodes of the backup. Then per host: `TargetFits`, the command of a
target has that target's sources and seeds, and one that ended well has restored them;
`QuietFits`, as long as nothing failed, a target that was stopped is down until its
restore ends, and a target that is not a seed starts with a seed up; `PossibleFits`,
when moreover all backups are there, the targets are found up and no command fails.
The last one is where the seeds matter: a seed has no seeds to wait for, so a host
that gives up waiting would have to be one whose seeds all failed, and none did.
`DoneIsRestored` is `TargetFits` read in the phases after the batch was counted
(`Counted`): every target is "ok", so every source of every target was restored.

Only model-checked: `RestoreEnds` (liveness).

What the provers cannot do stays with TLC: liveness under fairness, and inductions over
data.

## 5. Not modelled

Left out for good: command line and configuration (no state), monitoring and
name resolution (I/O that nothing reads back), the gRPC client (it forwards calls),
the requests, credentials, encryption and throttling of the drivers, the parsing of
schema.cql and of names of objects, the extra directories of DSE (they go with the
snapshot and with the commit log), what is printed. Delays between retries are
steps without a duration: that S3's `wait_fixed(5000)` is seconds is not seen.

Left out of the runs: two backup-cluster runs of one name at the same time, and
clusters of two data centres; both are constants of `ClusterBackup`.
