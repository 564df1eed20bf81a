--------------------------- MODULE ClusterBackup ---------------------------
(***************************************************************************)
(* The cluster backup of Medusa: backup_cluster.orchestrate runs commands  *)
(* over ssh on the nodes of its data centre, first nodetool snapshot on    *)
(* all of them, then backup-node on all of them, each in batches           *)
(* (orchestration.pssh_run), and clears the snapshots when anything goes   *)
(* wrong.  The module follows ONE backup name, because every interesting   *)
(* interaction is between two runs of the same name: they share the        *)
(* snapshot tag on the nodes and the entries of the index.                 *)
(*                                                                         *)
(* What the runs leave in the storage is read back by ClusterBackup        *)
(* (storage/cluster_backup.py), removed by delete-backup, and, for nodes   *)
(* that have left the ring, by purge-decommissioned.  What one backup-node *)
(* does to the bucket in detail is the subject of NodeBackups; here it is  *)
(* the steps that meet the other nodes: its start entry with the token map,*)
(* its snapshot, its upload, its finish entry.                             *)
(***************************************************************************)
EXTENDS Integers, Sequences, FiniteSets, SequencesExt

CONSTANTS
    Hosts,              \* the nodes that may be part of the cluster
    Address,            \* the address of each host, as a number
    DataCentre,         \* the data centre of each host
    InitialRing,        \* the nodes of the ring at the start
    NumJobs,            \* how often backup-cluster is run with the name
    ParallelSnapshots,  \* --parallel-snapshots
    ParallelUploads,    \* --parallel-uploads
    Options,            \* per run: the values of --keep-snapshot and
                        \* --use-existing-snapshot it may be given
    HandmadeOn,         \* the sets of hosts on which the operator may make snapshots
    OverlappingJobs,    \* may a run begin while an earlier one is still active?
    MaxFaults,          \* bound: failed commands, unreachable hosts, lost
                        \* connections, killed runs
    MaxMoves            \* bound: nodes that join or leave the ring

ASSUME HostsAssumption ==
    IsFiniteSet(Hosts) /\ Address \in [Hosts -> Nat] /\ IsInjective(Address)
ASSUME RingAssumption == InitialRing \in SUBSET Hosts /\ InitialRing # {}
ASSUME ParallelAssumption ==
    /\ ParallelSnapshots \in Nat \ {0}
    /\ ParallelUploads \in Nat \ {0}
ASSUME JobsAssumption == NumJobs \in Nat \ {0}
ASSUME FlagsAssumption ==
    /\ Options \in [1 .. NumJobs -> SUBSET [keep : BOOLEAN, existing : BOOLEAN]]
    /\ HandmadeOn \subseteq SUBSET Hosts
    /\ OverlappingJobs \in BOOLEAN
    /\ MaxFaults \in Nat
    /\ MaxMoves \in Nat

VARIABLES
    ring,      \* the members of the Cassandra cluster
    snap,      \* per host: the snapshot under the tag medusa-<name>, or NoSnapshot
    handmade,  \* per host: is there a snapshot the operator made under <name>?
    backup,    \* per host: the node backup of the name in the storage
    index,     \* the hosts with a start entry in the index, oldest first
    job,       \* the runs of backup-cluster
    cmd,       \* per run and host: the nodetool snapshot or backup-node command
    using,     \* per run and host: the snapshot backup-node uploads
    clear,     \* per run and host: the nodetool clearsnapshot command
    purge,     \* the run of purge-decommissioned
    faults,    \* faults so far
    moves      \* ring changes so far

nodeVars == <<snap, handmade, backup, index, cmd, using>>
vars == <<ring, snap, handmade, backup, index, job, cmd, using, clear, purge, faults, moves>>

\* The runs, numbered in the order they begin.
Jobs == 1 .. NumJobs

NoSnapshot == <<>>
DataCentres == {DataCentre[h] : h \in Hosts}
AnyDataCentre == CHOOSE dc \in DataCentres : TRUE

(***************************************************************************)
(* A snapshot, and the data of a finished node backup, is known by the run *)
(* it belongs to and by how it came about: "cut" is a snapshot of the run's*)
(* snapshot phase, "late" one that backup-node had to take itself,         *)
(* "operator" one made by hand; "gaps" is the data of an upload whose      *)
(* snapshot was removed under it.                                          *)
(***************************************************************************)
Snapshots == Jobs \X {"cut", "late"}
Contents == Jobs \X {"none", "cut", "late", "operator", "gaps"}

NoBackup == [state |-> "none", tokenmap |-> {}, content |-> <<1, "none">>]

CommandStates == {"none", "snapshot", "backup", "started", "uploading", "closing",
                  "ok", "error", "unclean"}
Running == {"snapshot", "backup", "started", "uploading", "closing"}
ClearStates == {"none", "clear", "ok", "error"}
JobEnds == {"done", "failed", "killed"}
Phases == {"snapshot", "upload", "cleanup"}

NoJob == [pc |-> "idle", hosts |-> {}, next |-> 0, wait |-> FALSE,
          lost |-> {}, broken |-> FALSE,
          dc |-> AnyDataCentre, keep |-> FALSE, existing |-> FALSE]
NoPurge == [pc |-> "idle", all |-> {}, gone |-> {}, absent |-> {},
            dc |-> AnyDataCentre]

Init ==
    /\ ring = InitialRing
    /\ snap = [h \in Hosts |-> NoSnapshot]
    /\ handmade = [h \in Hosts |-> FALSE]
    /\ backup = [h \in Hosts |-> NoBackup]
    /\ index = <<>>
    /\ job = [j \in Jobs |-> NoJob]
    /\ cmd = [j \in Jobs |-> [h \in Hosts |-> "none"]]
    /\ using = [j \in Jobs |-> [h \in Hosts |-> NoSnapshot]]
    /\ clear = [j \in Jobs |-> [h \in Hosts |-> "none"]]
    /\ purge = NoPurge
    /\ faults = 0
    /\ moves = 0

(***************************************************************************)
(* What the storage says about the name (storage/cluster_backup.py).       *)
(***************************************************************************)
\* The token map of the cluster backup is the one of the node that started first.
ClusterTokenmap == IF index = <<>> THEN {} ELSE backup[Head(index)].tokenmap

missing_nodes == ClusterTokenmap \ Range(index)

is_complete ==
    /\ index # <<>>
    /\ missing_nodes = {}
    /\ \A h \in Range(index) : backup[h].state = "finished"

(***************************************************************************)
(* Orchestration.                                                          *)
(***************************************************************************)
\* Session.tokenmap: the ring, restricted to one data centre.
TokenmapOf(dc) == {h \in ring : DataCentre[h] = dc}

\* The token map is sorted by address, and so is the list of its hosts.
Place(hosts, h) == Cardinality({g \in hosts : Address[g] <= Address[h]})

Pool(phase) == IF phase = "snapshot" THEN ParallelSnapshots ELSE ParallelUploads

\* The chunk of at most step values that comes after the first ones of the list.
Chunk(hosts, first, step) ==
    {h \in hosts : first < Place(hosts, h) /\ Place(hosts, h) <= first + step}

Batch(j) == Chunk(job[j].hosts, job[j].next, Pool(job[j].pc))

Active(j) == job[j].pc \notin JobEnds \union {"idle"}

\* Commands of the run that have not ended on their hosts.
Alive(j) == \E h \in Hosts : cmd[j][h] \in Running \/ clear[j][h] = "clear"

Fault == faults < MaxFaults /\ faults' = faults + 1

\* A step that fails when the condition holds, and by a fault otherwise.
FaultUnless(condition) ==
    /\ condition \/ faults < MaxFaults
    /\ faults' = IF condition THEN faults ELSE faults + 1

\* get_cluster_backup finds the name.
NameTaken == index # <<>>

\* The operator runs backup-cluster, for --use-existing-snapshot after making
\* snapshots by hand (on all hosts or not).  A name the index knows is refused
\* before anything is touched.
Begin(j) ==
    /\ job[j].pc = "idle"
    /\ \A i \in Jobs : i < j => job[i].pc # "idle"
    /\ OverlappingJobs \/ \A i \in Jobs : ~Active(i) /\ ~Alive(i)
    /\ \E dc \in DataCentres, o \in Options[j] :
           /\ job' = [job EXCEPT ![j].pc = IF NameTaken THEN "failed" ELSE "connect",
                                 ![j].dc = dc, ![j].keep = o.keep, ![j].existing = o.existing]
           /\ \E made \in IF o.existing THEN HandmadeOn ELSE {{}} :
                  handmade' = [h \in Hosts |-> handmade[h] \/ h \in made]
    /\ UNCHANGED <<ring, snap, backup, index, cmd, using, clear, purge, faults, moves>>

\* Mutant of FirstPhase: the snapshots are left to backup-node.
FirstPhaseUpload(j) == "upload"

FirstPhase(j) == IF job[j].existing THEN "upload" ELSE "snapshot"

\* The hosts are the keys of the token map that one session returns.
ReadHosts(j) ==
    /\ job[j].pc = "connect"
    /\ TokenmapOf(job[j].dc) # {}
    /\ job' = [job EXCEPT ![j].hosts = TokenmapOf(job[j].dc),
                          ![j].pc = FirstPhase(j)]
    /\ UNCHANGED <<ring, nodeVars, clear, purge, faults, moves>>

\* No session: the exception finds no hosts to clean.
ReadHostsFails(j) ==
    /\ job[j].pc = "connect"
    /\ FaultUnless(TokenmapOf(job[j].dc) = {})
    /\ job' = [job EXCEPT ![j].pc = "failed"]
    /\ UNCHANGED <<ring, nodeVars, clear, purge, moves>>

\* An exception in a phase leads to the cleanup, one in the cleanup ends the run.
RaiseTo(pc) == IF pc = "cleanup" THEN "failed" ELSE "cleanup"

LaunchedCommand == [snapshot |-> "snapshot", upload |-> "backup"]

\* run_command on the hosts of the next batch.
Launch(j, reached) ==
    IF job[j].pc = "cleanup"
    THEN /\ clear' = [clear EXCEPT ![j] =
                         [h \in Hosts |-> IF h \in reached THEN "clear" ELSE clear[j][h]]]
         /\ UNCHANGED cmd
    ELSE /\ cmd' = [cmd EXCEPT ![j] =
                       [h \in Hosts |-> IF h \in reached
                                        THEN LaunchedCommand[job[j].pc] ELSE cmd[j][h]]]
         /\ UNCHANGED clear

RunBatch(j) ==
    /\ job[j].pc \in Phases
    /\ ~job[j].wait
    /\ Launch(j, Batch(j))
    /\ job' = [job EXCEPT ![j].wait = TRUE]
    /\ UNCHANGED <<ring, snap, handmade, backup, index, using, purge, faults, moves>>

\* After the phase, what matters of the lost hosts is that a backup-node may still be
\* at work on one.
BrokenBy(j, lost) == job[j].broken \/ (job[j].pc = "upload" /\ lost # {})

\* A host of the batch cannot be reached: pssh raises, the commands it has
\* started on the other hosts go on.
RunBatchRaises(j) ==
    /\ job[j].pc \in Phases
    /\ ~job[j].wait
    /\ Fault
    /\ \E lost \in SUBSET Batch(j) :
           /\ lost # {}
           /\ Launch(j, Batch(j) \ lost)
    /\ job' = [job EXCEPT ![j].pc = RaiseTo(@), ![j].next = 0,
                          ![j].lost = {}, ![j].broken = BrokenBy(j, job[j].lost)]
    /\ UNCHANGED <<ring, snap, handmade, backup, index, using, purge, moves>>

Status(j, h) == IF job[j].pc = "cleanup" THEN clear[j][h] ELSE cmd[j][h]

\* The connection to a host of the batch breaks and its output ends without an exit
\* code.  What runs on the host goes on, but the run will not hear how it ends.
LoseHost(j, h) ==
    /\ job[j].pc \in Phases
    /\ job[j].wait
    /\ h \in Batch(j) \ job[j].lost
    /\ Fault
    /\ job' = [job EXCEPT ![j].lost = @ \union {h}]
    /\ UNCHANGED <<ring, nodeVars, clear, purge, moves>>

\* Mutant of BatchEnded: join waits for a command that has failed.
BatchEndedWell(j) ==
    \A h \in Batch(j) \ job[j].lost : Status(j, h) = "ok"

\* join returns when every command of the batch has ended, as far as it can see.
BatchEnded(j) ==
    \A h \in Batch(j) \ job[j].lost : Status(j, h) \in {"ok", "error", "unclean"}

\* Mutant of AllSucceeded: only the last batch is counted.
LastBatchSucceeded(j) ==
    \A h \in Batch(j) : Status(j, h) = "ok"

\* As many hosts ended with exit code 0 as there are hosts; a lost host has none.
AllSucceeded(j) == \A h \in job[j].hosts : h \notin job[j].lost /\ Status(j, h) = "ok"

\* Mutant of NextPhase: the end is reported under another name.
NextPhaseRenamed == [snapshot |-> "upload", upload |-> "finished"]

NextPhase == [snapshot |-> "upload", upload |-> "done"]

\* Later batches run even when a host has failed; only after the last one the
\* result is counted.
JoinBatch(j) ==
    LET last == job[j].next + Pool(job[j].pc) >= Cardinality(job[j].hosts)
    IN  /\ job[j].pc \in Phases
        /\ job[j].wait
        /\ BatchEnded(j)
        /\ job' = [job EXCEPT
                     ![j].wait = FALSE,
                     ![j].next = IF last THEN 0 ELSE @ + Pool(job[j].pc),
                     ![j].lost = IF last THEN {} ELSE @,
                     ![j].broken = IF last THEN BrokenBy(j, job[j].lost) ELSE @,
                     ![j].pc = IF ~last THEN @
                               ELSE IF @ = "cleanup" THEN "failed"
                               ELSE IF AllSucceeded(j) THEN NextPhase[@] ELSE "cleanup"]
        /\ UNCHANGED <<ring, nodeVars, clear, purge, faults, moves>>

\* join raises what its wait for one host raises, a broken connection for example,
\* and gives up the whole batch: the run goes on to its cleanup, or ends, while the
\* commands run on.
JoinRaises(j) ==
    /\ job[j].pc \in Phases
    /\ job[j].wait
    /\ Batch(j) # {}
    /\ Fault
    /\ job' = [job EXCEPT ![j].pc = RaiseTo(@), ![j].next = 0, ![j].wait = FALSE,
                          ![j].lost = {}, ![j].broken = BrokenBy(j, Batch(j))]
    /\ UNCHANGED <<ring, nodeVars, clear, purge, moves>>

\* The machine of the operator fails; what runs on the hosts goes on.
Kill(j) ==
    /\ Active(j)
    /\ Fault
    /\ job' = [job EXCEPT ![j].pc = "killed", ![j].wait = FALSE, ![j].lost = {}]
    /\ UNCHANGED <<ring, nodeVars, clear, purge, moves>>

(***************************************************************************)
(* The commands on a host.                                                 *)
(***************************************************************************)
SetCmd(j, h, state) == cmd' = [cmd EXCEPT ![j][h] = state]

\* Mutant of NodetoolSnapshot: a snapshot under the tag is good enough.
NodetoolSnapshotReuses(j, h) ==
    /\ cmd[j][h] = "snapshot"
    /\ snap' = [snap EXCEPT ![h] = IF @ = NoSnapshot THEN <<j, "cut">> ELSE @]
    /\ SetCmd(j, h, "ok")
    /\ UNCHANGED <<ring, handmade, backup, index, job, using, clear, purge, faults, moves>>

\* nodetool snapshot -t medusa-<name> fails when the tag is taken.
NodetoolSnapshot(j, h) ==
    /\ cmd[j][h] = "snapshot"
    /\ \/ /\ snap[h] = NoSnapshot
          /\ snap' = [snap EXCEPT ![h] = <<j, "cut">>]
          /\ SetCmd(j, h, "ok")
          /\ UNCHANGED faults
       \/ /\ FaultUnless(snap[h] # NoSnapshot)
          /\ SetCmd(j, h, "error")
          /\ UNCHANGED snap
    /\ UNCHANGED <<ring, handmade, backup, index, job, using, clear, purge, moves>>

\* nodetool clearsnapshot -t medusa-<name>, of the cleanup.
NodetoolClear(j, h) ==
    /\ clear[j][h] = "clear"
    /\ \/ /\ snap' = [snap EXCEPT ![h] = NoSnapshot]
          /\ clear' = [clear EXCEPT ![j][h] = "ok"]
          /\ UNCHANGED faults
       \/ /\ Fault
          /\ clear' = [clear EXCEPT ![j][h] = "error"]
          /\ UNCHANGED snap
    /\ UNCHANGED <<ring, handmade, backup, index, job, cmd, using, purge, moves>>

\* A name the node has a backup of is refused.  The marker file of another
\* backup-node stops nobody: a new MedusaTempFile has no handle and never exists.
NodeRefused(j, h) ==
    \/ backup[h].state # "none" /\ ~job[j].existing
    \/ job[j].existing /\ ~handmade[h]

\* backup-node ends with an error before it has written anything.
NodeFailsEarly(j, h) ==
    /\ cmd[j][h] = "backup"
    /\ FaultUnless(NodeRefused(j, h))
    /\ SetCmd(j, h, "error")
    /\ UNCHANGED <<ring, snap, handmade, backup, index, job, using, clear, purge, moves>>

\* The index without the entry of a host, which has one at most.
IndexWithout(h) ==
    IF h \in Range(index)
    THEN RemoveAt(index, CHOOSE k \in DOMAIN index : index[k] = h) ELSE index

\* Token map, schema and start entry: the node is in the index from here on.
NodeStart(j, h) ==
    /\ cmd[j][h] = "backup"
    /\ ~NodeRefused(j, h)
    /\ backup' = [backup EXCEPT ![h] =
                     [state |-> "started",
                      tokenmap |-> TokenmapOf(DataCentre[h]),
                      content |-> <<j, "none">>]]
    /\ index' = Append(IndexWithout(h), h)
    /\ SetCmd(j, h, "started")
    /\ UNCHANGED <<ring, snap, handmade, job, using, clear, purge, faults, moves>>

\* backup-node ends between its first blobs and its entry in the index.
NodeStartFails(j, h) ==
    /\ cmd[j][h] = "backup"
    /\ ~NodeRefused(j, h)
    /\ Fault
    /\ backup' = [backup EXCEPT ![h] =
                     [state |-> "started",
                      tokenmap |-> TokenmapOf(DataCentre[h]),
                      content |-> <<j, "none">>]]
    /\ SetCmd(j, h, "error")
    /\ UNCHANGED <<ring, snap, handmade, index, job, using, clear, purge, moves>>

\* create_snapshot takes the snapshot that is there, or makes one now.
NodeSnapshot(j, h) ==
    /\ cmd[j][h] = "started"
    /\ \/ /\ ~job[j].existing
          /\ snap' = [snap EXCEPT ![h] = IF @ = NoSnapshot THEN <<j, "late">> ELSE @]
          /\ using' = [using EXCEPT ![j][h] = snap'[h]]
          /\ SetCmd(j, h, "uploading")
          /\ UNCHANGED faults
       \/ /\ job[j].existing /\ handmade[h]
          /\ SetCmd(j, h, "uploading")
          /\ UNCHANGED <<snap, using, faults>>
       \/ /\ FaultUnless(job[j].existing /\ ~handmade[h])
          /\ SetCmd(j, h, "error")
          /\ UNCHANGED <<snap, using>>
    /\ UNCHANGED <<ring, handmade, backup, index, job, clear, purge, moves>>

\* Is the snapshot that backup-node took up still the one under its tag?
SnapshotIntact(j, h) == job[j].existing \/ snap[h] = using[j][h]

\* The data of the upload.  When the snapshot directories vanish before they are
\* listed, the upload ends well with what it has found.
Uploaded(j, h) ==
    IF job[j].existing THEN <<j, "operator">>
    ELSE IF SnapshotIntact(j, h) THEN using[j][h] ELSE <<j, "gaps">>

\* Mutant of LeaveSnapshot: the snapshot is left to the orchestrator.
LeaveSnapshotThere(j, h) == UNCHANGED <<snap, handmade>>

\* The end of the "with snapshot" block, after the upload or on its failure.
LeaveSnapshot(j, h) ==
    IF job[j].keep THEN UNCHANGED <<snap, handmade>>
    ELSE IF job[j].existing
    THEN handmade' = [handmade EXCEPT ![h] = FALSE] /\ UNCHANGED snap
    ELSE snap' = [snap EXCEPT ![h] = NoSnapshot] /\ UNCHANGED handmade

NodeUpload(j, h) ==
    /\ cmd[j][h] = "uploading"
    /\ backup' = [backup EXCEPT ![h].content =
                     IF backup[h].state = "none" THEN @ ELSE Uploaded(j, h)]
    /\ LeaveSnapshot(j, h)
    /\ SetCmd(j, h, "closing")
    /\ UNCHANGED <<ring, index, job, using, clear, purge, faults, moves>>

\* The upload fails: for a reason of its own, or because a file of the snapshot
\* is gone.  Deleting the snapshot on the way out may fail as well.
NodeUploadFails(j, h) ==
    /\ cmd[j][h] = "uploading"
    /\ FaultUnless(~SnapshotIntact(j, h))
    /\ \/ LeaveSnapshot(j, h) /\ SetCmd(j, h, "error")
       \/ SetCmd(j, h, "unclean") /\ UNCHANGED <<snap, handmade>>
    /\ UNCHANGED <<ring, backup, index, job, using, clear, purge, moves>>

\* Manifest and finish entry.  Without the token map in the index (a purge has
\* removed the entry meanwhile) the backup stays invisible.
NodeFinish(j, h) ==
    /\ cmd[j][h] = "closing"
    /\ \/ /\ backup' = [backup EXCEPT ![h].state = IF @ = "none" THEN @ ELSE "finished"]
          /\ SetCmd(j, h, "ok")
          /\ UNCHANGED faults
       \/ /\ Fault
          /\ SetCmd(j, h, "error")
          /\ UNCHANGED backup
    /\ UNCHANGED <<ring, snap, handmade, index, job, using, clear, purge, moves>>

(***************************************************************************)
(* The ring, delete-backup and purge-decommissioned.                       *)
(***************************************************************************)
Join(h) ==
    /\ moves < MaxMoves
    /\ h \notin ring
    /\ ring' = ring \union {h}
    /\ moves' = moves + 1
    /\ UNCHANGED <<nodeVars, job, clear, purge, faults>>

Leave(h) ==
    /\ moves < MaxMoves
    /\ h \in ring
    /\ ring # {h}
    /\ ring' = ring \ {h}
    /\ purge' = [purge EXCEPT !.absent =
                    IF purge.pc \in {"listed", "purging"} THEN @ \union {h} ELSE @]
    /\ moves' = moves + 1
    /\ UNCHANGED <<nodeVars, job, clear, faults>>

\* delete-backup --all-nodes of the name, once no run of it is at work: of the nodes
\* the index lists.
DeleteBackup ==
    /\ index # <<>>
    /\ \A j \in Jobs : ~Active(j) /\ ~Alive(j)
    /\ backup' = [h \in Hosts |-> IF h \in Range(index) THEN NoBackup ELSE backup[h]]
    /\ index' = <<>>
    /\ UNCHANGED <<ring, snap, handmade, job, cmd, using, clear, purge, faults, moves>>

\* purge-decommissioned first lists the nodes that have blobs ...
PurgeList ==
    /\ purge.pc = "idle"
    /\ \E dc \in DataCentres :
           purge' = [NoPurge EXCEPT !.pc = "listed", !.dc = dc,
                                    !.all = {h \in Hosts : backup[h].state # "none"},
                                    !.absent = Hosts \ ring]
    /\ UNCHANGED <<ring, nodeVars, job, clear, faults, moves>>

\* Mutant of LiveNodes: only the contact point is taken for live.
ContactPoint(dc) == {h \in TokenmapOf(dc) : Place(TokenmapOf(dc), h) = 1}

\* get_live_nodes: the keys of the token map.
LiveNodes(dc) == TokenmapOf(dc)

\* ... then asks Cassandra which nodes are live ...
PurgeLive ==
    /\ purge.pc = "listed"
    /\ purge' = [purge EXCEPT !.pc = IF purge.all \subseteq LiveNodes(purge.dc)
                                     THEN "failed" ELSE "purging",
                              !.all = {},
                              !.gone = purge.all \ LiveNodes(purge.dc)]
    /\ UNCHANGED <<ring, nodeVars, job, clear, faults, moves>>

\* ... and purges every backup of each of the others.
PurgeNode(h) ==
    /\ purge.pc = "purging"
    /\ h \in purge.gone
    /\ backup' = [backup EXCEPT ![h] = NoBackup]
    /\ index' = IndexWithout(h)
    /\ purge' = [purge EXCEPT !.gone = @ \ {h},
                              !.pc = IF purge.gone = {h} THEN "done" ELSE @]
    /\ UNCHANGED <<ring, snap, handmade, job, cmd, using, clear, faults, moves>>

JobStep(j) ==
    \/ ReadHosts(j) \/ ReadHostsFails(j)
    \/ RunBatch(j) \/ RunBatchRaises(j) \/ JoinBatch(j)

HostStep(j, h) ==
    \/ NodetoolSnapshot(j, h) \/ NodetoolClear(j, h)
    \/ NodeFailsEarly(j, h) \/ NodeStart(j, h) \/ NodeStartFails(j, h)
    \/ NodeSnapshot(j, h)
    \/ NodeUpload(j, h) \/ NodeUploadFails(j, h) \/ NodeFinish(j, h)

Next ==
    \/ \E j \in Jobs : Begin(j) \/ JobStep(j) \/ JoinRaises(j) \/ Kill(j)
    \/ \E j \in Jobs, h \in Hosts : HostStep(j, h) \/ LoseHost(j, h)
    \/ \E h \in Hosts : Join(h) \/ Leave(h) \/ PurgeNode(h)
    \/ DeleteBackup \/ PurgeList \/ PurgeLive

Spec == Init /\ [][Next]_vars

(***************************************************************************)
(* A run that has begun goes on.  Nothing forces the operator, the ring, a *)
(* fault, or what runs on the hosts: a command may hang, and a connection  *)
(* may die without a sign.                                                 *)
(***************************************************************************)
FairSpec == Spec /\ \A j \in Jobs : WF_vars(JobStep(j))

(***************************************************************************)
(* Properties.                                                             *)
(***************************************************************************)
SnapshotValues == {NoSnapshot} \union Snapshots
Backups == [state : {"none", "started", "finished"}, tokenmap : SUBSET Hosts,
            content : Contents]
Runs == [pc : Phases \union JobEnds \union {"idle", "connect"},
         hosts : SUBSET Hosts, next : Nat, wait : BOOLEAN,
         lost : SUBSET Hosts, broken : BOOLEAN,
         dc : DataCentres, keep : BOOLEAN, existing : BOOLEAN]
Purges == [pc : {"idle", "listed", "purging", "done", "failed"},
           all : SUBSET Hosts, gone : SUBSET Hosts, absent : SUBSET Hosts, dc : DataCentres]

\* Type invariant of the cluster backup.
TypeOK ==
    /\ ring \in SUBSET Hosts
    /\ snap \in [Hosts -> SnapshotValues]
    /\ handmade \in [Hosts -> BOOLEAN]
    /\ backup \in [Hosts -> Backups]
    /\ index \in Seq(Hosts)
    /\ job \in [Jobs -> Runs]
    /\ cmd \in [Jobs -> [Hosts -> CommandStates]]
    /\ using \in [Jobs -> [Hosts -> SnapshotValues]]
    /\ clear \in [Jobs -> [Hosts -> ClearStates]]
    /\ purge \in Purges
    /\ faults \in 0 .. MaxFaults
    /\ moves \in 0 .. MaxMoves

BecomesDone(j) == job[j].pc # "done" /\ job'[j].pc = "done"

\* When backup-cluster says "Backup of the cluster done", every host it read from
\* the token map has finished its backup, however its commands were batched and
\* whatever earlier runs have left; and if the nodes saw the ring it read, the
\* storage calls the cluster backup complete.  Nodes a purge saw leave are excepted.
DoneIsComplete ==
    [][\A j \in Jobs : BecomesDone(j) =>
          LET hosts == job[j].hosts IN
          /\ \A h \in hosts \ purge.absent : backup[h].state = "finished"
          /\ ClusterTokenmap = hosts /\ hosts \intersect purge.absent = {} => is_complete]_vars

\* "Take snapshot everywhere, then upload": what a successful run has uploaded
\* comes from the snapshots of its own snapshot phase, none of which is newer than
\* the first upload, and not from one backup-node had to replace or found emptied.
CutBeforeUpload ==
    [][\A j \in Jobs : BecomesDone(j) /\ ~job[j].existing =>
          \A h \in job[j].hosts \ purge.absent : backup[h].content = <<j, "cut">>]_vars

\* The same for whatever the storage calls complete, also when the run was killed
\* before it could report: as long as no node joins or leaves, a complete cluster
\* backup is the work of one run and is one cut (or consists of the operator's own
\* snapshots), unless that run has lost the connection to a host in its uploads.
CompleteIsOneCut ==
    is_complete /\ moves = 0 =>
        \E j \in Jobs : \/ \A h \in Range(index) : backup[h].content = <<j, "cut">>
                        \/ \A h \in Range(index) : backup[h].content = <<j, "operator">>
                        \/ job[j].broken /\ \A h \in Range(index) : backup[h].content[1] = j

\* A run that fails once its uploads have begun leaves no snapshot of its own where
\* its clearsnapshot went through: also not on hosts whose turn had not come, and on
\* hosts whose backup-node was still running when the cleanup started.
CleanedUp ==
    \A j \in Jobs :
        /\ job[j].pc = "failed" /\ ~Alive(j) /\ ~job[j].keep
        /\ \E g \in Hosts : using[j][g] # NoSnapshot
        => \A h \in job[j].hosts :
               clear[j][h] = "ok" /\ cmd[j][h] # "unclean" =>
                   snap[h] = NoSnapshot \/ snap[h][1] # j

\* purge-decommissioned removes the backups of a node only if the node has been
\* out of the ring at some moment since the command began.  This is a property of
\* clusters of one data centre: the token map of a session shows no other.
OnlyGonePurged ==
    [][\A h \in Hosts : purge' # purge /\ backup[h].state # "none" /\ backup'[h].state = "none"
          => h \in purge.absent]_vars

\* join waits for a command that has not ended on its host.
Waits(j) ==
    /\ job[j].pc \in Phases /\ job[j].wait
    /\ \E h \in Batch(j) \ job[j].lost : Status(j, h) \in Running \union {"clear"}

\* pssh_run has no timeout: a command that hangs holds the run for good.  Nothing
\* else does: a run whose commands all end, well or not, or are lost, comes to an
\* end itself, through its failed batches and its cleanup.
JobsEnd == \A j \in Jobs : []<>~Waits(j) => <>[]~Active(j)

-----------------------------------------------------------------------------
(***************************************************************************)
(* The inductive invariants behind them.  Those of the first group hold of *)
(* any runs, the others of runs that do not overlap.                       *)
(***************************************************************************)
\* The hosts on which the phase has run its command, and those where it has ended.
Launched(j) ==
    {h \in job[j].hosts :
        Place(job[j].hosts, h) <= job[j].next + IF job[j].wait THEN Pool(job[j].pc) ELSE 0}
Joined(j) == {h \in job[j].hosts : Place(job[j].hosts, h) <= job[j].next}

NothingCleared(j) == \A h \in Hosts : clear[j][h] = "none"
Uploading == {"backup", "started", "uploading", "closing", "unclean"}
UploadsBegun(j) == \E g \in Hosts : cmd[j][g] \in Uploading \/ using[j][g] # NoSnapshot

\* The index lists nodes that have a backup, each once; not one whose backup-node
\* ended before its entry.
IndexFollows ==
    /\ IsInjective(index)
    /\ Range(index) \subseteq {h \in Hosts : backup[h].state # "none"}

\* What the commands of a run may be in its phases: none before there are hosts, then
\* snapshots, then backups in place of snapshots that went well.
RunFits(j) ==
    /\ \A h \in Hosts \ job[j].hosts : cmd[j][h] = "none" /\ clear[j][h] = "none"
    /\ job[j].pc \in {"idle", "connect"} =>
           job[j].hosts = {} /\ job[j].next = 0 /\ ~job[j].wait /\ ~UploadsBegun(j)
    /\ job[j].pc \in Phases => job[j].hosts # {}
    /\ job[j].pc \in {"snapshot", "upload", "done"} => NothingCleared(j)
    /\ job[j].pc = "snapshot" =>
           /\ ~job[j].existing /\ ~UploadsBegun(j)
           /\ \A h \in job[j].hosts \ Launched(j) : cmd[j][h] = "none"
    /\ job[j].pc = "upload" =>
           /\ \A h \in job[j].hosts \ Launched(j) :
                  cmd[j][h] = IF job[j].existing THEN "none" ELSE "ok"
           /\ \A h \in Hosts : cmd[j][h] # "snapshot"
    /\ job[j].pc \in {"snapshot", "upload"} =>
           \A h \in Joined(j) \ job[j].lost : cmd[j][h] \notin Running
    /\ UploadsBegun(j) => \A h \in Hosts : cmd[j][h] # "snapshot"
    /\ \A h \in Hosts : IF job[j].existing THEN using[j][h] = NoSnapshot
                        ELSE cmd[j][h] = "uploading" => using[j][h] # NoSnapshot

\* A snapshot that is there after its clearsnapshot is one that backup-node has made.
Cleared(j) ==
    UploadsBegun(j) /\ ~job[j].keep /\ ~job[j].existing =>
        \A h \in Hosts :
            clear[j][h] = "ok" /\ snap[h] # NoSnapshot /\ snap[h][1] = j =>
                cmd[j][h] \in {"uploading", "unclean"}

SingleCentre == \A g, h \in Hosts : DataCentre[g] = DataCentre[h]

\* A purge knows of every node that is not in the ring.
PurgeFits ==
    /\ purge.pc = "idle" => purge.absent = {}
    /\ purge.pc \in {"listed", "purging"} => Hosts \ ring \subseteq purge.absent
    /\ purge.pc = "purging" /\ SingleCentre => purge.gone \subseteq purge.absent

ClusterInvariant ==
    /\ TypeOK
    /\ IndexFollows
    /\ PurgeFits
    /\ \A j \in Jobs : RunFits(j) /\ Cleared(j)

Busy(j) == Active(j) \/ Alive(j)

\* The node backups that are in the index for run j.
Entered(j) == {h \in Range(index) : backup[h].content[1] = j}

\* The index has entries of one run only; a run that is at work has met no others.
IndexOfOneRun ==
    /\ \E j \in Jobs : Range(index) = Entered(j)
    /\ \A j \in Jobs : Busy(j) => Range(index) = Entered(j)
    /\ \A j \in Jobs : job[j].pc \in {"connect", "snapshot"} => index = <<>>

\* The entries of a run are of hosts whose backup-node has started, and they end as
\* finished only when backup-node ends well.
EntriesFit(j) ==
    \A h \in Entered(j) :
        /\ h \in job[j].hosts
        /\ cmd[j][h] \notin {"none", "snapshot", "backup"}
        /\ job[j].pc = "upload" => h \in Launched(j)
        /\ backup[h].state = "finished" => cmd[j][h] = "ok"

\* Until a run clears snapshots, the snapshots of its first phase are there for upload.
SnapshotsHeld(j) ==
    Busy(j) /\ NothingCleared(j) /\ ~job[j].existing =>
        \A h \in job[j].hosts :
            \/ cmd[j][h] \in {"backup", "started", "uploading"}
            \/ /\ cmd[j][h] = "ok" /\ job[j].pc \in {"snapshot", "upload"}
               /\ job[j].pc = "upload" => h \notin Launched(j)
            => /\ snap[h] = <<j, "cut">>
               /\ cmd[j][h] = "uploading" => using[j][h] = <<j, "cut">>

\* From the upload phase on, a run meets no snapshots but its own.
SnapshotsOwned(j) ==
    ~job[j].existing =>
        /\ \A h \in Hosts : using[j][h] # NoSnapshot => using[j][h][1] = j
        /\ Busy(j) /\ (job[j].pc = "upload" \/ UploadsBegun(j)) =>
               \A h \in job[j].hosts : snap[h] # NoSnapshot => snap[h][1] = j

\* What such a run has uploaded is the cut, or the snapshots of the operator.
ContentsCut(j) ==
    NothingCleared(j) =>
        \A h \in Entered(j) : cmd[j][h] \in {"closing", "ok"} =>
            backup[h].content = <<j, IF job[j].existing THEN "operator" ELSE "cut">>

\* A run that comes to its cleanup with no backup-node lost lacks the backup of a
\* host for good.
Spoiled(j) ==
    ~job[j].broken /\ (job[j].pc = "cleanup" \/ ~NothingCleared(j)) =>
        \E h \in job[j].hosts : /\ cmd[j][h] \notin Running \ {"snapshot"}
                                /\ h \in Entered(j) => backup[h].state # "finished"

\* As long as the ring is what it was, all have read the same token map.
SameRing ==
    moves = 0 =>
        /\ ring = InitialRing
        /\ \A j \in Jobs : job[j].hosts \subseteq {h \in ring : DataCentre[h] = job[j].dc}
        /\ \A j \in Jobs : job[j].hosts # {} =>
               job[j].hosts = {h \in ring : DataCentre[h] = job[j].dc}
        /\ \A h \in Range(index) : backup[h].tokenmap = {g \in ring : DataCentre[g] = DataCentre[h]}

CutInvariant ==
    /\ \A i, j \in Jobs : Busy(i) /\ Busy(j) => i = j
    /\ IndexOfOneRun
    /\ \A j \in Jobs : EntriesFit(j) /\ SnapshotsHeld(j) /\ SnapshotsOwned(j)
    /\ \A j \in Jobs : ContentsCut(j) /\ Spoiled(j)
    /\ SameRing

\* A backup that a run has made is there, unless a purge has seen its node leave.
BackupsThere ==
    \A j \in Jobs : Busy(j) =>
        \A h \in job[j].hosts \ purge.absent :
            /\ cmd[j][h] \in {"started", "uploading", "closing"} => h \in Entered(j)
            /\ job[j].pc = "upload" /\ h \in Launched(j) /\ cmd[j][h] = "ok" =>
                   h \in Entered(j) /\ backup[h].state = "finished"

\* The inductive invariant of the cluster backup for runs of one data centre that do
\* not overlap: what the commands of a run may be in its phases, which snapshots and
\* index entries are its own, and what of its uploads is in the storage.
SerialInvariant == ClusterInvariant /\ CutInvariant /\ BackupsThere
=============================================================================
