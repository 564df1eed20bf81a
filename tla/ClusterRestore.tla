--------------------------- MODULE ClusterRestore ---------------------------
(***************************************************************************)
(* The restore of Medusa.  restore-cluster maps the nodes of the backup to *)
(* the nodes of a target cluster, stops the targets and runs restore-node  *)
(* on all of them over ssh (orchestration.pssh_run); when the nodes of the *)
(* two rings cannot be paired it recreates the schema and has each target  *)
(* load the backups of its sources with sstableloader.  In Kubernetes the  *)
(* gRPC service only computes the mapping, and an init container of each   *)
(* pod runs restore-node.                                                  *)
(*                                                                         *)
(* A behaviour is about one request (the variable sc), given again after   *)
(* it failed.  Cassandra is up or down on a host, or runs there although   *)
(* restore-node took it for down; its data directory has one entry per     *)
(* section of the manifest.                                                *)
(***************************************************************************)
EXTENDS RingMapping

CONSTANTS
    Nodes,             \* the hosts of all clusters
    Sections,          \* the sections of a manifest, in its order
    PeersTables,       \* the table names that start with "peers"
    Scenarios,         \* the requests, and the backups and rings they meet
    Confirmed,         \* the requests the operator goes through with
    ParallelRestores,  \* --parallel-restores
    MaxRuns,           \* bound: how often the request is given
    MaxFaults          \* bound: failed commands and checks, unreachable hosts, crashes

ASSUME SectionsAssumption == Sections \in Seq([ks : STRING, cf : STRING])
ASSUME NodesAssumption == Nodes \intersect {"old", "gone", "new", "mixed"} = {}
ASSUME ParallelAssumption == ParallelRestores \in Nat \ {0}
ASSUME BoundsAssumption == MaxRuns \in Nat /\ MaxFaults \in Nat

VARIABLES
    sc,       \* the request
    job,      \* the run of restore-cluster, or the prepared restore of the pods
    proc,     \* per host: the command that runs there
    cass,     \* per host: is Cassandra "up", "down", or "unseen" (it runs, but a
              \* health check that failed took it for down)?
    data,     \* per host and section: where its files come from
    log,      \* per host: the commit log, "old" until the restore removes it
    yaml,     \* per host: whose tokens cassandra.yaml gives
    owns,     \* per host: whose tokens Cassandra took when it last started
    rows,     \* per section: what the tables of the whole cluster hold (sstableloader)
    keyed,    \* per pod: is the restore key in .last-restore?
    runs,     \* runs so far
    faults    \* faults so far

diskVars == <<data, log, yaml>>
nodeVars == <<proc, cass, diskVars, owns, rows, keyed>>
vars == <<sc, job, nodeVars, runs, faults>>

Indices == DOMAIN Sections
Local == CHOOSE i \in Indices : Sections[i] = [ks |-> "system", cf |-> "local"]

\* A snapshot of a node has the table that holds the tokens of the node.
ASSUME LocalAssumption == \E i \in Indices : Sections[i] = [ks |-> "system", cf |-> "local"]

\* A ring has nodes, and its nodes have names of their own and tokens.
Rings ==
    {ring \in Seq([host : Nodes, rack : Int, tokens : Seq(Int)]) :
        /\ ring # <<>>
        /\ \A i \in DOMAIN ring : ring[i].tokens # <<>>
        /\ \A i, j \in DOMAIN ring : i # j => ring[i].host # ring[j].host}

\* A request: the host list or the two rings, the options, what is stored of the
\* nodes it names, and the tables of --keyspace and --table.
Requests ==
    {r \in [mode : {"seed", "list", "pods"}, backup : Rings, target : Rings,
            lines : Seq([seed : BOOLEAN, target : Nodes, source : Nodes]),
            ignore_racks : BOOLEAN, loader : BOOLEAN, keep_auth : BOOLEAN, verify : BOOLEAN,
            seeds : SUBSET Nodes,
            stored : UNION {[hosts -> {"full", "empty", "missing"}] : hosts \in SUBSET Nodes},
            only : SUBSET {Sections[i] : i \in Indices}] :
        /\ Hosts(r.backup) \subseteq DOMAIN r.stored
        /\ \A k \in DOMAIN r.lines : r.lines[k].source \in DOMAIN r.stored}

ASSUME ScenariosAssumption == Scenarios \subseteq Requests
FileOrigins == {"old", "gone", "new", "mixed"} \union Nodes

JobEnds == {"done", "failed", "cancelled", "killed"}
Phases == {"stop", "restore"}
NodeSteps == {"lookup", "download", "shutdown", "waitdown", "clean", "move", "seeds", "start"}
Running == NodeSteps \union {"stop", "load"}

NoJob == [pc |-> "idle", map |-> <<>>, seeds |-> {}, inPlace |-> FALSE, keep |-> FALSE,
          loader |-> FALSE, next |-> 1, wait |-> FALSE]
NoProc == [pc |-> "none", i |-> 1, src |-> {}, seeds |-> {}]

Init ==
    /\ sc \in Scenarios
    /\ job = NoJob
    /\ proc = [t \in Nodes |-> NoProc]
    /\ cass = [t \in Nodes |-> "up"]
    /\ data = [t \in Nodes |-> [i \in Indices |-> "old"]]
    /\ log = [t \in Nodes |-> "old"]
    /\ yaml = [t \in Nodes |-> t]
    /\ owns = [t \in Nodes |-> t]
    /\ rows = [i \in Indices |-> {"old"}]
    /\ keyed = [t \in Nodes |-> FALSE]
    /\ runs = 0
    /\ faults = 0

Targets(map) == {map[k].target : k \in DOMAIN map}
Sources(map, t) == UNION {map[k].sources : k \in {m \in DOMAIN map : map[m].target = t}}
TargetHosts == Targets(job.map)
Alive == \E t \in Nodes : proc[t].pc \in Running
Stored(s) == IF s \in DOMAIN sc.stored THEN sc.stored[s] ELSE "missing"

Fault == faults < MaxFaults /\ faults' = faults + 1

\* A step that fails when the condition holds, and by a fault otherwise.
FaultUnless(condition) ==
    /\ condition \/ faults < MaxFaults
    /\ faults' = IF condition THEN faults ELSE faults + 1

(***************************************************************************)
(* Preparation: restore_cluster.orchestrate, RestoreJob.prepare_restore.   *)
(***************************************************************************)
\* The operator gives the request, a second time only when nothing of the
\* first is left running.
Begin ==
    /\ \/ job.pc = "idle"
       \/ job.pc \in {"failed", "killed"} /\ ~Alive
    /\ runs < MaxRuns
    /\ runs' = runs + 1
    /\ job' = [NoJob EXCEPT !.pc = "prepare"]
    /\ proc' = [t \in Nodes |-> NoProc]
    /\ UNCHANGED <<sc, cass, diskVars, owns, rows, keyed, faults>>

AllTargetsUp == \A t \in Hosts(sc.target) : cass[t] # "down"

\* The mapping comes from the two rings, of which the session to the seed target
\* gives one; the operator is asked whether to keep system_auth.  The seeds are
\* those of cassandra.yaml.  The backup need not be complete: the check is made
\* only when the string kubernetes.enabled is empty, which it never is.
PrepareRing ==
    /\ job.pc = "prepare"
    /\ sc.mode \in {"seed", "pods"}
    /\ AllTargetsUp
    /\ \E map \in populate_ringmap(sc.backup, sc.target, sc.ignore_racks), answer \in BOOLEAN :
           LET inPlace == is_restore_in_place(sc.backup, sc.target)
               forced == needs_loader(sc.backup, sc.target, sc.ignore_racks)
           IN  job' = [job EXCEPT
                         !.pc = IF sc.mode = "pods" THEN "pods" ELSE "confirm",
                         !.map = map,
                         !.seeds = IF forced THEN {} ELSE sc.seeds \intersect Hosts(sc.target),
                         !.inPlace = inPlace,
                         !.keep = ~inPlace /\ (sc.keep_auth \/ answer),
                         !.loader = sc.loader \/ forced]
    /\ UNCHANGED <<sc, nodeVars, runs, faults>>

\* A line of the host list replaces an earlier one of the same target, in its place.
HostMap(lines) ==
    LET last(t) == CHOOSE k \in DOMAIN lines :
                       /\ lines[k].target = t
                       /\ \A m \in DOMAIN lines : m > k => lines[m].target # t
        firsts == {k \in DOMAIN lines :
                      \A m \in DOMAIN lines : m < k => lines[m].target # lines[k].target}
    IN  [n \in 1 .. Cardinality(firsts) |->
            lines[last(lines[Nth(firsts, [k \in firsts |-> k], n)].target)]]

\* With a host list nobody asks the target cluster.
PrepareList ==
    LET map == HostMap(sc.lines)
    IN  /\ job.pc = "prepare"
        /\ sc.mode = "list"
        /\ job' = [job EXCEPT
                     !.pc = "confirm",
                     !.map = [k \in DOMAIN map |->
                                 [target |-> map[k].target, sources |-> {map[k].source}]],
                     !.seeds = {map[k].target : k \in {m \in DOMAIN map : map[m].seed}},
                     !.keep = sc.keep_auth,
                     !.loader = sc.loader]
        /\ UNCHANGED <<sc, nodeVars, runs, faults>>

\* A target is not up, or the session or the storage fails.
PrepareFails ==
    /\ job.pc = "prepare"
    /\ FaultUnless(sc.mode # "list" /\ ~AllTargetsUp)
    /\ job' = [job EXCEPT !.pc = "failed"]
    /\ UNCHANGED <<sc, nodeVars, runs>>

Confirm ==
    /\ job.pc = "confirm"
    /\ sc \in Confirmed
    /\ job' = [job EXCEPT !.pc = IF job.loader THEN "schema" ELSE "stop"]
    /\ UNCHANGED <<sc, nodeVars, runs, faults>>

Cancel ==
    /\ job.pc = "confirm"
    /\ job' = [job EXCEPT !.pc = "cancelled"]
    /\ UNCHANGED <<sc, nodeVars, runs, faults>>

(***************************************************************************)
(* The schema, for sstableloader.                                          *)
(***************************************************************************)
SystemKeyspaces == {"system", "system_schema", "system_auth", "system_distributed"}
UserSection(i) == Sections[i].ks \notin SystemKeyspaces

\* DROP TABLE takes the rows of the cluster, and on every node the files.
DropTables(dropped) ==
    /\ rows' = [i \in Indices |-> IF i \in dropped THEN {} ELSE rows[i]]
    /\ data' = [t \in Nodes |-> [i \in Indices |->
                   IF t \in Hosts(sc.target) /\ i \in dropped THEN "gone" ELSE data[t][i]]]

\* The tables of all keyspaces of the backup that are not Cassandra's own are
\* dropped and created, whatever --keyspace and --table say.  With a host list
\* there is no session to do it with.
RestoreSchema ==
    /\ job.pc = "schema"
    /\ sc.mode = "seed"
    /\ DropTables({i \in Indices : UserSection(i)})
    /\ job' = [job EXCEPT !.pc = "restore"]
    /\ UNCHANGED <<sc, proc, cass, log, yaml, owns, keyed, runs, faults>>

\* A statement fails after some tables were dropped.
RestoreSchemaFails ==
    /\ job.pc = "schema"
    /\ FaultUnless(sc.mode # "seed")
    /\ \E dropped \in SUBSET {i \in Indices : sc.mode = "seed" /\ UserSection(i)} :
           DropTables(dropped)
    /\ job' = [job EXCEPT !.pc = "failed"]
    /\ UNCHANGED <<sc, proc, cass, log, yaml, owns, keyed, runs>>

(***************************************************************************)
(* The commands on all targets: the stop command, then restore-node.       *)
(***************************************************************************)
\* The places of the hosts of the current batch in the list of hosts.
Batch == {k \in DOMAIN job.map : /\ (job.next - 1) * ParallelRestores < k
                                 /\ k <= job.next * ParallelRestores}

\* The source and seeds of a command.  parallel-ssh takes the k-th of them for
\* the k-th host of the batch, while the list is the one of all batches.
HostVariables(k) == job.map[((k - 1) % ParallelRestores) + 1]

\* Mutant of SeedsFor: the seeds wait for the seeds.
SeedsForAll(target) == job.seeds

SeedsFor(target) == IF target \in job.seeds THEN {} ELSE job.seeds

Launched(k) ==
    IF job.pc = "stop"
    THEN [NoProc EXCEPT !.pc = "stop"]
    ELSE [pc |-> IF job.loader THEN "load" ELSE "lookup", i |-> 1,
          src |-> HostVariables(k).sources, seeds |-> SeedsFor(HostVariables(k).target)]

Launch(places) ==
    proc' = [t \in Nodes |->
                IF \E k \in places : job.map[k].target = t
                THEN Launched(CHOOSE k \in places : job.map[k].target = t)
                ELSE proc[t]]

RunBatch ==
    /\ job.pc \in Phases
    /\ ~job.wait
    /\ Launch(Batch)
    /\ job' = [job EXCEPT !.wait = TRUE]
    /\ UNCHANGED <<sc, cass, diskVars, owns, rows, keyed, runs, faults>>

\* A host of the batch cannot be reached; what was started on the others goes on.
RunBatchRaises ==
    /\ job.pc \in Phases
    /\ ~job.wait
    /\ Fault
    /\ \E lost \in SUBSET Batch : lost # {} /\ Launch(Batch \ lost)
    /\ job' = [job EXCEPT !.pc = "failed"]
    /\ UNCHANGED <<sc, cass, diskVars, owns, rows, keyed, runs>>

AllSucceeded == \A t \in TargetHosts : proc[t].pc = "ok"

\* Mutant of NextBatch: the next command goes on where the last one ended.
NextBatchOn(last) == job.next + 1

NextBatch(last) == IF last THEN 1 ELSE job.next + 1

\* After the last batch the result is counted; the one of the stop command is
\* not looked at.
JoinBatch ==
    LET last == job.next * ParallelRestores >= Len(job.map)
    IN  /\ job.pc \in Phases
        /\ job.wait
        /\ \A k \in Batch : proc[job.map[k].target].pc \in {"ok", "error"}
        /\ job' = [job EXCEPT
                     !.wait = FALSE,
                     !.next = NextBatch(last),
                     !.pc = IF ~last THEN @
                            ELSE IF @ = "stop" THEN "restore"
                            ELSE IF ~AllSucceeded THEN "failed"
                            ELSE IF sc.verify THEN "verify" ELSE "done"]
        /\ UNCHANGED <<sc, nodeVars, runs, faults>>

\* The connection to a host breaks and join raises; the commands go on.
JoinRaises ==
    /\ job.pc \in Phases
    /\ job.wait
    /\ Fault
    /\ job' = [job EXCEPT !.pc = "failed", !.wait = FALSE]
    /\ UNCHANGED <<sc, nodeVars, runs>>

\* verify_restore waits for every target, then runs the verification query.
Verify ==
    /\ job.pc = "verify"
    /\ \/ /\ \A t \in TargetHosts : cass[t] # "down"
          /\ job' = [job EXCEPT !.pc = "done"]
          /\ UNCHANGED faults
       \/ /\ FaultUnless(\E t \in TargetHosts : cass[t] = "down")
          /\ job' = [job EXCEPT !.pc = "failed"]
    /\ UNCHANGED <<sc, nodeVars, runs>>

\* The machine of the operator fails; what runs on the hosts goes on.
Kill ==
    /\ job.pc \notin JobEnds \union {"idle", "pods"}
    /\ Fault
    /\ job' = [job EXCEPT !.pc = "killed", !.wait = FALSE]
    /\ UNCHANGED <<sc, nodeVars, runs>>

(***************************************************************************)
(* restore-node on a host (restore_node.py).                               *)
(***************************************************************************)
At(t, step) == proc[t].pc = step
Goto(t, step) == proc' = [proc EXCEPT ![t].pc = step]
InPod == sc.mode = "pods"

\* Kubernetes restores keep system_auth exactly when they are not in place.
KeepAuth == IF InPod THEN ~job.inPlace ELSE job.keep

\* The stop command of restore-cluster.
StopCommand(t) ==
    /\ At(t, "stop")
    /\ \/ /\ cass' = [cass EXCEPT ![t] = "down"]
          /\ Goto(t, "ok")
          /\ UNCHANGED faults
       \/ /\ Fault
          /\ Goto(t, "error")
          /\ UNCHANGED cass
    /\ UNCHANGED <<sc, job, diskVars, owns, rows, keyed, runs>>

\* A backup that is not there is an error (in a pod it is skipped), one without
\* anything to restore ends the command with exit code 0.
Lookup(t) ==
    /\ At(t, "lookup")
    /\ \E s \in proc[t].src :
           Goto(t, CASE Stored(s) = "full" -> "download"
                     [] Stored(s) = "empty" -> "ok"
                     [] Stored(s) = "missing" -> IF InPod THEN "ok" ELSE "error")
    /\ UNCHANGED <<sc, job, cass, diskVars, owns, rows, keyed, runs, faults>>

Download(t) ==
    /\ At(t, "download")
    /\ Goto(t, IF InPod THEN "clean" ELSE "shutdown")
    /\ UNCHANGED <<sc, job, cass, diskVars, owns, rows, keyed, runs, faults>>

\* A stop command that fails is taken for a node that is down already.  What made the
\* one of restore-cluster fail makes this one fail again.
Shutdown(t) ==
    /\ At(t, "shutdown")
    /\ Goto(t, "waitdown")
    /\ \/ cass' = [cass EXCEPT ![t] = "down"]
       \/ cass[t] # "down" /\ UNCHANGED cass
    /\ UNCHANGED <<sc, job, diskVars, owns, rows, keyed, runs, faults>>

\* Mutant of WaitForDown: the result of the wait is ignored.
WaitForDownOnce(t) ==
    /\ At(t, "waitdown")
    /\ Goto(t, "clean")
    /\ UNCHANGED <<sc, job, cass, diskVars, owns, rows, keyed, runs, faults>>

\* wait_for_node_to_go_down raises when its attempts are used up; but a check that
\* raises an exception itself says that the node is down (is_node_up).
WaitForDown(t) ==
    /\ At(t, "waitdown")
    /\ \/ /\ Goto(t, IF cass[t] = "down" THEN "clean" ELSE "error")
          /\ UNCHANGED <<cass, faults>>
       \/ /\ cass[t] # "down"
          /\ Fault
          /\ cass' = [cass EXCEPT ![t] = "unseen"]
          /\ Goto(t, "clean")
    /\ UNCHANGED <<sc, job, diskVars, owns, rows, keyed, runs>>

\* Mutant of CleanCommitLog: the commit logs stay.
CleanNothing(t) ==
    /\ At(t, "clean")
    /\ Goto(t, "move")
    /\ UNCHANGED <<sc, job, cass, diskVars, owns, rows, keyed, runs, faults>>

\* A Cassandra that runs goes on with its log.
CleanCommitLog(t) ==
    /\ At(t, "clean")
    /\ log' = [log EXCEPT ![t] = IF cass[t] = "unseen" THEN "old" ELSE "clean"]
    /\ Goto(t, "move")
    /\ UNCHANGED <<sc, job, cass, data, yaml, owns, rows, keyed, runs, faults>>

\* Mutant of Retained: --keyspace and --table are ignored.
RetainedAll(i) == TRUE

\* filter_fqtns: with --keyspace or --table, Cassandra's own tables are kept too.
Retained(i) == sc.only = {} \/ Sections[i] \in sc.only \/ ~UserSection(i)

\* The tables that a remote restore removes and does not restore.
SkippedRemote(i) ==
    \/ Sections[i].ks = "system" /\ Sections[i].cf = "local"
    \/ Sections[i].cf \in PeersTables

LeftAlone(i) == ~Retained(i) \/ (~job.inPlace /\ KeepAuth /\ Sections[i].ks = "system_auth")

\* What maybe_restore_section makes of a section whose files came from old.
maybe_restore_section(i, old, s) ==
    IF LeftAlone(i) THEN old
    ELSE IF ~job.inPlace /\ SkippedRemote(i) THEN "gone" ELSE s

\* Files that are replaced under a Cassandra that runs mix with those it writes.
Placed(t, i, files) == IF cass[t] = "unseen" /\ ~LeftAlone(i) THEN "mixed" ELSE files

MoveSection(t) ==
    LET i == proc[t].i
    IN  /\ At(t, "move")
        /\ \E s \in proc[t].src :
               data' = [data EXCEPT ![t][i] = Placed(t, i, maybe_restore_section(i, @, s))]
        /\ proc' = [proc EXCEPT ![t].pc = IF i = Len(Sections) THEN "seeds" ELSE "move",
                                ![t].i = i + 1]
        /\ UNCHANGED <<sc, job, cass, log, yaml, owns, rows, keyed, runs, faults>>

\* Mutant of WaitForSeeds: one look at the seeds is enough.
LookForSeeds(t) ==
    /\ At(t, "seeds")
    /\ Goto(t, "start")
    /\ UNCHANGED <<sc, job, cass, diskVars, owns, rows, keyed, runs, faults>>

\* Any seed will do.  In a pod nobody waits.
WaitForSeeds(t) ==
    /\ At(t, "seeds")
    /\ InPod \/ proc[t].seeds = {} \/ \E s \in proc[t].seeds : cass[s] # "down"
    /\ Goto(t, "start")
    /\ UNCHANGED <<sc, job, cass, diskVars, owns, rows, keyed, runs, faults>>

\* Mutant of GiveUpOnSeeds: the attempts are not counted.
NeverGiveUp(t) == FALSE

\* The attempts (an hour) are used up: more than a seed that is being restored
\* needs, so this is the end of waiting for seeds that nobody restores, or that
\* wait themselves.
GiveUpOnSeeds(t) ==
    /\ At(t, "seeds")
    /\ ~InPod
    /\ proc[t].seeds # {}
    /\ \A s \in proc[t].seeds : cass[s] = "down"
    /\ FaultUnless(\A s \in proc[t].seeds :
                       proc[s].pc \notin Running \/ (At(s, "seeds") /\ proc[s].seeds # {}))
    /\ Goto(t, "error")
    /\ UNCHANGED <<sc, job, cass, diskVars, owns, rows, keyed, runs>>

\* Cassandra starts: it takes the tokens of system.local and, where there is no
\* such table, those of cassandra.yaml, and writes the table.
CassandraStarts(t) ==
    /\ cass' = [cass EXCEPT ![t] = "up"]
    /\ owns' = [owns EXCEPT ![t] = IF data[t][Local] \in Nodes THEN data[t][Local]
                                   ELSE IF data[t][Local] = "gone" THEN yaml'[t] ELSE @]
    /\ data' = [data EXCEPT ![t][Local] = IF @ = "gone" THEN "new" ELSE @]

\* Only a remote restore writes the tokens to cassandra.yaml.
Tokens(t) ==
    \E s \in proc[t].src : yaml' = [yaml EXCEPT ![t] = IF job.inPlace THEN @ ELSE s]

\* In a pod only the tokens are written; Kubernetes starts Cassandra.  To a Cassandra
\* that runs already the start command does nothing.
StartCassandra(t) ==
    /\ At(t, "start")
    /\ Tokens(t)
    /\ IF InPod \/ cass[t] # "down" THEN UNCHANGED <<cass, owns, data>> ELSE CassandraStarts(t)
    /\ Goto(t, "ok")
    /\ UNCHANGED <<sc, job, log, rows, keyed, runs, faults>>

\* A step fails, or the command is killed: a section may have been removed and
\* not yet replaced.
NodeFails(t) ==
    LET i == proc[t].i
    IN  /\ proc[t].pc \in NodeSteps
        /\ Fault
        /\ \/ /\ At(t, "move") /\ ~LeftAlone(i)
              /\ data' = [data EXCEPT ![t][i] = Placed(t, i, "gone")]
           \/ UNCHANGED data
        /\ Goto(t, "error")
        /\ UNCHANGED <<sc, job, cass, log, yaml, owns, rows, keyed, runs>>

\* keyspace_is_allowed_to_restore, table_is_allowed_to_restore.
AllowedToLoad(i) ==
    /\ Retained(i)
    /\ Sections[i].ks \notin {"system", "system_schema"}
    /\ ~(Sections[i].ks = "system_auth" /\ job.keep)

\* Mutant of LoadSource: only the first source is loaded.
LoadFirstSource(t) ==
    /\ At(t, "load")
    /\ \E s \in proc[t].src :
           /\ rows' = [i \in Indices |-> IF AllowedToLoad(i) THEN rows[i] \union {s} ELSE rows[i]]
           /\ proc' = [proc EXCEPT ![t].pc = "ok", ![t].src = {}]
    /\ UNCHANGED <<sc, job, cass, diskVars, owns, keyed, runs, faults>>

\* The backups of the sources are downloaded and loaded one after the other; one
\* that is missing is an error, one that is empty ends the command.
LoadSource(t) ==
    /\ At(t, "load")
    /\ \E s \in proc[t].src :
           \/ /\ Stored(s) # "full"
              /\ Goto(t, IF Stored(s) = "empty" THEN "ok" ELSE "error")
              /\ UNCHANGED rows
           \/ /\ Stored(s) = "full"
              /\ rows' = [i \in Indices |->
                             IF AllowedToLoad(i) THEN rows[i] \union {s} ELSE rows[i]]
              /\ proc' = [proc EXCEPT ![t].pc = IF proc[t].src = {s} THEN "ok" ELSE "load",
                                      ![t].src = @ \ {s}]
    /\ UNCHANGED <<sc, job, cass, diskVars, owns, keyed, runs, faults>>

\* sstableloader fails after some tables of a source.
LoadFails(t) ==
    /\ At(t, "load")
    /\ Fault
    /\ \E s \in proc[t].src, loaded \in SUBSET {i \in Indices : AllowedToLoad(i)} :
           rows' = [i \in Indices |-> IF i \in loaded /\ Stored(s) = "full"
                                      THEN rows[i] \union {s} ELSE rows[i]]
    /\ Goto(t, "error")
    /\ UNCHANGED <<sc, job, cass, diskVars, owns, keyed, runs>>

(***************************************************************************)
(* Kubernetes: the init container of a pod (docker-entrypoint.sh and       *)
(* service/grpc/restore.py).                                               *)
(***************************************************************************)
\* In place a pod restores its own backup; otherwise the first source the mapping
\* gives its name, and a pod without one is not restored.
PodSources(t) ==
    IF job.inPlace THEN {{t}}
    ELSE {{s} : s \in Sources(job.map, t)}

ContainerAt(t, src) ==
    [NoProc EXCEPT !.pc = IF src = {} THEN "ok" ELSE "lookup", !.src = src]

\* The operator recreates the pod with the mapping in its environment.
PodRecreated(t) ==
    /\ job.pc = "pods"
    /\ t \in Hosts(sc.target)
    /\ At(t, "none")
    /\ cass' = [cass EXCEPT ![t] = "down"]
    /\ \E src \in IF PodSources(t) = {} THEN {{}} ELSE PodSources(t) :
           proc' = [proc EXCEPT ![t] = ContainerAt(t, src)]
    /\ UNCHANGED <<sc, job, diskVars, owns, rows, keyed, runs, faults>>

\* The restore key is written after the restore.
WriteKey(t) ==
    /\ job.pc = "pods"
    /\ At(t, "ok")
    /\ keyed' = [keyed EXCEPT ![t] = TRUE]
    /\ Goto(t, "keyed")
    /\ UNCHANGED <<sc, job, cass, diskVars, owns, rows, runs, faults>>

\* The container has ended well: Kubernetes starts the one of Cassandra.
PodStarts(t) ==
    /\ job.pc = "pods"
    /\ At(t, "keyed")
    /\ cass[t] = "down"
    /\ UNCHANGED <<sc, job, proc, log, yaml, rows, keyed, runs, faults>>
    /\ CassandraStarts(t)

\* Mutant of AfterRestart: the key is not looked at.
AfterRestartAlways(t) == ContainerAt(t, proc[t].src)

\* The init container compares the key of the last restore.
AfterRestart(t) ==
    IF keyed[t] THEN [proc[t] EXCEPT !.pc = "keyed"] ELSE ContainerAt(t, proc[t].src)

\* A failed init container is run again; a pod may be restarted at any time.
PodRestarts(t) ==
    /\ job.pc = "pods"
    /\ proc[t].pc # "none"
    /\ FaultUnless(At(t, "error"))
    /\ cass' = [cass EXCEPT ![t] = "down"]
    /\ proc' = [proc EXCEPT ![t] = AfterRestart(t)]
    /\ UNCHANGED <<sc, job, diskVars, owns, rows, keyed, runs>>

JobStep ==
    \/ PrepareRing \/ PrepareList \/ PrepareFails \/ Confirm \/ Cancel
    \/ RestoreSchema \/ RestoreSchemaFails
    \/ RunBatch \/ RunBatchRaises \/ JoinBatch \/ Verify

HostStep(t) ==
    \/ StopCommand(t)
    \/ Lookup(t) \/ Download(t) \/ Shutdown(t) \/ WaitForDown(t) \/ CleanCommitLog(t)
    \/ MoveSection(t) \/ WaitForSeeds(t) \/ GiveUpOnSeeds(t) \/ StartCassandra(t)
    \/ NodeFails(t) \/ LoadSource(t) \/ LoadFails(t)

PodStep(t) == PodRecreated(t) \/ WriteKey(t) \/ PodStarts(t) \/ PodRestarts(t)

Next ==
    \/ Begin \/ JobStep \/ JoinRaises \/ Kill
    \/ \E t \in Nodes : HostStep(t) \/ PodStep(t)

Spec == Init /\ [][Next]_vars

\* The process of the operator goes on, and so do the hosts as long as one of them
\* has something to do.
FairSpec ==
    /\ Spec
    /\ WF_vars(JobStep)
    /\ WF_vars(\E t \in Nodes : HostStep(t) \/ PodStep(t))

(***************************************************************************)
(* Properties.                                                             *)
(***************************************************************************)
Entries == [target : Nodes, sources : SUBSET Nodes]
JobStates ==
    [pc : JobEnds \union Phases \union {"idle", "prepare", "confirm", "schema", "verify", "pods"},
     map : Seq(Entries), seeds : SUBSET Nodes, inPlace : BOOLEAN, keep : BOOLEAN,
     loader : BOOLEAN, next : Nat \ {0}, wait : BOOLEAN]
ProcStates ==
    [pc : Running \union {"none", "ok", "error", "keyed"}, i : 1 .. Len(Sections) + 1,
     src : SUBSET Nodes, seeds : SUBSET Nodes]

\* Every variable has the values the code can give it.
TypeOK ==
    /\ sc \in Scenarios
    /\ job \in JobStates
    /\ job.next = 1 \/ job.next \in DOMAIN job.map
    /\ proc \in [Nodes -> ProcStates]
    /\ cass \in [Nodes -> {"up", "down", "unseen"}]
    /\ data \in [Nodes -> [Indices -> FileOrigins]]
    /\ log \in [Nodes -> {"old", "clean"}]
    /\ yaml \in [Nodes -> Nodes]
    /\ owns \in [Nodes -> Nodes]
    /\ rows \in [Indices -> SUBSET ({"old"} \union Nodes)]
    /\ keyed \in [Nodes -> BOOLEAN]
    /\ runs \in 0 .. MaxRuns
    /\ faults \in 0 .. MaxFaults

SourceOf(t) == Sources(job.map, t)
Single(sources) == \E s \in Nodes : sources = {s}
RackOf(ring, h) == ring[CHOOSE i \in DOMAIN ring : ring[i].host = h].rack

\* The mapping loses no data and gives none twice: every node of the backup is the
\* source of exactly one target, a target is entered once, and the sources are
\* spread evenly.  Without sstableloader every node of the target ring is paired
\* with one source, nodes of one rack with nodes of one rack unless racks are
\* ignored; and restored on its own ring a node gets its own backup.
Sound(map, loader, r) ==
    /\ \A k, m \in DOMAIN map : k # m =>
           /\ map[k].target # map[m].target
           /\ map[k].sources \intersect map[m].sources = {}
           /\ Cardinality(map[k].sources) - Cardinality(map[m].sources) \in -1 .. 1
    /\ UNION {map[k].sources : k \in DOMAIN map} = Hosts(r.backup)
    /\ Targets(map) \subseteq Hosts(r.target)
    /\ ~loader =>
           /\ Targets(map) = Hosts(r.target)
           /\ \A k \in DOMAIN map : Single(map[k].sources)
           /\ ~r.ignore_racks =>
                  \A t, u \in Targets(map) : \A s \in Sources(map, t), q \in Sources(map, u) :
                      (RackOf(r.target, t) = RackOf(r.target, u))
                          <=> (RackOf(r.backup, s) = RackOf(r.backup, q))
           /\ r.backup = r.target => \A t \in Targets(map) : Sources(map, t) = {t}

\* The mapping that populate_ringmap enters is sound, for whatever pair of rings.
MappingSound ==
    job.pc \in {"confirm", "pods"} /\ sc.mode # "list" => Sound(job.map, job.loader, sc)

Requested(i) == UserSection(i) /\ (sc.only = {} \/ Sections[i] \in sc.only)

\* The target runs on the files and the tokens of the source.
NodeRestored(t, s) ==
    /\ cass[t] = "up"
    /\ log[t] = "clean"
    /\ owns[t] = s
    /\ \A i \in Indices :
           /\ Requested(i) => data[t][i] = s
           /\ Sections[i].ks = "system_auth" /\ ~job.keep => data[t][i] = s

\* 'Successfully restored the cluster' (restore_cluster.py): every target runs on
\* the files and the tokens of the node that the mapping gives it, or, through
\* sstableloader, the requested tables hold the data of every node of the backup
\* and nothing else.  Targets whose source has nothing to restore are left out, and
\* those that Cassandra never left, for which it takes two faults.
DoneIsRestored ==
    job.pc = "done" =>
        IF job.loader
        THEN \A i \in Indices : Requested(i) => rows[i] = Hosts(sc.backup)
        ELSE \A t \in TargetHosts : \A s \in SourceOf(t) :
                 Stored(s) = "full" =>
                     NodeRestored(t, s) \/ (cass[t] = "unseen" /\ faults > 1)

\* restore_node.py touches the commit log and the data directory only while Cassandra
\* is down, also when the stop commands fail: it takes a second fault, of the check
\* that is to see it (is_node_up), to replace the files of a Cassandra that runs.
WipedOnlyWhenDown ==
    [][\A t \in Nodes : proc'[t] # proc[t] /\ (data'[t] # data[t] \/ log'[t] # log[t]) =>
          cass[t] = "down" \/ (cass[t] = "unseen" /\ faults > 1)]_vars

\* Cassandra is never started on a mixture: after any failures and repetitions it
\* starts either on a node that the restore has not touched, or without the old
\* commit log, with the tokens of one source and all requested sections from it.
StartsWhole ==
    [][\A t \in Nodes : cass[t] = "down" /\ cass'[t] = "up" =>
          \/ /\ log[t] = "old" /\ owns'[t] = t
             /\ \A i \in Indices : data[t][i] = "old"
          \/ \E s \in Nodes :
                 /\ log[t] = "clean" /\ owns'[t] = s
                 /\ \A i \in Indices : Requested(i) => data[t][i] = s]_vars

\* The request goes through sstableloader.
ThroughLoader ==
    /\ sc.mode = "seed"
    /\ sc.loader \/ needs_loader(sc.backup, sc.target, sc.ignore_racks)

\* What --keyspace and --table do not name keeps its files (filtering.py), also
\* when the restore fails half-way or repeats; but not through sstableloader, for
\* which all tables are dropped, and of the ones not named the data is not loaded.
UnrequestedKept ==
    \A t \in Nodes, i \in Indices :
        UserSection(i) /\ ~Requested(i) =>
            data[t][i] = "old" \/ (ThroughLoader /\ data[t][i] = "gone")

\* Seeds come first (restore_cluster.py, _restore_data): as long as nothing fails, a
\* target that is not a seed starts only when a seed runs on its restored files.
SeedsFirst ==
    [][\A t \in TargetHosts \ job.seeds :
          ~InPod /\ faults = 0 /\ job.seeds # {} /\ cass[t] = "down" /\ cass'[t] = "up" =>
              \E u \in job.seeds : \A s \in SourceOf(u) : NodeRestored(u, s)]_vars

\* A restore that can succeed: every backup is there and whole, and sstableloader is
\* not asked for with a host list.
Possible ==
    /\ \A h \in DOMAIN sc.stored : Stored(h) = "full"
    /\ ~(sc.mode = "list" /\ sc.loader)

\* A restore that can succeed fails only when something goes wrong, provided that its
\* targets are one batch: neither the wait for seeds nor a target that comes up before
\* the others makes it fail.  (With several batches it does: a target of the first
\* waits for a seed of the second, which is stopped, until it gives up.)
FailsForAReason == job.pc = "failed" /\ Possible => faults > 0

\* A pod that has started Cassandra after its restore is not restored again by the
\* same key, however often it is restarted (docker-entrypoint.sh).
RestoredOnce ==
    [][\A t \in Nodes : keyed[t] /\ data'[t] # data[t] => cass[t] = "down" /\ cass'[t] = "up"]_vars

\* Every run ends, whatever fails: nobody waits for seeds for ever
\* (restore_node.wait_for_seeds); and every pod comes up again.
RestoreEnds ==
    /\ job.pc = "prepare" ~> job.pc \in JobEnds \union {"pods"}
    /\ job.pc = "pods" ~> \A t \in Hosts(sc.target) : cass[t] = "up" /\ keyed[t]

(***************************************************************************)
(* The inductive invariant of the safety properties.                       *)
(***************************************************************************)
\* Pods and ssh commands do not mix, a run starts with its first batch, restore-node
\* is run for one source, and no command runs on the hosts before the run launches one.
JobFits ==
    /\ job.pc = "pods" => InPod
    /\ InPod => job.pc \in {"idle", "prepare", "pods", "failed", "killed"}
    /\ job.pc = "prepare" => job.next = 1
    /\ ~InPod /\ ~job.loader => \A k \in DOMAIN job.map : Single(job.map[k].sources)
    /\ job.pc \in {"idle", "prepare", "confirm", "schema"} \/ (InPod /\ job.pc # "pods")
           => \A t \in Nodes : proc[t] = NoProc

\* Files are replaced on a host that is down or was taken for down, and a pod is down
\* as long as its init container restores.
DownFor(t) ==
    \/ proc[t].pc \in {"clean", "move", "seeds", "start"}
    \/ InPod /\ proc[t].pc \in NodeSteps
    => cass[t] = "down" \/ (cass[t] = "unseen" /\ ~InPod)

\* The key of a pod is written once, after its restore.
KeyFits(t) ==
    /\ keyed[t] <=> proc[t].pc = "keyed"
    /\ keyed[t] => job.pc = "pods"
    /\ InPod => proc[t].pc \notin {"stop", "load"} /\ cass[t] # "unseen"

\* What restore-node works on: one source, which has a backup, and a section.
WorkFits(t) ==
    /\ proc[t].pc = "none" => proc[t].src = {}
    /\ proc[t].pc \in NodeSteps => Single(proc[t].src)
    /\ InPod => proc[t].src = {} \/ Single(proc[t].src)
    /\ proc[t].pc \in NodeSteps \ {"lookup"} => \A s \in proc[t].src : Stored(s) = "full"
    /\ proc[t].pc \in {"none", "lookup", "download", "shutdown", "waitdown", "clean"}
           => proc[t].i = 1
    /\ proc[t].pc = "move" => proc[t].i \in Indices

\* Section i of the target is what maybe_restore_section makes of it.
SectionFrom(t, s, i) ==
    ~LeftAlone(i) => data[t][i] = IF ~job.inPlace /\ SkippedRemote(i) THEN "gone" ELSE s

\* The sections up to the current one come from the source, unless Cassandra runs.
Moved(t) ==
    cass[t] = "down" =>
    /\ proc[t].pc \in {"move", "seeds", "start"} => log[t] = "clean"
    /\ \A s \in proc[t].src, i \in Indices :
           \/ proc[t].pc = "move" /\ i < proc[t].i
           \/ proc[t].pc \in {"seeds", "start"}
           => SectionFrom(t, s, i)

Untouched(t) == log[t] = "old" /\ owns[t] = t /\ \A i \in Indices : data[t][i] = "old"

\* Cassandra finds the files and the tokens of the source.
TakenFrom(t, s) ==
    /\ log[t] = "clean"
    /\ \A i \in Indices \ {Local} : SectionFrom(t, s, i)
    /\ \/ data[t][Local] = s
       \/ data[t][Local] = "gone" /\ yaml[t] = s
       \/ data[t][Local] = "new" /\ owns[t] = s

\* A pod without a backup stays as it was, one whose container has ended is restored.
PodWhole(t) ==
    InPod =>
        /\ (\A s \in proc[t].src : Stored(s) # "full") => Untouched(t)
        /\ proc[t].pc \in {"ok", "keyed"} =>
               \A s \in proc[t].src : Stored(s) = "full" => TakenFrom(t, s)

NodeFits(t) == DownFor(t) /\ KeyFits(t) /\ WorkFits(t) /\ Moved(t) /\ PodWhole(t)

\* The inductive invariant: what runs on a host fits the job and the files there.
RestoreInvariant == TypeOK /\ JobFits /\ \A t \in Nodes : NodeFits(t)

\* Only Cassandra's own tables have such names.
PeersAreSystem == \A i \in Indices : Sections[i].cf \in PeersTables => Sections[i].ks = "system"

(***************************************************************************)
(* The inductive invariant of a restore whose targets are one batch.       *)
(***************************************************************************)
\* --parallel-restores is no less than the number of targets.
OneBatch ==
    \A r \in Scenarios : Len(r.target) <= ParallelRestores /\ Len(r.lines) <= ParallelRestores

\* No node whose backup goes through sstableloader has nothing to restore.
LoadsAll ==
    \A r \in Scenarios :
        r.mode = "seed" /\ (r.loader \/ needs_loader(r.backup, r.target, r.ignore_racks))
            => \A h \in Hosts(r.backup) : r.stored[h] # "empty"

\* The targets are restored, or their restores have all been counted as successes.
Working == job.pc = "restore" /\ job.wait
Counted == job.pc \in {"verify", "done"}

\* The mapping is one batch in which a target is entered once; seeds are targets.
MapFits ==
    /\ job.next = 1 /\ Len(job.map) <= ParallelRestores
    /\ \A k, m \in DOMAIN job.map : k # m => job.map[k].target # job.map[m].target
    /\ \A k \in DOMAIN job.map : job.map[k].sources \subseteq DOMAIN sc.stored
    /\ ~InPod /\ ~job.loader => job.seeds \subseteq TargetHosts
    /\ job.loader => \/ sc.loader
                     \/ sc.mode # "list" /\ needs_loader(sc.backup, sc.target, sc.ignore_racks)
    /\ job.loader /\ sc.mode = "seed" =>
           UNION {job.map[k].sources : k \in DOMAIN job.map} = Hosts(sc.backup)

\* Nobody waits before a batch is launched; sstableloader has a phase of its own, and
\* meets tables that were made for it; what can succeed does not fail of itself.
PhaseFits ==
    /\ job.pc = "stop" => ~job.loader
    /\ job.pc = "schema" => job.loader
    /\ job.pc \in {"prepare", "confirm", "schema"} => ~job.wait
    /\ job.loader /\ job.pc \in {"restore", "verify", "done"} =>
           /\ sc.mode = "seed"
           /\ \A i \in Indices : Requested(i) => rows[i] \subseteq Hosts(sc.backup)
    /\ faults = 0 /\ Possible => job.pc \notin {"failed", "killed"}

\* The command of a target has the target's own sources and seeds, and has done with
\* them what it says.
TargetFits(t) ==
    ~InPod =>
        /\ t \notin TargetHosts => proc[t] = NoProc
        /\ job.loader /\ job.pc = "restore" /\ ~job.wait => proc[t] = NoProc
        /\ t \in TargetHosts /\ Counted => proc[t].pc = "ok"
        /\ t \in TargetHosts /\ ~job.loader /\ (Working \/ Counted) =>
               /\ proc[t].pc \in NodeSteps \union {"ok", "error"}
               /\ proc[t].src = SourceOf(t) /\ proc[t].seeds = SeedsFor(t)
               /\ proc[t].pc = "ok" =>
                      \A s \in SourceOf(t) :
                          Stored(s) = "full" => NodeRestored(t, s) \/ cass[t] = "unseen"
        /\ t \in TargetHosts /\ job.loader /\ (Working \/ Counted) =>
               /\ proc[t].pc \in {"load", "ok", "error"}
               /\ proc[t].src \subseteq SourceOf(t)
               /\ \A i \in Indices : Requested(i) => SourceOf(t) \ proc[t].src \subseteq rows[i]
               /\ proc[t].pc = "ok" =>
                      proc[t].src = {} \/ \E s \in proc[t].src : Stored(s) = "empty"

\* As long as nothing has failed: the run knows of every command, the targets are down
\* when their restores begin and stay down until they end, and seeds come first.
QuietFits(t) ==
    faults = 0 /\ ~InPod =>
        /\ proc[t].pc \in Running => job.pc \in Phases /\ job.wait
        /\ t \in TargetHosts /\ job.pc = "stop" /\ job.wait =>
               proc[t].pc = "stop" \/ (proc[t].pc = "ok" /\ cass[t] = "down")
        /\ t \in TargetHosts /\ ~job.loader /\ job.pc = "restore" /\ ~job.wait => cass[t] = "down"
        /\ t \in TargetHosts /\ ~job.loader /\ Working /\ cass[t] # "down" =>
               proc[t].pc = "ok" /\ \A s \in SourceOf(t) : Stored(s) = "full"
        /\ /\ t \in TargetHosts \ job.seeds /\ job.seeds # {} /\ ~job.loader
           /\ Working /\ proc[t].pc = "start"
           => \E u \in job.seeds : cass[u] # "down"

\* Such a run succeeds if it can: it finds the targets up, and no command fails.
PossibleFits(t) ==
    faults = 0 /\ Possible =>
        /\ job.pc \in {"idle", "prepare"} \/ (job.loader /\ ~InPod) => cass[t] = "up"
        /\ Working => proc[t].pc # "error"

HostFits(t) == TargetFits(t) /\ QuietFits(t) /\ PossibleFits(t)

\* The inductive invariant for requests of one batch.
BatchInvariant == RestoreInvariant /\ MapFits /\ PhaseFits /\ \A t \in Nodes : HostFits(t)

\* To take a Cassandra that runs for down, its stop and its check must have failed.
UnseenFits == \A t \in Nodes : cass[t] = "unseen" => faults > 1
=============================================================================
