---------------------------- MODULE BackupService ----------------------------
(****************************************************************************)
(* The gRPC service of one node: the handlers of backups, status requests,  *)
(* deletions and purges, the threads that run the backups, the event loop,  *)
(* BackupMan's registry and the in-progress marker file.                    *)
(*                                                                          *)
(* AsyncBackup runs on the event loop and does not await; all the other     *)
(* handlers run on threads of their own.  Every call of BackupMan makes a   *)
(* new lock, so that nothing excludes anything: each call is one step, and  *)
(* register_backup's check and its store, which a status request makes      *)
(* without overwriting, are two.  What a backup does in the storage is here *)
(* its first and its last object; the module NodeBackups has the rest.      *)
(****************************************************************************)

EXTENDS Naturals

CONSTANTS
  Names,        \* backup names
  Runs,         \* bound: the Backup and AsyncBackup requests that are made
  NoRun,        \* no future: BackupMan's None
  Polls,        \* the status requests that may be served at once
  Kinds,        \* the requests in use: "async" (AsyncBackup), "sync" (Backup)
  Deletes,      \* are DeleteBackup and PurgeBackups used
  MaxRestarts   \* bound: shutdowns and crashes

ASSUME NamesExist == Names # {}
ASSUME NoRunIsNone == NoRun \notin Runs
ASSUME KindsOfRequests == Kinds \subseteq {"async", "sync"}
ASSUME ServiceSwitches == Deletes \in BOOLEAN

VARIABLES
  up,          \* the service takes requests
  restarts,    \* shutdowns and crashes so far
  registered,  \* the names in BackupMan's registry
  reg,         \* reg[b]: its entry, a future and a status
  schema,      \* the names whose schema.cql is in the storage
  manifest,    \* the names whose manifest.json is in the storage
  marker,      \* the in-progress marker file exists
  run,         \* run[r]: the thread that serves a backup request
  fut,         \* fut[r]: the asyncio future of an asynchronous one
  loop,        \* the AsyncBackup handler on the event loop
  poll,        \* poll[p]: a thread that serves a status request
  del          \* the thread that serves a deletion or a purge

storeVars == <<schema, manifest>>
regVars == <<registered, reg>>
vars == <<up, restarts, regVars, storeVars, marker, run, fut, loop, poll, del>>

Statuses == {"unknown", "in_progress", "success", "failed"}
Entry == [future : Runs \cup {NoRun}, status : Statuses]
Unknown == [future |-> NoRun, status |-> "unknown"]

\* A backup's thread: waiting for it to start, then the steps of handle_backup,
\* its except and finally clauses, and the except clause of the Backup handler.
RunSteps == {"free", "new", "queued", "connect", "check", "progress", "schema", "data",
             "finish", "failed", "unmark", "report", "over"}
RunState == [pc : RunSteps, name : Names, kind : {"async", "sync"}, raised : BOOLEAN]

Futures == {"none", "pending", "ok", "error", "cancelled"}

LoopState == [pc : {"idle", "submit", "set"}, run : Runs \cup {NoRun}]

\* A status request: whether it has seen the manifest, the future and the status
\* it found, and whether it began late (see PollTellsEnd).
PollSteps == {"idle", "finished", "register", "store", "future", "done", "again",
              "update", "record"}
PollState == [pc : PollSteps, name : Names, seen : BOOLEAN,
              future : Runs \cup {NoRun}, status : Statuses, late : BOOLEAN]

DelState == [pc : {"idle", "list", "manifest", "schema", "remove"},
             name : Names, purge : BOOLEAN]

AnyName == CHOOSE b \in Names : TRUE
IdlePoll == [pc |-> "idle", name |-> AnyName, seen |-> FALSE, future |-> NoRun,
             status |-> "unknown", late |-> FALSE]
NoDelete == [pc |-> "idle", name |-> AnyName, purge |-> FALSE]
IdleLoop == [pc |-> "idle", run |-> NoRun]

Init ==
  /\ up = TRUE
  /\ restarts = 0
  /\ registered = {}
  /\ reg = [b \in Names |-> Unknown]
  /\ schema = {}
  /\ manifest = {}
  /\ marker = FALSE
  /\ run = [r \in Runs |-> [pc |-> "free", name |-> AnyName, kind |-> "async",
                            raised |-> FALSE]]
  /\ fut = [r \in Runs |-> "none"]
  /\ loop = IdleLoop
  /\ poll = [p \in Polls |-> IdlePoll]
  /\ del = NoDelete

------------------------------------------------------------------------------
(* BackupMan                                                                *)

\* __clean: the future of an entry is cancelled unless it is done.
Cancelled(b) ==
  [r \in Runs |-> IF b \in registered /\ reg[b].future = r /\ fut[r] = "pending"
                  THEN "cancelled" ELSE fut[r]]

\* register_backup, overwriting.
Register(b) ==
  /\ registered' = registered \cup {b}
  /\ reg' = [reg EXCEPT ![b] = Unknown]
  /\ fut' = Cancelled(b)

\* update_backup_status raises, and changes nothing, if b is not registered.
UpdateStatus(b, status) ==
  reg' = IF b \in registered THEN [reg EXCEPT ![b].status = status] ELSE reg

\* remove_backup
Remove(b) ==
  /\ registered' = registered \ {b}
  /\ reg' = [reg EXCEPT ![b] = Unknown]
  /\ fut' = Cancelled(b)

------------------------------------------------------------------------------
(* The requests for a backup                                                *)

Alive(r) == run[r].pc \notin {"free", "over"}
Of(b) == {r \in Runs : run[r].pc # "free" /\ run[r].name = b}

\* No backup of b is running or about to, and the loop has heard of their ends.
Settled(b) == \A r \in Of(b) : ~Alive(r) /\ fut[r] # "pending"

Requested(r, b, kind, pc) ==
  /\ up
  /\ kind \in Kinds
  /\ run[r].pc = "free"
  /\ Register(b)
  /\ run' = [run EXCEPT ![r] = [pc |-> pc, name |-> b, kind |-> kind, raised |-> FALSE]]
  /\ poll' = [p \in Polls |-> IF poll[p].name = b THEN [poll[p] EXCEPT !.late = FALSE]
                              ELSE poll[p]]

\* AsyncBackup: register, hand the backup to a thread, set the future.
AsyncBackup(r, b) ==
  /\ loop.pc = "idle"
  /\ Requested(r, b, "async", "new")
  /\ loop' = [pc |-> "submit", run |-> r]
  /\ UNCHANGED <<up, restarts, storeVars, marker, del>>

RunInExecutor ==
  /\ loop.pc = "submit"
  /\ run' = [run EXCEPT ![loop.run].pc = "queued"]
  /\ fut' = [fut EXCEPT ![loop.run] = "pending"]
  /\ loop' = [loop EXCEPT !.pc = "set"]
  /\ UNCHANGED <<up, restarts, regVars, storeVars, marker, poll, del>>

\* No thread can be started: AsyncBackup's except clause.
AsyncBackupFails ==
  /\ loop.pc = "submit"
  /\ UpdateStatus(run[loop.run].name, "failed")
  /\ run' = [run EXCEPT ![loop.run].pc = "over", ![loop.run].raised = TRUE]
  /\ loop' = IdleLoop
  /\ UNCHANGED <<up, restarts, registered, storeVars, marker, fut, poll, del>>

\* Mutant of SetBackupFuture: the handler waits for the future it has set.
SetBackupFutureWaits ==
  /\ loop.pc = "set"
  /\ registered' = registered \cup {run[loop.run].name}
  /\ reg' = [reg EXCEPT ![run[loop.run].name] =
               [future |-> loop.run, status |-> "unknown"]]
  /\ loop' = IF fut[loop.run] = "pending" THEN loop ELSE IdleLoop
  /\ UNCHANGED <<up, restarts, storeVars, marker, run, fut, poll, del>>

SetBackupFuture ==
  /\ loop.pc = "set"
  /\ registered' = registered \cup {run[loop.run].name}
  /\ reg' = [reg EXCEPT ![run[loop.run].name] =
               [future |-> loop.run, status |-> "unknown"]]
  /\ loop' = IdleLoop
  /\ UNCHANGED <<up, restarts, storeVars, marker, run, fut, poll, del>>

\* Backup: register, then handle_backup on the handler's own thread.
Backup(r, b) ==
  /\ Requested(r, b, "sync", "queued")
  /\ UNCHANGED <<up, restarts, storeVars, marker, loop, del>>

------------------------------------------------------------------------------
(* handle_backup                                                            *)

Go(r, from, to) ==
  /\ run[r].pc = from
  /\ run' = [run EXCEPT ![r].pc = to]

\* A new MedusaTempFile never exists, so the marker is created in any case.
CreateMarker(r) ==
  /\ Go(r, "queued", "connect")
  /\ marker' = TRUE
  /\ UNCHANGED <<up, restarts, regVars, storeVars, fut, loop, poll, del>>

Connect(r) ==
  /\ Go(r, "connect", "check")
  /\ UNCHANGED <<up, restarts, regVars, storeVars, marker, fut, loop, poll, del>>

\* What the function's caller does with the exception.
Raised(r) == IF run[r].kind = "sync" THEN "report" ELSE "over"

\* The connection to the storage is outside the try: no finally clause runs.
ConnectFails(r) ==
  /\ run[r].pc = "connect"
  /\ run' = [run EXCEPT ![r].pc = Raised(r), ![r].raised = TRUE]
  /\ UNCHANGED <<up, restarts, regVars, storeVars, marker, fut, loop, poll, del>>

\* A backup that exists already raises.
CheckExists(r) ==
  /\ Go(r, "check", IF run[r].name \in schema THEN "failed" ELSE "progress")
  /\ UNCHANGED <<up, restarts, regVars, storeVars, marker, fut, loop, poll, del>>

SetInProgress(r) ==
  /\ Go(r, "progress", IF run[r].name \in registered THEN "schema" ELSE "failed")
  /\ UpdateStatus(run[r].name, "in_progress")
  /\ UNCHANGED <<up, restarts, registered, storeVars, marker, fut, loop, poll, del>>

\* start_backup, its first and its last object.
SaveSchema(r) ==
  /\ Go(r, "schema", "data")
  /\ schema' = schema \cup {run[r].name}
  /\ UNCHANGED <<up, restarts, regVars, manifest, marker, fut, loop, poll, del>>

SaveManifest(r) ==
  /\ Go(r, "data", "finish")
  /\ manifest' = manifest \cup {run[r].name}
  /\ UNCHANGED <<up, restarts, regVars, schema, marker, fut, loop, poll, del>>

SetSuccess(r) ==
  /\ Go(r, "finish", IF run[r].name \in registered THEN "unmark" ELSE "failed")
  /\ UpdateStatus(run[r].name, "success")
  /\ UNCHANGED <<up, restarts, registered, storeVars, marker, fut, loop, poll, del>>

\* Cassandra or the storage fails.
BackupRaises(r) ==
  /\ run[r].pc \in {"check", "schema", "data", "finish"}
  /\ run' = [run EXCEPT ![r].pc = "failed"]
  /\ UNCHANGED <<up, restarts, regVars, storeVars, marker, fut, loop, poll, del>>

SetFailed(r) ==
  /\ run[r].pc = "failed"
  /\ run' = [run EXCEPT ![r].pc = "unmark", ![r].raised = TRUE]
  /\ UpdateStatus(run[r].name, "failed")
  /\ UNCHANGED <<up, restarts, registered, storeVars, marker, fut, loop, poll, del>>

DeleteMarker(r) ==
  /\ Go(r, "unmark", IF run[r].raised THEN Raised(r) ELSE "over")
  /\ marker' = FALSE
  /\ UNCHANGED <<up, restarts, regVars, storeVars, fut, loop, poll, del>>

\* The except clause of the Backup handler.
ReportFailed(r) ==
  /\ Go(r, "report", "over")
  /\ UpdateStatus(run[r].name, "failed")
  /\ UNCHANGED <<up, restarts, registered, storeVars, marker, fut, loop, poll, del>>

RunStep(r) ==
  \/ CreateMarker(r) \/ Connect(r) \/ ConnectFails(r) \/ CheckExists(r)
  \/ SetInProgress(r) \/ SaveSchema(r) \/ SaveManifest(r) \/ SetSuccess(r)
  \/ BackupRaises(r) \/ SetFailed(r) \/ DeleteMarker(r) \/ ReportFailed(r)

\* The loop, between two handlers, hears of the end of a thread.
Resolve(r) ==
  /\ up /\ loop.pc = "idle"
  /\ fut[r] = "pending" /\ run[r].pc = "over"
  /\ fut' = [fut EXCEPT ![r] = IF run[r].raised THEN "error" ELSE "ok"]
  /\ UNCHANGED <<up, restarts, regVars, storeVars, marker, run, loop, poll, del>>

\* The loop passes a cancellation on: a backup that has not begun never will.
CancelQueued(r) ==
  /\ up /\ loop.pc = "idle"
  /\ fut[r] = "cancelled" /\ run[r].pc = "queued"
  /\ run' = [run EXCEPT ![r].pc = "over", ![r].raised = TRUE]
  /\ UNCHANGED <<up, restarts, regVars, storeVars, marker, fut, loop, poll, del>>

------------------------------------------------------------------------------
(* BackupStatus                                                             *)

Advance(p, from, to) ==
  /\ poll[p].pc = from
  /\ poll' = [poll EXCEPT ![p].pc = to]

PollUnchanged == UNCHANGED <<up, restarts, storeVars, marker, run, fut, loop, del>>

\* A backup that has not started is NOT_FOUND.
BackupNotFound(p, b) ==
  /\ up
  /\ poll[p].pc = "idle"
  /\ b \notin schema
  /\ UNCHANGED vars

BackupStatus(p, b) ==
  /\ up
  /\ poll[p].pc = "idle"
  /\ b \in schema
  /\ poll' = [poll EXCEPT ![p] =
       [IdlePoll EXCEPT !.pc = "finished", !.name = b,
          !.late = /\ Settled(b)
                   /\ \A q \in Polls : poll[q].pc # "idle" /\ poll[q].name = b => poll[q].late]]
  /\ UNCHANGED regVars
  /\ PollUnchanged

\* Mutant of PollFinished: a backup that has started is taken to have finished.
PollFinishedStarted(p) ==
  /\ poll[p].pc = "finished"
  /\ poll' = [poll EXCEPT ![p].pc = "register", ![p].seen = poll[p].name \in schema]
  /\ UNCHANGED regVars
  /\ PollUnchanged

PollFinished(p) ==
  /\ poll[p].pc = "finished"
  /\ poll' = [poll EXCEPT ![p].pc = "register", ![p].seen = poll[p].name \in manifest]
  /\ UNCHANGED regVars
  /\ PollUnchanged

\* register_backup without overwriting: check, then store.
PollRegister(p) ==
  /\ Advance(p, "register", IF poll[p].name \in registered THEN "future" ELSE "store")
  /\ UNCHANGED regVars
  /\ PollUnchanged

PollStore(p) ==
  /\ poll[p].pc = "store"
  /\ poll' = [q \in Polls |->
       IF q = p THEN [poll[p] EXCEPT !.pc = "future"]
       ELSE IF poll[q].name = poll[p].name THEN [poll[q] EXCEPT !.late = FALSE] ELSE poll[q]]
  /\ registered' = registered \cup {poll[p].name}
  /\ reg' = [reg EXCEPT ![poll[p].name] = Unknown]
  /\ PollUnchanged

\* get_backup_future; a KeyError is answered with NOT_FOUND.
PollFuture(p) ==
  /\ poll[p].pc = "future"
  /\ poll' = [poll EXCEPT ![p] = IF poll[p].name \in registered
                                 THEN [@ EXCEPT !.pc = "done", !.future = reg[poll[p].name].future]
                                 ELSE IdlePoll]
  /\ UNCHANGED regVars
  /\ PollUnchanged

\* Mutant of PollDone: without a future the backup is taken to be running.
PollDoneHopes(p) ==
  /\ poll[p].pc = "done"
  /\ LET f == IF poll[p].future = NoRun THEN "pending" ELSE fut[poll[p].future]
         answer == [pending |-> "in_progress", error |-> "failed"]
     IN  poll' = [poll EXCEPT ![p] =
           CASE f \in {"pending", "error"} -> [@ EXCEPT !.pc = "update", !.status = answer[f]]
             [] f = "ok" -> [@ EXCEPT !.pc = "again"]
             [] OTHER -> IdlePoll]
  /\ UNCHANGED regVars
  /\ PollUnchanged

\* _determine_backup_status; the CancelledError of a cancelled future is no
\* Exception and ends the request.
PollDone(p) ==
  /\ poll[p].pc = "done"
  /\ LET f == IF poll[p].future = NoRun THEN "ok" ELSE fut[poll[p].future]
         answer == [pending |-> "in_progress", error |-> "failed"]
     IN  poll' = [poll EXCEPT ![p] =
           CASE f \in {"pending", "error"} -> [@ EXCEPT !.pc = "update", !.status = answer[f]]
             [] f = "ok" -> [@ EXCEPT !.pc = "again"]
             [] OTHER -> IdlePoll]
  /\ UNCHANGED regVars
  /\ PollUnchanged

\* Mutant of PollAgain: a backup that ended has succeeded.
PollAgainTrusts(p) ==
  /\ poll[p].pc = "again"
  /\ poll' = [poll EXCEPT ![p].pc = "update", ![p].status = "success"]
  /\ UNCHANGED regVars
  /\ PollUnchanged

\* backup.finished is read again unless it has been seen.
PollAgain(p) ==
  /\ poll[p].pc = "again"
  /\ poll' = [poll EXCEPT ![p].pc = "update",
                          ![p].status = IF poll[p].seen \/ poll[p].name \in manifest
                                        THEN "success" ELSE "failed"]
  /\ UNCHANGED regVars
  /\ PollUnchanged

PollUpdate(p) ==
  /\ poll[p].pc = "update"
  /\ poll' = [poll EXCEPT ![p] = IF poll[p].name \in registered
                                 THEN [@ EXCEPT !.pc = "record"] ELSE IdlePoll]
  /\ UpdateStatus(poll[p].name, poll[p].status)
  /\ UNCHANGED registered
  /\ PollUnchanged

\* record_status_in_response: the answer is the status in the registry.
PollRecord(p) ==
  /\ poll[p].pc = "record"
  /\ poll' = [poll EXCEPT ![p] = IdlePoll]
  /\ UNCHANGED regVars
  /\ PollUnchanged

PollStep(p) ==
  \/ PollFinished(p) \/ PollRegister(p) \/ PollStore(p) \/ PollFuture(p)
  \/ PollDone(p) \/ PollAgain(p) \/ PollUpdate(p) \/ PollRecord(p)

------------------------------------------------------------------------------
(* DeleteBackup and PurgeBackups                                            *)

DelUnchanged == UNCHANGED <<up, restarts, marker, run, loop, poll>>

DeleteBackup(b) ==
  /\ up /\ Deletes
  /\ del.pc = "idle"
  /\ b \in registered /\ reg[b].status # "in_progress"
  /\ del' = [pc |-> "list", name |-> b, purge |-> FALSE]
  /\ UNCHANGED <<regVars, storeVars, fut>>
  /\ DelUnchanged

\* purge.main takes any backup that is listed; it does not know the registry.
PurgeBackups(b) ==
  /\ up /\ Deletes
  /\ del.pc = "idle"
  /\ b \in schema
  /\ del' = [pc |-> "manifest", name |-> b, purge |-> TRUE]
  /\ UNCHANGED <<regVars, storeVars, fut>>
  /\ DelUnchanged

\* backups_to_purge_by_name raises for a backup that is not listed.
DeleteLists ==
  /\ del.pc = "list"
  /\ del' = IF del.name \in schema THEN [del EXCEPT !.pc = "manifest"] ELSE NoDelete
  /\ UNCHANGED <<regVars, storeVars, fut>>
  /\ DelUnchanged

DeleteManifest ==
  /\ del.pc = "manifest"
  /\ manifest' = manifest \ {del.name}
  /\ del' = [del EXCEPT !.pc = "schema"]
  /\ UNCHANGED <<regVars, schema, fut>>
  /\ DelUnchanged

DeleteSchema ==
  /\ del.pc = "schema"
  /\ schema' = schema \ {del.name}
  /\ del' = IF del.purge THEN NoDelete ELSE [del EXCEPT !.pc = "remove"]
  /\ UNCHANGED <<regVars, manifest, fut>>
  /\ DelUnchanged

HandleBackupRemoval ==
  /\ del.pc = "remove"
  /\ Remove(del.name)
  /\ del' = NoDelete
  /\ UNCHANGED storeVars
  /\ DelUnchanged

DeleteFails ==
  /\ del.pc \in {"list", "manifest", "schema"}
  /\ del' = NoDelete
  /\ UNCHANGED <<regVars, storeVars, fut>>
  /\ DelUnchanged

DeleteStep ==
  DeleteLists \/ DeleteManifest \/ DeleteSchema \/ HandleBackupRemoval \/ DeleteFails

------------------------------------------------------------------------------
(* The end of the process                                                   *)

\* remove_all_backups; no more requests, but the threads run to their ends.
Shutdown ==
  /\ up /\ loop.pc = "idle"
  /\ restarts < MaxRestarts
  /\ restarts' = restarts + 1
  /\ up' = FALSE
  /\ registered' = {}
  /\ reg' = [b \in Names |-> Unknown]
  /\ fut' = [r \in Runs |-> IF \E b \in registered : reg[b].future = r /\ fut[r] = "pending"
                            THEN "cancelled" ELSE fut[r]]
  /\ UNCHANGED <<storeVars, marker, run, loop, poll, del>>

\* A new process: nothing is registered, no future is left.
Fresh ==
  /\ up' = TRUE
  /\ registered' = {}
  /\ reg' = [b \in Names |-> Unknown]
  /\ fut' = [r \in Runs |-> "none"]
  /\ loop' = IdleLoop
  /\ poll' = [p \in Polls |-> IdlePoll]
  /\ del' = NoDelete
  /\ UNCHANGED <<storeVars, marker>>

Restart ==
  /\ ~up
  /\ \A r \in Runs : ~Alive(r)
  /\ \A p \in Polls : poll[p].pc = "idle"
  /\ del.pc = "idle"
  /\ Fresh
  /\ UNCHANGED <<restarts, run>>

\* The process is killed and started again: its threads are gone.
Crash ==
  /\ restarts < MaxRestarts
  /\ restarts' = restarts + 1
  /\ run' = [r \in Runs |-> IF Alive(r) THEN [run[r] EXCEPT !.pc = "over", !.raised = TRUE]
                            ELSE run[r]]
  /\ Fresh

------------------------------------------------------------------------------
LoopStep == RunInExecutor \/ AsyncBackupFails \/ SetBackupFuture

Next ==
  \/ \E r \in Runs, b \in Names : AsyncBackup(r, b) \/ Backup(r, b)
  \/ LoopStep
  \/ \E r \in Runs : RunStep(r) \/ Resolve(r) \/ CancelQueued(r)
  \/ \E p \in Polls, b \in Names : BackupStatus(p, b) \/ BackupNotFound(p, b)
  \/ \E p \in Polls : PollStep(p)
  \/ \E b \in Names : DeleteBackup(b) \/ PurgeBackups(b)
  \/ DeleteStep
  \/ Shutdown \/ Restart \/ Crash

Spec == Init /\ [][Next]_vars

\* Every thread and the loop go on; nothing makes a client send a request.
Fairness ==
  /\ WF_vars(LoopStep)
  /\ \A r \in Runs : WF_vars(RunStep(r)) /\ WF_vars(Resolve(r)) /\ WF_vars(CancelQueued(r))
  /\ \A p \in Polls : WF_vars(PollStep(p))
  /\ WF_vars(DeleteStep)
  /\ WF_vars(Restart)

FairSpec == Spec /\ Fairness

------------------------------------------------------------------------------
(* Properties                                                               *)

\* The state has its shape; the loop's handler and the entries name requests
\* that were made.
TypeOK ==
  /\ up \in BOOLEAN
  /\ registered \subseteq Names
  /\ reg \in [Names -> Entry]
  /\ schema \subseteq Names
  /\ manifest \subseteq Names
  /\ marker \in BOOLEAN
  /\ run \in [Runs -> RunState]
  /\ fut \in [Runs -> Futures]
  /\ loop \in LoopState
  /\ loop.pc # "idle" => loop.run \in Runs
  /\ poll \in [Polls -> PollState]
  /\ del \in DelState

\* The registry calls a backup a success only when its manifest is in the
\* storage, whichever of the backup's thread, the handlers and the status
\* requests with what they read earlier wrote it last.
SuccessIsComplete ==
  \A b \in registered : reg[b].status = "success" => b \in manifest

\* A status request that begins after the end of the backup, and after the last
\* request that began before it, answers with the outcome: it never says
\* IN_PROGRESS, not even when the service was restarted in the middle of the
\* backup, and a success it reports is one (_determine_backup_status).  Excepted
\* is a request during which another one stores an entry: nothing excludes that
\* register_backup's check and store of two requests overlap.
PollTellsEnd ==
  \A p \in Polls :
    up /\ poll[p].pc = "record" /\ poll[p].late /\ poll[p].name \in registered =>
      LET e == reg[poll[p].name]
          ended == e.future = NoRun \/ fut[e.future] = "ok"
      IN  e.status = IF ended /\ poll[p].name \in manifest THEN "success" ELSE "failed"

\* Every backup that was accepted ends, and its future with it; every request for
\* a status or a deletion is answered.
RequestsEnd ==
  /\ \A r \in Runs : Alive(r) ~> ~Alive(r) /\ fut[r] # "pending"
  /\ \A p \in Polls : poll[p].pc # "idle" ~> poll[p].pc = "idle"
  /\ del.pc # "idle" ~> del.pc = "idle"

------------------------------------------------------------------------------
(* The inductive invariant behind SuccessIsComplete and PollTellsEnd        *)

\* What a status request carries from one step to the next.
PollCarries ==
  \A p \in Polls :
    poll[p].seen \/ poll[p].status = "success" => poll[p].name \in manifest

\* A thread about to report its success has written the manifest.
RunCarries == \A r \in Runs : run[r].pc = "finish" => run[r].name \in manifest

\* Nothing is deleted unless the requests for it are used.
NothingDeleted == del.pc = "idle" \/ Deletes

\* The future in an entry is that of a request for this name, handed to a thread.
EntriesFit ==
  \A b \in Names : \A r \in Runs :
    reg[b].future = r => run[r].name = b /\ run[r].pc \notin {"free", "new"}

\* Until the handler has set its future nobody else can cancel it or hear of it.
LoopFits ==
  /\ loop.pc = "submit" => run[loop.run].pc = "new"
  /\ loop.pc = "set" => /\ run[loop.run].pc \notin {"free", "new"}
                        /\ fut[loop.run] = "pending"
                        /\ \A b \in Names : reg[b].future # loop.run

\* While requests are served an entry stays, once it is there.
PollsRegistered ==
  \A p \in Polls :
    up /\ poll[p].pc \in {"future", "done", "again", "update", "record"} =>
      poll[p].name \in registered

\* The future and the outcome that a status request has to find.
Ended(b) == reg[b].future = NoRun \/ fut[reg[b].future] = "ok"
Outcome(b) == IF Ended(b) /\ b \in manifest THEN "success" ELSE "failed"

\* A request that began late is served.
Watched(b) ==
  up /\ \E p \in Polls : poll[p].pc # "idle" /\ poll[p].name = b /\ poll[p].late

\* What is true of a request for the status of b, late or not, as long as b is
\* watched: it holds the future of the entry, or what that future says.
PollKnows(q, b) ==
  /\ poll[q].pc = "store" /\ poll[q].late => b \notin registered
  /\ poll[q].pc = "done" => poll[q].future = reg[b].future
  /\ poll[q].pc = "again" => Ended(b)
  /\ poll[q].pc = "update" => poll[q].status = Outcome(b)
  /\ poll[q].pc = "record" /\ poll[q].late => reg[b].status = Outcome(b)

PollsKnow ==
  \A b \in Names :
    Watched(b) => Settled(b) /\ \A q \in Polls : poll[q].name = b => PollKnows(q, b)

ServiceInvariant ==
  /\ TypeOK
  /\ PollCarries
  /\ RunCarries
  /\ NothingDeleted
  /\ SuccessIsComplete
  /\ EntriesFit
  /\ LoopFits
  /\ PollsRegistered
  /\ PollsKnow

==============================================================================
