------------------------- MODULE BackupServiceProofs -------------------------
(****************************************************************************)
(* Theorems about BackupService, for any names, requests and handlers: the  *)
(* state keeps its shape, a success in BackupMan's registry is one, and a   *)
(* status request after the end of a backup answers with its outcome.       *)
(****************************************************************************)
EXTENDS BackupService, TLAPS

\* What the threads are before their first request.
LEMMA IdleTypes ==
  /\ AnyName \in Names
  /\ Unknown \in Entry
  /\ IdlePoll \in PollState /\ NoDelete \in DelState /\ IdleLoop \in LoopState
<1>1. AnyName \in Names
  BY NamesExist DEF AnyName
<1>2. QED
  BY <1>1 DEF Unknown, Entry, Statuses, IdlePoll, PollState, PollSteps, NoDelete,
     DelState, IdleLoop, LoopState

\* The initial state has its shape.
LEMMA TypeInit == Init => TypeOK
<1> SUFFICES ASSUME Init PROVE TypeOK
  OBVIOUS
<1>1. reg \in [Names -> Entry] /\ run \in [Runs -> RunState] /\ fut \in [Runs -> Futures]
  BY IdleTypes DEF Init, RunState, RunSteps, Futures
<1>2. poll \in [Polls -> PollState] /\ loop \in LoopState /\ del \in DelState
  BY IdleTypes DEF Init
<1>3. loop.pc = "idle"
  BY DEF Init, IdleLoop
<1>4. QED
  BY <1>1, <1>2, <1>3 DEF Init, TypeOK

\* update_backup_status keeps the shape of the registry.
LEMMA UpdateType ==
  ASSUME TypeOK, NEW b \in Names, NEW s \in Statuses, UpdateStatus(b, s)
  PROVE  reg' \in [Names -> Entry]
BY DEF TypeOK, UpdateStatus, Entry

\* A cancelled future is one.
LEMMA CancelType ==
  ASSUME TypeOK, NEW b \in Names
  PROVE  Cancelled(b) \in [Runs -> Futures]
BY DEF TypeOK, Cancelled, Futures

\* A thread that moves on keeps its shape.
LEMMA GoType ==
  ASSUME TypeOK, NEW r \in Runs, NEW from, NEW to \in RunSteps, Go(r, from, to)
  PROVE  run' \in [Runs -> RunState]
BY DEF TypeOK, Go, RunState

\* Nor does a status request change its shape when it is no longer late.
LEMMA LateType ==
  ASSUME TypeOK, NEW q \in Polls
  PROVE  poll[q] \in PollState /\ [poll[q] EXCEPT !.late = FALSE] \in PollState
BY DEF TypeOK, PollState

\* The requests keep the shape of the state.
LEMMA RequestType ==
  ASSUME TypeOK, NEW r \in Runs, NEW b \in Names, AsyncBackup(r, b) \/ Backup(r, b)
  PROVE  TypeOK'
<1>1. PICK kind \in {"async", "sync"}, pc \in {"new", "queued"} : Requested(r, b, kind, pc)
  BY DEF AsyncBackup, Backup
<1>2. registered' \subseteq Names /\ reg' \in [Names -> Entry] /\ fut' \in [Runs -> Futures]
  BY <1>1, IdleTypes, CancelType DEF Requested, Register, TypeOK
<1>3. run' \in [Runs -> RunState]
  BY <1>1 DEF Requested, TypeOK, RunState, RunSteps
<1>4. poll' \in [Polls -> PollState]
  BY <1>1, LateType DEF Requested
<1>5. loop' \in LoopState /\ (loop.pc # "idle" => loop.run \in Runs)'
  BY DEF AsyncBackup, Backup, TypeOK, LoopState
<1>6. QED
  BY <1>2, <1>3, <1>4, <1>5 DEF AsyncBackup, Backup, TypeOK, storeVars

\* The loop's handler keeps the shape of the state.
LEMMA LoopType == ASSUME TypeOK, LoopStep PROVE TypeOK'
<1>1. loop.run \in Runs /\ run[loop.run].name \in Names
  BY DEF LoopStep, RunInExecutor, AsyncBackupFails, SetBackupFuture, TypeOK, RunState
<1>2. CASE RunInExecutor
  BY <1>1, <1>2 DEF RunInExecutor, TypeOK, RunState, RunSteps, Futures, LoopState,
     regVars, storeVars
<1>3. CASE AsyncBackupFails
  <2>1. reg' \in [Names -> Entry]
    BY <1>1, <1>3, UpdateType DEF AsyncBackupFails, Statuses
  <2>2. run' \in [Runs -> RunState]
    BY <1>1, <1>3 DEF AsyncBackupFails, TypeOK, RunState, RunSteps
  <2>3. QED
    BY <1>3, <2>1, <2>2, IdleTypes DEF AsyncBackupFails, TypeOK, storeVars, IdleLoop
<1>4. CASE SetBackupFuture
  <2>1. reg' \in [Names -> Entry]
    BY <1>1, <1>4 DEF SetBackupFuture, TypeOK, Entry, Statuses
  <2>2. QED
    BY <1>1, <1>4, <2>1, IdleTypes DEF SetBackupFuture, TypeOK, storeVars, IdleLoop
<1>5. QED
  BY <1>2, <1>3, <1>4 DEF LoopStep

\* A backup's thread keeps the shape of the state.
LEMMA RunStepType == ASSUME TypeOK, NEW r \in Runs, RunStep(r) PROVE TypeOK'
<1>1. run[r].name \in Names /\ run[r].kind \in {"async", "sync"}
  BY DEF TypeOK, RunState
<1>2. run' \in [Runs -> RunState]
  <2>1. CASE ConnectFails(r) \/ BackupRaises(r) \/ SetFailed(r)
    BY <2>1 DEF ConnectFails, BackupRaises, SetFailed, Raised, TypeOK, RunState, RunSteps
  <2>2. CASE \E from, to \in RunSteps : Go(r, from, to)
    BY <2>2, GoType
  <2>3. QED
    BY <2>1, <2>2 DEF RunStep, CreateMarker, Connect, CheckExists, SetInProgress, SaveSchema,
       SaveManifest, SetSuccess, DeleteMarker, ReportFailed, Raised, RunSteps
<1>3. reg' \in [Names -> Entry]
  <2>1. CASE \E s \in Statuses : UpdateStatus(run[r].name, s)
    BY <1>1, <2>1, UpdateType
  <2>2. CASE UNCHANGED reg
    BY <2>2 DEF TypeOK
  <2>3. QED
    BY <2>1, <2>2 DEF RunStep, CreateMarker, Connect, ConnectFails, CheckExists, SetInProgress,
       SaveSchema, SaveManifest, SetSuccess, BackupRaises, SetFailed, DeleteMarker,
       ReportFailed, Statuses, regVars
<1>4. schema' \subseteq Names /\ manifest' \subseteq Names /\ marker' \in BOOLEAN
  BY <1>1 DEF TypeOK, RunStep, CreateMarker, Connect, ConnectFails, CheckExists,
     SetInProgress, SaveSchema, SaveManifest, SetSuccess, BackupRaises, SetFailed,
     DeleteMarker, ReportFailed, storeVars
<1>5. UNCHANGED <<up, registered, fut, loop, poll, del>>
  BY DEF RunStep, CreateMarker, Connect, ConnectFails, CheckExists, SetInProgress,
     SaveSchema, SaveManifest, SetSuccess, BackupRaises, SetFailed, DeleteMarker,
     ReportFailed, regVars
<1>6. QED
  BY <1>2, <1>3, <1>4, <1>5 DEF TypeOK

\* A status request keeps the shape of the state.
LEMMA PollStepType ==
  ASSUME TypeOK, NEW p \in Polls, PollStep(p) \/ (\E b \in Names : BackupStatus(p, b))
  PROVE  TypeOK'
<1>1. poll[p] \in PollState /\ poll[p].name \in Names
  BY DEF TypeOK, PollState
<1>2. poll' \in [Polls -> PollState]
  <2>1. CASE PollFinished(p) \/ PollRegister(p) \/ PollAgain(p)
    BY <2>1 DEF PollFinished, PollRegister, PollAgain, Advance, TypeOK, PollState, PollSteps,
       Statuses
  <2>2. CASE PollStore(p)
    <3>1. [poll[p] EXCEPT !.pc = "future"] \in PollState
      BY <1>1 DEF PollState, PollSteps
    <3>2. QED
      BY <2>2, <3>1, LateType DEF PollStore
  <2>3. CASE PollFuture(p)
    <3>1. reg[poll[p].name].future \in Runs \cup {NoRun}
      BY <1>1 DEF TypeOK, Entry
    <3>2. [poll[p] EXCEPT !.pc = "done", !.future = reg[poll[p].name].future] \in PollState
      BY <1>1, <3>1 DEF PollState, PollSteps
    <3>3. QED
      BY <2>3, <3>2, IdleTypes DEF PollFuture, TypeOK
  <2>4. CASE PollDone(p)
    <3> DEFINE f == IF poll[p].future = NoRun THEN "ok" ELSE fut[poll[p].future]
               answer == [pending |-> "in_progress", error |-> "failed"]
    <3>1. [poll[p] EXCEPT !.pc = "again"] \in PollState
      BY <1>1 DEF PollState, PollSteps
    <3>2. f \in {"pending", "error"} =>
            [poll[p] EXCEPT !.pc = "update", !.status = answer[f]] \in PollState
      <4>1. f \in {"pending", "error"} => answer[f] \in Statuses
        BY DEF Statuses
      <4>2. \A s \in Statuses : [poll[p] EXCEPT !.pc = "update", !.status = s] \in PollState
        BY <1>1 DEF PollState, PollSteps
      <4> HIDE DEF f, answer
      <4>3. QED
        BY <4>1, <4>2
    <3>3. QED
      BY <2>4, <3>1, <3>2, IdleTypes DEF PollDone, TypeOK
  <2>5. CASE PollUpdate(p) \/ PollRecord(p)
    <3>1. [poll[p] EXCEPT !.pc = "record"] \in PollState
      BY <1>1 DEF PollState, PollSteps
    <3>2. QED
      BY <2>5, <3>1, IdleTypes DEF PollUpdate, PollRecord, TypeOK
  <2>6. CASE \E b \in Names : BackupStatus(p, b)
    <3> DEFINE late(b) == /\ Settled(b)
                          /\ \A q \in Polls : poll[q].pc # "idle" /\ poll[q].name = b => poll[q].late
    <3>1. PICK b \in Names : BackupStatus(p, b)
      BY <2>6
    <3>2. late(b) \in BOOLEAN
      OBVIOUS
    <3>3. [IdlePoll EXCEPT !.pc = "finished", !.name = b, !.late = late(b)] \in PollState
      BY <3>2, IdleTypes DEF PollState, PollSteps
    <3>4. QED
      BY <3>1, <3>3 DEF BackupStatus, TypeOK
  <2>7. QED
    BY <2>1, <2>2, <2>3, <2>4, <2>5, <2>6 DEF PollStep
<1>3. reg' \in [Names -> Entry] /\ registered' \subseteq Names
  <2>1. CASE PollStore(p)
    BY <1>1, <2>1, IdleTypes DEF PollStore, TypeOK
  <2>2. CASE PollUpdate(p)
    <3>1. poll[p].status \in Statuses
      BY <1>1 DEF PollState
    <3>2. QED
      BY <1>1, <2>2, <3>1, UpdateType DEF PollUpdate, TypeOK
  <2>3. CASE UNCHANGED regVars
    BY <2>3 DEF regVars, TypeOK
  <2>4. QED
    BY <2>1, <2>2, <2>3 DEF PollStep, PollFinished, PollRegister, PollFuture, PollDone,
       PollAgain, PollRecord, BackupStatus
<1>4. PollUnchanged
  BY DEF PollStep, PollFinished, PollRegister, PollStore, PollFuture, PollDone, PollAgain,
     PollUpdate, PollRecord, BackupStatus
<1>5. QED
  BY <1>2, <1>3, <1>4 DEF PollUnchanged, TypeOK, storeVars

\* A deletion keeps the shape of the state.
LEMMA DeleteType ==
  ASSUME TypeOK, DeleteStep \/ (\E b \in Names : DeleteBackup(b) \/ PurgeBackups(b))
  PROVE  TypeOK'
<1>1. del.name \in Names /\ Cancelled(del.name) \in [Runs -> Futures]
  BY CancelType DEF TypeOK, DelState
<1>2. del' \in DelState
  <2>1. del \in DelState /\ NoDelete \in DelState
    BY IdleTypes DEF TypeOK
  <2>2. \A pc \in {"manifest", "schema", "remove"} : [del EXCEPT !.pc = pc] \in DelState
    BY <2>1 DEF DelState
  <2>3. CASE DeleteStep
    BY <2>1, <2>2, <2>3 DEF DeleteStep, DeleteLists, DeleteManifest, DeleteSchema,
       HandleBackupRemoval, DeleteFails
  <2>4. CASE \E b \in Names : DeleteBackup(b) \/ PurgeBackups(b)
    <3>1. PICK b \in Names, pc \in {"list", "manifest"}, x \in BOOLEAN :
            del' = [pc |-> pc, name |-> b, purge |-> x]
      BY <2>4 DEF DeleteBackup, PurgeBackups
    <3>2. QED
      BY <3>1 DEF DelState
  <2>5. QED
    BY <2>3, <2>4
<1>3. /\ reg' \in [Names -> Entry] /\ registered' \subseteq Names
      /\ fut' \in [Runs -> Futures]
      /\ schema' \subseteq Names /\ manifest' \subseteq Names
  BY <1>1, IdleTypes DEF DeleteStep, DeleteLists, DeleteManifest, DeleteSchema,
     HandleBackupRemoval, Remove, DeleteFails, DeleteBackup, PurgeBackups, TypeOK, regVars,
     storeVars
<1>4. DelUnchanged
  BY DEF DeleteStep, DeleteLists, DeleteManifest, DeleteSchema, HandleBackupRemoval,
     DeleteFails, DeleteBackup, PurgeBackups
<1>5. QED
  BY <1>2, <1>3, <1>4 DEF DelUnchanged, TypeOK

\* A new process keeps the shape of the state.
LEMMA FreshType == ASSUME TypeOK, Fresh, run' \in [Runs -> RunState] PROVE TypeOK'
BY IdleTypes DEF Fresh, TypeOK, Futures, storeVars, IdleLoop

\* Every step keeps the shape of the state.
LEMMA TypeNext == TypeOK /\ [Next]_vars => TypeOK'
<1> SUFFICES ASSUME TypeOK, [Next]_vars PROVE TypeOK'
  OBVIOUS
<1>1. CASE \E r \in Runs, b \in Names : AsyncBackup(r, b) \/ Backup(r, b)
  BY <1>1, RequestType
<1>2. CASE LoopStep
  BY <1>2, LoopType
<1>3. CASE \E r \in Runs : RunStep(r)
  BY <1>3, RunStepType
<1>4. CASE \E r \in Runs : Resolve(r) \/ CancelQueued(r)
  BY <1>4 DEF Resolve, CancelQueued, TypeOK, RunState, RunSteps, Futures, regVars, storeVars
<1>5. CASE \E p \in Polls : PollStep(p) \/ (\E b \in Names : BackupStatus(p, b))
  BY <1>5, PollStepType
<1>6. CASE DeleteStep \/ (\E b \in Names : DeleteBackup(b) \/ PurgeBackups(b))
  BY <1>6, DeleteType
<1>7. CASE Shutdown
  BY <1>7, IdleTypes DEF Shutdown, TypeOK, Futures, storeVars
<1>8. CASE Restart
  BY <1>8, FreshType DEF Restart, TypeOK
<1>9. CASE Crash
  <2>1. run' \in [Runs -> RunState]
    BY <1>9 DEF Crash, TypeOK, RunState, RunSteps
  <2>2. QED
    BY <1>9, <2>1, FreshType DEF Crash
<1>10. CASE UNCHANGED vars
  BY <1>10 DEF vars, TypeOK, regVars, storeVars
<1>11. QED
  BY <1>1, <1>2, <1>3, <1>4, <1>5, <1>6, <1>7, <1>8, <1>9, <1>10 DEF Next, BackupNotFound

\* The state of the service keeps its shape, whatever is requested.
THEOREM ServiceTypeCorrect == Spec => []TypeOK
<1>1. QED
  BY TypeInit, TypeNext, PTL DEF Spec

------------------------------------------------------------------------------
(* A success in the registry is one                                         *)

\* The invariant holds before the first request.
LEMMA ServiceInit == Init => ServiceInvariant
<1> SUFFICES ASSUME Init PROVE ServiceInvariant
  OBVIOUS
<1>1. PollCarries /\ RunCarries /\ NothingDeleted /\ SuccessIsComplete
  BY DEF Init, PollCarries, RunCarries, NothingDeleted, SuccessIsComplete, NoDelete, IdlePoll
<1>2. EntriesFit /\ LoopFits
  BY NoRunIsNone DEF Init, EntriesFit, LoopFits, Unknown, IdleLoop
<1>3. PollsRegistered /\ PollsKnow
  BY DEF Init, PollsRegistered, PollsKnow, Watched, IdlePoll
<1>4. QED
  BY <1>1, <1>2, <1>3, TypeInit DEF ServiceInvariant

\* Facts about steps that only add manifests and registry entries.
LEMMA UpdateKeepsSuccess ==
  ASSUME TypeOK, SuccessIsComplete, NEW b \in Names, NEW s,
         UpdateStatus(b, s), UNCHANGED registered, manifest \subseteq manifest',
         s = "success" => b \in manifest'
  PROVE  SuccessIsComplete'
BY DEF TypeOK, UpdateStatus, SuccessIsComplete, Entry

\* An entry that is new, or replaced, is no success.
LEMMA NewEntryKeepsSuccess ==
  ASSUME TypeOK, SuccessIsComplete, NEW b \in Names, NEW f,
         reg' = [reg EXCEPT ![b] = [future |-> f, status |-> "unknown"]],
         registered' \subseteq registered \cup {b}, manifest \subseteq manifest'
  PROVE  SuccessIsComplete'
BY DEF TypeOK, SuccessIsComplete

\* Requests, the loop and the threads of the backups keep the invariant.
LEMMA BackupKeepsSuccess ==
  ASSUME ServiceInvariant,
         \/ \E r \in Runs, b \in Names : AsyncBackup(r, b) \/ Backup(r, b)
         \/ LoopStep
         \/ \E r \in Runs : RunStep(r)
  PROVE  PollCarries' /\ RunCarries' /\ NothingDeleted' /\ SuccessIsComplete'
<1> USE DEF ServiceInvariant
<1>1. CASE \E r \in Runs, b \in Names : AsyncBackup(r, b) \/ Backup(r, b)
  <2>1. PICK r \in Runs, b \in Names, kind \in {"async", "sync"}, pc \in {"new", "queued"} :
          Requested(r, b, kind, pc) /\ UNCHANGED <<storeVars, del>>
    BY <1>1 DEF AsyncBackup, Backup
  <2>2. SuccessIsComplete'
    BY <2>1, NewEntryKeepsSuccess DEF Requested, Register, Unknown, storeVars
  <2>3. PollCarries'
    BY <2>1 DEF Requested, PollCarries, storeVars, TypeOK, PollState
  <2>4. RunCarries' /\ NothingDeleted'
    BY <2>1 DEF Requested, RunCarries, NothingDeleted, storeVars, TypeOK
  <2>5. QED
    BY <2>2, <2>3, <2>4
<1>2. CASE LoopStep
  <2>1. loop.run \in Runs /\ run[loop.run].name \in Names
    BY <1>2 DEF LoopStep, RunInExecutor, AsyncBackupFails, SetBackupFuture, TypeOK, RunState
  <2>2. PollCarries' /\ NothingDeleted' /\ UNCHANGED manifest
    BY <1>2 DEF LoopStep, RunInExecutor, AsyncBackupFails, SetBackupFuture, PollCarries,
       NothingDeleted, storeVars
  <2>3. RunCarries'
    BY <1>2, <2>1 DEF LoopStep, RunInExecutor, AsyncBackupFails, SetBackupFuture, RunCarries,
       storeVars, TypeOK, RunState
  <2>4. SuccessIsComplete'
    <3>1. CASE RunInExecutor
      BY <3>1, <2>2 DEF RunInExecutor, SuccessIsComplete, regVars
    <3>2. CASE AsyncBackupFails
      BY <3>2, <2>1, <2>2, UpdateKeepsSuccess DEF AsyncBackupFails
    <3>3. CASE SetBackupFuture
      BY <3>3, <2>1, <2>2, NewEntryKeepsSuccess DEF SetBackupFuture
    <3>4. QED
      BY <1>2, <3>1, <3>2, <3>3 DEF LoopStep
  <2>5. QED
    BY <2>2, <2>3, <2>4
<1>3. CASE \E r \in Runs : RunStep(r)
  <2>1. PICK r \in Runs : RunStep(r)
    BY <1>3
  <2>2. run[r].name \in Names
    BY DEF TypeOK, RunState
  <2>3. manifest \subseteq manifest' /\ UNCHANGED <<poll, del, registered>>
    BY <2>1 DEF RunStep, CreateMarker, Connect, ConnectFails, CheckExists, SetInProgress,
       SaveSchema, SaveManifest, SetSuccess, BackupRaises, SetFailed, DeleteMarker,
       ReportFailed, storeVars, regVars
  <2>4. PollCarries' /\ NothingDeleted'
    BY <2>3 DEF PollCarries, NothingDeleted
  <2>5. RunCarries'
    <3>1. CASE SaveManifest(r)
      BY <3>1 DEF SaveManifest, Go, RunCarries, TypeOK, RunState
    <3>3. CASE ConnectFails(r) \/ SetFailed(r)
      BY <3>3, <2>3 DEF ConnectFails, SetFailed, Raised, RunCarries, TypeOK, RunState
    <3>4. CASE \E from : \E to \in RunSteps \ {"finish"} : Go(r, from, to)
      BY <3>4, <2>3 DEF Go, RunCarries, TypeOK, RunState
    <3>5. CASE BackupRaises(r)
      BY <3>5, <2>3 DEF BackupRaises, RunCarries, TypeOK, RunState
    <3>6. QED
      BY <2>1, <3>1, <3>3, <3>4, <3>5 DEF RunStep, CreateMarker, Connect, CheckExists,
         SetInProgress, SaveSchema, SetSuccess, DeleteMarker, ReportFailed, Raised, RunSteps
  <2>6. SuccessIsComplete'
    <3>1. CASE UNCHANGED reg
      BY <3>1, <2>3 DEF SuccessIsComplete
    <3>2. CASE SetSuccess(r)
      <4>1. run[r].name \in manifest'
        BY <3>2, <2>3 DEF SetSuccess, Go, RunCarries
      <4>2. QED
        BY <3>2, <4>1, <2>2, <2>3, UpdateKeepsSuccess DEF SetSuccess
    <3>3. CASE SetInProgress(r) \/ SetFailed(r) \/ ReportFailed(r)
      BY <3>3, <2>2, <2>3, UpdateKeepsSuccess DEF SetInProgress, SetFailed, ReportFailed
    <3>4. QED
      BY <2>1, <3>1, <3>2, <3>3 DEF RunStep, CreateMarker, Connect, ConnectFails, CheckExists,
         SaveSchema, SaveManifest, BackupRaises, DeleteMarker, regVars
  <2>7. QED
    BY <2>4, <2>5, <2>6
<1>4. QED
  BY <1>1, <1>2, <1>3

\* The status requests keep the invariant: what they carry was true when they
\* read it, and nothing is deleted.
LEMMA PollKeepsSuccess ==
  ASSUME ServiceInvariant, NEW p \in Polls,
         PollStep(p) \/ (\E b \in Names : BackupStatus(p, b))
  PROVE  PollCarries' /\ RunCarries' /\ NothingDeleted' /\ SuccessIsComplete'
<1> USE DEF ServiceInvariant
<1>1. poll[p].name \in Names
  BY DEF TypeOK, PollState
<1>2. PollUnchanged
  BY DEF PollStep, PollFinished, PollRegister, PollStore, PollFuture, PollDone, PollAgain,
     PollUpdate, PollRecord, BackupStatus
<1>3. RunCarries' /\ NothingDeleted'
  BY <1>2 DEF PollUnchanged, RunCarries, NothingDeleted, storeVars
<1>4. SuccessIsComplete'
  <2>1. CASE PollStore(p)
    BY <1>1, <1>2, <2>1, NewEntryKeepsSuccess DEF PollStore, PollUnchanged, storeVars, Unknown
  <2>2. CASE PollUpdate(p)
    BY <1>1, <1>2, <2>2, UpdateKeepsSuccess DEF PollUpdate, PollUnchanged, storeVars, PollCarries
  <2>3. CASE UNCHANGED regVars
    BY <1>2, <2>3 DEF regVars, PollUnchanged, storeVars, SuccessIsComplete
  <2>4. QED
    BY <2>1, <2>2, <2>3 DEF PollStep, PollFinished, PollRegister, PollFuture, PollDone,
       PollAgain, PollRecord, BackupStatus
<1>5. PollCarries'
  <2>1. CASE PollFinished(p)
    BY <1>2, <2>1 DEF PollFinished, PollUnchanged, storeVars, PollCarries, TypeOK, PollState
  <2>2. CASE PollAgain(p)
    BY <1>2, <2>2 DEF PollAgain, PollUnchanged, storeVars, PollCarries, TypeOK, PollState
  <2>3. CASE PollRegister(p)
    BY <1>2, <2>3 DEF PollRegister, Advance, PollUnchanged, storeVars, PollCarries, TypeOK,
       PollState
  <2>4. CASE PollFuture(p)
    <3>1. CASE poll[p].name \in registered
      BY <1>2, <2>4, <3>1 DEF PollFuture, PollUnchanged, storeVars, PollCarries, TypeOK, PollState
    <3>2. CASE poll[p].name \notin registered
      BY <1>2, <2>4, <3>2 DEF PollFuture, PollUnchanged, storeVars, PollCarries, TypeOK, IdlePoll
    <3>3. QED
      BY <3>1, <3>2
  <2>5. CASE PollStore(p)
    BY <1>2, <2>5 DEF PollStore, PollUnchanged, storeVars, PollCarries, TypeOK, PollState
  <2>6. CASE PollDone(p)
    BY <1>2, <2>6 DEF PollDone, PollUnchanged, storeVars, PollCarries, TypeOK, PollState, IdlePoll
  <2>7. CASE PollUpdate(p) \/ PollRecord(p)
    BY <1>2, <2>7 DEF PollUpdate, PollRecord, PollUnchanged, storeVars, PollCarries, TypeOK,
       PollState, IdlePoll
  <2>8. CASE \E b \in Names : BackupStatus(p, b)
    <3>1. PICK b, late :
            poll' = [poll EXCEPT ![p] = [IdlePoll EXCEPT !.pc = "finished", !.name = b,
                                                         !.late = late]]
      BY <2>8, Zenon DEF BackupStatus
    <3>2. QED
      BY <1>2, <3>1 DEF PollUnchanged, storeVars, PollCarries, TypeOK, IdlePoll
  <2>9. QED
    BY <2>1, <2>2, <2>3, <2>4, <2>5, <2>6, <2>7, <2>8 DEF PollStep
<1>6. QED
  BY <1>3, <1>4, <1>5

------------------------------------------------------------------------------
(* A status request after the end tells it                                  *)

\* The parts of the invariant that this adds.
Told == EntriesFit /\ LoopFits /\ PollsRegistered /\ PollsKnow

\* A request whose thread is at work, or whose end is not heard of, unsettles its
\* name.
LEMMA Unsettled ==
  ASSUME NEW r \in Runs, run[r].pc # "free", Alive(r) \/ fut[r] = "pending"
  PROVE  ~Settled(run[r].name)
BY DEF Settled, Of

\* Steps of the loop and of a thread for one request leave alone what is watched:
\* the names they touch are not settled.
LEMMA BusyKnown ==
  ASSUME ServiceInvariant, NEW r \in Runs, ~Settled(run[r].name), UNCHANGED <<up, poll>>,
         run'[r].name = run[r].name,
         \A s \in Runs \ {r} : run'[s] = run[s] /\ fut'[s] = fut[s],
         \A b \in Names \ {run[r].name} :
           /\ reg'[b] = reg[b]
           /\ b \in registered' <=> b \in registered
           /\ b \in manifest' <=> b \in manifest
  PROVE  PollsKnow'
<1> SUFFICES ASSUME NEW b \in Names, Watched(b)'
             PROVE  Settled(b)' /\ \A q \in Polls : poll'[q].name = b => PollKnows(q, b)'
  BY DEF PollsKnow
<1>1. Watched(b) /\ Settled(b) /\ b # run[r].name
  BY DEF Watched, ServiceInvariant, PollsKnow
<1>2. Settled(b)'
  BY <1>1 DEF Settled, Of, Alive
<1>3. Ended(b)' = Ended(b)
  <2>1. reg'[b] = reg[b] /\ reg[b].future # r
    BY <1>1 DEF ServiceInvariant, EntriesFit
  <2>2. reg[b].future \in Runs \cup {NoRun}
    BY DEF ServiceInvariant, TypeOK, Entry
  <2>3. QED
    BY <2>1, <2>2 DEF Ended
<1>4. Outcome(b)' = Outcome(b)
  BY <1>1, <1>3 DEF Outcome
<1>5. ASSUME NEW q \in Polls, poll'[q].name = b PROVE PollKnows(q, b)'
  <2>1. PollKnows(q, b)
    BY <1>1, <1>5 DEF ServiceInvariant, PollsKnow
  <2>2. QED
    BY <2>1, <1>1, <1>3, <1>4 DEF PollKnows
<1>6. QED
  BY <1>2, <1>5

\* The loop's handler.
LEMMA LoopTells == ASSUME ServiceInvariant, LoopStep PROVE Told'
<1> DEFINE l == loop.run
<1>1. l \in Runs /\ run[l].name \in Names /\ run[l].pc # "free"
  BY DEF LoopStep, RunInExecutor, AsyncBackupFails, SetBackupFuture, ServiceInvariant, TypeOK,
     RunState, LoopFits
<1>2. ~Settled(run[l].name)
  <2>1. Alive(l) \/ fut[l] = "pending"
    BY DEF LoopStep, RunInExecutor, AsyncBackupFails, SetBackupFuture, ServiceInvariant,
       LoopFits, Alive
  <2>2. QED
    BY <1>1, <2>1, Unsettled
<1>3. UNCHANGED <<up, poll, manifest>>
  BY DEF LoopStep, RunInExecutor, AsyncBackupFails, SetBackupFuture, storeVars
<1>4. /\ run'[l].name = run[l].name
      /\ \A s \in Runs \ {l} : run'[s] = run[s] /\ fut'[s] = fut[s]
  BY <1>1 DEF LoopStep, RunInExecutor, AsyncBackupFails, SetBackupFuture, ServiceInvariant,
     TypeOK, RunState
<1>5. /\ registered \subseteq registered'
      /\ \A b \in Names \ {run[l].name} :
           reg'[b] = reg[b] /\ (b \in registered' <=> b \in registered)
  BY <1>1 DEF LoopStep, RunInExecutor, AsyncBackupFails, SetBackupFuture, ServiceInvariant,
     TypeOK, UpdateStatus, regVars
<1>6. PollsKnow'
  <2> HIDE DEF l
  <2> QED BY <1>1, <1>2, <1>3, <1>4, <1>5, BusyKnown
<1>7. PollsRegistered'
  BY <1>3, <1>5 DEF ServiceInvariant, PollsRegistered
<1>8. EntriesFit' /\ LoopFits'
  <2>1. CASE RunInExecutor
    <3>1. /\ loop.pc = "submit" /\ loop'.pc = "set" /\ loop'.run = l
          /\ run'[l].pc = "queued" /\ fut'[l] = "pending" /\ UNCHANGED reg
      BY <1>1, <2>1 DEF RunInExecutor, ServiceInvariant, TypeOK, RunState, LoopState, regVars
    <3>2. run[l].pc = "new"
      BY <3>1 DEF ServiceInvariant, LoopFits
    <3>3. \A b \in Names : reg[b].future # l
      BY <1>1, <3>2 DEF ServiceInvariant, EntriesFit
    <3> HIDE DEF l
    <3>4. QED
      BY <1>1, <1>4, <3>1, <3>3 DEF ServiceInvariant, EntriesFit, LoopFits
  <2>2. CASE AsyncBackupFails
    <3>1. /\ loop.pc = "submit" /\ loop'.pc = "idle" /\ run'[l].pc = "over"
          /\ \A b \in Names : reg'[b].future = reg[b].future
      BY <1>1, <2>2 DEF AsyncBackupFails, ServiceInvariant, TypeOK, RunState, IdleLoop,
         UpdateStatus, Entry
    <3> HIDE DEF l
    <3>2. QED
      BY <1>1, <1>4, <3>1 DEF ServiceInvariant, EntriesFit, LoopFits
  <2>3. CASE SetBackupFuture
    <3>1. /\ loop.pc = "set" /\ loop'.pc = "idle" /\ UNCHANGED run
          /\ reg'[run[l].name].future = l
      BY <1>1, <2>3 DEF SetBackupFuture, ServiceInvariant, TypeOK, IdleLoop
    <3>2. run[l].pc \notin {"free", "new"}
      BY <3>1 DEF ServiceInvariant, LoopFits
    <3> HIDE DEF l
    <3>3. QED
      BY <1>1, <1>5, <3>1, <3>2 DEF ServiceInvariant, EntriesFit, LoopFits
  <2>4. QED
    BY <2>1, <2>2, <2>3 DEF LoopStep
<1>9. QED
  BY <1>6, <1>7, <1>8 DEF Told

\* The threads of the backups, and what the loop hears of them.
LEMMA RunTells ==
  ASSUME ServiceInvariant, NEW r \in Runs, RunStep(r) \/ Resolve(r) \/ CancelQueued(r)
  PROVE  Told'
<1>1. run[r].name \in Names /\ run[r].pc \in RunSteps
  BY DEF ServiceInvariant, TypeOK, RunState
<1>2. /\ run[r].pc \notin {"free", "new"}
      /\ Alive(r) \/ fut[r] = "pending"
  BY DEF RunStep, CreateMarker, Connect, ConnectFails, CheckExists, SetInProgress, SaveSchema,
     SaveManifest, SetSuccess, BackupRaises, SetFailed, DeleteMarker, ReportFailed, Go,
     Resolve, CancelQueued, Alive
<1>3. ~Settled(run[r].name)
  BY <1>2, Unsettled
<1>4. UNCHANGED <<up, registered, loop, poll>>
  BY DEF RunStep, CreateMarker, Connect, ConnectFails, CheckExists, SetInProgress, SaveSchema,
     SaveManifest, SetSuccess, BackupRaises, SetFailed, DeleteMarker, ReportFailed, Resolve,
     CancelQueued, regVars
<1>5. /\ run'[r].name = run[r].name /\ run'[r].pc \notin {"free", "new"}
      /\ \A s \in Runs \ {r} : run'[s] = run[s]
  BY <1>2 DEF RunStep, CreateMarker, Connect, ConnectFails, CheckExists, SetInProgress,
     SaveSchema, SaveManifest, SetSuccess, BackupRaises, SetFailed, DeleteMarker,
     ReportFailed, Go, Raised, Resolve, CancelQueued, ServiceInvariant, TypeOK, RunState
<1>6. \A s \in Runs \ {r} : fut'[s] = fut[s]
  BY DEF RunStep, CreateMarker, Connect, ConnectFails, CheckExists, SetInProgress, SaveSchema,
     SaveManifest, SetSuccess, BackupRaises, SetFailed, DeleteMarker, ReportFailed, Resolve,
     CancelQueued, ServiceInvariant, TypeOK
<1>7. /\ \A b \in Names : reg'[b].future = reg[b].future
      /\ \A b \in Names \ {run[r].name} : reg'[b] = reg[b]
  <2>1. UNCHANGED reg \/ \E s : UpdateStatus(run[r].name, s)
    BY DEF RunStep, CreateMarker, Connect, ConnectFails, CheckExists, SetInProgress,
       SaveSchema, SaveManifest, SetSuccess, BackupRaises, SetFailed, DeleteMarker,
       ReportFailed, Resolve, CancelQueued, regVars
  <2>2. CASE \E s : UpdateStatus(run[r].name, s)
    <3>1. PICK s : UpdateStatus(run[r].name, s)
      BY <2>2
    <3>2. reg \in [Names -> Entry]
      BY DEF ServiceInvariant, TypeOK
    <3>3. QED
      BY <1>1, <3>1, <3>2 DEF UpdateStatus, Entry
  <2>3. QED
    BY <2>1, <2>2
<1>8. \A b \in Names \ {run[r].name} : b \in manifest' <=> b \in manifest
  BY DEF RunStep, CreateMarker, Connect, ConnectFails, CheckExists, SetInProgress, SaveSchema,
     SaveManifest, SetSuccess, BackupRaises, SetFailed, DeleteMarker, ReportFailed, Resolve,
     CancelQueued, storeVars
<1>9. PollsKnow'
  BY <1>3, <1>4, <1>5, <1>6, <1>7, <1>8, BusyKnown
<1>10. PollsRegistered'
  BY <1>4 DEF ServiceInvariant, PollsRegistered
<1>11. EntriesFit'
  BY <1>5, <1>7 DEF ServiceInvariant, EntriesFit
<1>12. LoopFits'
  <2>1. loop.pc # "idle" => loop.run \in Runs
    BY DEF ServiceInvariant, TypeOK
  <2>2. loop.pc # "idle" => fut'[r] = fut[r]
    BY DEF RunStep, CreateMarker, Connect, ConnectFails, CheckExists, SetInProgress,
       SaveSchema, SaveManifest, SetSuccess, BackupRaises, SetFailed, DeleteMarker,
       ReportFailed, Resolve, CancelQueued
  <2>3. QED
    BY <1>2, <1>4, <1>5, <1>6, <1>7, <2>1, <2>2 DEF ServiceInvariant, LoopFits
<1>13. QED
  BY <1>9, <1>10, <1>11, <1>12 DEF Told

\* A request that stops being late is otherwise as it was.
LEMMA LateOver ==
  ASSUME TypeOK, NEW q \in Polls, NEW v, poll'[q] = [poll[q] EXCEPT !.late = v]
  PROVE  /\ poll'[q].late = v /\ poll'[q].pc = poll[q].pc
         /\ poll'[q].name = poll[q].name
BY DEF TypeOK, PollState

\* A new request for a backup: its name is no longer watched, and of the others
\* nothing changes.
LEMMA RequestTells ==
  ASSUME ServiceInvariant, NEW r \in Runs, NEW b \in Names, AsyncBackup(r, b) \/ Backup(r, b)
  PROVE  Told'
<1>0. TypeOK
  BY DEF ServiceInvariant
<1>1. PICK kind, pc : Requested(r, b, kind, pc)
  BY DEF AsyncBackup, Backup
<1>2. UNCHANGED <<up, manifest>>
  BY DEF AsyncBackup, Backup, storeVars
<1>3. /\ run[r].pc = "free" /\ run'[r].name = b /\ run'[r].pc # "free"
      /\ \A s \in Runs \ {r} : run'[s] = run[s]
  BY <1>0 DEF AsyncBackup, Backup, Requested, TypeOK
<1>4. /\ registered' = registered \cup {b} /\ reg'[b].future = NoRun
      /\ \A c \in Names \ {b} : reg'[c] = reg[c]
  BY <1>0, <1>1 DEF Requested, Register, Unknown, TypeOK
<1>5. \A s \in Runs : reg[b].future # s \/ fut[s] # "pending" => fut'[s] = fut[s]
  BY <1>0, <1>1 DEF Requested, Register, Cancelled, TypeOK
<1>6. ASSUME NEW q \in Polls
      PROVE  /\ poll'[q].name = poll[q].name /\ poll'[q].pc = poll[q].pc
             /\ poll[q].name = b => poll'[q].late = FALSE
             /\ poll[q].name # b => poll'[q] = poll[q]
  <2>1. poll'[q] = IF poll[q].name = b THEN [poll[q] EXCEPT !.late = FALSE] ELSE poll[q]
    BY <1>1 DEF Requested
  <2>2. CASE poll[q].name = b
    <3>1. poll'[q] = [poll[q] EXCEPT !.late = FALSE]
      BY <2>1, <2>2
    <3>2. poll'[q].late = FALSE /\ poll'[q].pc = poll[q].pc /\ poll'[q].name = poll[q].name
      BY <1>0, <3>1, LateOver, Zenon
    <3>3. QED
      BY <2>2, <3>2, Zenon
  <2>3. CASE poll[q].name # b
    BY <2>1, <2>3
  <2>4. QED
    BY <2>2, <2>3
<1>7. EntriesFit'
  BY <1>3, <1>4, NoRunIsNone DEF ServiceInvariant, EntriesFit
<1>8. LoopFits'
  <2>1. CASE AsyncBackup(r, b)
    BY <1>0, <2>1 DEF AsyncBackup, Requested, LoopFits, TypeOK
  <2>2. CASE Backup(r, b)
    <3>1. UNCHANGED loop /\ (loop.pc # "idle" => loop.run \in Runs)
      BY <1>0, <2>2 DEF Backup, TypeOK
    <3>2. loop.pc \in {"submit", "set"} => loop.run # r
      BY <1>3 DEF ServiceInvariant, LoopFits
    <3>3. loop.pc = "set" => fut'[loop.run] = fut[loop.run]
      BY <1>5, <3>1 DEF ServiceInvariant, LoopFits
    <3>4. loop.pc = "set" => \A c \in Names : reg'[c].future # loop.run
      BY <1>4, <3>1, NoRunIsNone DEF ServiceInvariant, LoopFits
    <3>5. QED
      BY <1>3, <3>1, <3>2, <3>3, <3>4 DEF ServiceInvariant, LoopFits
  <2>3. QED
    BY <2>1, <2>2
<1>9. PollsRegistered'
  BY <1>2, <1>4, <1>6 DEF ServiceInvariant, PollsRegistered
<1>10. PollsKnow'
  <2> SUFFICES ASSUME NEW c \in Names, Watched(c)'
               PROVE  Settled(c)' /\ \A q \in Polls : poll'[q].name = c => PollKnows(q, c)'
    BY DEF PollsKnow
  <2>1. c # b
    BY <1>6 DEF Watched
  <2>2. Watched(c)
    BY <1>2, <1>6, <2>1 DEF Watched
  <2>3. Settled(c)
    BY <2>2 DEF ServiceInvariant, PollsKnow
  <2>4. \A s \in Runs : run[s].name = c /\ run[s].pc # "free" => fut'[s] = fut[s]
    BY <1>5, <2>1 DEF ServiceInvariant, EntriesFit
  <2>5. Settled(c)'
    BY <1>3, <2>1, <2>3, <2>4 DEF Settled, Of, Alive
  <2>6. Ended(c)' = Ended(c)
    <3>1. reg'[c] = reg[c] /\ reg[c].future \in Runs \cup {NoRun}
      BY <1>0, <1>4, <2>1 DEF TypeOK, Entry
    <3>2. reg[c].future \in Runs => fut'[reg[c].future] = fut[reg[c].future]
      BY <2>4 DEF ServiceInvariant, EntriesFit
    <3>3. QED
      BY <3>1, <3>2 DEF Ended
  <2>7. Outcome(c)' = Outcome(c)
    BY <1>2, <2>6 DEF Outcome
  <2>8. ASSUME NEW q \in Polls, poll'[q].name = c PROVE PollKnows(q, c)'
    <3>1. PollKnows(q, c) /\ poll'[q] = poll[q]
      BY <1>6, <2>1, <2>2, <2>8 DEF ServiceInvariant, PollsKnow
    <3>2. QED
      BY <1>4, <2>1, <2>6, <2>7, <3>1 DEF PollKnows
  <2>9. QED
    BY <2>5, <2>8
<1>11. QED
  BY <1>7, <1>8, <1>9, <1>10 DEF Told

\* A status request that reads: the registry does not change, and what it carries
\* on is what a watched name has to find.
LEMMA ReaderKnown ==
  ASSUME ServiceInvariant, NEW p \in Polls, UNCHANGED regVars, PollUnchanged,
         \A q \in Polls \ {p} : poll'[q] = poll[q],
         poll'[p].pc # "idle" =>
           /\ poll[p].pc # "idle"
           /\ poll'[p].name = poll[p].name /\ poll'[p].late = poll[p].late
           /\ up /\ poll'[p].pc \in {"future", "done", "again", "update", "record"} =>
                poll[p].name \in registered
           /\ Settled(poll[p].name) /\ PollKnows(p, poll[p].name) =>
                PollKnows(p, poll[p].name)'
  PROVE  Told'
<1>1. UNCHANGED <<up, registered, reg, manifest, run, fut, loop>>
  BY DEF regVars, PollUnchanged, storeVars
<1>2. EntriesFit' /\ LoopFits'
  BY <1>1 DEF ServiceInvariant, EntriesFit, LoopFits
<1>3. PollsRegistered'
  BY <1>1 DEF ServiceInvariant, PollsRegistered
<1>4. PollsKnow'
  <2> SUFFICES ASSUME NEW b \in Names, Watched(b)'
               PROVE  Settled(b)' /\ \A q \in Polls : poll'[q].name = b => PollKnows(q, b)'
    BY DEF PollsKnow
  <2>1. Watched(b)
    BY <1>1 DEF Watched
  <2>2. Settled(b)' /\ Settled(b)
    BY <1>1, <2>1 DEF ServiceInvariant, PollsKnow, Settled, Of, Alive
  <2>3. Ended(b)' = Ended(b) /\ Outcome(b)' = Outcome(b)
    BY <1>1 DEF Ended, Outcome
  <2>4. ASSUME NEW q \in Polls, poll'[q].name = b PROVE PollKnows(q, b)'
    <3>1. CASE q # p
      BY <1>1, <2>1, <2>3, <2>4, <3>1 DEF ServiceInvariant, PollsKnow, PollKnows
    <3>2. CASE q = p /\ poll'[p].pc # "idle"
      <4>1. PollKnows(p, b)
        BY <2>1, <2>4, <3>2 DEF ServiceInvariant, PollsKnow
      <4>2. QED
        BY <2>2, <2>4, <3>2, <4>1
    <3>3. CASE q = p /\ poll'[p].pc = "idle"
      BY <3>3 DEF PollKnows
    <3>4. QED
      BY <3>1, <3>2, <3>3
  <2>5. QED
    BY <2>2, <2>4
<1>5. QED
  BY <1>2, <1>3, <1>4 DEF Told

\* The steps of a status request that read.
LEMMA ReadTells ==
  ASSUME ServiceInvariant, NEW p \in Polls,
         \/ PollFinished(p) \/ PollRegister(p) \/ PollFuture(p)
         \/ PollDone(p) \/ PollAgain(p) \/ PollRecord(p)
  PROVE  Told'
<1>0. poll[p] \in PollState /\ poll \in [Polls -> PollState]
  BY DEF ServiceInvariant, TypeOK
<1> PICK b \in Names : b = poll[p].name
  BY <1>0 DEF PollState
<1>1. UNCHANGED regVars /\ PollUnchanged
  BY DEF PollFinished, PollRegister, PollFuture, PollDone, PollAgain, PollRecord
<1>2. UNCHANGED <<registered, reg, manifest, fut>>
  BY <1>1 DEF regVars, PollUnchanged, storeVars
<1>3. Ended(b)' = Ended(b) /\ Outcome(b)' = Outcome(b)
  BY <1>2 DEF Ended, Outcome
<1>4. CASE PollFinished(p)
  <2>1. /\ poll'[p].pc = "register" /\ poll[p].pc = "finished"
        /\ poll'[p].name = b /\ poll'[p].late = poll[p].late
        /\ \A q \in Polls \ {p} : poll'[q] = poll[q]
    BY <1>0, <1>4 DEF PollFinished, PollState
  <2>2. PollKnows(p, b)'
    BY <2>1 DEF PollKnows
  <2>3. QED
    BY <1>1, <2>1, <2>2, ReaderKnown
<1>5. CASE PollRegister(p)
  <2>1. /\ poll'[p].pc = (IF b \in registered THEN "future" ELSE "store")
        /\ poll[p].pc = "register"
        /\ poll'[p].name = b /\ poll'[p].late = poll[p].late
        /\ \A q \in Polls \ {p} : poll'[q] = poll[q]
    BY <1>0, <1>5 DEF PollRegister, Advance, PollState
  <2>2. PollKnows(p, b)'
    BY <1>2, <2>1 DEF PollKnows
  <2>3. QED
    BY <1>1, <2>1, <2>2, ReaderKnown
<1>6. CASE PollFuture(p)
  <2>0. \A q \in Polls \ {p} : poll'[q] = poll[q]
    BY <1>0, <1>6 DEF PollFuture
  <2>1. CASE b \in registered
    <3>1. /\ poll'[p].pc = "done" /\ poll[p].pc = "future"
          /\ poll'[p].name = b /\ poll'[p].late = poll[p].late
          /\ poll'[p].future = reg[b].future
      BY <1>0, <1>6, <2>1 DEF PollFuture, PollState
    <3>2. PollKnows(p, b)'
      BY <1>2, <3>1 DEF PollKnows
    <3>3. QED
      BY <1>1, <2>0, <2>1, <3>1, <3>2, ReaderKnown
  <2>2. CASE b \notin registered
    <3>1. poll'[p].pc = "idle"
      BY <1>0, <1>6, <2>2 DEF PollFuture, IdlePoll
    <3>2. QED
      BY <1>1, <2>0, <3>1, ReaderKnown
  <2>3. QED
    BY <2>1, <2>2
<1>7. CASE PollDone(p)
  <2> DEFINE f == IF poll[p].future = NoRun THEN "ok" ELSE fut[poll[p].future]
             answer == [pending |-> "in_progress", error |-> "failed"]
  <2>1. /\ poll[p].pc = "done"
        /\ \A q \in Polls \ {p} : poll'[q] = poll[q]
        /\ poll'[p] = CASE f \in {"pending", "error"} ->
                             [poll[p] EXCEPT !.pc = "update", !.status = answer[f]]
                        [] f = "ok" -> [poll[p] EXCEPT !.pc = "again"]
                        [] OTHER -> IdlePoll
    BY <1>0, <1>7 DEF PollDone
  <2>2. poll[p].future \in Runs \cup {NoRun}
    BY <1>0 DEF PollState
  <2>3. CASE f \in {"pending", "error"}
    <3>1. /\ poll'[p].pc = "update" /\ poll'[p].name = b /\ poll'[p].late = poll[p].late
          /\ f = "error" => poll'[p].status = "failed"
      BY <1>0, <2>1, <2>3 DEF PollState
    <3>2. poll[p].future \in Runs /\ fut[poll[p].future] = f
      BY <2>2, <2>3
    <3>3. Settled(b) /\ PollKnows(p, b) => PollKnows(p, b)'
      <4> SUFFICES ASSUME Settled(b), PollKnows(p, b) PROVE PollKnows(p, b)'
        OBVIOUS
      <4>1. reg[b].future = poll[p].future
        BY <2>1 DEF PollKnows
      <4>2. poll[p].future \in Of(b)
        BY <3>2, <4>1 DEF ServiceInvariant, EntriesFit, Of
      <4>3. f = "error"
        BY <2>3, <3>2, <4>2 DEF Settled
      <4>4. ~Ended(b)
        BY <3>2, <4>1, <4>3, NoRunIsNone DEF Ended
      <4>5. QED
        BY <1>3, <3>1, <4>3, <4>4 DEF PollKnows, Outcome
    <3>4. b \in registered \/ ~up
      BY <2>1 DEF ServiceInvariant, PollsRegistered
    <3>5. QED
      BY <1>1, <2>1, <3>1, <3>3, <3>4, ReaderKnown
  <2>4. CASE f = "ok"
    <3>1. poll'[p].pc = "again" /\ poll'[p].name = b /\ poll'[p].late = poll[p].late
      BY <1>0, <2>1, <2>4 DEF PollState
    <3>2. PollKnows(p, b) => PollKnows(p, b)'
      BY <1>3, <2>1, <2>4, <3>1 DEF PollKnows, Ended
    <3>3. b \in registered \/ ~up
      BY <2>1 DEF ServiceInvariant, PollsRegistered
    <3>4. QED
      BY <1>1, <2>1, <3>1, <3>2, <3>3, ReaderKnown
  <2>5. CASE f \notin {"pending", "error", "ok"}
    <3>1. poll'[p].pc = "idle"
      BY <2>1, <2>5 DEF IdlePoll
    <3>2. QED
      BY <1>1, <2>1, <3>1, ReaderKnown
  <2>6. QED
    BY <2>3, <2>4, <2>5
<1>8. CASE PollAgain(p)
  <2>1. /\ poll[p].pc = "again" /\ poll'[p].pc = "update"
        /\ poll'[p].name = b /\ poll'[p].late = poll[p].late
        /\ poll'[p].status = IF poll[p].seen \/ b \in manifest THEN "success" ELSE "failed"
        /\ \A q \in Polls \ {p} : poll'[q] = poll[q]
    BY <1>0, <1>8 DEF PollAgain, PollState
  <2>2. poll'[p].status = IF b \in manifest THEN "success" ELSE "failed"
    BY <2>1 DEF ServiceInvariant, PollCarries
  <2>3. PollKnows(p, b) => PollKnows(p, b)'
    BY <1>3, <2>1, <2>2 DEF PollKnows, Outcome
  <2>4. b \in registered \/ ~up
    BY <2>1 DEF ServiceInvariant, PollsRegistered
  <2>5. QED
    BY <1>1, <2>1, <2>3, <2>4, ReaderKnown
<1>9. CASE PollRecord(p)
  <2>1. poll'[p].pc = "idle" /\ \A q \in Polls \ {p} : poll'[q] = poll[q]
    BY <1>0, <1>9 DEF PollRecord, IdlePoll
  <2>2. QED
    BY <1>1, <2>1, ReaderKnown
<1>10. QED
  BY <1>4, <1>5, <1>6, <1>7, <1>8, <1>9

\* register_backup without overwriting: the others are no longer late, and those of
\* this name have not looked for an entry yet if this one still is.
LEMMA StoreTells ==
  ASSUME ServiceInvariant, NEW p \in Polls, PollStore(p)
  PROVE  Told'
<1>0. TypeOK /\ poll[p] \in PollState
  BY DEF ServiceInvariant, TypeOK
<1> PICK b \in Names : b = poll[p].name
  BY <1>0 DEF PollState
<1>1. UNCHANGED <<up, manifest, run, fut, loop>>
  BY DEF PollStore, PollUnchanged, storeVars
<1>2. /\ registered' = registered \cup {b} /\ reg'[b].future = NoRun
      /\ \A c \in Names \ {b} : reg'[c] = reg[c]
  BY <1>0 DEF PollStore, Unknown, TypeOK
<1>3. /\ poll[p].pc = "store" /\ poll'[p].pc = "future"
      /\ poll'[p].name = b /\ poll'[p].late = poll[p].late
  BY <1>0 DEF PollStore, PollState
<1>4. ASSUME NEW q \in Polls \ {p}
      PROVE  /\ poll'[q].name = poll[q].name /\ poll'[q].pc = poll[q].pc
             /\ poll[q].name = b => poll'[q].late = FALSE
             /\ poll[q].name # b => poll'[q] = poll[q]
  <2>1. poll'[q] = IF poll[q].name = b THEN [poll[q] EXCEPT !.late = FALSE] ELSE poll[q]
    BY DEF PollStore
  <2>2. CASE poll[q].name = b
    <3>1. poll'[q] = [poll[q] EXCEPT !.late = FALSE]
      BY <2>1, <2>2
    <3>2. poll'[q].late = FALSE /\ poll'[q].pc = poll[q].pc /\ poll'[q].name = poll[q].name
      BY <1>0, <3>1, LateOver, Zenon
    <3>3. QED
      BY <2>2, <3>2, Zenon
  <2>3. CASE poll[q].name # b
    BY <2>1, <2>3
  <2>4. QED
    BY <2>2, <2>3
<1>5. EntriesFit' /\ LoopFits'
  BY <1>0, <1>1, <1>2, NoRunIsNone DEF ServiceInvariant, EntriesFit, LoopFits, TypeOK
<1>6. PollsRegistered'
  BY <1>1, <1>2, <1>3, <1>4 DEF ServiceInvariant, PollsRegistered
<1>7. ASSUME NEW c \in Names, Watched(c)'
      PROVE  Settled(c)' /\ \A q \in Polls : poll'[q].name = c => PollKnows(q, c)'
  <2>1. Watched(c)
    BY <1>1, <1>3, <1>4, <1>7 DEF Watched
  <2>2. Settled(c)'
    BY <1>1, <2>1 DEF ServiceInvariant, PollsKnow, Settled, Of, Alive
  <2>3. CASE c = b
    <3>1. poll[p].late
      BY <1>3, <1>4, <1>7, <2>3 DEF Watched
    <3>2. b \notin registered /\ up
      BY <1>3, <2>1, <2>3, <3>1 DEF ServiceInvariant, PollsKnow, PollKnows, Watched
    <3>3. ASSUME NEW q \in Polls, poll'[q].name = b PROVE PollKnows(q, b)'
      <4>1. CASE q = p
        BY <1>3, <4>1 DEF PollKnows
      <4>2. CASE q # p
        <5>1. poll[q].name = b /\ poll'[q].pc = poll[q].pc /\ poll'[q].late = FALSE
          BY <1>4, <3>3, <4>2
        <5>2. poll[q].pc \notin {"future", "done", "again", "update", "record"}
          BY <3>2, <5>1 DEF ServiceInvariant, PollsRegistered
        <5>3. QED
          BY <5>1, <5>2 DEF PollKnows
      <4>3. QED
        BY <4>1, <4>2
    <3>4. QED
      BY <2>2, <2>3, <3>3
  <2>4. CASE c # b
    <3>1. Ended(c)' = Ended(c) /\ Outcome(c)' = Outcome(c)
      BY <1>1, <1>2, <2>4 DEF Ended, Outcome
    <3>2. ASSUME NEW q \in Polls, poll'[q].name = c PROVE PollKnows(q, c)'
      <4>1. poll'[q] = poll[q]
        BY <1>3, <1>4, <2>4, <3>2
      <4>2. PollKnows(q, c)
        BY <2>1, <3>2, <4>1 DEF ServiceInvariant, PollsKnow
      <4>3. QED
        BY <1>2, <2>4, <3>1, <4>1, <4>2 DEF PollKnows
    <3>3. QED
      BY <2>2, <3>2
  <2>5. QED
    BY <2>3, <2>4
<1>8. QED
  BY <1>5, <1>6, <1>7 DEF Told, PollsKnow

\* update_backup_status by a status request: of a watched name, late or not, it
\* writes the outcome.
LEMMA UpdateTells ==
  ASSUME ServiceInvariant, NEW p \in Polls, PollUpdate(p)
  PROVE  Told'
<1>0. TypeOK /\ poll[p] \in PollState
  BY DEF ServiceInvariant, TypeOK
<1> PICK b \in Names : b = poll[p].name
  BY <1>0 DEF PollState
<1>1. UNCHANGED <<up, registered, manifest, run, fut, loop>>
  BY DEF PollUpdate, PollUnchanged, storeVars
<1>2. /\ \A c \in Names : reg'[c].future = reg[c].future
      /\ \A c \in Names \ {b} : reg'[c] = reg[c]
      /\ b \in registered => reg'[b].status = poll[p].status
  BY <1>0 DEF PollUpdate, UpdateStatus, TypeOK, Entry
<1>3. /\ poll[p].pc = "update"
      /\ b \in registered => /\ poll'[p].pc = "record" /\ poll'[p].name = b
                             /\ poll'[p].late = poll[p].late
      /\ b \notin registered => poll'[p].pc = "idle"
      /\ \A q \in Polls \ {p} : poll'[q] = poll[q]
  BY <1>0 DEF PollUpdate, TypeOK, PollState, IdlePoll
<1>4. EntriesFit' /\ LoopFits'
  BY <1>0, <1>1, <1>2 DEF ServiceInvariant, EntriesFit, LoopFits, TypeOK
<1>5. PollsRegistered'
  BY <1>1, <1>3 DEF ServiceInvariant, PollsRegistered
<1>6. ASSUME NEW c \in Names, Watched(c)'
      PROVE  Settled(c)' /\ \A q \in Polls : poll'[q].name = c => PollKnows(q, c)'
  <2>1. Watched(c)
    BY <1>1, <1>3, <1>6 DEF Watched
  <2>2. Settled(c)'
    BY <1>1, <2>1 DEF ServiceInvariant, PollsKnow, Settled, Of, Alive
  <2>3. Ended(c)' = Ended(c) /\ Outcome(c)' = Outcome(c)
    BY <1>1, <1>2 DEF Ended, Outcome
  <2>4. c = b /\ b \in registered => reg'[b].status = Outcome(b)
    BY <1>2, <1>3, <2>1 DEF ServiceInvariant, PollsKnow, PollKnows
  <2>5. ASSUME NEW q \in Polls, poll'[q].name = c PROVE PollKnows(q, c)'
    <3>1. CASE q = p
      BY <1>3, <2>3, <2>4, <2>5, <3>1 DEF PollKnows
    <3>2. CASE q # p
      <4>1. poll'[q] = poll[q] /\ PollKnows(q, c)
        BY <1>3, <2>1, <2>5, <3>2 DEF ServiceInvariant, PollsKnow
      <4>2. c = b /\ poll[q].pc = "record" /\ poll[q].late => b \in registered
        BY <2>1, <2>5, <4>1 DEF ServiceInvariant, PollsRegistered, Watched
      <4>3. c # b => reg'[c] = reg[c]
        BY <1>2
      <4>4. poll[q].pc = "record" /\ poll[q].late => reg'[c].status = Outcome(c)
        BY <2>4, <4>1, <4>2, <4>3 DEF PollKnows
      <4>5. QED
        BY <1>1, <1>2, <2>3, <4>1, <4>4 DEF PollKnows
    <3>3. QED
      BY <3>1, <3>2
  <2>6. QED
    BY <2>2, <2>5
<1>7. QED
  BY <1>4, <1>5, <1>6 DEF Told, PollsKnow

\* A status request begins: it is late only when the name is settled and whoever
\* asks for it already is late, too.
LEMMA BeginTells ==
  ASSUME ServiceInvariant, NEW p \in Polls, NEW b \in Names, BackupStatus(p, b)
  PROVE  Told'
<1> DEFINE late == /\ Settled(b)
                   /\ \A q \in Polls : poll[q].pc # "idle" /\ poll[q].name = b => poll[q].late
<1>0. TypeOK
  BY DEF ServiceInvariant
<1>1. UNCHANGED <<up, registered, reg, manifest, run, fut, loop>> /\ up
  BY DEF BackupStatus, PollUnchanged, storeVars, regVars
<1>2. /\ poll[p].pc = "idle" /\ poll'[p].pc = "finished" /\ poll'[p].name = b
      /\ \A q \in Polls \ {p} : poll'[q] = poll[q]
  BY <1>0 DEF BackupStatus, TypeOK, IdlePoll
<1>3. poll'[p].late => late
  <2>1. poll'[p] = [IdlePoll EXCEPT !.pc = "finished", !.name = b, !.late = late]
    BY <1>0, Zenon DEF BackupStatus, TypeOK
  <2> HIDE DEF late
  <2>2. QED
    BY <2>1 DEF IdlePoll
<1>4. EntriesFit' /\ LoopFits'
  BY <1>1 DEF ServiceInvariant, EntriesFit, LoopFits
<1>5. PollsRegistered'
  BY <1>1, <1>2 DEF ServiceInvariant, PollsRegistered
<1>6. ASSUME NEW c \in Names, Watched(c)'
      PROVE  Settled(c)' /\ \A q \in Polls : poll'[q].name = c => PollKnows(q, c)'
  <2>1. Watched(c) \/ (c = b /\ late)
    BY <1>1, <1>2, <1>3, <1>6 DEF Watched
  <2>2. Settled(c)
    BY <2>1 DEF ServiceInvariant, PollsKnow
  <2>3. Settled(c)'
    BY <1>1, <2>2 DEF Settled, Of, Alive
  <2>4. Ended(c)' = Ended(c) /\ Outcome(c)' = Outcome(c)
    BY <1>1 DEF Ended, Outcome
  <2>5. ASSUME NEW q \in Polls, poll'[q].name = c PROVE PollKnows(q, c)'
    <3>1. CASE poll'[q].pc \in {"idle", "finished"}
      BY <3>1 DEF PollKnows
    <3>2. CASE poll'[q].pc \notin {"idle", "finished"}
      <4>1. poll'[q] = poll[q]
        BY <1>2, <3>2
      <4>2. Watched(c)
        BY <1>1, <2>1, <2>5, <3>2, <4>1 DEF Watched
      <4>3. PollKnows(q, c)
        BY <2>5, <4>1, <4>2 DEF ServiceInvariant, PollsKnow
      <4>4. QED
        BY <1>1, <2>4, <4>1, <4>3 DEF PollKnows
    <3>3. QED
      BY <3>1, <3>2
  <2>6. QED
    BY <2>3, <2>5
<1>7. QED
  BY <1>4, <1>5, <1>6 DEF Told, PollsKnow

\* When the service is shut down nothing is watched, and in a new process no
\* future is known.
LEMMA EndTells ==
  ASSUME ServiceInvariant, Shutdown \/ Restart \/ Crash
  PROVE  Told'
<1>0. Shutdown \/ Fresh
  BY DEF Restart, Crash
<1>1. \A b \in Names : reg'[b].future = NoRun
  <2>1. reg' = [b \in Names |-> Unknown]
    BY <1>0 DEF Shutdown, Fresh
  <2>2. QED
    BY <2>1 DEF Unknown
<1>2. loop'.pc = "idle"
  <2>1. (loop' = loop /\ loop.pc = "idle") \/ loop' = IdleLoop
    BY <1>0 DEF Shutdown, Fresh
  <2>2. QED
    BY <2>1 DEF IdleLoop
<1>3. ~up' \/ \A p \in Polls : poll'[p].pc = "idle"
  <2>1. ~up' \/ poll' = [p \in Polls |-> IdlePoll]
    BY <1>0 DEF Shutdown, Fresh
  <2>2. QED
    BY <2>1 DEF IdlePoll
<1>4. EntriesFit' /\ LoopFits'
  BY <1>1, <1>2, NoRunIsNone DEF EntriesFit, LoopFits
<1>5. PollsRegistered' /\ PollsKnow'
  BY <1>3 DEF PollsRegistered, PollsKnow, Watched
<1>6. QED
  BY <1>4, <1>5 DEF Told

\* Every step keeps the invariant, unless deletions are used.
LEMMA ServiceNext ==
  ASSUME ~Deletes PROVE ServiceInvariant /\ [Next]_vars => ServiceInvariant'
<1> SUFFICES ASSUME ServiceInvariant, [Next]_vars
             PROVE  PollCarries' /\ RunCarries' /\ NothingDeleted' /\ SuccessIsComplete' /\ Told'
  BY TypeNext DEF ServiceInvariant, Told
<1> USE DEF ServiceInvariant
<1>1. CASE \/ \E r \in Runs, b \in Names : AsyncBackup(r, b) \/ Backup(r, b)
           \/ LoopStep
           \/ \E r \in Runs : RunStep(r)
  BY <1>1, BackupKeepsSuccess, RequestTells, LoopTells, RunTells
<1>2. CASE \E p \in Polls : PollStep(p) \/ (\E b \in Names : BackupStatus(p, b))
  BY <1>2, PollKeepsSuccess, BeginTells, ReadTells, StoreTells, UpdateTells DEF PollStep
<1>3. CASE \E r \in Runs : Resolve(r) \/ CancelQueued(r)
  BY <1>3, RunTells DEF Resolve, CancelQueued, PollCarries, RunCarries, NothingDeleted,
     SuccessIsComplete, regVars, storeVars, TypeOK, RunState
<1>4. CASE DeleteStep \/ (\E b \in Names : DeleteBackup(b) \/ PurgeBackups(b))
  BY <1>4 DEF DeleteStep, DeleteLists, DeleteManifest, DeleteSchema, HandleBackupRemoval,
     DeleteFails, DeleteBackup, PurgeBackups, NothingDeleted
<1>5. CASE Shutdown
  BY <1>5, EndTells DEF Shutdown, PollCarries, RunCarries, NothingDeleted, SuccessIsComplete, storeVars
<1>6. CASE Restart \/ Crash
  <2>1. Fresh
    BY <1>6 DEF Restart, Crash
  <2>2. RunCarries'
    <3>1. CASE Restart
      BY <3>1, <2>1 DEF Restart, Fresh, storeVars, RunCarries
    <3>2. CASE Crash
      <4>1. \A r \in Runs : run'[r].pc = "finish" => run'[r] = run[r]
        BY <3>2 DEF Crash, TypeOK, RunState
      <4>2. QED
        BY <4>1, <2>1 DEF Fresh, storeVars, RunCarries
    <3>3. QED
      BY <1>6, <3>1, <3>2
  <2>3. QED
    BY <1>6, <2>1, <2>2, EndTells DEF Fresh, PollCarries, NothingDeleted, SuccessIsComplete, IdlePoll, NoDelete
<1>7. CASE UNCHANGED vars
  <2>1. PollCarries' /\ RunCarries' /\ NothingDeleted' /\ SuccessIsComplete'
    BY <1>7 DEF vars, regVars, storeVars, PollCarries, RunCarries, NothingDeleted,
       SuccessIsComplete
  <2>2. EntriesFit' /\ LoopFits' /\ PollsRegistered'
    BY <1>7 DEF vars, regVars, EntriesFit, LoopFits, PollsRegistered
  <2>3. PollsKnow'
    BY <1>7 DEF vars, regVars, storeVars, PollsKnow, Watched, Settled, Of, Alive, PollKnows,
       Ended, Outcome
  <2>4. QED
    BY <2>1, <2>2, <2>3 DEF Told
<1>8. QED
  BY <1>1, <1>2, <1>3, <1>4, <1>5, <1>6, <1>7 DEF Next, BackupNotFound

\* Without deletions the invariant always holds, for any number of requests,
\* retries, status requests served at once, shutdowns and crashes.
THEOREM ServiceInvariantHolds == ASSUME ~Deletes PROVE Spec => []ServiceInvariant
<1>1. QED
  BY ServiceInit, ServiceNext, PTL DEF Spec

\* BackupMan never calls a backup a success that has no manifest in the storage.
THEOREM SuccessIsTrue == ASSUME ~Deletes PROVE Spec => []SuccessIsComplete
<1>1. ServiceInvariant => SuccessIsComplete
  BY DEF ServiceInvariant
<1>2. QED
  BY <1>1, ServiceInvariantHolds, PTL

\* A status request that begins after the end of a backup answers with the outcome,
\* for any number of requests, threads, retries and restarts (BackupStatus,
\* _determine_backup_status).
THEOREM StatusTellsEnd == ASSUME ~Deletes PROVE Spec => []PollTellsEnd
<1>1. ServiceInvariant => PollTellsEnd
  <2> SUFFICES ASSUME ServiceInvariant, NEW p \in Polls,
                      up, poll[p].pc = "record", poll[p].late, poll[p].name \in registered
               PROVE  reg[poll[p].name].status = Outcome(poll[p].name)
    BY DEF PollTellsEnd, Outcome, Ended
  <2>1. poll[p].name \in Names
    BY DEF ServiceInvariant, TypeOK, PollState
  <2>2. Watched(poll[p].name)
    BY DEF Watched
  <2>3. QED
    BY <2>1, <2>2 DEF ServiceInvariant, PollsKnow, PollKnows
<1>2. QED
  BY <1>1, ServiceInvariantHolds, PTL

==============================================================================
