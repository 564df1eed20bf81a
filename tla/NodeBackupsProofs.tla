------------------------- MODULE NodeBackupsProofs -------------------------
(****************************************************************************)
(* Proofs about NodeBackups, for any number of names, files and failures.   *)
(****************************************************************************)
EXTENDS NodeBackups, FiniteSetTheorems, TLAPS

------------------------------------------------------------------------------
(* The type invariant                                                       *)

\* No backup runs.
LEMMA IdleType == Idle \in BackupState
BY DEF Idle, BackupState, BackupSteps, Owners

\* No purge runs.
LEMMA NoPurgeType == NoPurge \in PurgeState
BY DEF NoPurge, PurgeState, PurgeSteps

\* Advance moves the program counter of one backup and nothing else.
LEMMA AdvanceMoves ==
  ASSUME bk \in [Names -> BackupState], NEW b \in Names, NEW from,
         NEW to \in BackupSteps, Advance(b, from, to)
  PROVE  /\ bk' \in [Names -> BackupState]
         /\ \A c \in Names \ {b} : bk'[c] = bk[c]
         /\ bk[b].pc = from
         /\ bk'[b].pc = to
         /\ bk'[b].mode = bk[b].mode
         /\ bk'[b].owner = bk[b].owner /\ bk'[b].since = bk[b].since
         /\ bk'[b].todo = bk[b].todo
         /\ bk'[b].kept = bk[b].kept
         /\ bk'[b].sent = bk[b].sent
<1>1. bk[b] \in BackupState
  OBVIOUS
<1>2. [bk[b] EXCEPT !.pc = to] \in BackupState
  BY <1>1 DEF BackupState
<1>3. bk' = [bk EXCEPT ![b] = [bk[b] EXCEPT !.pc = to]]
  BY DEF Advance
<1>4. bk'[b] = [bk[b] EXCEPT !.pc = to]
  BY <1>3
<1> QED
  BY <1>1, <1>2, <1>3, <1>4 DEF Advance, BackupState

\* The start time a running backup reads is a time.
LEMMA StartedTimesType ==
  ASSUME TypeOK, NEW b \in Names
  PROVE  StartedTimes(b) \subseteq Nat
BY DEF StartedTimes, TypeOK, BackupState

\* A backup starts with nothing to upload, to keep or sent.
LEMMA StartMoves ==
  ASSUME TypeOK, NEW b \in Names, NEW mode \in Modes, NEW keep \in KeepFlags,
         NEW owner \in SnapshotOwners, HandleBackup(b, mode, keep, owner)
  PROVE  /\ bk' \in [Names -> BackupState]
         /\ \A c \in Names \ {b} : bk'[c] = bk[c]
         /\ bk'[b].pc = "schema" /\ bk'[b].since = now
         /\ bk'[b].todo = {} /\ bk'[b].kept = {} /\ bk'[b].sent = {}
<1> DEFINE found == {t \in {born[b]} : Exists(b)}
           r == [Idle EXCEPT !.pc = "schema", !.mode = mode, !.keep = keep,
                             !.owner = owner, !.since = now, !.cached = found]
<1>0. found \in SUBSET Nat
  BY DEF TypeOK
<1>1. r \in BackupState
  <2> HIDE DEF found
  <2> QED BY <1>0, IdleType, OptionsInUse DEF BackupState, BackupSteps, TypeOK
<1>2. r.pc = "schema" /\ r.since = now /\ r.todo = {} /\ r.kept = {} /\ r.sent = {}
  BY DEF Idle
<1>3. bk' = [bk EXCEPT ![b] = r]
  BY DEF HandleBackup
<1> HIDE DEF r
<1> QED
  BY <1>1, <1>2, <1>3 DEF TypeOK

\* Listing the storage splits the wanted files into those kept and those to upload.
LEMMA ListMoves ==
  ASSUME TypeOK, NEW b \in Names, ListStorage(b)
  PROVE  /\ bk' \in [Names -> BackupState]
         /\ \A c \in Names \ {b} : bk'[c] = bk[c]
         /\ bk[b].pc = "list" /\ bk'[b].pc = "upload"
         /\ bk'[b].mode = bk[b].mode /\ bk'[b].owner = bk[b].owner /\ bk'[b].since = bk[b].since
         /\ bk'[b].kept = Wanted(b) \cap (blobs \ torn)
         /\ bk'[b].todo = Wanted(b) \ (blobs \ torn)
         /\ bk'[b].sent = bk[b].sent
<1> DEFINE kept == Wanted(b) \cap (blobs \ torn)
           r == [bk[b] EXCEPT !.pc = "upload", !.kept = kept, !.todo = Wanted(b) \ kept]
<1>1. bk[b] \in BackupState /\ bk \in [Names -> BackupState]
  BY DEF TypeOK
<1>2. Tag(b) \in Tags
  BY <1>1 DEF Tag, Tags, BackupState
<1>3. Wanted(b) \subseteq Files
  BY <1>2 DEF Wanted, TypeOK
<1>4. r \in BackupState
  BY <1>1, <1>3 DEF BackupState, BackupSteps
<1>5. bk' = [bk EXCEPT ![b] = r]
  BY DEF ListStorage
<1>6. bk'[b] = r
  BY <1>1, <1>5
<1>7. /\ r.pc = "upload" /\ r.mode = bk[b].mode /\ r.owner = bk[b].owner /\ r.since = bk[b].since
      /\ r.sent = bk[b].sent
      /\ r.kept = kept /\ r.todo = Wanted(b) \ kept
  BY <1>1 DEF BackupState
<1>8. Wanted(b) \ kept = Wanted(b) \ (blobs \ torn)
  OBVIOUS
<1>9. bk' \in [Names -> BackupState] /\ \A c \in Names \ {b} : bk'[c] = bk[c]
  <2> HIDE DEF r
  <2> QED BY <1>1, <1>4, <1>5
<1> HIDE DEF r
<1> QED
  BY <1>6, <1>7, <1>8, <1>9 DEF ListStorage

\* An upload moves one file from those to upload to those sent.
LEMMA UploadMoves ==
  ASSUME TypeOK, NEW b \in Names, NEW f \in Files, Upload(b, f)
  PROVE  /\ bk' \in [Names -> BackupState]
         /\ \A c \in Names \ {b} : bk'[c] = bk[c]
         /\ bk[b].pc = "upload" /\ bk'[b].pc = "upload"
         /\ bk'[b].mode = bk[b].mode /\ bk'[b].owner = bk[b].owner /\ bk'[b].since = bk[b].since
         /\ bk'[b].kept = bk[b].kept
         /\ bk'[b].todo = bk[b].todo \ {f}
         /\ bk'[b].sent = bk[b].sent \cup {f}
<1> DEFINE r == [bk[b] EXCEPT !.todo = @ \ {f}, !.sent = @ \cup {f}]
<1>1. bk[b] \in BackupState /\ bk \in [Names -> BackupState]
  BY DEF TypeOK
<1>2. r \in BackupState
  BY <1>1 DEF BackupState
<1>3. bk' = [bk EXCEPT ![b] = r]
  BY DEF Upload
<1>4. bk'[b] = r
  BY <1>1, <1>3
<1>5. /\ r.pc = bk[b].pc /\ r.mode = bk[b].mode /\ r.owner = bk[b].owner /\ r.since = bk[b].since
      /\ r.kept = bk[b].kept
      /\ r.todo = bk[b].todo \ {f} /\ r.sent = bk[b].sent \cup {f}
  BY <1>1 DEF BackupState
<1>6. bk' \in [Names -> BackupState] /\ \A c \in Names \ {b} : bk'[c] = bk[c]
  <2> HIDE DEF r
  <2> QED BY <1>1, <1>2, <1>3
<1> HIDE DEF r
<1> QED
  BY <1>4, <1>5, <1>6 DEF Upload

\* A backup that ends, well or not.
LEMMA EndMoves ==
  ASSUME TypeOK, NEW b \in Names, SetLatest(b) \/ BackupFails(b) \/ BackupCrashes(b)
  PROVE  /\ bk' \in [Names -> BackupState]
         /\ \A c \in Names \ {b} : bk'[c] = bk[c]
         /\ bk'[b] = Idle
BY IdleType DEF TypeOK, SetLatest, BackupFails, BackupCrashes

\* The snapshot tag of a backup.
LEMMA TagType == ASSUME TypeOK, NEW b \in Names PROVE Tag(b) \in Tags
BY DEF TypeOK, BackupState, Tag, Tags

\* The type invariant holds at first, ...
LEMMA TypeInit == Init => TypeOK
BY IdleType, NoPurgeType DEF Init, TypeOK, Tags, Owners

\* ... after every step of a backup, ...
LEMMA BackupStepType ==
  ASSUME TypeOK, NEW b \in Names, BackupStep(b) PROVE TypeOK'
<1> USE DEF TypeOK, nodeVars, dataVars, metaVars, indexVars
<1>1. CASE SaveSchema(b)
  <2>1. bk' \in [Names -> BackupState]
    BY <1>1, AdvanceMoves DEF SaveSchema, BackupSteps
  <2> QED BY <1>1, <2>1 DEF SaveSchema, MetaKinds
<1>2. CASE SaveTokenmap(b) \/ SaveServerVersion(b) \/ SaveDifferential(b)
  <2>1. bk' \in [Names -> BackupState]
    BY <1>2, AdvanceMoves
       DEF SaveTokenmap, SaveServerVersion, SaveDifferential, SaveMeta, BackupSteps
  <2> QED
    BY <1>2, <2>1 DEF SaveTokenmap, SaveServerVersion, SaveDifferential, SaveMeta, MetaKinds
<1>3. CASE IndexTokenmap(b) \/ IndexDifferential(b) \/ IndexManifest(b) \/ IndexFinished(b)
  <2>1. bk' \in [Names -> BackupState]
    BY <1>3, AdvanceMoves
       DEF IndexTokenmap, IndexDifferential, IndexManifest, IndexFinished, SaveIndex, BackupSteps
  <2> QED
    BY <1>3, <2>1
       DEF IndexTokenmap, IndexDifferential, IndexManifest, IndexFinished, SaveIndex, IndexKinds
<1>4. CASE IndexSchema(b) \/ IndexStarted(b)
  <2>1. bk' \in [Names -> BackupState]
    BY <1>4, AdvanceMoves DEF IndexSchema, IndexStarted, SaveIndex, BackupSteps
  <2> QED
    BY <1>4, <2>1, StartedTimesType DEF IndexSchema, IndexStarted, SaveIndex, IndexKinds
<1>5. CASE Stagger(b)
  <2>1. bk' \in [Names -> BackupState]
    BY <1>5, AdvanceMoves DEF Stagger, BackupSteps
  <2> QED BY <1>5, <2>1 DEF Stagger, RemoveGhosts
<1>6. CASE TakeSnapshot(b) \/ LeaveSnapshot(b)
  <2>1. bk' \in [Names -> BackupState]
    BY <1>6, AdvanceMoves DEF TakeSnapshot, LeaveSnapshot, BackupSteps
  <2>2. Tag(b) \in Tags
    BY TagType
  <2> QED
    BY <1>6, <2>1, <2>2 DEF TakeSnapshot, LeaveSnapshot, ExitSnapshot, LiveFiles
<1>7. CASE ListStorage(b)
  BY <1>7, ListMoves DEF ListStorage
<1>8. ASSUME NEW f \in Files, Upload(b, f) PROVE TypeOK'
  BY <1>8, UploadMoves DEF Upload
<1>9. CASE SaveManifest(b)
  <2>1. bk' \in [Names -> BackupState]
    BY <1>9, AdvanceMoves DEF SaveManifest, BackupSteps
  <2>2. bk[b].kept \cup bk[b].sent \subseteq Files
    BY DEF BackupState
  <2> QED BY <1>9, <2>1, <2>2 DEF SaveManifest, MetaKinds
<1>10. CASE SetLatest(b)
  BY <1>10, EndMoves DEF SetLatest
<1> QED
  BY BackupStep(b), <1>1, <1>2, <1>3, <1>4, <1>5, <1>6, <1>7, <1>8, <1>9, <1>10 DEF BackupStep

\* ... after every step of a purge, ...
LEMMA PurgeStepType == ASSUME TypeOK, PurgeStep PROVE TypeOK'
<1> USE DEF TypeOK, nodeVars, dataVars, metaVars, indexVars
<1>1. ASSUME NEW b \in Names, PurgeBackup(b) PROVE TypeOK'
  BY <1>1 DEF PurgeBackup, PurgeState, PurgeSteps
<1>2. ASSUME NEW c \in Names, NEW k \in MetaKinds, PurgeObject(c, k) PROVE TypeOK'
  BY <1>2 DEF PurgeObject, PurgeState
<1>3. CASE CleanBackupFromIndex
  BY <1>3 DEF CleanBackupFromIndex, PurgeState, PurgeSteps
<1>4. ASSUME NEW c \in Names, NEW k \in IndexKinds, CleanIndexObject(c, k) PROVE TypeOK'
  BY <1>4 DEF CleanIndexObject, PurgeState
<1>5. CASE BackupPurged
  BY <1>5 DEF BackupPurged, PurgeState, PurgeSteps
<1>6. CASE ReadManifests
  <2>1. CompleteDifferential \subseteq Names
    BY DEF CompleteDifferential, ListedBackups, Entries
  <2>2. UNION {manifest[b] : b \in CompleteDifferential} \subseteq Files
    BY <2>1
  <2>3. pg' \in PurgeState
    BY <1>6, <2>2 DEF ReadManifests, PurgeState, PurgeSteps
  <2> QED
    BY <1>6, <2>3 DEF ReadManifests, RemoveGhosts
<1>7. CASE ScanStorage
  <2>1. now - Grace \in Int
    BY PeriodsAreNaturals
  <2>2. pg' \in PurgeState
    BY <1>7, <2>1 DEF ScanStorage, PurgeState, PurgeSteps
  <2> QED
    BY <1>7, <2>2 DEF ScanStorage
<1>8. ASSUME NEW f \in Files, DeleteOrphan(f) PROVE TypeOK'
  BY <1>8 DEF DeleteOrphan, PurgeState
<1>9. CASE PurgeEnds
  BY <1>9, NoPurgeType DEF PurgeEnds
<1> QED
  BY PurgeStep, <1>1, <1>2, <1>3, <1>4, <1>5, <1>6, <1>7, <1>8, <1>9 DEF PurgeStep

\* ... when a purge starts ...
LEMMA StartPurgingType ==
  ASSUME TypeOK, NEW targets \in SUBSET Names, StartPurging(targets) PROVE TypeOK'
<1>1. pg' \in PurgeState
  BY NoPurgeType DEF TypeOK, StartPurging, PurgeState, PurgeSteps
<1> QED
  BY <1>1 DEF TypeOK, StartPurging, RemoveGhosts, nodeVars, dataVars, metaVars, indexVars

\* (whose targets are names of backups), ...
LEMMA ToPurgeAreNames == BackupsToPurgeByAge \cup BackupsToPurgeByCount \subseteq Names
<1>1. ListedBackups \subseteq Names
  BY DEF ListedBackups, Entries
<1> QED
  BY <1>1 DEF BackupsToPurgeByAge, BackupsToPurgeByCount

\* ... and after every other step.
LEMMA TypeNext == TypeOK /\ [Next]_vars => TypeOK'
<1> SUFFICES ASSUME TypeOK, [Next]_vars PROVE TypeOK'
  OBVIOUS
<1>1. CASE Tick
  BY <1>1 DEF Tick, TypeOK, nodeVars, dataVars, metaVars, indexVars
<1>2. ASSUME NEW f \in Files, Flush(f) \/ Compact(f) PROVE TypeOK'
  BY <1>2 DEF Flush, Compact, TypeOK, dataVars, metaVars, indexVars
<1>3. CASE LoseIndex
  BY <1>3 DEF LoseIndex, TypeOK, nodeVars, dataVars, metaVars
<1>4. ASSUME NEW b \in Names, OperatorSnapshot(b) PROVE TypeOK'
  BY <1>4 DEF OperatorSnapshot, LiveFiles, TypeOK, Tags, Owners, dataVars, metaVars, indexVars
<1>5. ASSUME NEW b \in Names, NEW mode \in Modes, NEW keep \in KeepFlags,
             NEW owner \in SnapshotOwners, HandleBackup(b, mode, keep, owner)
      PROVE  TypeOK'
  BY <1>5, StartMoves DEF HandleBackup, TypeOK, nodeVars, dataVars, metaVars, indexVars
<1>6. ASSUME NEW b \in Names, BackupFails(b) \/ BackupCrashes(b) PROVE TypeOK'
  <2>1. bk' \in [Names -> BackupState]
    BY <1>6, EndMoves
  <2>2. blobs' \subseteq Files /\ mtime' \in [Files -> Nat] /\ torn' \subseteq blobs'
    <3>1. bk[b].todo \subseteq Files
      BY DEF TypeOK, BackupState
    <3>2. LeavesUpload(b)
      BY <1>6 DEF BackupFails, BackupCrashes
    <3> QED BY <3>1, <3>2 DEF LeavesUpload, dataVars, TypeOK
  <2>3. snaps' \subseteq Tags /\ linked' \in [Tags -> SUBSET Files]
    <3>1. Tag(b) \in Tags
      BY TagType
    <3> QED
      BY <1>6, <3>1 DEF BackupFails, BackupCrashes, ExitSnapshot, TypeOK, nodeVars
  <2>4. failures' \in Nat
    BY <1>6 DEF BackupFails, BackupCrashes, Failure, TypeOK
  <2> QED
    BY <1>6, <2>1, <2>2, <2>3, <2>4
       DEF BackupFails, BackupCrashes, TypeOK, nodeVars, metaVars, indexVars
<1>7. CASE Purge
  BY <1>7, StartPurgingType, ToPurgeAreNames DEF Purge
<1>8. ASSUME NEW names \in SUBSET Names, DeleteBackup(names) PROVE TypeOK'
  BY <1>8, StartPurgingType DEF DeleteBackup
<1>9. CASE PurgeStops
  BY <1>9, NoPurgeType
     DEF PurgeStops, Failure, TypeOK, nodeVars, dataVars, metaVars, indexVars
<1>10. CASE ListBackups
  BY <1>10 DEF ListBackups, RemoveGhosts, TypeOK, nodeVars, dataVars, metaVars
<1>11. CASE BuildIndex \/ ReportLatest \/ \E b \in Names, n \in 0..4 : BuildIndexStops(b, n)
  <2>1. \A b \in Names : AllIndexed(b) \in SUBSET IndexKinds /\ AllStamped(b) \in Nat
    BY DEF AllIndexed, AllStamped, IndexOrder, IndexKinds, TypeOK
  <2>2. CASE BuildIndex \/ ReportLatest
    BY <2>1, <2>2
       DEF BuildIndex, ReportLatest, MarkLatest, TypeOK, nodeVars, dataVars, metaVars
  <2>3. ASSUME NEW b \in Names, NEW n \in 0..4, BuildIndexStops(b, n) PROVE TypeOK'
    <3>1. {IndexOrder[i] : i \in 1..n} \subseteq IndexKinds
      BY DEF IndexOrder, IndexKinds
    <3>2. idx' \in [Names -> SUBSET IndexKinds]
      BY <2>1, <2>3, <3>1 DEF BuildIndexStops, TypeOK
    <3>3. stamp' \in [Names -> Nat]
      BY <2>1, <2>3 DEF BuildIndexStops, TypeOK
    <3>4. failures' \in Nat /\ latest' \in Names \cup {NoName}
      BY <2>3 DEF BuildIndexStops, Failure, TypeOK
    <3> QED
      BY <2>3, <3>2, <3>3, <3>4 DEF BuildIndexStops, TypeOK, nodeVars, dataVars, metaVars
  <2> QED BY <1>11, <2>2, <2>3
<1>12. CASE UNCHANGED vars
  BY <1>12 DEF vars, TypeOK, nodeVars, dataVars, metaVars, indexVars
<1> QED
  BY BackupStepType, PurgeStepType, <1>1, <1>2, <1>3, <1>4, <1>5, <1>6, <1>7, <1>8,
     <1>9, <1>10, <1>11, <1>12 DEF Next

\* The state keeps its shape, whatever the constants: no operation of a backup,
\* a purge or an index build writes what another could not read.
THEOREM TypeCorrect == Spec => []TypeOK
BY TypeInit, TypeNext, PTL DEF Spec

------------------------------------------------------------------------------
(* BucketInvariant is inductive when the commands are used as Disciplined   *)
(* says.                                                                    *)

\* With no name starting another, a listing by name returns that backup only.
LEMMA MatchingItself ==
  ASSUME Disciplined, NEW b \in Names PROVE Matching(b) = {b}
BY DEF Disciplined, Matching

\* No backup that exists is taken for a ghost of the index.
LEMMA GhostsDoNotExist ==
  ASSUME Disciplined, NEW b \in Names, Exists(b)
  PROVE  ~Cleaned(b)
<1>1. Ghosts \subseteq Names
  BY DEF Ghosts, Entries
<1>2. b \notin Ghosts
  BY DEF Ghosts, ListedBackups
<1> QED
  BY <1>1, <1>2, MatchingItself DEF Cleaned

\* So it leaves their index entries alone.
LEMMA ListingKeepsExisting ==
  ASSUME Disciplined, TypeOK, RemoveGhosts, NEW b \in Names, Exists(b)
  PROVE  idx'[b] = idx[b]
BY GhostsDoNotExist DEF RemoveGhosts, TypeOK

\* The listings know every backup that exists and has a tokenmap in the index.
LEMMA IndexedAreListed ==
  ASSUME NEW b \in Names, Exists(b), "tokenmap" \in idx[b]
  PROVE  b \in ListedBackups
BY DEF ListedBackups, Entries, HasStarted

\* The invariant holds of an empty bucket.
LEMMA InvariantInit == Init => BucketInvariant
<1> SUFFICES ASSUME Init PROVE BucketInvariant
  OBVIOUS
<1>1. TypeOK
  BY TypeInit
<1>2. \A b \in Names : bk[b] = Idle
  BY DEF Init
<1>3. PurgeAlone /\ OneBackup
  BY <1>2 DEF Init, PurgeAlone, OneBackup, NoBackupRuns, Idle, NoPurge
<1>4. BackupWrote
  BY <1>2 DEF BackupWrote, Wrote, Idle, BeforeTokenmap, BeforeIndex, BeforeData, AfterManifest
<1>5. BackupHolds /\ TodoMissing
  BY <1>2 DEF BackupHolds, TodoMissing, Idle
<1>6. ManifestIsLast /\ ManifestsIndexed /\ CleanupKnows /\ CompleteBackupsIntact
  BY DEF Init, ManifestIsLast, ManifestsIndexed, CleanupKnows, CompleteBackupsIntact, Complete
<1>7. PurgeLists /\ IndexReadable
  BY DEF Init, PurgeLists, IndexReadable, NoPurge
<1> QED
  BY <1>1, <1>3, <1>4, <1>5, <1>6, <1>7 DEF BucketInvariant

\* Steps that change nothing but the node, the clock, or the index, where they
\* take nothing from a backup that exists.
LEMMA IndexKept ==
  ASSUME BucketInvariant, TypeOK', IndexReadable',
         \A b \in Names : Exists(b) => idx[b] \subseteq idx'[b],
         UNCHANGED <<blobs, torn, meta, manifest, bk, pg>>
  PROVE  BucketInvariant'
<1>1. PurgeAlone' /\ OneBackup' /\ PurgeLists' /\ CleanupKnows'
  BY DEF BucketInvariant, PurgeAlone, OneBackup, PurgeLists, CleanupKnows, NoBackupRuns
<1>2. BackupWrote'
  BY DEF BucketInvariant, BackupWrote, Wrote, IsDifferential, Exists, BeforeTokenmap, BeforeIndex,
         BeforeData
<1>3. BackupHolds' /\ TodoMissing'
  BY DEF BucketInvariant, BackupHolds, TodoMissing, IsDifferential
<1>4. ManifestIsLast' /\ CompleteBackupsIntact'
  BY DEF BucketInvariant, ManifestIsLast, CompleteBackupsIntact, Complete, Exists
<1>5. ManifestsIndexed'
  BY DEF BucketInvariant, ManifestsIndexed, ManifestIsLast, Exists
<1> QED
  BY <1>1, <1>2, <1>3, <1>4, <1>5 DEF BucketInvariant, IndexReadable

\* While a backup runs no purge does: its part of the invariant is idle.
LEMMA BackupAlone ==
  ASSUME BucketInvariant, NEW b \in Names, bk[b].pc # "idle", pg' = pg
  PROVE  pg.pc = "idle" /\ PurgeAlone' /\ PurgeLists' /\ CleanupKnows'
<1>1. pg.pc = "idle"
  BY DEF BucketInvariant, PurgeAlone, NoBackupRuns
<1> QED
  BY <1>1 DEF PurgeAlone, PurgeLists, CleanupKnows

\* A step of the running backup starts no other one.
LEMMA StillOneBackup ==
  ASSUME BucketInvariant, NEW b \in Names, bk[b].pc # "idle",
         \A c \in Names \ {b} : bk'[c] = bk[c]
  PROVE  OneBackup'
BY DEF BucketInvariant, OneBackup

\* What a running backup holds does not depend on its program counter, as long
\* as this does not go back.
LEMMA AdvanceHolds ==
  ASSUME BucketInvariant, NEW b \in Names, NEW from, NEW to \in BackupSteps,
         Advance(b, from, to), to \in BeforeData => from \in BeforeData,
         UNCHANGED <<blobs, torn>>
  PROVE  BackupHolds' /\ TodoMissing'
<1>1. /\ \A c \in Names \ {b} : bk'[c] = bk[c]
      /\ bk[b].pc = from /\ bk'[b].pc = to
      /\ bk'[b].mode = bk[b].mode /\ bk'[b].todo = bk[b].todo
      /\ bk'[b].kept = bk[b].kept /\ bk'[b].sent = bk[b].sent
  BY AdvanceMoves DEF BucketInvariant, TypeOK
<1>2. BackupHolds'
  BY <1>1 DEF BucketInvariant, BackupHolds, IsDifferential
<1>3. TodoMissing'
  BY <1>1 DEF BucketInvariant, TodoMissing
<1> QED
  BY <1>2, <1>3

\* Steps of a backup that leave the data and the manifests alone.
LEMMA AdvanceKeeps ==
  ASSUME BucketInvariant, TypeOK', IndexReadable',
         NEW b \in Names, NEW from, NEW to \in BackupSteps, Advance(b, from, to),
         from # "idle", to \in BeforeData => from \in BeforeData,
         UNCHANGED <<blobs, torn, manifest, pg>>,
         \A c \in Names : /\ meta[c] \subseteq meta'[c]
                          /\ "manifest" \in meta'[c] => "manifest" \in meta[c],
         \A c \in Names : Exists(c) => idx[c] \subseteq idx'[c],
         Wrote(b)'
  PROVE  BucketInvariant'
<1>1. /\ \A c \in Names \ {b} : bk'[c] = bk[c]
      /\ bk[b].pc = from
  BY AdvanceMoves DEF BucketInvariant, TypeOK
<1>2. PurgeAlone' /\ PurgeLists' /\ CleanupKnows'
  BY <1>1, BackupAlone
<1>3. OneBackup'
  BY <1>1, StillOneBackup
<1>4. BackupWrote'
  <2> SUFFICES ASSUME NEW c \in Names, c # b PROVE Wrote(c)'
    BY DEF BackupWrote
  <2>1. bk'[c] = bk[c] /\ Wrote(c)
    BY <1>1 DEF BucketInvariant, BackupWrote
  <2> QED
    BY <2>1 DEF Wrote, IsDifferential, Exists, BeforeTokenmap, BeforeIndex, BeforeData
<1>5. BackupHolds' /\ TodoMissing'
  BY AdvanceHolds
<1>6. ManifestIsLast'
  BY DEF BucketInvariant, ManifestIsLast
<1>7. ManifestsIndexed'
  BY DEF BucketInvariant, ManifestsIndexed, ManifestIsLast, Exists
<1>8. CompleteBackupsIntact'
  BY DEF BucketInvariant, CompleteBackupsIntact, ManifestIsLast, Complete, Exists
<1> QED
  BY <1>2, <1>3, <1>4, <1>5, <1>6, <1>7, <1>8 DEF BucketInvariant, IndexReadable

\* A backup that ends leaves whole what was whole.
LEMMA EndKeeps ==
  ASSUME BucketInvariant, TypeOK', NEW b \in Names, bk[b].pc # "idle", bk'[b] = Idle,
         \A c \in Names \ {b} : bk'[c] = bk[c],
         UNCHANGED <<meta, manifest, idx, pg>>, blobs' \ torn' = blobs \ torn
  PROVE  BucketInvariant'
<1>1. PurgeAlone' /\ PurgeLists' /\ CleanupKnows' /\ OneBackup'
  BY BackupAlone, StillOneBackup
<1>2. BackupWrote'
  BY DEF BucketInvariant, BackupWrote, Wrote, IsDifferential, Idle, BeforeTokenmap, BeforeIndex,
         BeforeData, AfterManifest
<1>3. BackupHolds' /\ TodoMissing'
  BY DEF BucketInvariant, BackupHolds, TodoMissing, IsDifferential, Idle
<1>4. ManifestIsLast' /\ ManifestsIndexed' /\ CompleteBackupsIntact' /\ IndexReadable'
  BY DEF BucketInvariant, ManifestIsLast, ManifestsIndexed, CompleteBackupsIntact, Complete,
         Exists, IndexReadable
<1> QED
  BY <1>1, <1>2, <1>3, <1>4 DEF BucketInvariant

\* Every step of a backup keeps the invariant.
LEMMA BackupStepKeeps ==
  ASSUME Disciplined, BucketInvariant, NEW b \in Names, BackupStep(b)
  PROVE  BucketInvariant'
<1> USE DEF nodeVars, dataVars, metaVars, indexVars
<1>0. /\ TypeOK /\ TypeOK' /\ Wrote(b) /\ IndexReadable /\ bk \in [Names -> BackupState]
      /\ meta \in [Names -> SUBSET MetaKinds] /\ idx \in [Names -> SUBSET IndexKinds]
  BY BackupStepType DEF BucketInvariant, BackupWrote, IndexReadable, TypeOK
<1> DEFINE Moved(from, to) ==
      /\ bk[b].pc = from /\ bk'[b].pc = to /\ bk'[b].mode = bk[b].mode
<1>1. CASE SaveSchema(b)
  <2>1. Advance(b, "schema", "tokenmap") /\ "tokenmap" \in BackupSteps
    BY <1>1 DEF SaveSchema, BackupSteps
  <2>2. Moved("schema", "tokenmap")
    BY <1>0, <2>1, AdvanceMoves
  <2>3. Wrote(b)'
    BY <1>0, <1>1, <2>2
       DEF SaveSchema, Wrote, BeforeTokenmap, BeforeIndex, BeforeData, AfterManifest
  <2>4. IndexReadable'
    BY <1>0, <1>1 DEF SaveSchema, IndexReadable
  <2>5. \A c \in Names : /\ meta[c] \subseteq meta'[c]
                         /\ "manifest" \in meta'[c] => "manifest" \in meta[c]
    BY <1>0, <1>1 DEF SaveSchema
  <2> QED
    BY <1>0, <1>1, <2>1, <2>3, <2>4, <2>5, AdvanceKeeps DEF SaveSchema, BeforeData, BeforeIndex
<1>2. CASE SaveTokenmap(b)
  <2> DEFINE to == "server_version"
  <2>1. Advance(b, "tokenmap", to) /\ to \in BackupSteps
    BY <1>2 DEF SaveTokenmap, SaveMeta, BackupSteps
  <2>2. Moved("tokenmap", to)
    BY <1>0, <2>1, AdvanceMoves
  <2>3. Wrote(b)'
    BY <1>0, <1>2, <2>2
       DEF SaveTokenmap, SaveMeta, Wrote, BeforeTokenmap, BeforeIndex, BeforeData, AfterManifest, IsDifferential
  <2>4. IndexReadable'
    BY <1>0, <1>2 DEF SaveTokenmap, SaveMeta, IndexReadable
  <2>5. \A c \in Names : /\ meta[c] \subseteq meta'[c]
                         /\ "manifest" \in meta'[c] => "manifest" \in meta[c]
    BY <1>0, <1>2 DEF SaveTokenmap, SaveMeta
  <2> QED
    BY <1>0, <1>2, <2>1, <2>3, <2>4, <2>5, AdvanceKeeps
       DEF SaveTokenmap, SaveMeta, BeforeData, BeforeIndex
<1>3. CASE SaveServerVersion(b)
  <2> DEFINE to == IF IsDifferential(b) THEN "differential" ELSE "i_tokenmap"
  <2>1. Advance(b, "server_version", to) /\ to \in BackupSteps
    BY <1>3 DEF SaveServerVersion, SaveMeta, BackupSteps
  <2>2. Moved("server_version", to)
    BY <1>0, <2>1, AdvanceMoves
  <2>3. Wrote(b)'
    BY <1>0, <1>3, <2>2
       DEF SaveServerVersion, SaveMeta, Wrote, BeforeTokenmap, BeforeIndex, BeforeData, AfterManifest, IsDifferential
  <2>4. IndexReadable'
    BY <1>0, <1>3 DEF SaveServerVersion, SaveMeta, IndexReadable
  <2>5. \A c \in Names : /\ meta[c] \subseteq meta'[c]
                         /\ "manifest" \in meta'[c] => "manifest" \in meta[c]
    BY <1>0, <1>3 DEF SaveServerVersion, SaveMeta
  <2> QED
    BY <1>0, <1>3, <2>1, <2>3, <2>4, <2>5, AdvanceKeeps
       DEF SaveServerVersion, SaveMeta, BeforeData, BeforeIndex
<1>4. CASE SaveDifferential(b)
  <2> DEFINE to == "i_tokenmap"
  <2>1. Advance(b, "differential", to) /\ to \in BackupSteps
    BY <1>4 DEF SaveDifferential, SaveMeta, BackupSteps
  <2>2. Moved("differential", to)
    BY <1>0, <2>1, AdvanceMoves
  <2>3. Wrote(b)'
    BY <1>0, <1>4, <2>2
       DEF SaveDifferential, SaveMeta, Wrote, BeforeTokenmap, BeforeIndex, BeforeData, AfterManifest, IsDifferential
  <2>4. IndexReadable'
    BY <1>0, <1>4 DEF SaveDifferential, SaveMeta, IndexReadable
  <2>5. \A c \in Names : /\ meta[c] \subseteq meta'[c]
                         /\ "manifest" \in meta'[c] => "manifest" \in meta[c]
    BY <1>0, <1>4 DEF SaveDifferential, SaveMeta
  <2> QED
    BY <1>0, <1>4, <2>1, <2>3, <2>4, <2>5, AdvanceKeeps
       DEF SaveDifferential, SaveMeta, BeforeData, BeforeIndex
<1>5. CASE IndexTokenmap(b)
  <2> DEFINE to == "i_schema"
  <2>1. Advance(b, "i_tokenmap", to) /\ to \in BackupSteps
    BY <1>5 DEF IndexTokenmap, SaveIndex, BackupSteps
  <2>2. Moved("i_tokenmap", to)
    BY <1>0, <2>1, AdvanceMoves
  <2>3. Wrote(b)'
    BY <1>0, <1>5, <2>2
       DEF IndexTokenmap, SaveIndex, Wrote, BeforeTokenmap, BeforeIndex, BeforeData, AfterManifest, IsDifferential
  <2>4. IndexReadable'
    BY <1>0, <1>5, <2>2 DEF IndexTokenmap, SaveIndex, IndexReadable
  <2>5. \A c \in Names : idx[c] \subseteq idx'[c]
    BY <1>0, <1>5 DEF IndexTokenmap, SaveIndex
  <2> QED
    BY <1>0, <1>5, <2>1, <2>3, <2>4, <2>5, AdvanceKeeps
       DEF IndexTokenmap, SaveIndex, BeforeData, BeforeIndex
<1>6. CASE IndexSchema(b)
  <2> DEFINE to == "i_started"
  <2>1. Advance(b, "i_schema", to) /\ to \in BackupSteps
    BY <1>6 DEF IndexSchema, SaveIndex, BackupSteps
  <2>2. Moved("i_schema", to)
    BY <1>0, <2>1, AdvanceMoves
  <2>3. Wrote(b)'
    BY <1>0, <1>6, <2>2
       DEF IndexSchema, SaveIndex, Wrote, BeforeTokenmap, BeforeIndex, BeforeData, AfterManifest, IsDifferential
  <2>4. IndexReadable'
    BY <1>0, <1>6, <2>2 DEF IndexSchema, SaveIndex, IndexReadable
  <2>5. \A c \in Names : idx[c] \subseteq idx'[c]
    BY <1>0, <1>6 DEF IndexSchema, SaveIndex
  <2> QED
    BY <1>0, <1>6, <2>1, <2>3, <2>4, <2>5, AdvanceKeeps
       DEF IndexSchema, SaveIndex, BeforeData, BeforeIndex
<1>7. CASE IndexStarted(b)
  <2> DEFINE to == IF IsDifferential(b) THEN "i_differential" ELSE "stagger"
  <2>1. Advance(b, "i_started", to) /\ to \in BackupSteps
    BY <1>7 DEF IndexStarted, SaveIndex, BackupSteps
  <2>2. Moved("i_started", to)
    BY <1>0, <2>1, AdvanceMoves
  <2>3. Wrote(b)'
    BY <1>0, <1>7, <2>2
       DEF IndexStarted, SaveIndex, Wrote, BeforeTokenmap, BeforeIndex, BeforeData, AfterManifest, IsDifferential
  <2>4. IndexReadable'
    <3>1. StartedTimes(b) # {}
      BY <1>0, <2>2 DEF StartedTimes, Wrote, Exists, BeforeTokenmap
    <3> QED BY <1>0, <1>7, <3>1 DEF IndexStarted, SaveIndex, IndexReadable
  <2>5. \A c \in Names : idx[c] \subseteq idx'[c]
    BY <1>0, <1>7 DEF IndexStarted, SaveIndex
  <2> QED
    BY <1>0, <1>7, <2>1, <2>3, <2>4, <2>5, AdvanceKeeps
       DEF IndexStarted, SaveIndex, BeforeData, BeforeIndex
<1>8. CASE IndexDifferential(b)
  <2> DEFINE to == "stagger"
  <2>1. Advance(b, "i_differential", to) /\ to \in BackupSteps
    BY <1>8 DEF IndexDifferential, SaveIndex, BackupSteps
  <2>2. Moved("i_differential", to)
    BY <1>0, <2>1, AdvanceMoves
  <2>3. Wrote(b)'
    BY <1>0, <1>8, <2>2
       DEF IndexDifferential, SaveIndex, Wrote, BeforeTokenmap, BeforeIndex, BeforeData, AfterManifest, IsDifferential
  <2>4. IndexReadable'
    BY <1>0, <1>8, <2>2 DEF IndexDifferential, SaveIndex, IndexReadable
  <2>5. \A c \in Names : idx[c] \subseteq idx'[c]
    BY <1>0, <1>8 DEF IndexDifferential, SaveIndex
  <2> QED
    BY <1>0, <1>8, <2>1, <2>3, <2>4, <2>5, AdvanceKeeps
       DEF IndexDifferential, SaveIndex, BeforeData, BeforeIndex
<1>9. CASE IndexManifest(b)
  <2> DEFINE to == "i_finished"
  <2>1. Advance(b, "i_manifest", to) /\ to \in BackupSteps
    BY <1>9 DEF IndexManifest, SaveIndex, BackupSteps
  <2>2. Moved("i_manifest", to)
    BY <1>0, <2>1, AdvanceMoves
  <2>3. Wrote(b)'
    BY <1>0, <1>9, <2>2
       DEF IndexManifest, SaveIndex, Wrote, BeforeTokenmap, BeforeIndex, BeforeData, AfterManifest, IsDifferential
  <2>4. IndexReadable'
    BY <1>0, <1>9, <2>2 DEF IndexManifest, SaveIndex, IndexReadable
  <2>5. \A c \in Names : idx[c] \subseteq idx'[c]
    BY <1>0, <1>9 DEF IndexManifest, SaveIndex
  <2> QED
    BY <1>0, <1>9, <2>1, <2>3, <2>4, <2>5, AdvanceKeeps
       DEF IndexManifest, SaveIndex, BeforeData, BeforeIndex
<1>10. CASE IndexFinished(b)
  <2> DEFINE to == "latest"
  <2>1. Advance(b, "i_finished", to) /\ to \in BackupSteps
    BY <1>10 DEF IndexFinished, SaveIndex, BackupSteps
  <2>2. Moved("i_finished", to)
    BY <1>0, <2>1, AdvanceMoves
  <2>3. Wrote(b)'
    BY <1>0, <1>10, <2>2
       DEF IndexFinished, SaveIndex, Wrote, BeforeTokenmap, BeforeIndex, BeforeData, AfterManifest, IsDifferential
  <2>4. IndexReadable'
    BY <1>0, <1>10, <2>2 DEF IndexFinished, SaveIndex, IndexReadable, Wrote, AfterManifest
  <2>5. \A c \in Names : idx[c] \subseteq idx'[c]
    BY <1>0, <1>10 DEF IndexFinished, SaveIndex
  <2> QED
    BY <1>0, <1>10, <2>1, <2>3, <2>4, <2>5, AdvanceKeeps
       DEF IndexFinished, SaveIndex, BeforeData, BeforeIndex
<1>11. CASE Stagger(b)
  <2>1. Advance(b, "stagger", "snapshot") /\ "snapshot" \in BackupSteps
    BY <1>11 DEF Stagger, BackupSteps
  <2>2. Moved("stagger", "snapshot")
    BY <1>0, <2>1, AdvanceMoves
  <2>3. \A c \in Names : Exists(c) => idx'[c] = idx[c]
    BY <1>0, <1>11, ListingKeepsExisting DEF Stagger
  <2>4. Exists(b)
    BY <1>0, <2>2 DEF Wrote, Exists
  <2>5. Wrote(b)'
    BY <1>0, <1>11, <2>2, <2>3, <2>4
       DEF Stagger, Wrote, BeforeTokenmap, BeforeIndex, BeforeData, AfterManifest, IsDifferential
  <2>6. IndexReadable'
    BY <1>0, <1>11 DEF Stagger, RemoveGhosts, IndexReadable
  <2> QED
    BY <1>0, <1>11, <2>1, <2>3, <2>5, <2>6, AdvanceKeeps DEF Stagger, BeforeData, BeforeIndex
<1>12. CASE TakeSnapshot(b) \/ LeaveSnapshot(b)
  <2>1. PICK from, to \in BackupSteps :
          /\ Advance(b, from, to)
          /\ from # "idle" /\ from \notin BeforeData /\ to \notin BeforeData \cup AfterManifest
    BY <1>12 DEF TakeSnapshot, LeaveSnapshot, BackupSteps, BeforeData, BeforeIndex, AfterManifest
  <2>2. Moved(from, to)
    BY <1>0, <2>1, AdvanceMoves
  <2>3. UNCHANGED <<dataVars, metaVars, indexVars, pg>>
    BY <1>12 DEF TakeSnapshot, LeaveSnapshot
  <2>4. Wrote(b)'
    BY <1>0, <2>1, <2>2, <2>3
       DEF Wrote, BeforeTokenmap, BeforeIndex, BeforeData, AfterManifest, IsDifferential
  <2>5. IndexReadable'
    BY <1>0, <2>3 DEF IndexReadable
  <2> QED
    BY <1>0, <2>1, <2>3, <2>4, <2>5, AdvanceKeeps
<1>13. CASE ListStorage(b)
  <2>1. /\ \A c \in Names \ {b} : bk'[c] = bk[c]
        /\ bk[b].pc = "list" /\ bk'[b].pc = "upload" /\ bk'[b].mode = bk[b].mode
        /\ bk'[b].kept = Wanted(b) \cap (blobs \ torn)
        /\ bk'[b].todo = Wanted(b) \ (blobs \ torn)
        /\ bk'[b].sent = bk[b].sent
    BY <1>0, <1>13, ListMoves
  <2>2. UNCHANGED <<dataVars, metaVars, indexVars, pg>>
    BY <1>13 DEF ListStorage
  <2>3. PurgeAlone' /\ PurgeLists' /\ CleanupKnows' /\ OneBackup'
    BY <2>1, <2>2, BackupAlone, StillOneBackup
  <2>4. BackupWrote'
    BY <2>1, <2>2 DEF BucketInvariant, BackupWrote, Wrote, IsDifferential, BeforeTokenmap,
       BeforeIndex, BeforeData, AfterManifest
  <2>5. BackupHolds'
    <3>1. Wanted(b) # {} => IsDifferential(b)
      BY DEF Wanted
    <3> QED
      BY <2>1, <2>2, <3>1 DEF BucketInvariant, BackupHolds, IsDifferential, BeforeData, BeforeIndex
  <2>6. TodoMissing'
    BY <2>1, <2>2 DEF BucketInvariant, TodoMissing
  <2> QED
    BY <1>0, <2>2, <2>3, <2>4, <2>5, <2>6 DEF BucketInvariant, ManifestIsLast, ManifestsIndexed,
       CompleteBackupsIntact, Complete, Exists, IndexReadable
<1>14. ASSUME NEW f \in Files, Upload(b, f) PROVE BucketInvariant'
  <2>1. /\ \A c \in Names \ {b} : bk'[c] = bk[c]
        /\ bk[b].pc = "upload" /\ bk'[b].pc = "upload" /\ bk'[b].mode = bk[b].mode
        /\ bk'[b].kept = bk[b].kept
        /\ bk'[b].todo = bk[b].todo \ {f}
        /\ bk'[b].sent = bk[b].sent \cup {f}
        /\ f \in bk[b].todo
    BY <1>0, <1>14, UploadMoves DEF Upload
  <2>2. UNCHANGED <<metaVars, indexVars, pg>> /\ blobs' \ torn' = (blobs \ torn) \cup {f}
    BY <1>14 DEF Upload
  <2>3. PurgeAlone' /\ PurgeLists' /\ CleanupKnows' /\ OneBackup'
    BY <2>1, <2>2, BackupAlone, StillOneBackup
  <2>4. BackupWrote'
    BY <2>1, <2>2 DEF BucketInvariant, BackupWrote, Wrote, IsDifferential
  <2>5. BackupHolds'
    BY <2>1, <2>2 DEF BucketInvariant, BackupHolds, IsDifferential
  <2>6. TodoMissing'
    <3> SUFFICES ASSUME ~ConcurrentBackups, NEW c \in Names
                 PROVE  bk'[c].todo \cap (blobs' \ torn') = {}
      BY DEF TodoMissing
    <3>1. CASE c = b
      BY <2>1, <2>2, <3>1 DEF BucketInvariant, TodoMissing
    <3>2. CASE c # b
      <4>1. bk[c].pc = "idle"
        BY <2>1, <3>2 DEF BucketInvariant, OneBackup
      <4>2. bk[c].todo = {}
        BY <4>1 DEF BucketInvariant, BackupHolds, BeforeData, BeforeIndex
      <4> QED BY <2>1, <3>2, <4>2
    <3> QED BY <3>1, <3>2
  <2>7. CompleteBackupsIntact'
    BY <2>2 DEF BucketInvariant, CompleteBackupsIntact, Complete, Exists
  <2> QED
    BY <1>0, <2>2, <2>3, <2>4, <2>5, <2>6, <2>7 DEF BucketInvariant, ManifestIsLast,
       ManifestsIndexed, IndexReadable
<1>15. CASE SaveManifest(b)
  <2>1. Advance(b, "manifest", "i_manifest") /\ "i_manifest" \in BackupSteps
    BY <1>15 DEF SaveManifest, BackupSteps
  <2>2. /\ \A c \in Names \ {b} : bk'[c] = bk[c]
        /\ Moved("manifest", "i_manifest")
    BY <1>0, <2>1, AdvanceMoves
  <2>3. /\ UNCHANGED <<dataVars, indexVars, pg>>
        /\ meta' = [meta EXCEPT ![b] = @ \cup {"manifest"}]
        /\ manifest' = [manifest EXCEPT ![b] = bk[b].kept \cup bk[b].sent]
    BY <1>15 DEF SaveManifest
  <2>4. PurgeAlone' /\ PurgeLists' /\ CleanupKnows' /\ OneBackup'
    BY <2>2, <2>3, BackupAlone, StillOneBackup
  <2>5. BackupWrote'
    BY <1>0, <2>2, <2>3 DEF BucketInvariant, BackupWrote, Wrote, IsDifferential, BeforeTokenmap,
       BeforeIndex, BeforeData, AfterManifest
  <2>6. BackupHolds' /\ TodoMissing'
    BY <2>1, <2>3, AdvanceHolds DEF BeforeData, BeforeIndex
  <2>7. {"schema", "tokenmap", "server_version"} \subseteq meta[b] /\ "tokenmap" \in idx[b]
    BY <1>0, <2>2 DEF Wrote, BeforeTokenmap, BeforeIndex
  <2>8. ManifestIsLast'
    BY <1>0, <2>3, <2>7 DEF BucketInvariant, ManifestIsLast
  <2>9. ManifestsIndexed'
    <3>1. bk[b].kept \cup bk[b].sent # {} => "differential" \in idx[b]
      BY <1>0, <2>2 DEF BucketInvariant, BackupHolds, Wrote, BeforeData, BeforeIndex
    <3> QED
      BY <1>0, <2>3, <2>7, <3>1 DEF BucketInvariant, ManifestsIndexed, TypeOK
  <2>10. CompleteBackupsIntact'
    BY <1>0, <2>3 DEF BucketInvariant, CompleteBackupsIntact, BackupHolds, Complete, Exists, TypeOK
  <2> QED
    BY <1>0, <2>3, <2>4, <2>5, <2>6, <2>8, <2>9, <2>10
       DEF BucketInvariant, IndexReadable
<1>16. CASE SetLatest(b)
  <2>1. /\ \A c \in Names \ {b} : bk'[c] = bk[c]
        /\ bk'[b] = Idle /\ bk[b].pc # "idle"
    BY <1>0, <1>16, EndMoves DEF SetLatest
  <2>2. UNCHANGED <<dataVars, metaVars, idx, pg>>
    BY <1>16 DEF SetLatest
  <2> QED
    BY <1>0, <2>1, <2>2, EndKeeps
<1> QED
  BY BackupStep(b), <1>1, <1>2, <1>3, <1>4, <1>5, <1>6, <1>7, <1>8, <1>9, <1>10, <1>11, <1>12,
     <1>13, <1>14, <1>15, <1>16 DEF BackupStep

\* A failed or killed backup tears at most a file that no manifest lists.
LEMMA BackupEndsKeeps ==
  ASSUME Disciplined, BucketInvariant, TypeOK', NEW b \in Names,
         BackupFails(b) \/ BackupCrashes(b)
  PROVE  BucketInvariant'
<1>1. /\ \A c \in Names \ {b} : bk'[c] = bk[c]
      /\ bk'[b] = Idle /\ bk[b].pc # "idle"
  BY EndMoves DEF BucketInvariant, BackupFails, BackupCrashes
<1>2. UNCHANGED <<meta, manifest, idx, pg>> /\ LeavesUpload(b)
  BY DEF BackupFails, BackupCrashes, metaVars, indexVars
<1>3. blobs' \ torn' = blobs \ torn
  <2>1. ASSUME ~AtomicUploads, NEW f \in bk[b].todo PROVE f \notin blobs \ torn
    BY <2>1 DEF BucketInvariant, TodoMissing, Disciplined
  <2> QED
    BY <1>2, <2>1 DEF LeavesUpload, dataVars
<1> QED
  BY <1>1, <1>2, <1>3, EndKeeps

\* A backup starts only while no purge runs, with nothing to hold.
LEMMA HandleBackupKeeps ==
  ASSUME Disciplined, BucketInvariant, TypeOK', NEW b \in Names, NEW mode \in Modes,
         NEW keep \in KeepFlags, NEW owner \in SnapshotOwners,
         HandleBackup(b, mode, keep, owner)
  PROVE  BucketInvariant'
<1>1. /\ \A c \in Names \ {b} : bk'[c] = bk[c]
      /\ bk'[b].pc = "schema"
      /\ bk'[b].todo = {} /\ bk'[b].kept = {} /\ bk'[b].sent = {}
  BY StartMoves DEF BucketInvariant
<1>2. UNCHANGED <<dataVars, metaVars, indexVars, pg>> /\ pg.pc = "idle"
  BY DEF HandleBackup, Disciplined
<1>3. PurgeAlone' /\ PurgeLists' /\ CleanupKnows'
  BY <1>2 DEF PurgeAlone, PurgeLists, CleanupKnows
<1>4. OneBackup'
  BY <1>1 DEF HandleBackup, NoBackupRuns, OneBackup
<1>5. BackupWrote'
  BY <1>1, <1>2 DEF BucketInvariant, BackupWrote, Wrote, IsDifferential, BeforeTokenmap,
     BeforeIndex, BeforeData, AfterManifest, metaVars, indexVars
<1>6. BackupHolds' /\ TodoMissing'
  BY <1>1, <1>2 DEF BucketInvariant, BackupHolds, TodoMissing, IsDifferential, dataVars
<1>7. ManifestIsLast' /\ ManifestsIndexed' /\ CompleteBackupsIntact' /\ IndexReadable'
  BY <1>2 DEF BucketInvariant, ManifestIsLast, ManifestsIndexed, CompleteBackupsIntact, Complete,
     Exists, IndexReadable, dataVars, metaVars, indexVars
<1> QED
  BY <1>3, <1>4, <1>5, <1>6, <1>7 DEF BucketInvariant

\* Steps of a purge that only move pg, while no backup runs.
LEMMA PurgeMovesOnly ==
  ASSUME BucketInvariant, TypeOK', NoBackupRuns,
         UNCHANGED <<blobs, torn, meta, manifest, idx, bk>>, PurgeLists', CleanupKnows'
  PROVE  BucketInvariant'
<1>1. PurgeAlone' /\ OneBackup'
  BY DEF BucketInvariant, PurgeAlone, OneBackup, NoBackupRuns
<1>2. BackupWrote' /\ BackupHolds' /\ TodoMissing'
  BY DEF BucketInvariant, BackupWrote, Wrote, BackupHolds, TodoMissing, IsDifferential
<1>3. ManifestIsLast' /\ ManifestsIndexed' /\ CompleteBackupsIntact' /\ IndexReadable'
  BY DEF BucketInvariant, ManifestIsLast, ManifestsIndexed, CompleteBackupsIntact, Complete,
         Exists, IndexReadable
<1> QED
  BY <1>1, <1>2, <1>3 DEF BucketInvariant

\* What holds of the backups while none runs, whatever the bucket.
LEMMA NoBackupHolds ==
  ASSUME BucketInvariant, NoBackupRuns, UNCHANGED bk
  PROVE  /\ PurgeAlone' /\ OneBackup' /\ BackupWrote'
         /\ BackupHolds' /\ TodoMissing'
<1>1. \A b \in Names : /\ bk[b].pc = "idle"
                       /\ bk[b].todo = {} /\ bk[b].kept = {} /\ bk[b].sent = {}
  BY DEF BucketInvariant, NoBackupRuns, BackupHolds, BeforeData, BeforeIndex
<1> QED
  BY <1>1 DEF PurgeAlone, OneBackup, NoBackupRuns, BackupWrote, Wrote, BackupHolds, TodoMissing,
     BeforeTokenmap, BeforeIndex, BeforeData, AfterManifest

\* A purge starts only while no backup runs, with a listing.
LEMMA StartPurgingKeeps ==
  ASSUME Disciplined, BucketInvariant, TypeOK', NEW targets \in SUBSET Names,
         StartPurging(targets)
  PROVE  BucketInvariant'
<1>1. NoBackupRuns /\ UNCHANGED <<blobs, torn, meta, manifest, bk>>
  BY DEF StartPurging, Disciplined, dataVars, metaVars
<1>2. pg'.pc = "purge"
  BY DEF StartPurging, NoPurge
<1>3. PurgeAlone' /\ OneBackup' /\ BackupWrote' /\ BackupHolds' /\ TodoMissing'
  BY <1>1, NoBackupHolds
<1>4. PurgeLists' /\ CleanupKnows'
  BY <1>2 DEF PurgeLists, CleanupKnows
<1>5. \A b \in Names : Exists(b) => idx'[b] = idx[b]
  BY ListingKeepsExisting DEF BucketInvariant, StartPurging
<1>6. ManifestIsLast' /\ ManifestsIndexed' /\ CompleteBackupsIntact'
  BY <1>1, <1>5 DEF BucketInvariant, ManifestIsLast, ManifestsIndexed, CompleteBackupsIntact,
     Complete, Exists
<1>7. IndexReadable'
  BY DEF BucketInvariant, TypeOK, StartPurging, RemoveGhosts, IndexReadable
<1> QED
  BY <1>3, <1>4, <1>6, <1>7 DEF BucketInvariant

\* Every step of a purge keeps the invariant: the manifest goes before the objects it
\* stands for, and the cleanup has read every manifest that is left.
LEMMA PurgeStepKeeps ==
  ASSUME Disciplined, BucketInvariant, PurgeStep PROVE BucketInvariant'
<1>0. TypeOK /\ TypeOK'
  BY PurgeStepType DEF BucketInvariant
<1>1. pg.pc # "idle"
  BY DEF PurgeStep, PurgeBackup, PurgeObject, CleanBackupFromIndex, CleanIndexObject, BackupPurged,
     ReadManifests, ScanStorage, DeleteOrphan, PurgeEnds
<1>2. NoBackupRuns
  BY <1>1 DEF BucketInvariant, PurgeAlone
<1>3. UNCHANGED bk
  BY DEF PurgeStep, PurgeBackup, PurgeObject, CleanBackupFromIndex, CleanIndexObject, BackupPurged,
     ReadManifests, ScanStorage, DeleteOrphan, PurgeEnds
<1>4. PurgeAlone' /\ OneBackup' /\ BackupWrote' /\ BackupHolds' /\ TodoMissing'
  BY <1>2, <1>3, NoBackupHolds
<1>5. ASSUME NEW b \in Names, PurgeBackup(b) PROVE BucketInvariant'
  <2>1. /\ pg'.pc = "meta" /\ pg'.current = b /\ b \in pg'.targets
        /\ pg'.objects = {o \in Names \X MetaKinds : o[1] = b /\ o[2] \in meta[o[1]]}
    BY <1>0, <1>5, MatchingItself DEF PurgeBackup, TypeOK, PurgeState
  <2>2. UNCHANGED <<blobs, torn, meta, manifest, idx, bk>>
    BY <1>5 DEF PurgeBackup, dataVars, metaVars, indexVars
  <2>3. PurgeLists'
    BY <1>0, <2>1, <2>2 DEF PurgeLists, TypeOK
  <2>4. CleanupKnows'
    BY <2>1 DEF CleanupKnows
  <2> QED BY <1>0, <1>2, <2>2, <2>3, <2>4, PurgeMovesOnly
<1>6. ASSUME NEW c \in Names, NEW k \in MetaKinds, PurgeObject(c, k) PROVE BucketInvariant'
  <2>1. /\ pg.pc = "meta" /\ pg'.pc = "meta"
        /\ pg'.current = pg.current /\ pg'.targets = pg.targets
        /\ pg'.objects = pg.objects \ {<<c, k>>}
        /\ <<c, k>> \in pg.objects
    BY <1>0, <1>6 DEF PurgeObject, MayDelete, TypeOK, PurgeState
  <2>2. c = pg.current
    BY <2>1 DEF BucketInvariant, PurgeLists
  <2>3. /\ UNCHANGED <<blobs, torn, idx>>
        /\ meta' = [meta EXCEPT ![c] = @ \ {k}]
        /\ manifest' = IF k = "manifest" THEN [manifest EXCEPT ![c] = {}] ELSE manifest
    BY <1>6 DEF PurgeObject, dataVars, indexVars
  <2>4. PurgeLists'
    BY <1>0, <2>1, <2>2, <2>3 DEF BucketInvariant, PurgeLists, TypeOK
  <2>5. k \in {"schema", "tokenmap", "server_version"} => "manifest" \notin meta[c]
    <3>1. \A j \in Before[k] : <<c, j>> \notin pg.objects
      BY <1>6 DEF PurgeObject, MayDelete, Disciplined
    <3>2. k \in {"schema", "tokenmap", "server_version"} => "manifest" \in Before[k]
      BY DEF Before
    <3> QED
      BY <2>1, <2>2, <3>1, <3>2 DEF BucketInvariant, PurgeLists
  <2>6. \A b \in Names : "manifest" \in meta'[b] =>
          "manifest" \in meta[b] /\ manifest'[b] = manifest[b]
    BY <1>0, <2>3 DEF TypeOK
  <2>7. ManifestIsLast'
    BY <1>0, <2>3, <2>5, <2>6 DEF BucketInvariant, ManifestIsLast, TypeOK
  <2>8. ManifestsIndexed' /\ CleanupKnows'
    BY <2>1, <2>3, <2>6 DEF BucketInvariant, ManifestsIndexed, CleanupKnows
  <2>9. CompleteBackupsIntact'
    BY <2>3, <2>6 DEF BucketInvariant, CompleteBackupsIntact, ManifestIsLast, Complete, Exists
  <2>10. IndexReadable'
    BY <2>3 DEF BucketInvariant, IndexReadable
  <2> QED BY <1>0, <1>4, <2>4, <2>7, <2>8, <2>9, <2>10 DEF BucketInvariant
<1>7. CASE CleanBackupFromIndex
  <2>1. /\ pg.pc = "meta" /\ pg.objects = {} /\ pg'.pc = "index"
        /\ pg'.objects = {o \in Names \X IndexKinds :
                            o[1] \in Matching(pg.current) /\ o[2] \in idx[o[1]]}
    BY <1>0, <1>7 DEF CleanBackupFromIndex, TypeOK, PurgeState
  <2>2. pg.current \in Names /\ meta[pg.current] = {}
    BY <1>0, <2>1 DEF BucketInvariant, PurgeLists, TypeOK, PurgeState
  <2>3. UNCHANGED <<blobs, torn, meta, manifest, idx, bk>>
    BY <1>7 DEF CleanBackupFromIndex, dataVars, metaVars, indexVars
  <2>4. PurgeLists'
    BY <2>1, <2>2, <2>3, MatchingItself DEF PurgeLists
  <2>5. CleanupKnows'
    BY <2>1 DEF CleanupKnows
  <2> QED BY <1>0, <1>2, <2>3, <2>4, <2>5, PurgeMovesOnly
<1>8. ASSUME NEW c \in Names, NEW k \in IndexKinds, CleanIndexObject(c, k) PROVE BucketInvariant'
  <2>1. /\ pg.pc = "index" /\ pg'.pc = "index"
        /\ pg'.objects = pg.objects \ {<<c, k>>} /\ <<c, k>> \in pg.objects
    BY <1>0, <1>8 DEF CleanIndexObject, MayDelete, TypeOK, PurgeState
  <2>2. "manifest" \notin meta[c]
    BY <2>1 DEF BucketInvariant, PurgeLists
  <2>3. UNCHANGED <<blobs, torn, meta, manifest>> /\ idx' = [idx EXCEPT ![c] = @ \ {k}]
    BY <1>8 DEF CleanIndexObject, dataVars, metaVars
  <2>4. PurgeLists' /\ CleanupKnows'
    BY <2>1, <2>3 DEF BucketInvariant, PurgeLists, CleanupKnows
  <2>5. ManifestsIndexed' /\ IndexReadable'
    BY <1>0, <2>2, <2>3
       DEF BucketInvariant, ManifestsIndexed, IndexReadable, TypeOK
  <2>6. ManifestIsLast' /\ CompleteBackupsIntact'
    BY <2>3 DEF BucketInvariant, ManifestIsLast, CompleteBackupsIntact, Complete, Exists
  <2> QED BY <1>0, <1>4, <2>4, <2>5, <2>6 DEF BucketInvariant
<1>9. CASE BackupPurged \/ PurgeEnds
  <2>1. pg'.pc \in {"purge", "idle"}
    <3>1. CASE BackupPurged
      BY <1>0, <3>1 DEF BackupPurged, TypeOK, PurgeState
    <3>2. CASE PurgeEnds
      BY <3>2 DEF PurgeEnds, NoPurge
    <3> QED BY <1>9, <3>1, <3>2
  <2>2. PurgeLists' /\ CleanupKnows'
    BY <2>1 DEF PurgeLists, CleanupKnows
  <2>3. UNCHANGED <<blobs, torn, meta, manifest, idx, bk>>
    BY <1>9 DEF BackupPurged, PurgeEnds, dataVars, metaVars, indexVars
  <2> QED BY <1>0, <1>2, <2>2, <2>3, PurgeMovesOnly
<1>10. CASE ReadManifests
  <2>1. /\ pg'.pc = "scan"
        /\ pg'.paths = UNION {manifest[b] : b \in CompleteDifferential}
    BY <1>0, <1>10 DEF ReadManifests, TypeOK, PurgeState
  <2>2. UNCHANGED <<blobs, torn, meta, manifest>> /\ RemoveGhosts
    BY <1>10 DEF ReadManifests, dataVars, metaVars
  <2>3. PurgeLists'
    BY <2>1 DEF PurgeLists
  <2>4. CleanupKnows'
    <3> SUFFICES ASSUME NEW b \in Names, "manifest" \in meta[b], NEW f \in manifest[b]
                 PROVE  \E c \in CompleteDifferential : f \in manifest[c]
      BY <2>1, <2>2 DEF CleanupKnows
    <3>1. Exists(b) /\ "tokenmap" \in idx[b] /\ "differential" \in idx[b]
      BY DEF BucketInvariant, ManifestIsLast, ManifestsIndexed, Exists
    <3>2. b \in CompleteDifferential
      BY <3>1, IndexedAreListed DEF CompleteDifferential
    <3> QED BY <3>2
  <2>5. \A b \in Names : Exists(b) => idx'[b] = idx[b]
    BY <1>0, <2>2, ListingKeepsExisting
  <2>6. ManifestIsLast' /\ ManifestsIndexed' /\ CompleteBackupsIntact'
    BY <2>2, <2>5 DEF BucketInvariant, ManifestIsLast, ManifestsIndexed, CompleteBackupsIntact,
       Complete, Exists
  <2>7. IndexReadable'
    BY <1>0, <2>2 DEF BucketInvariant, RemoveGhosts, IndexReadable, TypeOK
  <2> QED BY <1>0, <1>4, <2>3, <2>4, <2>6, <2>7 DEF BucketInvariant
<1>11. CASE ScanStorage
  <2>1. /\ pg.pc = "scan" /\ pg'.pc = "delete"
        /\ pg'.orphans = {f \in blobs \ pg.paths : OlderThanGrace(f)}
    BY <1>0, <1>11 DEF ScanStorage, TypeOK, PurgeState
  <2>2. UNCHANGED <<blobs, torn, meta, manifest, idx, bk>>
    BY <1>11 DEF ScanStorage, dataVars, metaVars, indexVars
  <2>3. PurgeLists'
    BY <2>1 DEF PurgeLists
  <2>4. CleanupKnows'
    BY <2>1, <2>2 DEF BucketInvariant, CleanupKnows
  <2> QED BY <1>0, <1>2, <2>2, <2>3, <2>4, PurgeMovesOnly
<1>12. ASSUME NEW f \in Files, DeleteOrphan(f) PROVE BucketInvariant'
  <2>1. /\ pg.pc = "delete" /\ pg'.pc = "delete" /\ f \in pg.orphans
        /\ pg'.orphans = pg.orphans \ {f}
    BY <1>0, <1>12 DEF DeleteOrphan, TypeOK, PurgeState
  <2>2. UNCHANGED <<meta, manifest, idx>> /\ blobs' = blobs \ {f} /\ torn' = torn \ {f}
    BY <1>12 DEF DeleteOrphan, metaVars, indexVars
  <2>3. PurgeLists' /\ CleanupKnows'
    BY <2>1, <2>2 DEF BucketInvariant, PurgeLists, CleanupKnows
  <2>4. CompleteBackupsIntact'
    BY <2>1, <2>2 DEF BucketInvariant, CleanupKnows, CompleteBackupsIntact, Complete, Exists
  <2>5. ManifestIsLast' /\ ManifestsIndexed' /\ IndexReadable'
    BY <2>2 DEF BucketInvariant, ManifestIsLast, ManifestsIndexed, IndexReadable
  <2> QED BY <1>0, <1>4, <2>3, <2>4, <2>5 DEF BucketInvariant
<1> QED
  BY PurgeStep, <1>5, <1>6, <1>7, <1>8, <1>9, <1>10, <1>11, <1>12 DEF PurgeStep

\* Every step keeps the invariant.
LEMMA InvariantNext == ASSUME Disciplined PROVE BucketInvariant /\ [Next]_vars => BucketInvariant'
<1> SUFFICES ASSUME BucketInvariant, [Next]_vars PROVE BucketInvariant'
  OBVIOUS
<1>0. TypeOK /\ TypeOK' /\ IndexReadable
  BY TypeNext DEF BucketInvariant, IndexReadable
<1>1. CASE Tick \/ (\E f \in Files : Flush(f) \/ Compact(f)) \/ UNCHANGED vars
           \/ \E b \in Names : OperatorSnapshot(b)
  <2>1. UNCHANGED <<blobs, torn, meta, manifest, idx, bk, pg>>
    BY <1>1 DEF Tick, Flush, Compact, OperatorSnapshot, vars, dataVars, metaVars, indexVars
  <2>2. IndexReadable'
    BY <1>0, <2>1 DEF IndexReadable
  <2> QED BY <1>0, <2>1, <2>2, IndexKept
<1>2. CASE LoseIndex
  BY <1>2 DEF LoseIndex, Disciplined
<1>3. CASE Purge
  BY <1>0, <1>3, StartPurgingKeeps, ToPurgeAreNames DEF Purge
<1>4. ASSUME NEW names \in SUBSET Names, DeleteBackup(names) PROVE BucketInvariant'
  BY <1>0, <1>4, StartPurgingKeeps DEF DeleteBackup
<1>5. CASE PurgeStops
  <2>1. UNCHANGED <<blobs, torn, meta, manifest, idx, bk>> /\ pg' = NoPurge /\ pg.pc # "idle"
    BY <1>5 DEF PurgeStops, dataVars, metaVars, indexVars
  <2>2. NoBackupRuns
    BY <2>1 DEF BucketInvariant, PurgeAlone
  <2>3. PurgeLists' /\ CleanupKnows'
    BY <2>1 DEF PurgeLists, CleanupKnows, NoPurge
  <2> QED BY <1>0, <2>1, <2>2, <2>3, PurgeMovesOnly
<1>6. CASE ListBackups
  <2>1. UNCHANGED <<blobs, torn, meta, manifest, bk, pg>> /\ RemoveGhosts
    BY <1>6 DEF ListBackups, dataVars, metaVars
  <2>2. IndexReadable'
    BY <1>0, <2>1 DEF RemoveGhosts, IndexReadable, TypeOK
  <2> QED BY <1>0, <2>1, <2>2, ListingKeepsExisting, IndexKept
<1>7. CASE BuildIndex \/ ReportLatest \/ \E b \in Names, n \in 0..4 : BuildIndexStops(b, n)
  <2>1. UNCHANGED <<blobs, torn, meta, manifest, bk, pg>>
    BY <1>7 DEF BuildIndex, ReportLatest, BuildIndexStops, dataVars, metaVars
  <2>2. \A b \in Names : idx[b] \subseteq AllIndexed(b) /\ "malformed" \notin AllIndexed(b)
    BY <1>0 DEF AllIndexed, IndexOrder, IndexReadable, TypeOK
  <2>3. /\ \A b \in Names : Exists(b) => idx[b] \subseteq idx'[b]
        /\ IndexReadable'
    <3>1. CASE BuildIndex \/ ReportLatest
      BY <1>0, <2>2, <3>1, GhostsDoNotExist DEF BuildIndex, ReportLatest, IndexReadable
    <3>2. ASSUME NEW c \in Names, NEW n \in 0..4, BuildIndexStops(c, n),
                 NEW b \in Names
          PROVE  idx[b] \subseteq idx'[b] /\ "malformed" \notin idx'[b]
      <4>1. "malformed" \notin {IndexOrder[i] : i \in 1..n}
        BY DEF IndexOrder
      <4> QED
        BY <1>0, <2>2, <3>2, <4>1 DEF BuildIndexStops, IndexReadable
    <3> QED BY <1>7, <3>1, <3>2 DEF IndexReadable
  <2> QED BY <1>0, <2>1, <2>3, IndexKept
<1> QED
  BY <1>0, <1>1, <1>2, <1>3, <1>4, <1>5, <1>6, <1>7, HandleBackupKeeps, BackupStepKeeps,
     BackupEndsKeeps, PurgeStepKeeps DEF Next

\* All that a disciplined use of the commands keeps true of the bucket.
THEOREM InvariantHolds == ASSUME Disciplined PROVE Spec => []BucketInvariant
BY InvariantInit, InvariantNext, PTL DEF Spec

\* Whatever fails or is killed between any two storage calls, every file of the
\* manifest of a complete backup stays in the storage and stays whole, for any
\* number of backups, files, failures, purges and index builds.
THEOREM BackupsStayIntact == ASSUME Disciplined PROVE Spec => []CompleteBackupsIntact
<1>1. BucketInvariant => CompleteBackupsIntact
  BY DEF BucketInvariant
<1> QED
  BY <1>1, InvariantHolds, PTL

\* A manifest is never there without the rest of the backup's meta data.
THEOREM ManifestStaysLast == ASSUME Disciplined PROVE Spec => []ManifestIsLast
<1>1. BucketInvariant => ManifestIsLast
  BY DEF BucketInvariant
<1> QED
  BY <1>1, InvariantHolds, PTL

\* No complete backup is ever hidden from the commands that list the backups.
THEOREM BackupsStayListed == ASSUME Disciplined PROVE Spec => []CompleteBackupsListed
<1>1. BucketInvariant => CompleteBackupsListed
  BY IndexedAreListed
     DEF BucketInvariant, CompleteBackupsListed, ManifestsIndexed, Complete
<1> QED
  BY <1>1, InvariantHolds, PTL

\* Only a purge deletes objects of the meta directories, only the cleanup deletes data.
LEMMA DeletionsArePurges ==
  ASSUME TypeOK, Next, ~PurgeStep
  PROVE  /\ \A b \in Names : meta[b] \subseteq meta'[b]
         /\ blobs \subseteq blobs'
<1> USE DEF dataVars, metaVars, TypeOK
<1>1. ASSUME NEW c \in Names, BackupStep(c)
      PROVE  (\A b \in Names : meta[b] \subseteq meta'[b]) /\ blobs \subseteq blobs'
  <2>1. CASE SaveSchema(c) \/ SaveTokenmap(c) \/ SaveServerVersion(c) \/ SaveDifferential(c)
             \/ SaveManifest(c)
    BY <2>1 DEF SaveSchema, SaveTokenmap, SaveServerVersion, SaveDifferential, SaveMeta,
       SaveManifest
  <2>2. CASE IndexTokenmap(c) \/ IndexSchema(c) \/ IndexStarted(c) \/ IndexDifferential(c)
             \/ IndexManifest(c) \/ IndexFinished(c) \/ SetLatest(c) \/ Stagger(c)
    BY <2>2 DEF IndexTokenmap, IndexSchema, IndexStarted, IndexDifferential, IndexManifest,
       IndexFinished, SetLatest, SaveIndex, Stagger
  <2>3. CASE TakeSnapshot(c) \/ ListStorage(c) \/ LeaveSnapshot(c)
    BY <2>3 DEF TakeSnapshot, ListStorage, LeaveSnapshot
  <2>4. CASE \E f \in Files : Upload(c, f)
    BY <2>4 DEF Upload
  <2> QED
    BY <1>1, <2>1, <2>2, <2>3, <2>4 DEF BackupStep
<1>2. ASSUME NEW c \in Names, BackupFails(c) \/ BackupCrashes(c)
      PROVE  (\A b \in Names : meta[b] \subseteq meta'[b]) /\ blobs \subseteq blobs'
  BY <1>2 DEF BackupFails, BackupCrashes, LeavesUpload
<1>3. CASE Purge \/ PurgeStops \/ ListBackups \/ BuildIndex \/ ReportLatest \/ LoseIndex \/ Tick
           \/ (\E b \in Names, n \in 0..4 : BuildIndexStops(b, n))
           \/ (\E names \in SUBSET Names : DeleteBackup(names))
  BY <1>3 DEF Purge, DeleteBackup, StartPurging, PurgeStops, ListBackups, BuildIndex, ReportLatest,
     BuildIndexStops, LoseIndex, Tick
<1>4. CASE (\E f \in Files : Flush(f) \/ Compact(f)) \/ (\E b \in Names : OperatorSnapshot(b))
           \/ (\E b \in Names : \E mode \in Modes, keep \in KeepFlags, owner \in SnapshotOwners :
                 HandleBackup(b, mode, keep, owner))
  BY <1>4 DEF Flush, Compact, OperatorSnapshot, HandleBackup
<1> QED
  BY <1>1, <1>2, <1>3, <1>4 DEF Next

\* A purge takes objects from no other backup than the ones it was asked to purge.
THEOREM PurgeKeepsToTargets == ASSUME Disciplined PROVE Spec => OnlyTargetsPurged
<1>1. ASSUME BucketInvariant, Next, NEW b \in Names
      PROVE  meta[b] \subseteq meta'[b] \/ b \in pg.targets
  <2>1. CASE ~PurgeStep
    BY <1>1, <2>1, DeletionsArePurges DEF BucketInvariant
  <2>2. CASE PurgeStep
    <3>1. ASSUME NEW c \in Names, NEW k \in MetaKinds, PurgeObject(c, k)
          PROVE  c \in pg.targets /\ meta' = [meta EXCEPT ![c] = @ \ {k}]
      BY <1>1, <3>1 DEF PurgeObject, MayDelete, BucketInvariant, PurgeLists
    <3>2. ASSUME NEW c \in Names, NEW k \in MetaKinds, PurgeObject(c, k)
          PROVE  meta[b] \subseteq meta'[b] \/ b \in pg.targets
      BY <1>1, <3>1, <3>2 DEF BucketInvariant, TypeOK
    <3>3. CASE ~(\E c \in Names : \E k \in MetaKinds : PurgeObject(c, k))
      BY <2>2, <3>3 DEF PurgeStep, PurgeBackup, CleanBackupFromIndex, CleanIndexObject,
         BackupPurged, ReadManifests, ScanStorage, DeleteOrphan, PurgeEnds, metaVars
    <3> QED BY <3>2, <3>3
  <2> QED BY <2>1, <2>2
<1>2. BucketInvariant /\ [Next]_vars =>
        [\A b \in Names : meta[b] \subseteq meta'[b] \/ b \in pg.targets]_vars
  BY <1>1
<1> QED
  BY <1>2, InvariantHolds, PTL DEF Spec, OnlyTargetsPurged

\* The cleanup deletes no file that a complete backup's manifest lists.
THEOREM CleanupSparesManifests == ASSUME Disciplined PROVE Spec => CleanupSparesIndexed
<1>1. ASSUME BucketInvariant, Next, NEW f \in blobs \ blobs', NEW b \in Names, Complete(b)
      PROVE  f \notin manifest[b]
  <2>1. PurgeStep
    BY <1>1, DeletionsArePurges DEF BucketInvariant
  <2>2. PICK g \in Files : DeleteOrphan(g)
    BY <1>1, <2>1 DEF PurgeStep, PurgeBackup, PurgeObject, CleanBackupFromIndex,
       CleanIndexObject, BackupPurged, ReadManifests, ScanStorage, PurgeEnds, dataVars
  <2>3. pg.pc = "delete" /\ f \in pg.orphans
    BY <1>1, <2>2 DEF DeleteOrphan
  <2> QED
    BY <1>1, <2>3 DEF BucketInvariant, CleanupKnows, Complete
<1>2. BucketInvariant /\ [Next]_vars =>
        [\A f \in blobs \ blobs' :
           ~ \E b \in Names : /\ Complete(b) /\ "tokenmap" \in idx[b]
                              /\ f \in manifest[b]]_vars
  BY <1>1
<1> QED
  BY <1>2, InvariantHolds, PTL DEF Spec, CleanupSparesIndexed

------------------------------------------------------------------------------
(* What a purge takes: backups_to_purge_by_age and _by_count                *)

\* The listed backups after b in the sorted list.
After(b) == {c \in ListedBackups : Earlier(b, c)}

\* The listing is sorted: of two backups one is the earlier.
LEMMA ListingSorted ==
  ASSUME TypeOK
  PROVE  /\ \A b \in ListedBackups : Started(b) \in Nat /\ b \in Nat
         /\ \A b \in ListedBackups : ~Earlier(b, b)
         /\ \A b, c \in ListedBackups : b # c => Earlier(b, c) \/ Earlier(c, b)
         /\ \A b, c \in ListedBackups : Earlier(b, c) => After(c) \subseteq After(b)
<1>1. \A b \in ListedBackups : Started(b) \in Nat /\ b \in Nat
  BY NamesAreNumbers DEF TypeOK, ListedBackups, Entries, Started
<1>2. \A b \in ListedBackups : ~Earlier(b, b)
  BY <1>1 DEF Earlier
<1>3. \A b, c \in ListedBackups : b # c => Earlier(b, c) \/ Earlier(c, b)
  BY <1>1 DEF Earlier
<1>4. ASSUME NEW b \in ListedBackups, NEW c \in ListedBackups, Earlier(b, c),
             NEW d \in After(c)
      PROVE  d \in After(b)
  <2>1. d \in ListedBackups /\ Earlier(c, d)
    BY <1>4 DEF After
  <2>2. Earlier(b, d)
    <3> DEFINE x == Started(b)
               y == Started(c)
               z == Started(d)
    <3>1. x \in Nat /\ y \in Nat /\ z \in Nat /\ b \in Nat /\ c \in Nat /\ d \in Nat
      BY <1>1, <1>4, <2>1
    <3>2. x < y \/ (x = y /\ b < c)
      BY <1>4 DEF Earlier
    <3>3. y < z \/ (y = z /\ c < d)
      BY <2>1 DEF Earlier
    <3> HIDE DEF x, y, z
    <3>4. x < z \/ (x = z /\ b < d)
      BY <3>1, <3>2, <3>3
    <3> QED BY <3>4 DEF Earlier, x, z
  <2> QED BY <2>1, <2>2 DEF After
<1> QED BY <1>1, <1>2, <1>3, <1>4

\* A place in the list, counted from its end, is that of one backup.
LEMMA PlacesDiffer ==
  ASSUME TypeOK, IsFiniteSet(Names), NEW b \in ListedBackups, NEW c \in ListedBackups, b # c
  PROVE  Cardinality(After(b)) # Cardinality(After(c))
<1>1. ASSUME NEW x \in ListedBackups, NEW y \in ListedBackups, Earlier(x, y)
      PROVE  Cardinality(After(x)) # Cardinality(After(y))
  <2>1. After(y) \subseteq After(x) /\ y \in After(x) /\ y \notin After(y)
    BY <1>1, ListingSorted DEF After
  <2>2. IsFiniteSet(After(x))
    <3>1. After(x) \subseteq Names
      BY DEF After, ListedBackups, Entries
    <3> QED BY <3>1, FS_Subset
  <2> QED BY <2>1, <2>2, FS_Subset
<1> QED BY <1>1, ListingSorted

\* In a list of n backups every place from 0 to n - 1 is taken.
LEMMA PlacesTaken ==
  ASSUME TypeOK, IsFiniteSet(Names)
  PROVE  /\ IsFiniteSet(ListedBackups) /\ Cardinality(ListedBackups) \in Nat
         /\ \A b \in ListedBackups :
                Cardinality(After(b)) \in 0 .. Cardinality(ListedBackups) - 1
         /\ \A k \in 0 .. Cardinality(ListedBackups) - 1 :
                \E b \in ListedBackups : Cardinality(After(b)) = k
<1> DEFINE list == ListedBackups
           n == Cardinality(list)
           place == [b \in list |-> Cardinality(After(b))]
<1>1. IsFiniteSet(list) /\ n \in Nat
  <2>1. list \subseteq Names
    BY DEF ListedBackups, Entries
  <2> QED BY <2>1, FS_Subset, FS_CardinalityType
<1>2. ASSUME NEW b \in list PROVE Cardinality(After(b)) \in 0 .. n - 1
  <2>1. After(b) \subseteq list \ {b}
    BY ListingSorted DEF After
  <2>2. IsFiniteSet(list \ {b}) /\ Cardinality(list \ {b}) = n - 1
    BY <1>1, FS_RemoveElement
  <2>3. IsFiniteSet(After(b)) /\ Cardinality(After(b)) <= n - 1
    BY <2>1, <2>2, FS_Subset
  <2>4. Cardinality(After(b)) \in Nat
    BY <2>3, FS_CardinalityType
  <2> HIDE DEF n
  <2> QED BY <2>3, <2>4, <1>1
<1>3. place \in Injection(list, 0 .. n - 1)
  <2>1. place \in [list -> 0 .. n - 1]
    BY <1>2
  <2>2. \A b, c \in list : place[b] = place[c] => b = c
    BY PlacesDiffer
  <2> HIDE DEF place, n, list
  <2> QED BY <2>1, <2>2 DEF Injection, IsInjective
<1>4. place \in Surjection(list, 0 .. n - 1)
  <2>1. IsFiniteSet(0 .. n - 1)
    BY <1>1, FS_Interval
  <2>2. Cardinality(0 .. n - 1) = n
    <3> HIDE DEF n
    <3> QED BY <1>1, FS_Interval
  <2> HIDE DEF place
  <2> QED BY <1>3, <2>1, <2>2, FS_Injection
<1>5. \A k \in 0 .. n - 1 : \E b \in list : place[b] = k
  <2> HIDE DEF place, n, list
  <2> QED BY <1>4 DEF Surjection
<1> QED BY <1>1, <1>2, <1>5

\* The backups of the last m places are m, if there are so many.
LEMMA LastPlaces ==
  ASSUME TypeOK, IsFiniteSet(Names), NEW m \in Nat,
         NEW last, last = {b \in ListedBackups : Cardinality(After(b)) < m}
  PROVE  /\ IsFiniteSet(last) /\ Cardinality(last) <= m
         /\ m <= Cardinality(ListedBackups) => Cardinality(last) = m
<1> DEFINE n == Cardinality(ListedBackups)
           place == [b \in last |-> Cardinality(After(b))]
<1>1. n \in Nat
  BY PlacesTaken
<1>2. ASSUME NEW b \in last PROVE b \in ListedBackups /\ Cardinality(After(b)) \in 0 .. m - 1
  <2>1. b \in ListedBackups /\ Cardinality(After(b)) < m
    OBVIOUS
  <2>2. Cardinality(After(b)) \in 0 .. n - 1
    BY <2>1, PlacesTaken
  <2> QED BY <2>1, <2>2, <1>1
<1>3. place \in Injection(last, 0 .. m - 1)
  <2>1. place \in [last -> 0 .. m - 1]
    BY <1>2
  <2>2. \A b, c \in last : place[b] = place[c] => b = c
    BY <1>2, PlacesDiffer
  <2> HIDE DEF place
  <2> QED BY <2>1, <2>2 DEF Injection, IsInjective
<1>4. IsFiniteSet(0 .. m - 1) /\ Cardinality(0 .. m - 1) = m
  BY FS_Interval
<1>5. ASSUME m <= n PROVE place \in Surjection(last, 0 .. m - 1)
  <2>1. ASSUME NEW k \in 0 .. m - 1 PROVE \E b \in last : place[b] = k
    <3>1. k \in 0 .. n - 1
      <4> HIDE DEF n
      <4> QED BY <1>1, <1>5
    <3>2. PICK b \in ListedBackups : Cardinality(After(b)) = k
      BY <3>1, PlacesTaken
    <3>3. b \in last
      BY <3>2
    <3> QED BY <3>2, <3>3
  <2>2. place \in [last -> 0 .. m - 1]
    BY <1>2
  <2> HIDE DEF place
  <2> QED BY <2>1, <2>2 DEF Surjection
<1> HIDE DEF place, n
<1>6. IsFiniteSet(last) /\ Cardinality(last) <= m
      /\ (Cardinality(last) = m <=> place \in Surjection(last, 0 .. m - 1))
  BY <1>3, <1>4, FS_Injection
<1> QED BY <1>5, <1>6 DEF n

\* "medusa purge" takes the oldest of the listed backups; with max_backup_count it
\* leaves no more than so many, and exactly so many when age plays no part, for any
\* number of backups, equal start times included (purge.backups_to_purge_by_count).
THEOREM OldestPurged == ASSUME IsFiniteSet(Names) PROVE Spec => PurgeTakesOldest
<1>1. ASSUME TypeOK, Purge
      PROVE  LET kept == ListedBackups \ pg'.targets
             IN  /\ \A b \in pg'.targets, c \in kept : Started(b) <= Started(c)
                 /\ MaxCount > 0 => Cardinality(kept) <= MaxCount
                 /\ MaxCount > 0 /\ MaxAge = 0 /\ pg'.targets # {} =>
                      Cardinality(kept) = MaxCount
  <2> DEFINE targets == BackupsToPurgeByAge \cup BackupsToPurgeByCount
             kept == ListedBackups \ targets
             last == {b \in ListedBackups : Cardinality(After(b)) < MaxCount}
  <2>1. pg'.targets = targets
    BY <1>1 DEF Purge, StartPurging, NoPurge
  <2>2. MaxCount \in Nat /\ MaxAge \in Nat /\ now \in Nat
    BY <1>1, PeriodsAreNaturals DEF TypeOK
  <2>3. \A b \in ListedBackups : Cardinality(After(b)) \in Nat
    <3>1. Cardinality(ListedBackups) \in Nat
      BY <1>1, PlacesTaken
    <3> QED BY <1>1, <3>1, PlacesTaken
  <2>4. \A b \in ListedBackups : b \in BackupsToPurgeByCount
                                    <=> MaxCount > 0 /\ Cardinality(After(b)) >= MaxCount
    BY DEF BackupsToPurgeByCount, After
  <2>5. \A b \in ListedBackups : b \in BackupsToPurgeByAge
                                    <=> MaxAge > 0 /\ Started(b) < now - MaxAge
    BY DEF BackupsToPurgeByAge
  <2>6. targets \subseteq ListedBackups
    BY DEF BackupsToPurgeByAge, BackupsToPurgeByCount
  <2>7. ASSUME NEW b \in targets, NEW c \in kept PROVE Started(b) <= Started(c)
    <3>1. b \in ListedBackups /\ c \in ListedBackups /\ Started(b) \in Nat /\ Started(c) \in Nat
      BY <1>1, <2>6, <2>7, ListingSorted
    <3>2. CASE b \in BackupsToPurgeByAge
      <4>1. MaxAge > 0 /\ Started(b) < now - MaxAge /\ ~(Started(c) < now - MaxAge)
        BY <2>5, <2>7, <3>1, <3>2
      <4> QED BY <2>2, <3>1, <4>1
    <3>3. CASE b \in BackupsToPurgeByCount
      <4>1. MaxCount > 0 /\ Cardinality(After(b)) >= MaxCount /\ ~(Cardinality(After(c)) >= MaxCount)
        BY <2>4, <2>7, <3>1, <3>3
      <4>2. ASSUME Started(c) < Started(b) PROVE FALSE
        <5>1. After(b) \subseteq After(c)
          BY <1>1, <3>1, <4>2, ListingSorted DEF Earlier
        <5>2. IsFiniteSet(After(c))
          <6>1. After(c) \subseteq ListedBackups
            BY DEF After
          <6> QED BY <1>1, <6>1, PlacesTaken, FS_Subset
        <5>3. Cardinality(After(b)) <= Cardinality(After(c))
          BY <5>1, <5>2, FS_Subset
        <5> QED BY <2>2, <2>3, <3>1, <4>1, <5>3
      <4> QED BY <3>1, <4>2
    <3> QED BY <2>7, <3>2, <3>3
  <2>8. IsFiniteSet(last) /\ Cardinality(last) <= MaxCount
    BY <1>1, <2>2, LastPlaces
  <2>9. ASSUME MaxCount > 0 PROVE Cardinality(kept) <= MaxCount
    <3>1. kept \subseteq last
      BY <2>2, <2>3, <2>4, <2>9
    <3>2. IsFiniteSet(kept) /\ Cardinality(kept) <= Cardinality(last)
      BY <2>8, <3>1, FS_Subset
    <3>3. Cardinality(kept) \in Nat /\ Cardinality(last) \in Nat
      BY <2>8, <3>2, FS_CardinalityType
    <3> HIDE DEF kept, last
    <3> QED BY <2>2, <2>8, <3>2, <3>3
  <2>10. ASSUME MaxCount > 0, MaxAge = 0, targets # {} PROVE Cardinality(kept) = MaxCount
    <3>1. kept = last
      BY <2>2, <2>3, <2>4, <2>5, <2>10
    <3>2. PICK b \in ListedBackups : b \in BackupsToPurgeByCount
      BY <2>5, <2>6, <2>10
    <3>3. Cardinality(After(b)) >= MaxCount
      BY <2>4, <3>2
    <3>4. Cardinality(After(b)) \in 0 .. Cardinality(ListedBackups) - 1
          /\ Cardinality(ListedBackups) \in Nat
      BY <1>1, PlacesTaken
    <3>5. MaxCount <= Cardinality(ListedBackups)
      BY <2>2, <3>3, <3>4
    <3>6. Cardinality(last) = MaxCount
      BY <1>1, <2>2, <3>5, LastPlaces
    <3> QED BY <3>1, <3>6
  <2> HIDE DEF targets
  <2> QED BY <2>1, <2>7, <2>9, <2>10
<1>2. TypeOK /\ [Next]_vars =>
        [Purge => LET kept == ListedBackups \ pg'.targets
                  IN  /\ \A b \in pg'.targets, c \in kept : Started(b) <= Started(c)
                      /\ MaxCount > 0 => Cardinality(kept) <= MaxCount
                      /\ MaxCount > 0 /\ MaxAge = 0 /\ pg'.targets # {} =>
                           Cardinality(kept) = MaxCount]_vars
  BY <1>1
<1> QED
  BY <1>2, TypeCorrect, PTL DEF Spec, PurgeTakesOldest

=============================================================================
