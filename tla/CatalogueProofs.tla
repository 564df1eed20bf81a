--------------------------- MODULE CatalogueProofs ---------------------------
(****************************************************************************)
(* The bucket implements the catalogue: for any number of names, files and  *)
(* failures, every step of NodeBackups in a disciplined use is a step of    *)
(* Catalogue or changes nothing of what Catalogue knows.                    *)
(****************************************************************************)
EXTENDS NodeBackupsProofs

------------------------------------------------------------------------------
(* From what a step does to single names to a step of the catalogue.        *)

\* What the catalogue knows of a name stays as it is.
Same(c) ==
  /\ StatusOf(c)' = StatusOf(c)
  /\ Restorable(c)' = Restorable(c)
  /\ Cut(c)' = Cut(c)

OthersSame(b) == \A c \in Names \ {b} : Same(c)

\* A step that changes nothing of any name is a stutter.
LEMMA Stutters ==
  ASSUME \A c \in Names : Same(c)
  PROVE  UNCHANGED Cat!vars
BY DEF Same, Cat!vars

\* A step that ends the backup of a name, ...
LEMMA GivesUp ==
  ASSUME NEW b \in Names, OthersSame(b), StatusOf(b)' = StatusOf(b),
         Restorable(b)' = Restorable(b), Cut(b)' = {}
  PROVE  Cat!Next
<1>1. Cat!GiveUp(b)
  BY DEF Cat!GiveUp, OthersSame, Same
<1> QED BY <1>1 DEF Cat!Next

\* ... that writes the first object of a backup, ...
LEMMA Starts ==
  ASSUME NEW b \in Names, OthersSame(b), StatusOf(b) = "absent", StatusOf(b)' = "partial",
         Restorable(b)' = Restorable(b), Cut(b)' = Cut(b)
  PROVE  Cat!Next
<1>1. Cat!Start(b)
  BY DEF Cat!Start, OthersSame, Same
<1> QED BY <1>1 DEF Cat!Next

\* ... that takes a snapshot, ...
LEMMA Snaps ==
  ASSUME NEW b \in Names, OthersSame(b), StatusOf(b) # "absent", StatusOf(b)' = StatusOf(b),
         Restorable(b)' = Restorable(b), Cut(b) = {}, NEW S \in SUBSET Files, Cut(b)' = {S}
  PROVE  Cat!Next
<1>1. Cat!TakeSnapshot(b, S)
  BY DEF Cat!TakeSnapshot, OthersSame, Same
<1> QED BY <1>1 DEF Cat!Next

\* ... that completes it with the files of its snapshot, ...
LEMMA Finishes ==
  ASSUME NEW b \in Names, OthersSame(b), StatusOf(b)' = "complete",
         Cut(b) = {Restorable(b)'}, Cut(b)' = {}
  PROVE  Cat!Next
<1>1. Cat!Finish(b)
  BY DEF Cat!Finish, OthersSame, Same
<1> QED BY <1>1 DEF Cat!Next

\* ... that takes a complete backup away, ...
LEMMA Removes ==
  ASSUME NEW b \in Names, OthersSame(b), StatusOf(b) = "complete", StatusOf(b)' = "partial",
         Restorable(b)' = {}, Cut(b) = {}, Cut(b)' = {}
  PROVE  Cat!Next
<1>1. Cat!Remove(b)
  BY DEF Cat!Remove, OthersSame, Same
<1> QED BY <1>1 DEF Cat!Next

\* ... or the last that is left of it.
LEMMA Clears ==
  ASSUME NEW b \in Names, OthersSame(b), StatusOf(b) = "partial", StatusOf(b)' = "absent",
         Restorable(b)' = Restorable(b), Cut(b) = {}, Cut(b)' = {}
  PROVE  Cat!Next
<1>1. Cat!Clear(b)
  BY DEF Cat!Clear, OthersSame, Same
<1> QED BY <1>1 DEF Cat!Next

------------------------------------------------------------------------------
(* The snapshots of the running backups.                                    *)

\* A name that a step does not touch: neither its process nor its snapshot.
Untouched(c) ==
  /\ bk'[c] = bk[c]
  /\ bk[c].pc \in {"list", "upload"} /\ Tag(c) \in snaps =>
       Tag(c) \in snaps' /\ linked'[Tag(c)] = linked[Tag(c)]

\* Such a name keeps its snapshot.
LEMMA UntouchedHolds ==
  ASSUME NEW c \in Names, Untouched(c), HoldsSnapshot(c)
  PROVE  HoldsSnapshot(c)' /\ Cut(c)' = Cut(c)
<1>1. Tag(c)' = Tag(c) /\ IsDifferential(c)' = IsDifferential(c)
  BY DEF Untouched, Tag, IsDifferential
<1>2. bk[c].pc \in {"list", "upload"} => Tag(c) \in snaps' /\ Wanted(c)' = Wanted(c)
  BY <1>1 DEF Untouched, HoldsSnapshot, Wanted
<1>3. HoldsSnapshot(c)'
  BY <1>1, <1>2 DEF Untouched, HoldsSnapshot
<1>4. Cut(c)' = Cut(c)
  BY <1>2 DEF Untouched, Cut
<1> QED BY <1>3, <1>4

\* Snapshots of two names are two snapshots.
LEMMA TagsDiffer == ASSUME NEW b, NEW c, b # c PROVE Tag(b) # Tag(c)
BY DEF Tag

\* A backup that leaves its snapshot leaves those of the others alone.
LEMMA ExitLeavesOthers ==
  ASSUME TypeOK, NEW b \in Names, NEW c \in Names \ {b}, bk'[c] = bk[c],
         ExitSnapshot(b) \/ UNCHANGED <<snaps, linked>>
  PROVE  Untouched(c)
<1>1. Tag(b) # Tag(c) /\ Tag(b) \in Tags /\ Tag(c) \in Tags
  BY TagsDiffer, TagType
<1>2. linked \in [Tags -> SUBSET Files]
  BY DEF TypeOK
<1> QED BY <1>1, <1>2 DEF Untouched, ExitSnapshot

\* A step that only moves a backup on, outside the steps that use its snapshot.
LEMMA AdvanceUntouched ==
  ASSUME TypeOK, SnapshotsHeld, NEW b \in Names, NEW from, NEW to \in BackupSteps,
         Advance(b, from, to), UNCHANGED <<snaps, linked>>,
         from \notin {"list", "upload", "manifest"},
         to \notin {"list", "upload", "manifest"},
         to \in BeforeData \cup {"stagger", "snapshot"} =>
           from \in BeforeData \cup {"stagger", "snapshot"}
  PROVE  /\ \A c \in Names : HoldsSnapshot(c)'
         /\ \A c \in Names : Cut(c)' = Cut(c)
<1>1. /\ \A c \in Names \ {b} : bk'[c] = bk[c]
      /\ bk[b].pc = from /\ bk'[b].pc = to /\ bk'[b].sent = bk[b].sent
  BY AdvanceMoves DEF TypeOK
<1>2. \A c \in Names \ {b} : HoldsSnapshot(c)' /\ Cut(c)' = Cut(c)
  BY <1>1, UntouchedHolds DEF Untouched, SnapshotsHeld
<1>3. HoldsSnapshot(b)'
  BY <1>1 DEF SnapshotsHeld, HoldsSnapshot
<1>4. Cut(b)' = {} /\ Cut(b) = {}
  BY <1>1 DEF Cut
<1> QED BY <1>2, <1>3, <1>4

\* The steps of a backup that write its meta data and its index entries.
Writes(b) ==
  \/ SaveSchema(b) \/ SaveTokenmap(b) \/ SaveServerVersion(b) \/ SaveDifferential(b)
  \/ IndexTokenmap(b) \/ IndexSchema(b) \/ IndexStarted(b) \/ IndexDifferential(b)
  \/ Stagger(b) \/ IndexManifest(b) \/ IndexFinished(b)

\* They leave the snapshots alone.
LEMMA WritesHold ==
  ASSUME TypeOK, SnapshotsHeld, NEW b \in Names, Writes(b)
  PROVE  /\ SnapshotsHeld'
         /\ \A c \in Names : Cut(c)' = Cut(c)
<1>1. UNCHANGED <<snaps, linked>>
  BY DEF Writes, SaveSchema, SaveTokenmap, SaveServerVersion, SaveDifferential, SaveMeta,
     IndexTokenmap, IndexSchema, IndexStarted, IndexDifferential, Stagger, IndexManifest,
     IndexFinished, SaveIndex, nodeVars
<1>2. \E from, to \in BackupSteps :
        /\ Advance(b, from, to)
        /\ from \notin {"list", "upload", "manifest"}
        /\ to \notin {"list", "upload", "manifest"}
        /\ to \in BeforeData \cup {"stagger", "snapshot"} =>
             from \in BeforeData \cup {"stagger", "snapshot"}
  <2> USE DEF BackupSteps, BeforeData, BeforeIndex
  <2>1. CASE SaveSchema(b)
    BY <2>1 DEF SaveSchema
  <2>2. CASE SaveTokenmap(b) \/ SaveDifferential(b)
    BY <2>2 DEF SaveTokenmap, SaveDifferential, SaveMeta
  <2>3. CASE SaveServerVersion(b)
    BY <2>3 DEF SaveServerVersion, SaveMeta
  <2>4. CASE IndexTokenmap(b) \/ IndexSchema(b) \/ IndexDifferential(b)
    BY <2>4 DEF IndexTokenmap, IndexSchema, IndexDifferential, SaveIndex
  <2>5. CASE IndexStarted(b)
    BY <2>5 DEF IndexStarted, SaveIndex
  <2>6. CASE Stagger(b) \/ IndexManifest(b) \/ IndexFinished(b)
    BY <2>6 DEF Stagger, IndexManifest, IndexFinished, SaveIndex
  <2> QED BY <2>1, <2>2, <2>3, <2>4, <2>5, <2>6 DEF Writes
<1> QED BY <1>1, <1>2, AdvanceUntouched DEF SnapshotsHeld

\* A backup takes its snapshot: the cut is the files of the snapshot.
LEMMA TakeSnapshotHolds ==
  ASSUME TypeOK, SnapshotsHeld, NEW b \in Names, TakeSnapshot(b)
  PROVE  /\ SnapshotsHeld'
         /\ \A c \in Names \ {b} : Cut(c)' = Cut(c)
         /\ Cut(b) = {} /\ \E S \in SUBSET Files : Cut(b)' = {S}
<1>0. "list" \in BackupSteps /\ Advance(b, "snapshot", "list") /\ bk \in [Names -> BackupState]
  BY DEF TakeSnapshot, BackupSteps, TypeOK
<1>1. /\ bk' \in [Names -> BackupState]
      /\ \A c \in Names \ {b} : bk'[c] = bk[c]
      /\ bk[b].pc = "snapshot" /\ bk'[b].pc = "list" /\ bk'[b].sent = bk[b].sent
      /\ bk'[b].owner = bk[b].owner
  BY <1>0, AdvanceMoves
<1>2. Tag(b)' = Tag(b) /\ Tag(b) \in Tags
  BY <1>1, TagType DEF Tag
<1>3. ASSUME NEW c \in Names \ {b} PROVE Untouched(c)
  <2>1. Tag(c) # Tag(b) /\ Tag(c) \in Tags /\ linked \in [Tags -> SUBSET Files]
    BY TagsDiffer, TagType DEF TypeOK
  <2> QED BY <1>1, <1>2, <2>1 DEF Untouched, TakeSnapshot
<1>4. \A c \in Names \ {b} : HoldsSnapshot(c)' /\ Cut(c)' = Cut(c)
  BY <1>3, UntouchedHolds DEF SnapshotsHeld
<1>5. HoldsSnapshot(b)'
  BY <1>1, <1>2 DEF TakeSnapshot, SnapshotsHeld, HoldsSnapshot
<1>6. Wanted(b)' \in SUBSET Files
  BY <1>2 DEF TakeSnapshot, Wanted, TypeOK, LiveFiles
<1>7. Cut(b)' = {Wanted(b)'}
  BY <1>1 DEF Cut
<1>8. Cut(b) = {}
  BY <1>1 DEF Cut
<1> QED BY <1>4, <1>5, <1>6, <1>7, <1>8 DEF SnapshotsHeld

\* While a backup lists the storage and uploads, its cut stays as it is.
LEMMA UploadHolds ==
  ASSUME TypeOK, SnapshotsHeld, NEW b \in Names,
         ListStorage(b) \/ \E f \in Files : Upload(b, f)
  PROVE  SnapshotsHeld' /\ \A c \in Names : Cut(c)' = Cut(c)
<1>1. UNCHANGED <<snaps, linked>>
  BY DEF ListStorage, Upload, nodeVars
<1>2. /\ \A c \in Names \ {b} : bk'[c] = bk[c]
      /\ bk[b].pc \in {"list", "upload"} /\ bk'[b].pc = "upload"
      /\ bk'[b].mode = bk[b].mode /\ bk'[b].owner = bk[b].owner
      /\ bk'[b].kept \cup bk'[b].sent \cup bk'[b].todo = Wanted(b)
  <2>1. CASE ListStorage(b)
    <3>1. bk[b].sent = {}
      BY <2>1 DEF SnapshotsHeld, HoldsSnapshot, ListStorage
    <3> QED BY <2>1, <3>1, ListMoves
  <2>2. ASSUME NEW f \in Files, Upload(b, f)
        PROVE  <1>2!:
    <3>1. f \in bk[b].todo /\ bk[b].pc = "upload"
      BY <2>2 DEF Upload
    <3>2. bk[b].kept \cup bk[b].sent \cup bk[b].todo = Wanted(b)
      BY <3>1 DEF SnapshotsHeld, HoldsSnapshot
    <3> QED BY <2>2, <3>1, <3>2, UploadMoves
  <2> QED BY <2>1, <2>2
<1>3. \A c \in Names \ {b} : HoldsSnapshot(c)' /\ Cut(c)' = Cut(c)
  BY <1>1, <1>2, UntouchedHolds DEF Untouched, SnapshotsHeld
<1>4. Tag(b)' = Tag(b) /\ Wanted(b)' = Wanted(b)
  BY <1>1, <1>2 DEF Tag, Wanted, IsDifferential
<1>5. HoldsSnapshot(b)'
  BY <1>1, <1>2, <1>4 DEF SnapshotsHeld, HoldsSnapshot, BeforeData, BeforeIndex
<1>6. Cut(b)' = Cut(b)
  BY <1>2, <1>4 DEF Cut
<1> QED BY <1>3, <1>5, <1>6 DEF SnapshotsHeld

\* When all is uploaded the backup leaves its snapshot and goes on with its cut.
LEMMA LeaveSnapshotHolds ==
  ASSUME TypeOK, SnapshotsHeld, NEW b \in Names, LeaveSnapshot(b)
  PROVE  SnapshotsHeld' /\ \A c \in Names : Cut(c)' = Cut(c)
<1>0. /\ "manifest" \in BackupSteps /\ Advance(b, "upload", "manifest")
      /\ bk \in [Names -> BackupState]
  BY DEF LeaveSnapshot, BackupSteps, TypeOK
<1>1. /\ \A c \in Names \ {b} : bk'[c] = bk[c]
      /\ bk[b].pc = "upload" /\ bk'[b].pc = "manifest"
      /\ bk'[b].kept = bk[b].kept /\ bk'[b].sent = bk[b].sent /\ bk[b].todo = {}
  BY <1>0, AdvanceMoves DEF LeaveSnapshot
<1>2. \A c \in Names \ {b} : HoldsSnapshot(c)' /\ Cut(c)' = Cut(c)
  BY <1>1, ExitLeavesOthers, UntouchedHolds DEF LeaveSnapshot, SnapshotsHeld
<1>3. HoldsSnapshot(b)'
  BY <1>1 DEF HoldsSnapshot, BeforeData, BeforeIndex
<1>4. bk[b].kept \cup bk[b].sent = Wanted(b)
  BY <1>1 DEF SnapshotsHeld, HoldsSnapshot
<1>5. Cut(b)' = Cut(b)
  BY <1>1, <1>4 DEF Cut
<1> QED BY <1>2, <1>3, <1>5 DEF SnapshotsHeld

\* The manifest lists the files of the cut, which is used up.
LEMMA SaveManifestHolds ==
  ASSUME TypeOK, SnapshotsHeld, NEW b \in Names, SaveManifest(b)
  PROVE  /\ SnapshotsHeld'
         /\ \A c \in Names \ {b} : Cut(c)' = Cut(c)
         /\ Cut(b)' = {} /\ Cut(b) = {manifest'[b]}
<1>0. /\ "i_manifest" \in BackupSteps /\ Advance(b, "manifest", "i_manifest")
      /\ bk \in [Names -> BackupState] /\ UNCHANGED <<snaps, linked>>
  BY DEF SaveManifest, BackupSteps, TypeOK, nodeVars
<1>1. /\ \A c \in Names \ {b} : bk'[c] = bk[c]
      /\ bk[b].pc = "manifest" /\ bk'[b].pc = "i_manifest"
  BY <1>0, AdvanceMoves
<1>2. \A c \in Names \ {b} : HoldsSnapshot(c)' /\ Cut(c)' = Cut(c)
  BY <1>0, <1>1, UntouchedHolds DEF Untouched, SnapshotsHeld
<1>3. HoldsSnapshot(b)'
  BY <1>1 DEF HoldsSnapshot, BeforeData, BeforeIndex
<1>4. Cut(b)' = {} /\ Cut(b) = {bk[b].kept \cup bk[b].sent}
  BY <1>1 DEF Cut
<1>5. manifest'[b] = bk[b].kept \cup bk[b].sent
  BY DEF SaveManifest, TypeOK
<1> QED BY <1>2, <1>3, <1>4, <1>5 DEF SnapshotsHeld

\* A backup that ends, well or not, has no cut any more.
LEMMA EndHolds ==
  ASSUME TypeOK, SnapshotsHeld, NEW b \in Names,
         SetLatest(b) \/ BackupFails(b) \/ BackupCrashes(b)
  PROVE  /\ SnapshotsHeld'
         /\ \A c \in Names \ {b} : Cut(c)' = Cut(c)
         /\ Cut(b)' = {}
<1>1. /\ \A c \in Names \ {b} : bk'[c] = bk[c]
      /\ bk'[b].pc = "idle" /\ bk'[b].sent = {}
  BY EndMoves DEF Idle
<1>2. ExitSnapshot(b) \/ UNCHANGED <<snaps, linked>>
  BY DEF SetLatest, BackupFails, BackupCrashes, nodeVars
<1>3. \A c \in Names \ {b} : HoldsSnapshot(c)' /\ Cut(c)' = Cut(c)
  BY <1>1, <1>2, ExitLeavesOthers, UntouchedHolds DEF SnapshotsHeld
<1>4. HoldsSnapshot(b)' /\ Cut(b)' = {}
  BY <1>1 DEF HoldsSnapshot, Cut
<1> QED BY <1>3, <1>4 DEF SnapshotsHeld

\* A backup that starts has no snapshot yet.
LEMMA HandleBackupHolds ==
  ASSUME TypeOK, SnapshotsHeld, NEW b \in Names, NEW mode \in Modes, NEW keep \in KeepFlags,
         NEW owner \in SnapshotOwners, HandleBackup(b, mode, keep, owner)
  PROVE  SnapshotsHeld' /\ \A c \in Names : Cut(c)' = Cut(c)
<1>1. /\ \A c \in Names \ {b} : bk'[c] = bk[c]
      /\ bk[b].pc = "idle" /\ bk'[b].pc = "schema" /\ bk'[b].sent = {}
  BY StartMoves DEF HandleBackup
<1>2. UNCHANGED <<snaps, linked>>
  BY DEF HandleBackup, nodeVars
<1>3. \A c \in Names \ {b} : HoldsSnapshot(c)' /\ Cut(c)' = Cut(c)
  BY <1>1, <1>2, UntouchedHolds DEF Untouched, SnapshotsHeld
<1>4. HoldsSnapshot(b)'
  BY <1>1 DEF HoldsSnapshot
<1>5. Cut(b)' = {} /\ Cut(b) = {}
  BY <1>1 DEF Cut
<1> QED BY <1>3, <1>4, <1>5 DEF SnapshotsHeld

\* Of the other steps only the operator's own snapshots touch the disk, and never
\* a snapshot that is there.
LEMMA OtherStepsHold ==
  ASSUME TypeOK, SnapshotsHeld, UNCHANGED bk,
         UNCHANGED <<snaps, linked>> \/ \E b \in Names : OperatorSnapshot(b)
  PROVE  SnapshotsHeld' /\ \A c \in Names : Cut(c)' = Cut(c)
<1>1. linked \in [Tags -> SUBSET Files]
  BY DEF TypeOK
<1>2. ASSUME NEW c \in Names PROVE Untouched(c)
  <2>1. Tag(c) \in Tags
    BY TagType
  <2> QED BY <1>1, <2>1 DEF Untouched, OperatorSnapshot
<1> QED BY <1>2, UntouchedHolds DEF SnapshotsHeld

\* The steps that are no steps of a backup and touch no snapshot.
LEMMA RestOfNext ==
  ASSUME [Next]_vars
  PROVE  \/ \E b \in Names : \/ BackupStep(b) \/ BackupFails(b) \/ BackupCrashes(b)
                             \/ OperatorSnapshot(b)
                             \/ \E mode \in Modes, keep \in KeepFlags, owner \in SnapshotOwners :
                                  HandleBackup(b, mode, keep, owner)
         \/ UNCHANGED <<snaps, linked, bk>>
BY DEF Next, vars, nodeVars, Tick, Flush, Compact, LoseIndex, Purge, DeleteBackup, StartPurging,
   PurgeStep, PurgeBackup, PurgeObject, CleanBackupFromIndex, CleanIndexObject, BackupPurged,
   ReadManifests, ScanStorage, DeleteOrphan, PurgeEnds, PurgeStops, ListBackups, BuildIndex,
   BuildIndexStops, ReportLatest

\* Every backup keeps the snapshot it reads.
LEMMA SnapshotsStayHeld == TypeOK /\ SnapshotsHeld /\ [Next]_vars => SnapshotsHeld'
<1> SUFFICES ASSUME TypeOK, SnapshotsHeld, [Next]_vars PROVE SnapshotsHeld'
  OBVIOUS
<1>1. ASSUME NEW b \in Names, BackupStep(b) PROVE SnapshotsHeld'
  BY <1>1, WritesHold, TakeSnapshotHolds, UploadHolds, LeaveSnapshotHolds, SaveManifestHolds,
     EndHolds DEF BackupStep, Writes
<1>2. ASSUME NEW b \in Names, BackupFails(b) \/ BackupCrashes(b) PROVE SnapshotsHeld'
  BY <1>2, EndHolds
<1>3. ASSUME NEW b \in Names, OperatorSnapshot(b) PROVE SnapshotsHeld'
  BY <1>3, OtherStepsHold DEF OperatorSnapshot
<1>4. ASSUME UNCHANGED <<snaps, linked, bk>> PROVE SnapshotsHeld'
  BY <1>4, OtherStepsHold
<1> QED BY <1>1, <1>2, <1>3, <1>4, RestOfNext, HandleBackupHolds

------------------------------------------------------------------------------
(* The cleanup of a purge.                                                  *)

\* The cleanup knows what it will delete and what it will not.
LEMMA CleanupStaysCovered ==
  ASSUME Disciplined, BucketInvariant, CleanupCovers, [Next]_vars
  PROVE  CleanupCovers'
<1> USE DEF dataVars, metaVars
<1>0. TypeOK /\ ManifestIsLast
  BY DEF BucketInvariant
<1>1. CASE UNCHANGED <<blobs, mtime, meta, manifest, pg>>
  BY <1>1 DEF CleanupCovers, Complete, Exists
<1>2. CASE pg'.pc \notin {"scan", "delete"}
  BY <1>2 DEF CleanupCovers
<1>3. ASSUME NEW b \in Names, bk[b].pc # "idle", pg' = pg PROVE CleanupCovers'
  <2>1. pg.pc = "idle"
    BY <1>3, BackupAlone
  <2> QED BY <1>2, <1>3, <2>1
<1>4. CASE ReadManifests
  <2>1. /\ pg'.pc = "scan" /\ UNCHANGED <<meta, manifest>>
        /\ pg'.paths = UNION {manifest[b] : b \in CompleteDifferential}
    BY <1>0, <1>4 DEF ReadManifests, TypeOK, PurgeState
  <2>2. \A b \in CompleteDifferential : b \in Names /\ Complete(b)
    BY <1>0 DEF CompleteDifferential, ListedBackups, Entries, ManifestIsLast, Complete, Exists
  <2>3. \A f \in pg'.paths : \E b \in Names : Complete(b) /\ f \in manifest[b]
    BY <2>1, <2>2
  <2> QED BY <2>1, <2>3 DEF CleanupCovers, Complete, Exists
<1>5. CASE ScanStorage
  <2>1. /\ pg.pc = "scan" /\ pg'.pc = "delete" /\ UNCHANGED <<blobs, mtime, meta, manifest>>
        /\ pg'.orphans = {f \in blobs \ pg.paths : mtime[f] <= now - Grace}
        /\ pg'.cutoff = now - Grace
    BY <1>0, <1>5 DEF ScanStorage, OlderThanGrace, TypeOK, PurgeState
  <2> QED BY <2>1 DEF CleanupCovers, Complete, Exists
<1>6. ASSUME NEW f \in Files, DeleteOrphan(f) PROVE CleanupCovers'
  <2>1. /\ pg.pc = "delete" /\ pg'.pc = "delete" /\ UNCHANGED <<meta, manifest>>
        /\ blobs' = blobs \ {f} /\ \A g \in Files \ {f} : mtime'[g] = mtime[g]
        /\ pg'.orphans = pg.orphans \ {f} /\ pg'.cutoff = pg.cutoff
    BY <1>0, <1>6 DEF DeleteOrphan, TypeOK, PurgeState
  <2>2. blobs \subseteq Files
    BY <1>0 DEF TypeOK
  <2> QED BY <2>1, <2>2 DEF CleanupCovers, Complete, Exists
<1>7. CASE PurgeStep
  <2>1. ASSUME NEW b \in Names, PurgeBackup(b) PROVE pg'.pc = "meta"
    BY <1>0, <2>1 DEF PurgeBackup, TypeOK, PurgeState
  <2>2. ASSUME NEW c \in Names, NEW k \in MetaKinds, PurgeObject(c, k) PROVE pg'.pc = "meta"
    BY <1>0, <2>2 DEF PurgeObject, TypeOK, PurgeState
  <2>3. CleanBackupFromIndex => pg'.pc = "index"
    BY <1>0 DEF CleanBackupFromIndex, TypeOK, PurgeState
  <2>4. ASSUME NEW c \in Names, NEW k \in IndexKinds, CleanIndexObject(c, k) PROVE pg'.pc = "index"
    BY <1>0, <2>4 DEF CleanIndexObject, TypeOK, PurgeState
  <2>5. BackupPurged => pg'.pc = "purge"
    BY <1>0 DEF BackupPurged, TypeOK, PurgeState
  <2>6. PurgeEnds => pg'.pc = "idle"
    BY DEF PurgeEnds, NoPurge
  <2> QED BY <1>2, <1>4, <1>5, <1>6, <1>7, <2>1, <2>2, <2>3, <2>4, <2>5, <2>6 DEF PurgeStep
<1>8. CASE PurgeStops \/ Purge \/ \E names \in SUBSET Names : DeleteBackup(names)
  <2>1. PurgeStops => pg'.pc = "idle"
    BY DEF PurgeStops, NoPurge
  <2>2. ASSUME NEW targets, StartPurging(targets) PROVE pg'.pc = "purge"
    BY <2>2 DEF StartPurging, NoPurge
  <2> QED BY <1>2, <1>8, <2>1, <2>2 DEF Purge, DeleteBackup
<1>9. ASSUME NEW b \in Names, BackupStep(b) \/ BackupFails(b) \/ BackupCrashes(b)
      PROVE  bk[b].pc # "idle" /\ pg' = pg
  <2>1. CASE Writes(b)
    BY <2>1 DEF Writes, SaveSchema, SaveTokenmap, SaveServerVersion, SaveDifferential, SaveMeta,
       IndexTokenmap, IndexSchema, IndexStarted, IndexDifferential, Stagger, IndexManifest,
       IndexFinished, SaveIndex, Advance
  <2>2. CASE ~Writes(b)
    BY <1>9, <2>2 DEF Writes, BackupStep, TakeSnapshot, ListStorage, Upload, LeaveSnapshot,
       SaveManifest, SetLatest, BackupFails, BackupCrashes, Advance
  <2> QED BY <2>1, <2>2
<1>10. ASSUME NEW b \in Names, NEW mode \in Modes, NEW keep \in KeepFlags,
              NEW owner \in SnapshotOwners, HandleBackup(b, mode, keep, owner)
       PROVE  CleanupCovers'
  BY <1>1, <1>10 DEF HandleBackup
<1>11. CASE \/ Tick \/ LoseIndex \/ ListBackups \/ BuildIndex \/ ReportLatest \/ UNCHANGED vars
            \/ (\E b \in Names, n \in 0..4 : BuildIndexStops(b, n))
            \/ (\E f \in Files : Flush(f) \/ Compact(f)) \/ \E b \in Names : OperatorSnapshot(b)
  BY <1>1, <1>11 DEF Tick, LoseIndex, ListBackups, BuildIndex, ReportLatest, BuildIndexStops, Flush,
     Compact, OperatorSnapshot, vars
<1> QED
  BY <1>3, <1>7, <1>8, <1>9, <1>10, <1>11 DEF Next

\* The invariant of the catalogue is kept by every step.
LEMMA CatalogueInvariantNext ==
  ASSUME Disciplined PROVE CatalogueInvariant /\ [Next]_vars => CatalogueInvariant'
<1>1. BucketInvariant => TypeOK
  BY DEF BucketInvariant
<1> QED
  BY <1>1, InvariantNext, SnapshotsStayHeld, CleanupStaysCovered DEF CatalogueInvariant

\* It holds of an empty bucket.
LEMMA CatalogueInvariantInit == Init => CatalogueInvariant
<1> SUFFICES ASSUME Init PROVE CatalogueInvariant
  OBVIOUS
<1>1. SnapshotsHeld
  BY DEF Init, Idle, SnapshotsHeld, HoldsSnapshot
<1>2. CleanupCovers
  BY DEF Init, NoPurge, CleanupCovers
<1> QED BY <1>1, <1>2, InvariantInit DEF CatalogueInvariant

\* All that a disciplined use of the commands keeps true of the bucket, of the
\* snapshots that running backups read and of the lists the cleanup works on.
THEOREM CatalogueInvariantHolds == ASSUME Disciplined PROVE Spec => []CatalogueInvariant
BY CatalogueInvariantInit, CatalogueInvariantNext, PTL DEF Spec

\* When a purge ends, every file past the grace period that is left is one a
\* complete backup lists, whatever failed in earlier purges and backups.
THEOREM CleanupLeavesNothing == ASSUME Disciplined PROVE Spec => CleanupComplete
<1>1. CatalogueInvariant /\ [Next]_vars =>
        [PurgeEnds => \A f \in blobs : mtime[f] <= pg.cutoff =>
                        \E b \in Names : Complete(b) /\ f \in manifest[b]]_vars
  BY DEF CatalogueInvariant, CleanupCovers, PurgeEnds
<1> QED
  BY <1>1, CatalogueInvariantHolds, PTL DEF Spec, CleanupComplete

------------------------------------------------------------------------------
(* Every step is a step of the catalogue.                                   *)

\* A restore gets all the files of a manifest.
LEMMA RestoresManifest ==
  ASSUME BucketInvariant, NEW c \in Names, "manifest" \in meta[c]
  PROVE  Restorable(c) = manifest[c] /\ StatusOf(c) = "complete"
<1>1. Complete(c)
  BY DEF BucketInvariant, ManifestIsLast, Complete, Exists
<1>2. manifest[c] \subseteq blobs \ torn
  BY <1>1 DEF BucketInvariant, CompleteBackupsIntact
<1> QED BY <1>1, <1>2 DEF Restorable, StatusOf

\* Without one it gets nothing.
LEMMA NothingToRestore ==
  ASSUME NEW c \in Names, "manifest" \notin meta[c]
  PROVE  /\ Restorable(c) = {}
         /\ StatusOf(c) = IF meta[c] # {} THEN "partial" ELSE "absent"
BY DEF Restorable, StatusOf, Complete

\* What is done to the data never changes what a restore of a backup gives, as
\* long as its own directory stays as it is.
LEMMA ContentKept ==
  ASSUME BucketInvariant, BucketInvariant', NEW c \in Names,
         meta'[c] = meta[c], manifest'[c] = manifest[c]
  PROVE  StatusOf(c)' = StatusOf(c) /\ Restorable(c)' = Restorable(c)
<1>1. CASE "manifest" \in meta[c]
  <2>1. Complete(c) /\ Complete(c)'
    BY <1>1 DEF BucketInvariant, ManifestIsLast, Complete, Exists
  <2>2. manifest[c] \subseteq blobs \ torn /\ manifest[c] \subseteq blobs' \ torn'
    BY <2>1 DEF BucketInvariant, CompleteBackupsIntact
  <2> QED BY <1>1, <2>1, <2>2 DEF StatusOf, Restorable
<1>2. CASE "manifest" \notin meta[c]
  BY <1>2 DEF StatusOf, Restorable, Complete, Exists
<1> QED BY <1>1, <1>2

\* The first object of a backup, the manifest, and the other objects between them.
LEMMA WritesRefine ==
  ASSUME CatalogueInvariant, BucketInvariant', NEW b \in Names, Writes(b)
  PROVE  [Cat!Next]_(Cat!vars)
<1> USE DEF metaVars
<1>0. TypeOK /\ BucketInvariant /\ SnapshotsHeld
  BY DEF CatalogueInvariant, BucketInvariant
<1>1. \A c \in Names : Cut(c)' = Cut(c)
  BY <1>0, WritesHold
<1>2. /\ manifest' = manifest
      /\ \A c \in Names \ {b} : meta'[c] = meta[c]
      /\ meta[b] \subseteq meta'[b]
      /\ "manifest" \in meta'[b] => "manifest" \in meta[b]
      /\ meta'[b] = meta[b] \/ meta'[b] # {}
  <2>1. meta \in [Names -> SUBSET MetaKinds]
    BY <1>0 DEF TypeOK
  <2>2. CASE SaveSchema(b) \/ SaveTokenmap(b) \/ SaveServerVersion(b) \/ SaveDifferential(b)
    BY <2>1, <2>2 DEF SaveSchema, SaveTokenmap, SaveServerVersion, SaveDifferential, SaveMeta
  <2>3. CASE UNCHANGED <<meta, manifest>>
    BY <2>3
  <2> QED
    BY <2>2, <2>3 DEF Writes, IndexTokenmap, IndexSchema, IndexStarted, IndexDifferential, Stagger,
       IndexManifest, IndexFinished, SaveIndex
<1>3. OthersSame(b)
  BY <1>0, <1>1, <1>2, ContentKept DEF OthersSame, Same
<1>4. CASE meta'[b] = meta[b] \/ "manifest" \in meta[b] \/ meta[b] # {}
  <2>1. StatusOf(b)' = StatusOf(b) /\ Restorable(b)' = Restorable(b)
    <3>1. CASE meta'[b] = meta[b]
      BY <1>0, <1>2, <3>1, ContentKept
    <3>2. CASE "manifest" \in meta[b]
      <4>1. Complete(b) /\ Complete(b)'
        BY <1>0, <1>2, <3>2 DEF BucketInvariant, ManifestIsLast, Complete, Exists
      <4>2. manifest[b] \subseteq blobs \ torn /\ manifest[b] \subseteq blobs' \ torn'
        BY <1>0, <1>2, <4>1 DEF BucketInvariant, CompleteBackupsIntact
      <4> QED BY <1>2, <3>2, <4>1, <4>2 DEF StatusOf, Restorable
    <3>3. CASE "manifest" \notin meta[b] /\ meta[b] # {}
      BY <1>2, <3>3 DEF StatusOf, Restorable, Complete
    <3> QED BY <1>4, <3>1, <3>2, <3>3
  <2>2. \A c \in Names : Same(c)
    BY <1>1, <1>3, <2>1 DEF OthersSame, Same
  <2> QED BY <2>2, Stutters
<1>5. CASE meta'[b] # {} /\ meta[b] = {}
  <2>1. StatusOf(b) = "absent" /\ StatusOf(b)' = "partial" /\ Restorable(b)' = Restorable(b)
    BY <1>2, <1>5 DEF StatusOf, Restorable, Complete, Exists
  <2> QED BY <1>1, <1>3, <2>1, Starts
<1> QED BY <1>2, <1>4, <1>5

\* A purge: the manifest goes first, which removes the backup, the last object clears it.
LEMMA PurgeObjectRefines ==
  ASSUME Disciplined, CatalogueInvariant, BucketInvariant', NEW b \in Names, NEW k \in MetaKinds,
         PurgeObject(b, k)
  PROVE  [Cat!Next]_(Cat!vars)
<1>0. TypeOK /\ BucketInvariant /\ SnapshotsHeld
  BY DEF CatalogueInvariant, BucketInvariant
<1>1. /\ meta' = [meta EXCEPT ![b] = @ \ {k}]
      /\ manifest' = IF k = "manifest" THEN [manifest EXCEPT ![b] = {}] ELSE manifest
      /\ UNCHANGED <<bk, snaps, linked>> /\ pg.pc = "meta"
  BY DEF PurgeObject, nodeVars
<1>2. /\ meta'[b] = meta[b] \ {k}
      /\ \A c \in Names \ {b} : meta'[c] = meta[c] /\ manifest'[c] = manifest[c]
      /\ k # "manifest" => manifest'[b] = manifest[b]
  BY <1>0, <1>1 DEF TypeOK
<1>3. \A c \in Names : Cut(c) = {} /\ Cut(c)' = {}
  <2>1. NoBackupRuns
    BY <1>0, <1>1 DEF BucketInvariant, PurgeAlone
  <2>2. \A c \in Names : Cut(c) = {}
    BY <2>1 DEF NoBackupRuns, Cut
  <2>3. \A c \in Names : Cut(c)' = Cut(c)
    BY <1>0, <1>1, OtherStepsHold
  <2> QED BY <2>2, <2>3
<1>4. OthersSame(b)
  BY <1>0, <1>2, <1>3, ContentKept DEF OthersSame, Same
<1>5. CASE meta'[b] = meta[b]
  <2>1. k # "manifest" \/ "manifest" \notin meta[b]
    BY <1>2, <1>5
  <2>2. StatusOf(b)' = StatusOf(b) /\ Restorable(b)' = Restorable(b)
    BY <1>0, <1>2, <1>5, <2>1, ContentKept DEF StatusOf, Restorable, Complete, Exists
  <2>3. \A c \in Names : Same(c)
    BY <1>3, <1>4, <2>2 DEF OthersSame, Same
  <2> QED BY <2>3, Stutters
<1>6. CASE k = "manifest" /\ "manifest" \in meta[b]
  <2>1. "schema" \in meta'[b]
    BY <1>0, <1>2, <1>6 DEF BucketInvariant, ManifestIsLast
  <2>2. StatusOf(b) = "complete"
    BY <1>0, <1>6, RestoresManifest
  <2>3. StatusOf(b)' = "partial" /\ Restorable(b)' = {}
    BY <1>2, <1>6, <2>1 DEF StatusOf, Restorable, Complete
  <2> QED BY <1>3, <1>4, <2>2, <2>3, Removes
<1>7. CASE k # "manifest" /\ "manifest" \in meta[b]
  <2>1. "manifest" \in meta'[b] /\ manifest'[b] = manifest[b]
    BY <1>2, <1>7
  <2>2. StatusOf(b) = "complete" /\ Restorable(b) = manifest[b]
    BY <1>0, <1>7, RestoresManifest
  <2>3. Complete(b)' /\ manifest'[b] \subseteq blobs' \ torn'
    BY <2>1 DEF BucketInvariant, ManifestIsLast, CompleteBackupsIntact, Complete, Exists
  <2>4. StatusOf(b)' = "complete" /\ Restorable(b)' = manifest[b]
    BY <2>1, <2>3 DEF StatusOf, Restorable
  <2>5. \A c \in Names : Same(c)
    BY <1>3, <1>4, <2>2, <2>4 DEF OthersSame, Same
  <2> QED BY <2>5, Stutters
<1>8. CASE "manifest" \notin meta[b] /\ meta'[b] # meta[b]
  <2>1. StatusOf(b) = "partial" /\ Restorable(b) = {} /\ Restorable(b)' = {}
    BY <1>2, <1>8 DEF StatusOf, Restorable, Complete
  <2>2. CASE meta'[b] = {}
    <3>1. StatusOf(b)' = "absent"
      BY <2>2 DEF StatusOf, Complete, Exists
    <3> QED BY <1>3, <1>4, <2>1, <3>1, Clears
  <2>3. CASE meta'[b] # {}
    <3>1. StatusOf(b)' = "partial"
      BY <1>2, <1>8, <2>3 DEF StatusOf, Complete, Exists
    <3>2. \A c \in Names : Same(c)
      BY <1>3, <1>4, <2>1, <3>1 DEF OthersSame, Same
    <3> QED BY <3>2, Stutters
  <2> QED BY <2>2, <2>3
<1> QED BY <1>5, <1>6, <1>7, <1>8

\* Steps that leave the directories of all backups alone, and all cuts, stutter.
LEMMA DirectoriesKept ==
  ASSUME BucketInvariant, BucketInvariant', UNCHANGED <<meta, manifest>>,
         \A c \in Names : Cut(c)' = Cut(c)
  PROVE  UNCHANGED Cat!vars
<1>1. \A c \in Names : Same(c)
  BY ContentKept DEF Same
<1> QED BY <1>1, Stutters

\* Every step of a backup, ...
LEMMA BackupStepRefines ==
  ASSUME CatalogueInvariant, BucketInvariant', NEW b \in Names, BackupStep(b)
  PROVE  [Cat!Next]_(Cat!vars)
<1> USE DEF metaVars
<1>0. TypeOK /\ BucketInvariant /\ SnapshotsHeld
  BY DEF CatalogueInvariant, BucketInvariant
<1>1. CASE Writes(b)
  BY <1>1, WritesRefine
<1>2. CASE TakeSnapshot(b)
  <2>1. /\ \A c \in Names \ {b} : Cut(c)' = Cut(c)
        /\ Cut(b) = {} /\ \E S \in SUBSET Files : Cut(b)' = {S}
    BY <1>0, <1>2, TakeSnapshotHolds
  <2>2. UNCHANGED <<meta, manifest>>
    BY <1>2 DEF TakeSnapshot
  <2>3. \A c \in Names : StatusOf(c)' = StatusOf(c) /\ Restorable(c)' = Restorable(c)
    BY <1>0, <2>2, ContentKept
  <2>4. OthersSame(b)
    BY <2>1, <2>3 DEF OthersSame, Same
  <2>5. meta[b] # {}
    BY <1>0, <1>2 DEF TakeSnapshot, Advance, BucketInvariant, BackupWrote, Wrote
  <2>6. StatusOf(b) # "absent"
    BY <2>5 DEF StatusOf
  <2> QED BY <2>1, <2>3, <2>4, <2>6, Snaps
<1>3. CASE ListStorage(b) \/ \E f \in Files : Upload(b, f)
  <2>1. \A c \in Names : Cut(c)' = Cut(c)
    BY <1>0, <1>3, UploadHolds
  <2>2. UNCHANGED <<meta, manifest>>
    BY <1>3 DEF ListStorage, Upload
  <2> QED BY <1>0, <2>1, <2>2, DirectoriesKept
<1>4. CASE LeaveSnapshot(b)
  <2>1. UNCHANGED <<meta, manifest>>
    BY <1>4 DEF LeaveSnapshot
  <2> QED BY <1>0, <1>4, <2>1, LeaveSnapshotHolds, DirectoriesKept
<1>5. CASE SaveManifest(b)
  <2>1. /\ \A c \in Names \ {b} : Cut(c)' = Cut(c)
        /\ Cut(b)' = {} /\ Cut(b) = {manifest'[b]}
    BY <1>0, <1>5, SaveManifestHolds
  <2>2. /\ "manifest" \in meta'[b]
        /\ \A c \in Names \ {b} : meta'[c] = meta[c] /\ manifest'[c] = manifest[c]
    BY <1>0, <1>5 DEF SaveManifest, TypeOK
  <2>3. OthersSame(b)
    BY <1>0, <2>1, <2>2, ContentKept DEF OthersSame, Same
  <2>4. Complete(b)' /\ manifest'[b] \subseteq blobs' \ torn'
    BY <2>2 DEF BucketInvariant, ManifestIsLast, CompleteBackupsIntact, Complete, Exists
  <2>5. StatusOf(b)' = "complete" /\ Restorable(b)' = manifest'[b]
    BY <2>2, <2>4 DEF StatusOf, Restorable
  <2> QED BY <2>1, <2>3, <2>5, Finishes
<1>6. CASE SetLatest(b)
  <2>1. UNCHANGED <<meta, manifest>> /\ Cut(b) = {}
    BY <1>6 DEF SetLatest, Cut
  <2>2. \A c \in Names : Cut(c)' = Cut(c)
    BY <1>0, <1>6, <2>1, EndHolds
  <2> QED BY <1>0, <2>1, <2>2, DirectoriesKept
<1> QED
  BY <1>1, <1>2, <1>3, <1>4, <1>5, <1>6 DEF BackupStep, Writes

\* ... its end, ...
LEMMA BackupEndRefines ==
  ASSUME CatalogueInvariant, BucketInvariant', NEW b \in Names, BackupFails(b) \/ BackupCrashes(b)
  PROVE  Cat!Next
<1>1. TypeOK /\ BucketInvariant /\ SnapshotsHeld
  BY DEF CatalogueInvariant, BucketInvariant
<1>2. UNCHANGED <<meta, manifest>>
  BY DEF BackupFails, BackupCrashes, metaVars
<1>3. (\A c \in Names \ {b} : Cut(c)' = Cut(c)) /\ Cut(b)' = {}
  BY <1>1, EndHolds
<1>4. \A c \in Names : StatusOf(c)' = StatusOf(c) /\ Restorable(c)' = Restorable(c)
  BY <1>1, <1>2, ContentKept
<1>5. OthersSame(b)
  BY <1>3, <1>4 DEF OthersSame, Same
<1> QED BY <1>3, <1>4, <1>5, GivesUp

\* ... and every other step is a step of the catalogue or a stutter.
LEMMA StepsRefine ==
  ASSUME Disciplined
  PROVE  CatalogueInvariant /\ CatalogueInvariant' /\ [Next]_vars => [Cat!Next]_(Cat!vars)
<1> SUFFICES ASSUME CatalogueInvariant, CatalogueInvariant', [Next]_vars
             PROVE  [Cat!Next]_(Cat!vars)
  OBVIOUS
<1> USE DEF metaVars, nodeVars
<1>0. BucketInvariant /\ BucketInvariant' /\ TypeOK /\ SnapshotsHeld
  BY DEF CatalogueInvariant, BucketInvariant
<1>1. ASSUME NEW b \in Names, BackupStep(b) PROVE [Cat!Next]_(Cat!vars)
  BY <1>0, <1>1, BackupStepRefines
<1>2. ASSUME NEW b \in Names, BackupFails(b) \/ BackupCrashes(b) PROVE [Cat!Next]_(Cat!vars)
  BY <1>0, <1>2, BackupEndRefines
<1>3. ASSUME NEW c \in Names, NEW k \in MetaKinds, PurgeObject(c, k) PROVE [Cat!Next]_(Cat!vars)
  BY <1>0, <1>3, PurgeObjectRefines
<1>4. ASSUME NEW b \in Names, NEW mode \in Modes, NEW keep \in KeepFlags,
             NEW owner \in SnapshotOwners, HandleBackup(b, mode, keep, owner)
      PROVE  [Cat!Next]_(Cat!vars)
  <2>1. UNCHANGED <<meta, manifest>>
    BY <1>4 DEF HandleBackup
  <2> QED BY <1>0, <1>4, <2>1, HandleBackupHolds, DirectoriesKept
<1>5. ASSUME NEW b \in Names, OperatorSnapshot(b) PROVE [Cat!Next]_(Cat!vars)
  <2>1. UNCHANGED <<meta, manifest, bk>>
    BY <1>5 DEF OperatorSnapshot
  <2> QED BY <1>0, <1>5, <2>1, OtherStepsHold, DirectoriesKept
<1>6. CASE UNCHANGED <<meta, manifest, snaps, linked, bk>>
  BY <1>0, <1>6, OtherStepsHold, DirectoriesKept
<1>7. CASE PurgeStep /\ ~\E c \in Names : \E k \in MetaKinds : PurgeObject(c, k)
  BY <1>6, <1>7 DEF PurgeStep, PurgeBackup, CleanBackupFromIndex, CleanIndexObject, BackupPurged,
     ReadManifests, ScanStorage, DeleteOrphan, PurgeEnds
<1>8. CASE \/ Tick \/ LoseIndex \/ ListBackups \/ BuildIndex \/ ReportLatest \/ UNCHANGED vars
           \/ (\E b \in Names, n \in 0..4 : BuildIndexStops(b, n))
           \/ (\E f \in Files : Flush(f) \/ Compact(f))
           \/ PurgeStops \/ Purge \/ \E names \in SUBSET Names : DeleteBackup(names)
  BY <1>6, <1>8 DEF Tick, LoseIndex, ListBackups, BuildIndex, ReportLatest, BuildIndexStops, Flush,
     Compact, PurgeStops, Purge, DeleteBackup, StartPurging, vars
<1> QED
  BY <1>1, <1>2, <1>3, <1>4, <1>5, <1>7, <1>8 DEF Next

\* At first there is no backup.
LEMMA InitRefines == Init => Cat!Init
<1> SUFFICES ASSUME Init PROVE Cat!Init
  OBVIOUS
<1>1. \A c \in Names : StatusOf(c) = "absent" /\ Restorable(c) = {} /\ Cut(c) = {}
  BY DEF Init, StatusOf, Restorable, Cut, Complete, Exists, Idle
<1> QED BY <1>1 DEF Cat!Init

\* The bucket implements the catalogue, for any number of names, files, failures,
\* crashes, purges and index builds: a backup becomes complete in one step and with
\* the very files of its snapshot, stays restorable with these files until it is
\* removed, in one step, and nothing else changes what a restore gives.
THEOREM BucketImplementsCatalogue == ASSUME Disciplined PROVE Spec => ImplementsCatalogue
BY InitRefines, StepsRefine, CatalogueInvariantHolds, PTL DEF Spec, ImplementsCatalogue, Cat!Spec

==============================================================================
