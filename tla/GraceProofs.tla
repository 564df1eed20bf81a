---------------------------- MODULE GraceProofs ----------------------------
(****************************************************************************)
(* The grace period of the cleanup, for any number of names, files and      *)
(* failures: with one writer the cleanup deletes no file that is younger,   *)
(* and a purge that overlaps a backup leaves it the files it has uploaded.  *)
(****************************************************************************)
EXTENDS NodeBackupsProofs

------------------------------------------------------------------------------
(* GraceInvariant is inductive with one writer.                             *)

\* An empty bucket satisfies it.
LEMMA GraceInit == Init => GraceInvariant
<1> SUFFICES ASSUME Init PROVE GraceInvariant
  OBVIOUS
<1>1. TypeOK
  BY TypeInit
<1>2. \A b \in Names : bk[b].pc = "idle" /\ bk[b].todo = {} /\ bk[b].sent = {}
  BY DEF Init, Idle
<1>3. pg.pc = "idle" /\ pg.orphans = {}
  BY DEF Init, NoPurge
<1>4. torn = {}
  BY DEF Init
<1> QED
  BY <1>1, <1>2, <1>3, <1>4
     DEF GraceInvariant, PurgeAlone, OneBackup, UploadsAreNew, OrphansAreOld, UploadsAreYoung,
         FreshUploadsSurvive

\* Steps that leave the clock, the data directory, the backups and the purge alone.
LEMMA GraceUntouched ==
  ASSUME GraceInvariant, TypeOK', UNCHANGED <<now, blobs, mtime, torn, bk, pg>>
  PROVE  GraceInvariant'
<1>1. (~Overlap => PurgeAlone)' /\ OneBackup'
  BY DEF GraceInvariant, PurgeAlone, NoBackupRuns, OneBackup
<1>2. UploadsAreNew' /\ OrphansAreOld'
  BY DEF GraceInvariant, UploadsAreNew, OrphansAreOld
<1>3. UploadsAreYoung'
  BY DEF GraceInvariant, UploadsAreYoung
<1>4. (MaxDuration < Grace \/ ~Overlap => FreshUploadsSurvive)'
  BY DEF GraceInvariant, FreshUploadsSurvive
<1> QED
  BY <1>1, <1>2, <1>3, <1>4 DEF GraceInvariant

\* A process that runs does so for at most MaxDuration, and an old file only ages.
LEMMA GraceTick == ASSUME GraceInvariant, TypeOK', Tick PROVE GraceInvariant'
<1>1. UNCHANGED <<blobs, mtime, torn, bk, pg>> /\ now' = now + 1 /\ now \in Nat
  BY DEF Tick, dataVars, GraceInvariant, TypeOK
<1>2. (~Overlap => PurgeAlone)' /\ OneBackup' /\ UploadsAreNew'
  BY <1>1 DEF GraceInvariant, PurgeAlone, NoBackupRuns, OneBackup, UploadsAreNew
<1>3. OrphansAreOld'
  BY <1>1, PeriodsAreNaturals DEF GraceInvariant, OrphansAreOld, TypeOK, PurgeState
<1>4. UploadsAreYoung'
  <2>1. ASSUME NEW b \in Names, bk[b].pc # "idle"
        PROVE  bk[b].since <= now + 1 /\ now + 1 <= bk[b].since + MaxDuration
    <3>1. now - bk[b].since < MaxDuration /\ bk[b].since <= now
      BY <2>1 DEF Tick, GraceInvariant, UploadsAreYoung
    <3>2. bk[b].since \in Nat
      BY DEF GraceInvariant, TypeOK, BackupState
    <3> QED BY <1>1, <3>1, <3>2, PeriodsAreNaturals
  <2> QED BY <1>1, <2>1 DEF GraceInvariant, UploadsAreYoung
<1>5. (MaxDuration < Grace \/ ~Overlap => FreshUploadsSurvive)'
  BY <1>1 DEF GraceInvariant, FreshUploadsSurvive
<1> QED
  BY <1>2, <1>3, <1>4, <1>5 DEF GraceInvariant

\* The steps of a backup that move its program counter only, and never back before
\* the upload.
LEMMA GraceAdvance ==
  ASSUME GraceInvariant, TypeOK', NEW b \in Names, NEW from, NEW to \in BackupSteps,
         from # "idle", Advance(b, from, to),
         from \in {"upload", "manifest"} \cup AfterManifest =>
           to \in {"upload", "manifest"} \cup AfterManifest,
         UNCHANGED <<now, blobs, mtime, torn, pg>>
  PROVE  GraceInvariant'
<1>1. /\ \A c \in Names \ {b} : bk'[c] = bk[c]
      /\ bk[b].pc = from /\ bk'[b].pc = to
      /\ bk'[b].since = bk[b].since /\ bk'[b].todo = bk[b].todo /\ bk'[b].sent = bk[b].sent
  BY AdvanceMoves DEF GraceInvariant, TypeOK
<1>2. \A c \in Names : /\ bk'[c].since = bk[c].since
                       /\ bk'[c].todo = bk[c].todo /\ bk'[c].sent = bk[c].sent
                       /\ bk'[c].pc # "idle" => bk[c].pc # "idle"
  BY <1>1
<1>3. (~Overlap => PurgeAlone)'
  BY <1>2 DEF GraceInvariant, PurgeAlone, NoBackupRuns
<1>4. OneBackup'
  BY <1>2 DEF GraceInvariant, OneBackup
<1>5. UploadsAreNew' /\ OrphansAreOld'
  BY <1>2 DEF GraceInvariant, UploadsAreNew, OrphansAreOld
<1>6. UploadsAreYoung'
  BY <1>1, <1>2 DEF GraceInvariant, UploadsAreYoung
<1>7. (MaxDuration < Grace \/ ~Overlap => FreshUploadsSurvive)'
  BY <1>2 DEF GraceInvariant, FreshUploadsSurvive
<1> QED
  BY <1>3, <1>4, <1>5, <1>6, <1>7 DEF GraceInvariant

\* A new backup is as old as the clock says.
LEMMA GraceHandleBackup ==
  ASSUME GraceInvariant, TypeOK', NEW b \in Names, NEW mode \in Modes, NEW keep \in KeepFlags,
         NEW owner \in SnapshotOwners, HandleBackup(b, mode, keep, owner)
  PROVE  GraceInvariant'
<1>1. /\ \A c \in Names \ {b} : bk'[c] = bk[c]
      /\ bk'[b].pc = "schema" /\ bk'[b].since = now
      /\ bk'[b].todo = {} /\ bk'[b].sent = {}
  BY StartMoves DEF GraceInvariant
<1>2. UNCHANGED <<now, blobs, mtime, torn, pg>> /\ now \in Nat
  BY DEF HandleBackup, dataVars, GraceInvariant, TypeOK
<1>3. Overlap \/ pg.pc = "idle"
  BY DEF HandleBackup
<1>4. (~Overlap => PurgeAlone)'
  BY <1>2, <1>3 DEF PurgeAlone
<1>5. OneBackup'
  BY <1>1 DEF HandleBackup, OneBackup, NoBackupRuns
<1>6. UploadsAreNew' /\ OrphansAreOld'
  BY <1>1, <1>2 DEF GraceInvariant, UploadsAreNew, OrphansAreOld
<1>7. UploadsAreYoung'
  <2>1. now <= now + MaxDuration
    BY <1>2, PeriodsAreNaturals
  <2> QED BY <1>1, <1>2, <2>1 DEF GraceInvariant, UploadsAreYoung
<1>8. (MaxDuration < Grace \/ ~Overlap => FreshUploadsSurvive)'
  BY <1>1, <1>2 DEF GraceInvariant, FreshUploadsSurvive
<1> QED
  BY <1>4, <1>5, <1>6, <1>7, <1>8 DEF GraceInvariant

\* When nothing is torn, what is to be uploaded is what is missing.
LEMMA GraceListStorage ==
  ASSUME GraceInvariant, TypeOK', NEW b \in Names, ListStorage(b) PROVE GraceInvariant'
<1>1. /\ \A c \in Names \ {b} : bk'[c] = bk[c]
      /\ bk[b].pc = "list" /\ bk'[b].pc = "upload" /\ bk'[b].since = bk[b].since
      /\ bk'[b].todo = Wanted(b) \ (blobs \ torn) /\ bk'[b].sent = bk[b].sent
  BY ListMoves DEF GraceInvariant
<1>2. UNCHANGED <<now, blobs, mtime, torn, pg>>
  BY DEF ListStorage, dataVars
<1>3. (~Overlap => PurgeAlone)' /\ OneBackup'
  BY <1>1, <1>2 DEF GraceInvariant, PurgeAlone, NoBackupRuns, OneBackup
<1>4. OrphansAreOld'
  BY <1>2 DEF GraceInvariant, OrphansAreOld
<1>5. UploadsAreNew'
  BY <1>1, <1>2 DEF GraceInvariant, UploadsAreNew
<1>6. UploadsAreYoung'
  BY <1>1, <1>2 DEF GraceInvariant, UploadsAreYoung
<1>7. (MaxDuration < Grace \/ ~Overlap => FreshUploadsSurvive)'
  BY <1>1, <1>2 DEF GraceInvariant, FreshUploadsSurvive
<1> QED
  BY <1>3, <1>4, <1>5, <1>6, <1>7 DEF GraceInvariant

\* What one writer uploads does not wait for its deletion.
LEMMA UploadNoOrphan ==
  ASSUME OneWriter, GraceInvariant, NEW b \in Names, bk[b].pc # "idle", NEW f \in bk[b].todo
  PROVE  f \notin pg.orphans
<1>1. CASE ~Overlap
  <2>1. pg.pc = "idle"
    BY <1>1 DEF GraceInvariant, PurgeAlone, NoBackupRuns
  <2> QED BY <2>1 DEF GraceInvariant, OrphansAreOld
<1>2. CASE AtomicUploads /\ ~ConcurrentBackups
  BY <1>2 DEF GraceInvariant, UploadsAreNew, OrphansAreOld
<1> QED BY <1>1, <1>2 DEF OneWriter

\* An upload gives the file the time of the clock.
LEMMA GraceUpload ==
  ASSUME OneWriter, GraceInvariant, TypeOK', NEW b \in Names, NEW f \in Files, Upload(b, f)
  PROVE  GraceInvariant'
<1>1. /\ \A c \in Names \ {b} : bk'[c] = bk[c]
      /\ bk[b].pc = "upload" /\ bk'[b].pc = "upload" /\ bk'[b].since = bk[b].since
      /\ bk'[b].todo = bk[b].todo \ {f} /\ bk'[b].sent = bk[b].sent \cup {f}
  BY UploadMoves DEF GraceInvariant
<1>2. /\ blobs' = blobs \cup {f} /\ mtime' = [mtime EXCEPT ![f] = now] /\ torn' = torn \ {f}
      /\ UNCHANGED <<now, pg>> /\ f \in bk[b].todo
  BY DEF Upload
<1>3. (~Overlap => PurgeAlone)' /\ OneBackup'
  BY <1>1, <1>2 DEF GraceInvariant, PurgeAlone, NoBackupRuns, OneBackup
<1>4. UploadsAreNew'
  <2>1. ASSUME AtomicUploads, ~ConcurrentBackups, NEW c \in Names \ {b} PROVE bk[c].todo = {}
    <3>1. bk[c].pc = "idle"
      BY <1>1, <2>1 DEF GraceInvariant, OneBackup
    <3> QED BY <3>1 DEF GraceInvariant, UploadsAreYoung, AfterManifest
  <2> QED BY <1>1, <1>2, <2>1 DEF GraceInvariant, UploadsAreNew
<1>5. OrphansAreOld'
  <2>1. f \notin pg.orphans
    BY <1>1, <1>2, UploadNoOrphan
  <2>2. \A g \in pg.orphans : mtime'[g] = mtime[g]
    BY <1>2, <2>1 DEF GraceInvariant, TypeOK, PurgeState
  <2> QED BY <1>2, <2>2 DEF GraceInvariant, OrphansAreOld
<1>6. UploadsAreYoung'
  <2>1. /\ \A g \in Files \ {f} : mtime'[g] = mtime[g]
        /\ mtime'[f] = now
    BY <1>2 DEF GraceInvariant, TypeOK
  <2>2. ASSUME NEW c \in Names, NEW g \in bk'[c].sent \cap blobs' PROVE bk'[c].since <= mtime'[g]
    <3>1. bk'[c].sent \subseteq bk[c].sent \cup {f} /\ bk'[c].since = bk[c].since
      BY <1>1
    <3>2. bk[c].sent \subseteq Files
      BY DEF GraceInvariant, TypeOK, BackupState
    <3>3. CASE g # f
      BY <1>2, <2>1, <2>2, <3>1, <3>2, <3>3 DEF GraceInvariant, UploadsAreYoung
    <3>4. CASE g = f
      <4>1. bk[c].pc # "idle"
        BY <1>1, <2>2, <3>4 DEF GraceInvariant, UploadsAreYoung, AfterManifest
      <4> QED BY <2>1, <3>1, <3>4, <4>1 DEF GraceInvariant, UploadsAreYoung
    <3> QED BY <3>3, <3>4
  <2> QED BY <1>1, <1>2, <2>2 DEF GraceInvariant, UploadsAreYoung
<1>7. (MaxDuration < Grace \/ ~Overlap => FreshUploadsSurvive)'
  BY <1>1, <1>2 DEF GraceInvariant, FreshUploadsSurvive
<1> QED
  BY <1>3, <1>4, <1>5, <1>6, <1>7 DEF GraceInvariant

\* A backup that ends forgets its files; a part of an upload may stay.
LEMMA GraceEnd ==
  ASSUME OneWriter, GraceInvariant, TypeOK', NEW b \in Names, bk[b].pc # "idle",
         SetLatest(b) \/ BackupFails(b) \/ BackupCrashes(b)
  PROVE  GraceInvariant'
<1>1. /\ \A c \in Names \ {b} : bk'[c] = bk[c]
      /\ bk'[b].pc = "idle" /\ bk'[b].todo = {} /\ bk'[b].sent = {}
  BY EndMoves DEF GraceInvariant, Idle
<1>2. UNCHANGED <<now, pg>> /\ LeavesUpload(b)
  BY DEF SetLatest, BackupFails, BackupCrashes, LeavesUpload
<1>3. (~Overlap => PurgeAlone)' /\ OneBackup'
  BY <1>1, <1>2 DEF GraceInvariant, PurgeAlone, NoBackupRuns, OneBackup
<1>4. CASE UNCHANGED dataVars
  <2>1. UNCHANGED <<blobs, mtime, torn>>
    BY <1>4 DEF dataVars
  <2>2. UploadsAreNew' /\ OrphansAreOld'
    BY <1>1, <1>2, <2>1 DEF GraceInvariant, UploadsAreNew, OrphansAreOld
  <2>3. UploadsAreYoung'
    BY <1>1, <1>2, <2>1 DEF GraceInvariant, UploadsAreYoung
  <2>4. (MaxDuration < Grace \/ ~Overlap => FreshUploadsSurvive)'
    BY <1>1, <2>1 DEF GraceInvariant, FreshUploadsSurvive
  <2> QED BY <1>3, <2>2, <2>3, <2>4 DEF GraceInvariant
<1>5. ASSUME ~AtomicUploads, NEW chunk \in SUBSET bk[b].todo, blobs' = blobs \cup chunk,
             mtime' = [f \in Files |-> IF f \in chunk THEN now ELSE mtime[f]]
      PROVE  GraceInvariant'
  <2>2. /\ \A f \in chunk : f \in Files /\ mtime'[f] = now
        /\ \A g \in Files \ chunk : mtime'[g] = mtime[g]
    BY <1>5 DEF GraceInvariant, TypeOK, BackupState
  <2>3. UploadsAreNew'
    BY <1>5 DEF UploadsAreNew
  <2>4. OrphansAreOld'
    <3>1. pg.orphans \subseteq Files \ chunk
      BY <1>5, UploadNoOrphan DEF GraceInvariant, TypeOK, PurgeState
    <3> QED BY <1>2, <1>5, <2>2, <3>1 DEF GraceInvariant, OrphansAreOld
  <2>5. UploadsAreYoung'
    <3>1. ASSUME NEW c \in Names \ {b}, NEW g \in bk[c].sent \cap blobs'
          PROVE  bk[c].since <= mtime'[g]
      <4>1. bk[c].sent \subseteq Files
        BY DEF GraceInvariant, TypeOK, BackupState
      <4>2. bk[c].pc # "idle"
        BY <3>1 DEF GraceInvariant, UploadsAreYoung, AfterManifest
      <4> QED BY <1>5, <2>2, <3>1, <4>1, <4>2 DEF GraceInvariant, UploadsAreYoung
    <3> QED BY <1>1, <1>2, <3>1 DEF GraceInvariant, UploadsAreYoung
  <2>6. (MaxDuration < Grace \/ ~Overlap => FreshUploadsSurvive)'
    BY <1>1, <1>5 DEF GraceInvariant, FreshUploadsSurvive
  <2> QED BY <1>3, <2>3, <2>4, <2>5, <2>6 DEF GraceInvariant
<1> QED
  BY <1>2, <1>4, <1>5 DEF LeavesUpload

\* Every step of a backup.
LEMMA GraceBackupStep ==
  ASSUME OneWriter, GraceInvariant, TypeOK', NEW b \in Names, BackupStep(b) PROVE GraceInvariant'
<1> USE DEF dataVars
<1>1. CASE SaveSchema(b)
  BY <1>1, GraceAdvance DEF SaveSchema, BackupSteps, AfterManifest
<1>2. CASE SaveTokenmap(b) \/ SaveServerVersion(b) \/ SaveDifferential(b)
  BY <1>2, GraceAdvance
     DEF SaveTokenmap, SaveServerVersion, SaveDifferential, SaveMeta, BackupSteps, AfterManifest
<1>3. CASE IndexTokenmap(b) \/ IndexSchema(b) \/ IndexStarted(b) \/ IndexDifferential(b)
  BY <1>3, GraceAdvance DEF IndexTokenmap, IndexSchema, IndexStarted, IndexDifferential, SaveIndex,
     BackupSteps, AfterManifest
<1>4. CASE IndexManifest(b) \/ IndexFinished(b)
  BY <1>4, GraceAdvance DEF IndexManifest, IndexFinished, SaveIndex, BackupSteps, AfterManifest
<1>5. CASE Stagger(b) \/ TakeSnapshot(b)
  BY <1>5, GraceAdvance DEF Stagger, TakeSnapshot, BackupSteps, AfterManifest
<1>6. CASE LeaveSnapshot(b) \/ SaveManifest(b)
  BY <1>6, GraceAdvance DEF LeaveSnapshot, SaveManifest, BackupSteps, AfterManifest
<1>7. CASE ListStorage(b)
  BY <1>7, GraceListStorage
<1>8. ASSUME NEW f \in Files, Upload(b, f) PROVE GraceInvariant'
  BY <1>8, GraceUpload
<1>9. CASE SetLatest(b)
  <2>1. bk[b].pc # "idle"
    BY <1>9 DEF SetLatest
  <2> QED BY <1>9, <2>1, GraceEnd
<1> QED
  BY <1>1, <1>2, <1>3, <1>4, <1>5, <1>6, <1>7, <1>8, <1>9 DEF BackupStep

\* The steps of a purge that delete no data and leave nothing listed for deletion.
LEMMA GracePurgeMoves ==
  ASSUME GraceInvariant, TypeOK', UNCHANGED <<now, blobs, mtime, torn, bk>>,
         pg'.orphans = {}, pg'.pc # "idle" => pg.pc # "idle" \/ Overlap \/ NoBackupRuns
  PROVE  GraceInvariant'
<1>1. (~Overlap => PurgeAlone)' /\ OneBackup'
  BY DEF GraceInvariant, PurgeAlone, NoBackupRuns, OneBackup
<1>2. UploadsAreNew' /\ OrphansAreOld'
  BY DEF GraceInvariant, UploadsAreNew, OrphansAreOld
<1>3. UploadsAreYoung'
  BY DEF GraceInvariant, UploadsAreYoung
<1>4. (MaxDuration < Grace \/ ~Overlap => FreshUploadsSurvive)'
  BY DEF GraceInvariant, FreshUploadsSurvive
<1> QED
  BY <1>1, <1>2, <1>3, <1>4 DEF GraceInvariant

\* The cleanup lists old files only.
LEMMA GraceScan == ASSUME GraceInvariant, TypeOK', ScanStorage PROVE GraceInvariant'
<1>1. /\ UNCHANGED <<now, blobs, mtime, torn, bk>> /\ pg.pc = "scan" /\ pg'.pc = "delete"
      /\ pg'.orphans = {f \in blobs \ pg.paths : OlderThanGrace(f)}
  BY DEF ScanStorage, dataVars, GraceInvariant, TypeOK, PurgeState
<1>2. (~Overlap => PurgeAlone)' /\ OneBackup'
  BY <1>1 DEF GraceInvariant, PurgeAlone, NoBackupRuns, OneBackup
<1>3. UploadsAreNew' /\ UploadsAreYoung'
  BY <1>1 DEF GraceInvariant, UploadsAreNew, UploadsAreYoung
<1>4. OrphansAreOld'
  <2>1. ASSUME NEW f \in blobs, OlderThanGrace(f) PROVE mtime[f] + Grace <= now
    <3>1. mtime[f] \in Nat /\ now \in Nat
      BY DEF GraceInvariant, TypeOK
    <3> QED BY <2>1, <3>1, PeriodsAreNaturals DEF OlderThanGrace
  <2> QED BY <1>1, <2>1 DEF OrphansAreOld
<1>5. (MaxDuration < Grace \/ ~Overlap => FreshUploadsSurvive)'
  BY <1>1 DEF GraceInvariant, FreshUploadsSurvive
<1> QED
  BY <1>2, <1>3, <1>4, <1>5 DEF GraceInvariant

\* A file that waits for its deletion is none that a running backup has uploaded: it
\* is too old for that, or no backup runs.
LEMMA OrphanNotSent ==
  ASSUME GraceInvariant, MaxDuration < Grace \/ ~Overlap, NEW f \in pg.orphans, NEW b \in Names
  PROVE  f \notin bk[b].sent
<1>1. f \in blobs /\ mtime[f] + Grace <= now /\ pg.pc = "delete"
  BY DEF GraceInvariant, OrphansAreOld
<1>2. CASE bk[b].pc = "idle"
  BY <1>2 DEF GraceInvariant, UploadsAreYoung, AfterManifest
<1>3. CASE bk[b].pc # "idle" /\ MaxDuration < Grace
  <2>1. now <= bk[b].since + MaxDuration
    BY <1>3 DEF GraceInvariant, UploadsAreYoung
  <2>2. mtime[f] \in Nat /\ bk[b].since \in Nat /\ now \in Nat
    BY <1>1 DEF GraceInvariant, TypeOK, BackupState
  <2>3. ~(bk[b].since <= mtime[f])
    BY <1>1, <1>3, <2>1, <2>2, PeriodsAreNaturals
  <2> QED BY <1>1, <2>3 DEF GraceInvariant, UploadsAreYoung
<1>4. CASE bk[b].pc # "idle" /\ ~Overlap
  BY <1>1, <1>4 DEF GraceInvariant, PurgeAlone, NoBackupRuns
<1> QED BY <1>2, <1>3, <1>4

\* A deletion takes one file that waited for it.
LEMMA GraceDelete ==
  ASSUME GraceInvariant, TypeOK', NEW f \in Files, DeleteOrphan(f) PROVE GraceInvariant'
<1>1. /\ pg.pc = "delete" /\ f \in pg.orphans /\ blobs' = blobs \ {f} /\ torn' = torn \ {f}
      /\ mtime' = [mtime EXCEPT ![f] = 0] /\ UNCHANGED <<now, bk>>
  BY DEF DeleteOrphan
<1>2. pg'.pc = "delete" /\ pg'.orphans = pg.orphans \ {f}
  BY <1>1 DEF DeleteOrphan, GraceInvariant, TypeOK, PurgeState
<1>3. \A g \in Files \ {f} : mtime'[g] = mtime[g]
  BY <1>1 DEF GraceInvariant, TypeOK
<1>4. (~Overlap => PurgeAlone)' /\ OneBackup'
  BY <1>1, <1>2 DEF GraceInvariant, PurgeAlone, NoBackupRuns, OneBackup
<1>5. UploadsAreNew'
  BY <1>1 DEF GraceInvariant, UploadsAreNew
<1>6. OrphansAreOld'
  BY <1>1, <1>2, <1>3 DEF GraceInvariant, OrphansAreOld, TypeOK
<1>7. UploadsAreYoung'
  BY <1>1, <1>3 DEF GraceInvariant, UploadsAreYoung, TypeOK
<1>8. (MaxDuration < Grace \/ ~Overlap => FreshUploadsSurvive)'
  BY <1>1, OrphanNotSent DEF GraceInvariant, FreshUploadsSurvive
<1> QED
  BY <1>4, <1>5, <1>6, <1>7, <1>8 DEF GraceInvariant

\* Every step of a purge.
LEMMA GracePurgeStep == ASSUME GraceInvariant, TypeOK', PurgeStep PROVE GraceInvariant'
<1> USE DEF dataVars
<1>1. pg \in PurgeState /\ (pg.pc # "delete" => pg.orphans = {})
  BY DEF GraceInvariant, TypeOK, OrphansAreOld
<1>2. CASE \/ \E b \in Names : PurgeBackup(b)
           \/ \E c \in Names, k \in MetaKinds : PurgeObject(c, k)
           \/ CleanBackupFromIndex
  <2>1. pg.pc \in {"purge", "meta"} /\ pg'.orphans = pg.orphans
    BY <1>1, <1>2 DEF PurgeBackup, PurgeObject, CleanBackupFromIndex, PurgeState
  <2>2. UNCHANGED <<now, blobs, mtime, torn, bk>>
    BY <1>2 DEF PurgeBackup, PurgeObject, CleanBackupFromIndex
  <2> QED BY <1>1, <2>1, <2>2, GracePurgeMoves
<1>3. CASE \/ \E c \in Names, k \in IndexKinds : CleanIndexObject(c, k)
           \/ BackupPurged \/ ReadManifests
  <2>1. pg.pc \in {"index", "purge"} /\ pg'.orphans = pg.orphans
    BY <1>1, <1>3 DEF CleanIndexObject, BackupPurged, ReadManifests, PurgeState
  <2>2. UNCHANGED <<now, blobs, mtime, torn, bk>>
    BY <1>3 DEF CleanIndexObject, BackupPurged, ReadManifests
  <2> QED BY <1>1, <2>1, <2>2, GracePurgeMoves
<1>4. CASE PurgeEnds
  BY <1>4, GracePurgeMoves DEF PurgeEnds, NoPurge
<1> QED
  BY <1>2, <1>3, <1>4, GraceScan, GraceDelete DEF PurgeStep

\* Every step.
LEMMA GraceNext == ASSUME OneWriter PROVE GraceInvariant /\ [Next]_vars => GraceInvariant'
<1> SUFFICES ASSUME GraceInvariant, [Next]_vars PROVE GraceInvariant'
  OBVIOUS
<1>0. TypeOK'
  BY TypeNext DEF GraceInvariant
<1>1. CASE \/ \E f \in Files : Flush(f) \/ Compact(f)
           \/ LoseIndex \/ (\E b \in Names : OperatorSnapshot(b)) \/ ListBackups
           \/ BuildIndex \/ ReportLatest \/ (\E b \in Names, n \in 0..4 : BuildIndexStops(b, n))
           \/ UNCHANGED vars
  <2>1. UNCHANGED <<now, blobs, mtime, torn, bk, pg>>
    BY <1>1 DEF Flush, Compact, LoseIndex, OperatorSnapshot, ListBackups, BuildIndex, ReportLatest,
       BuildIndexStops, vars, dataVars
  <2> QED BY <1>0, <2>1, GraceUntouched
<1>2. CASE Purge \/ \E names \in SUBSET Names : DeleteBackup(names)
  <2>1. PICK targets : StartPurging(targets)
    BY <1>2 DEF Purge, DeleteBackup
  <2> QED
    BY <1>0, <2>1, GracePurgeMoves DEF StartPurging, NoPurge, dataVars
<1>3. CASE PurgeStops
  BY <1>0, <1>3, GracePurgeMoves DEF PurgeStops, NoPurge, dataVars
<1>4. ASSUME NEW b \in Names, BackupFails(b) \/ BackupCrashes(b) PROVE GraceInvariant'
  <2>1. bk[b].pc # "idle"
    BY <1>4 DEF BackupFails, BackupCrashes
  <2> QED BY <1>0, <1>4, <2>1, GraceEnd
<1>5. CASE Tick
  BY <1>0, <1>5, GraceTick
<1>6. CASE \E b \in Names : BackupStep(b)
  BY <1>0, <1>6, GraceBackupStep
<1>7. CASE PurgeStep
  BY <1>0, <1>7, GracePurgeStep
<1>8. CASE \E b \in Names : \E mode \in Modes, keep \in KeepFlags, owner \in SnapshotOwners :
             HandleBackup(b, mode, keep, owner)
  BY <1>0, <1>8, GraceHandleBackup
<1> QED
  BY <1>1, <1>2, <1>3, <1>4, <1>5, <1>6, <1>7, <1>8 DEF Next

\* All that one writer keeps true of the times of the files: a file that waits for
\* its deletion stays as old as it was when the storage was listed, and what a
\* running backup has uploaded is no older than the backup.
THEOREM GraceInvariantHolds == ASSUME OneWriter PROVE Spec => []GraceInvariant
BY GraceInit, GraceNext, PTL DEF Spec

\* With one writer no file is deleted within the grace period (is_older_than_gc_grace),
\* although the clock and the times of the files were read long before.
THEOREM GraceKept == ASSUME OneWriter PROVE Spec => GraceRespected
<1>1. ASSUME GraceInvariant, Next, NEW f \in blobs \ blobs' PROVE mtime[f] + Grace <= now
  <2>1. PurgeStep
    BY <1>1, DeletionsArePurges DEF GraceInvariant
  <2>2. PICK g \in Files : DeleteOrphan(g)
    BY <1>1, <2>1 DEF PurgeStep, PurgeBackup, PurgeObject, CleanBackupFromIndex,
       CleanIndexObject, BackupPurged, ReadManifests, ScanStorage, PurgeEnds, dataVars
  <2>3. f \in pg.orphans
    BY <1>1, <2>2 DEF DeleteOrphan
  <2> QED BY <1>1, <2>3 DEF GraceInvariant, OrphansAreOld
<1>2. GraceInvariant /\ [Next]_vars => [\A f \in blobs \ blobs' : mtime[f] + Grace <= now]_vars
  BY <1>1
<1> QED
  BY <1>2, GraceInvariantHolds, PTL DEF Spec, GraceRespected

\* With one writer and backups that take less than the grace period, a purge that
\* runs during a backup deletes none of the files the backup has uploaded so far.
THEOREM UploadsSurviveOverlap ==
  ASSUME OneWriter, MaxDuration < Grace \/ ~Overlap PROVE Spec => []FreshUploadsSurvive
<1>1. GraceInvariant => FreshUploadsSurvive
  BY DEF GraceInvariant
<1> QED
  BY <1>1, GraceInvariantHolds, PTL

=============================================================================
