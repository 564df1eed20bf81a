----------------------------- MODULE CutProofs -----------------------------
(***************************************************************************)
(* Proofs about ClusterBackup when the runs of a name do not overlap: what *)
(* the storage calls complete is one cut, and "done" means complete.       *)
(***************************************************************************)
EXTENDS ClusterBackupProofs

\* What is known of every state.
Known == ClusterInvariant /\ CutInvariant

\* The parts of the invariant that speak of one run.
CutOf(j) ==
    EntriesFit(j) /\ SnapshotsHeld(j) /\ SnapshotsOwned(j) /\ ContentsCut(j) /\ Spoiled(j)

-----------------------------------------------------------------------------
(* Steps on a host                                                         *)

\* A host on which something happens is one of a run that is at work, and of no other.
LEMMA HostBusy ==
  ASSUME Known, NEW j \in Jobs, NEW h \in Hosts, OthersKept(j, h), HostTurn(j, h)
  PROVE  /\ Busy(j) /\ Range(index) = Entered(j)
         /\ \A i \in Jobs \ {j} : ~Busy(i) /\ ~Busy(i)' /\ Entered(i) = {}
         /\ RunFits(j) /\ RunFits(j)' /\ TypeOK /\ CutOf(j)
<1>1. cmd[j][h] \in Running \/ clear[j][h] = "clear"
  BY DEF HostTurn, CutTaken, CommandFails, EntryLost, ClearEnds, EntryMade, SnapshotTaken, UploadEnds,
         UploadFails, BackupFinished, Turns, Running
<1>2. Busy(j)
  BY <1>1 DEF Busy, Alive
<1>3. Range(index) = Entered(j)
  BY <1>2 DEF Known, CutInvariant, IndexOfOneRun
<1>4. ASSUME NEW i \in Jobs \ {j} PROVE ~Busy(i) /\ ~Busy(i)' /\ Entered(i) = {}
  <2>1. ~Busy(i)
    BY <1>2 DEF Known, CutInvariant
  <2>2. job'[i] = job[i] /\ cmd'[i] = cmd[i] /\ clear'[i] = clear[i] /\ using'[i] = using[i]
    BY DEF OthersKept
  <2>3. Busy(i)' = Busy(i)
    BY <2>2, RunFrame DEF Busy
  <2> QED BY <1>3, <2>1, <2>3 DEF Entered
<1>5. RunFits(j) /\ TypeOK /\ CutOf(j)
  BY DEF Known, ClusterInvariant, CutInvariant, CutOf
<1>6. RunFits(j)'
  BY <1>5, HostFits
<1> QED
  BY <1>2, <1>3, <1>4, <1>5, <1>6

\* Entries stay, and are those of the run; a new one is made by NodeStart.
LEMMA HostEntries ==
  ASSUME Known, NEW j \in Jobs, NEW h \in Hosts, OthersKept(j, h), HostTurn(j, h)
  PROVE  /\ Entered(j)' = Entered(j) \union (IF EntryMade(j, h) THEN {h} ELSE {})
         /\ Range(index') = Entered(j)'
         /\ EntryMade(j, h) \/ index' = index
         /\ \A i \in Jobs \ {j} : Entered(i)' = {}
         /\ \A g \in Hosts \ {h} : backup'[g] = backup[g]
<1>0. /\ Range(index) = Entered(j) /\ TypeOK /\ RunFits(j) /\ SnapshotsOwned(j)
      /\ Range(index) \subseteq Hosts /\ IndexFollows
  BY HostBusy DEF CutOf, Known, ClusterInvariant, IndexFollows
<1>1. \A g \in Hosts \ {h} : backup'[g] = backup[g]
  BY DEF OthersKept
<1>2. CASE EntryMade(j, h)
  <2>1. index' = Append(IndexWithout(h), h) /\ backup'[h].content = <<j, "none">>
    BY <1>2 DEF EntryMade
  <2>2. Range(index') = Range(index) \union {h}
    BY <1>0, <2>1, IndexWithHost DEF TypeOK, IndexFollows
  <2>3. <<j, "none">>[1] = j
    OBVIOUS
  <2>4. \A g \in Range(index') : backup'[g].content[1] = j
    BY <1>0, <1>1, <2>1, <2>2, <2>3 DEF Entered
  <2> QED BY <1>0, <1>1, <1>2, <2>2, <2>4 DEF Entered
<1>3. CASE ~EntryMade(j, h)
  <2>1. index' = index
    BY <1>3 DEF HostTurn, CutTaken, CommandFails, EntryLost, ClearEnds, SnapshotTaken,
                UploadEnds, UploadFails, BackupFinished
  <2>2. ASSUME UploadEnds(j, h) PROVE Uploaded(j, h)[1] = j
    <3>1. <<j, "operator">>[1] = j /\ <<j, "gaps">>[1] = j
      OBVIOUS
    <3>2. ~job[j].existing => using[j][h] # NoSnapshot
      BY <1>0, <2>2 DEF UploadEnds, Turns, RunFits
    <3> QED BY <1>0, <3>1, <3>2 DEF Uploaded, SnapshotsOwned
  <2>3. h \in Range(index) => backup'[h].content[1] = j
    <3>1. h \in Range(index) => backup[h].content[1] = j
      BY <1>0 DEF Entered
    <3>2. <<j, "none">>[1] = j
      OBVIOUS
    <3> QED BY <1>3, <2>2, <3>1, <3>2 DEF HostTurn, CutTaken, CommandFails, EntryLost, ClearEnds, SnapshotTaken,
                UploadEnds, UploadFails, BackupFinished
  <2>4. \A g \in Range(index') : backup'[g].content[1] = j
    BY <1>0, <1>1, <2>1, <2>3 DEF Entered
  <2> QED BY <1>0, <1>1, <1>3, <2>1, <2>4 DEF Entered
<1> QED
  BY <1>2, <1>3

\* The run itself.
LEMMA HostCut ==
  ASSUME Known, NEW j \in Jobs, NEW h \in Hosts, OthersKept(j, h), HostTurn(j, h)
  PROVE  CutOf(j)'
<1>0. /\ Busy(j) /\ RunFits(j) /\ TypeOK /\ EntriesFit(j) /\ SnapshotsHeld(j)
      /\ SnapshotsOwned(j) /\ ContentsCut(j) /\ Spoiled(j) /\ RunFits(j)'
  BY HostBusy DEF CutOf
<1>1. /\ Entered(j)' = Entered(j) \union (IF EntryMade(j, h) THEN {h} ELSE {})
      /\ \A g \in Hosts \ {h} : backup'[g] = backup[g]
      /\ Entered(j) \subseteq Hosts /\ \A g \in Entered(j) : backup[g].state # "none"
  BY HostEntries, HostBusy DEF Known, ClusterInvariant, IndexFollows
<1>2. /\ h \in job[j].hosts /\ job'[j] = job[j] /\ Launched(j)' = Launched(j)
      /\ NothingCleared(j)' = NothingCleared(j) /\ (UploadsBegun(j)' => UploadsBegun(j))
      /\ job[j].hosts \in SUBSET Hosts
  BY <1>0, HostFits DEF OthersKept, TypeOK, Runs
<1>3. \A g \in Hosts \ {h} :
         /\ cmd'[j][g] = cmd[j][g] /\ using'[j][g] = using[j][g] /\ clear'[j][g] = clear[j][g]
         /\ snap'[g] = snap[g]
  BY DEF OthersKept
<1>4. cmd[j][h] \in Running => (job[j].pc = "upload" => h \in Launched(j))
  BY <1>0, <1>2 DEF RunFits, Running
<1>5. EntriesFit(j)'
  <2>1. h \in Entered(j)' =>
          /\ cmd'[j][h] \notin {"none", "snapshot", "backup"}
          /\ job[j].pc = "upload" => h \in Launched(j)
          /\ backup'[h].state = "finished" => cmd'[j][h] = "ok"
    BY <1>0, <1>1, <1>4 DEF EntriesFit, HostTurn, CutTaken, CommandFails, EntryLost, ClearEnds, EntryMade,
       SnapshotTaken, UploadEnds, UploadFails, BackupFinished, Turns, Running
  <2> QED BY <1>0, <1>1, <1>2, <1>3, <2>1 DEF EntriesFit
<1>6. SnapshotsHeld(j)'
  <2> SUFFICES ASSUME NothingCleared(j), ~job[j].existing, NEW g \in job[j].hosts,
                      \/ cmd'[j][g] \in {"backup", "started", "uploading"}
                      \/ /\ cmd'[j][g] = "ok" /\ job[j].pc \in {"snapshot", "upload"}
                         /\ job[j].pc = "upload" => g \notin Launched(j)
               PROVE  /\ snap'[g] = <<j, "cut">>
                      /\ cmd'[j][g] = "uploading" => using'[j][g] = <<j, "cut">>
    BY <1>2 DEF SnapshotsHeld
  <2>1. CASE g # h
    BY <1>0, <1>2, <1>3, <2>1 DEF SnapshotsHeld
  <2>2. CASE g = h
    <3>1. <<j, "cut">> # NoSnapshot /\ clear[j][h] # "clear"
      BY DEF NoSnapshot, NothingCleared
    <3>2. cmd[j][h] \in {"backup", "started", "uploading"} =>
            /\ snap[h] = <<j, "cut">>
            /\ cmd[j][h] = "uploading" => using[j][h] = <<j, "cut">>
      BY <1>0, <1>2 DEF SnapshotsHeld
    <3>3. cmd[j][h] = "closing" => job[j].pc # "snapshot"
      BY <1>0 DEF RunFits, UploadsBegun, Uploading
    <3> QED
      BY <1>4, <2>2, <3>1, <3>2, <3>3 DEF HostTurn, CutTaken, CommandFails, EntryLost, ClearEnds, EntryMade,
         SnapshotTaken, UploadEnds, UploadFails, BackupFinished, Turns, Running
  <2> QED BY <2>1, <2>2
<1>7. SnapshotsOwned(j)'
  <2>1. <<j, "cut">>[1] = j /\ <<j, "late">>[1] = j
    OBVIOUS
  <2> SUFFICES ASSUME ~job[j].existing
               PROVE  /\ \A g \in Hosts : using'[j][g] # NoSnapshot => using'[j][g][1] = j
                      /\ Busy(j)' /\ (job[j].pc = "upload" \/ UploadsBegun(j)') =>
                           \A g \in job[j].hosts : snap'[g] # NoSnapshot => snap'[g][1] = j
    BY <1>2 DEF SnapshotsOwned
  <2>2. job[j].pc = "upload" \/ UploadsBegun(j) =>
          \A g \in job[j].hosts : snap'[g] # NoSnapshot => snap'[g][1] = j
    <3>1. snap'[h] = snap[h] \/ snap'[h] = NoSnapshot \/ snap'[h][1] = j
      BY <2>1 DEF HostTurn, CutTaken, CommandFails, EntryLost, ClearEnds, EntryMade, SnapshotTaken,
         UploadEnds, UploadFails, BackupFinished, SnapshotLeft
    <3> QED BY <1>0, <1>2, <1>3, <3>1 DEF SnapshotsOwned
  <2>3. using'[j][h] = using[j][h] \/ (UploadsBegun(j) /\ using'[j][h] = snap'[h])
    BY DEF HostTurn, CutTaken, CommandFails, EntryLost, ClearEnds, EntryMade, SnapshotTaken,
       UploadEnds, UploadFails, BackupFinished, Turns, UploadsBegun, Uploading
  <2>4. \A g \in Hosts : using'[j][g] # NoSnapshot => using'[j][g][1] = j
    BY <1>0, <1>2, <1>3, <2>2, <2>3 DEF SnapshotsOwned
  <2> QED BY <1>2, <2>2, <2>4
<1>8. ContentsCut(j)'
  <2> SUFFICES ASSUME NothingCleared(j), NEW g \in Entered(j)', cmd'[j][g] \in {"closing", "ok"}
               PROVE  backup'[g].content = <<j, IF job[j].existing THEN "operator" ELSE "cut">>
    BY <1>2 DEF ContentsCut
  <2>1. CASE g # h
    BY <1>0, <1>1, <1>3, <2>1 DEF ContentsCut
  <2>2. CASE g = h
    <3>1. ~EntryMade(j, h) /\ h \in Entered(j) /\ backup[h].state # "none"
      BY <1>1, <2>2 DEF EntryMade, Turns
    <3>2. cmd[j][h] # "snapshot" /\ clear[j][h] # "clear"
      BY <1>0, <3>1 DEF EntriesFit, NothingCleared
    <3>3. CASE UploadEnds(j, h)
      <4>1. backup'[h].content = Uploaded(j, h) /\ cmd[j][h] = "uploading"
        BY <3>1, <3>3 DEF UploadEnds, Turns
      <4>2. ~job[j].existing => snap[h] = <<j, "cut">> /\ using[j][h] = <<j, "cut">>
        BY <1>0, <1>2, <4>1 DEF SnapshotsHeld
      <4> QED BY <2>2, <4>1, <4>2 DEF Uploaded, SnapshotIntact
    <3>4. CASE BackupFinished(j, h)
      BY <1>0, <2>2, <3>1, <3>4 DEF BackupFinished, Turns, ContentsCut
    <3>5. CASE ~UploadEnds(j, h) /\ ~BackupFinished(j, h)
      BY <2>2, <3>1, <3>2, <3>5 DEF HostTurn, CutTaken, CommandFails, EntryLost, ClearEnds, SnapshotTaken,
         UploadFails, Turns
    <3> QED BY <3>3, <3>4, <3>5
  <2> QED BY <2>1, <2>2
<1>9. Spoiled(j)'
  <2> SUFFICES ASSUME ~job[j].broken, job[j].pc = "cleanup" \/ ~NothingCleared(j)
               PROVE  \E g \in job[j].hosts : /\ cmd'[j][g] \notin Running \ {"snapshot"}
                                              /\ g \in Entered(j)' => backup'[g].state # "finished"
    BY <1>2 DEF Spoiled
  <2>1. PICK g \in job[j].hosts : /\ cmd[j][g] \notin Running \ {"snapshot"}
                                  /\ g \in Entered(j) => backup[g].state # "finished"
    BY <1>0 DEF Spoiled
  <2>2. CASE g # h
    BY <1>1, <1>2, <1>3, <2>1, <2>2
  <2>3. CASE g = h
    <3>1. \/ ClearEnds(j, h) \/ CutTaken(j, h)
          \/ CommandFails(j, h) /\ cmd[j][h] = "snapshot"
      BY <2>1, <2>3 DEF HostTurn, CommandFails, EntryMade, EntryLost, SnapshotTaken, UploadEnds,
         UploadFails, BackupFinished, Turns, Running
    <3>2. /\ cmd'[j][h] \in {cmd[j][h], "ok", "error"} /\ backup' = backup
          /\ Entered(j)' = Entered(j)
      BY <2>1, <2>3, <3>1, <1>1 DEF ClearEnds, CutTaken, CommandFails, EntryMade, Turns, Running
    <3> QED BY <2>1, <2>3, <3>2 DEF Running
  <2> QED BY <2>2, <2>3
<1> QED
  BY <1>5, <1>6, <1>7, <1>8, <1>9 DEF CutOf

LEMMA HostKeepsCut ==
  ASSUME Known, NEW j \in Jobs, NEW h \in Hosts, OthersKept(j, h), HostTurn(j, h)
  PROVE  CutInvariant'
<1>0. /\ Busy(j) /\ Range(index) = Entered(j) /\ RunFits(j) /\ TypeOK
      /\ \A i \in Jobs \ {j} : ~Busy(i) /\ ~Busy(i)' /\ Entered(i) = {} /\ Entered(i)' = {}
      /\ Range(index') = Entered(j)' /\ CutInvariant
  BY HostBusy, HostEntries DEF Known
<1>1. \A i, k \in Jobs : Busy(i)' /\ Busy(k)' => i = k
  BY <1>0
<1>2. IndexOfOneRun'
  <2>1. ASSUME NEW i \in Jobs, job'[i].pc \in {"connect", "snapshot"} PROVE index' = <<>>
    <3>1. job[i].pc \in {"connect", "snapshot"} /\ Busy(i)
      BY <2>1 DEF OthersKept, Busy, Active, JobEnds
    <3>2. index = <<>> /\ i = j
      BY <1>0, <3>1 DEF CutInvariant, IndexOfOneRun
    <3>3. ~EntryMade(j, h)
      BY <1>0, <3>1, <3>2 DEF EntryMade, Turns, RunFits, UploadsBegun, Uploading
    <3> QED BY <3>2, <3>3, HostEntries
  <2> QED BY <1>0, <2>1 DEF IndexOfOneRun
<1>3. ASSUME NEW i \in Jobs PROVE CutOf(i)'
  <2>1. CASE i = j
    BY <2>1, HostCut
  <2>2. CASE i # j
    <3>1. /\ job'[i] = job[i] /\ cmd'[i] = cmd[i] /\ clear'[i] = clear[i] /\ using'[i] = using[i]
          /\ ~Busy(i)' /\ Entered(i)' = {}
      BY <1>0, <2>2 DEF OthersKept
    <3>2. NothingCleared(i)' = NothingCleared(i)
      BY <3>1, RunFrame
    <3>3. SnapshotsOwned(i) /\ Spoiled(i)
      BY <1>0 DEF CutInvariant
    <3>4. EntriesFit(i)' /\ SnapshotsHeld(i)' /\ ContentsCut(i)'
      BY <3>1 DEF EntriesFit, SnapshotsHeld, ContentsCut
    <3>5. SnapshotsOwned(i)' /\ Spoiled(i)'
      BY <3>1, <3>2, <3>3 DEF SnapshotsOwned, Spoiled
    <3> QED BY <3>4, <3>5 DEF CutOf
  <2> QED BY <2>1, <2>2
<1>4. SameRing'
  <2>1. UNCHANGED <<ring, job, moves>> /\ \A g \in Hosts \ {h} : backup'[g] = backup[g]
    BY DEF OthersKept
  <2>2. SameRing /\ Range(index) \subseteq Hosts
    BY <1>0 DEF CutInvariant, Known, ClusterInvariant, IndexFollows
  <2>3. CASE EntryMade(j, h)
    <3>1. Range(index') = Range(index) \union {h}
      BY <1>0, <2>3, HostEntries
    <3>2. backup'[h].tokenmap = TokenmapOf(DataCentre[h])
      BY <2>3 DEF EntryMade
    <3>3. TokenmapOf(DataCentre[h]) = {g \in ring : DataCentre[g] = DataCentre[h]}
      BY DEF TokenmapOf
    <3> QED BY <2>1, <2>2, <3>1, <3>2, <3>3 DEF SameRing
  <2>4. CASE ~EntryMade(j, h)
    <3>1. index' = index
      BY <2>4, HostEntries
    <3>2. h \in Range(index) => backup'[h].tokenmap = backup[h].tokenmap
      <4>1. h \in Range(index) => ~EntryLost(j, h)
        BY <1>0 DEF CutInvariant, EntriesFit, EntryLost, Turns
      <4> QED BY <2>4, <4>1 DEF HostTurn, CutTaken, CommandFails, ClearEnds, SnapshotTaken,
         UploadEnds, UploadFails, BackupFinished
    <3>3. \A g \in Range(index) : backup'[g].tokenmap = backup[g].tokenmap
      BY <2>1, <2>2, <3>2
    <3> QED BY <2>1, <2>2, <3>1, <3>3 DEF SameRing
  <2> QED BY <2>3, <2>4
<1> QED
  BY <1>1, <1>2, <1>3, <1>4 DEF CutInvariant, CutOf

-----------------------------------------------------------------------------
(* Steps of a run                                                          *)

\* A run that begins finds no other at work, and no entries in the index.
LEMMA BeginCut ==
  ASSUME Known, ~OverlappingJobs, NEW j \in Jobs, Begin(j), RunAlone(j), Begins(j)
  PROVE  /\ \A i, k \in Jobs : Busy(i)' /\ Busy(k)' => i = k
         /\ IndexOfOneRun' /\ CutOf(j)'
<1>0. /\ RunFits(j) /\ CutOf(j) /\ CutInvariant
      /\ UNCHANGED <<snap, backup, index, using, cmd, clear>>
  BY DEF Known, ClusterInvariant, CutInvariant, CutOf, RunAlone, Begins
<1>1. \A i \in Jobs : ~Active(i) /\ ~Alive(i)
  BY DEF Begin
<1>2. ASSUME NEW i \in Jobs \ {j} PROVE ~Busy(i)' /\ job'[i] = job[i] /\ ~Active(i)
  <2>1. job'[i] = job[i] /\ cmd'[i] = cmd[i] /\ clear'[i] = clear[i] /\ using'[i] = using[i]
    BY DEF RunAlone
  <2> QED BY <1>1, <2>1, RunFrame DEF Busy
<1>3. \A i, k \in Jobs : Busy(i)' /\ Busy(k)' => i = k
  BY <1>2
<1>4. /\ job[j].hosts = {} /\ ~UploadsBegun(j) /\ Entered(j) = {} /\ Entered(j)' = {}
      /\ job'[j].hosts = {} /\ NothingCleared(j)'
  <2>1. job[j].hosts = {} /\ ~UploadsBegun(j) /\ job'[j].hosts = {}
    BY <1>0 DEF Begins, RunFits
  <2>2. Entered(j) = {}
    BY <1>0, <2>1 DEF CutOf, EntriesFit
  <2>3. Entered(j)' = Entered(j)
    BY <1>0 DEF Entered
  <2>4. NothingCleared(j)'
    BY <1>0, <2>1 DEF NothingCleared, RunFits
  <2> QED BY <2>1, <2>2, <2>3, <2>4
<1>5. IndexOfOneRun'
  <2>1. Range(<<>>) = {}
    BY DEF Range
  <2>2. \A i \in Jobs : Entered(i)' = Entered(i)
    BY <1>0 DEF Entered
  <2>3. Busy(j)' => index = <<>>
    <3>1. Alive(j)' = Alive(j)
      BY <1>0 DEF Alive
    <3> QED BY <1>1, <3>1 DEF Busy, Active, Begins, NameTaken, JobEnds
  <2>4. \A i \in Jobs : Busy(i)' => Range(index') = Entered(i)'
    BY <1>0, <1>2, <2>1, <2>3 DEF Entered
  <2>5. ASSUME NEW i \in Jobs, job'[i].pc \in {"connect", "snapshot"} PROVE index' = <<>>
    <3>1. i = j
      BY <1>2, <2>5 DEF Active, JobEnds
    <3> QED BY <1>0, <2>5, <3>1 DEF Begins, NameTaken
  <2> QED BY <1>0, <2>2, <2>4, <2>5 DEF IndexOfOneRun, CutInvariant
<1>6. CutOf(j)'
  <2>1. EntriesFit(j)' /\ SnapshotsHeld(j)' /\ ContentsCut(j)'
    BY <1>4 DEF EntriesFit, SnapshotsHeld, ContentsCut
  <2>2. Spoiled(j)'
    BY <1>4 DEF Spoiled, Begins
  <2>3. SnapshotsOwned(j)'
    BY <1>0, <1>4 DEF SnapshotsOwned, UploadsBegun
  <2> QED BY <2>1, <2>2, <2>3 DEF CutOf
<1> QED
  BY <1>3, <1>5, <1>6

\* Other steps of a run are those of a run at work.
RunGoesOn(j) ==
    \/ HostsRead(j) \/ BatchStarted(j) \/ BatchRaised(j) \/ BatchJoined(j)
    \/ HostLost(j) \/ JoinRaised(j) \/ RunEnds(j)

LEMMA RunBusy ==
  ASSUME Known, NEW j \in Jobs, RunAlone(j), RunGoesOn(j)
  PROVE  /\ Busy(j) /\ RunFits(j) /\ CutOf(j) /\ TypeOK
         /\ Entered(j)' = Entered(j) /\ backup' = backup /\ snap' = snap /\ using' = using
         /\ job[j].pc \in {"connect", "snapshot"} => Entered(j) = {}
         /\ \A i, k \in Jobs : Busy(i)' /\ Busy(k)' => i = k
         /\ IndexOfOneRun'
<1>0. /\ RunFits(j) /\ CutOf(j) /\ CutInvariant /\ TypeOK
      /\ UNCHANGED <<snap, backup, index, using>>
  BY DEF Known, ClusterInvariant, CutInvariant, CutOf, RunAlone
<1>1. Busy(j)
  BY DEF Busy, Active, JobEnds, Phases, RunGoesOn, HostsRead, BatchStarted, BatchRaised,
         BatchJoined, HostLost, JoinRaised, RunEnds
<1>2. ASSUME NEW i \in Jobs \ {j} PROVE ~Busy(i)' /\ ~Busy(i) /\ job'[i] = job[i]
  <2>1. job'[i] = job[i] /\ cmd'[i] = cmd[i] /\ clear'[i] = clear[i] /\ using'[i] = using[i]
    BY DEF RunAlone
  <2>2. ~Busy(i)
    BY <1>0, <1>1 DEF CutInvariant
  <2> QED BY <2>1, <2>2, RunFrame DEF Busy
<1>3. \A i \in Jobs : Entered(i)' = Entered(i)
  BY <1>0 DEF Entered
<1>4. job[j].pc \in {"connect", "snapshot"} => index = <<>>
  BY <1>0 DEF CutInvariant, IndexOfOneRun
<1>5. Entered(j) = Range(index)
  BY <1>0, <1>1 DEF CutInvariant, IndexOfOneRun
<1>6. job[j].pc \in {"connect", "snapshot"} => Entered(j) = {}
  <2>1. Range(<<>>) = {}
    BY DEF Range
  <2> QED BY <1>4, <1>5, <2>1
<1>7. IndexOfOneRun'
  <2>1. job'[j].pc \in {"connect", "snapshot"} => job[j].pc \in {"connect", "snapshot"}
    BY DEF RunGoesOn, HostsRead, BatchStarted, BatchRaised, BatchJoined, HostLost, JoinRaised,
           RunEnds, RaiseTo
  <2>2. ASSUME NEW i \in Jobs, job'[i].pc \in {"connect", "snapshot"} PROVE index' = <<>>
    <3>1. i = j
      BY <1>2, <2>2 DEF Busy, Active, JobEnds
    <3> QED BY <1>0, <1>4, <2>1, <2>2, <3>1
  <2> QED BY <1>0, <1>2, <1>3, <1>5, <2>2 DEF IndexOfOneRun
<1>8. \A i, k \in Jobs : Busy(i)' /\ Busy(k)' => i = k
  BY <1>2
<1> QED
  BY <1>0, <1>1, <1>3, <1>6, <1>7, <1>8

LEMMA HostsReadCut ==
  ASSUME Known, NEW j \in Jobs, RunAlone(j), HostsRead(j) PROVE CutOf(j)'
<1>0. /\ RunFits(j) /\ CutOf(j) /\ Entered(j)' = {} /\ using' = using /\ clear' = clear /\ cmd' = cmd
      /\ job'[j].pc = (IF job'[j].existing THEN "upload" ELSE "snapshot")
  BY RunBusy DEF RunGoesOn, HostsRead, FirstPhase, SameOptions
<1>1. job[j].hosts = {} /\ ~UploadsBegun(j)
  BY <1>0 DEF HostsRead, RunFits
<1>2. /\ \A h \in Hosts : cmd'[j][h] = "none" /\ using'[j][h] = NoSnapshot
      /\ NothingCleared(j)' /\ ~UploadsBegun(j)'
  BY <1>0, <1>1 DEF RunFits, UploadsBegun, NothingCleared, Uploading
<1>3. job'[j].hosts \in SUBSET Hosts
  BY RunBusy DEF RunGoesOn, HostsRead, TokenmapOf, TypeOK
<1>4. EntriesFit(j)' /\ ContentsCut(j)' /\ Spoiled(j)'
  BY <1>0, <1>2 DEF EntriesFit, ContentsCut, Spoiled
<1>5. SnapshotsHeld(j)'
  BY <1>2, <1>3 DEF SnapshotsHeld
<1>6. SnapshotsOwned(j)'
  BY <1>0, <1>2 DEF SnapshotsOwned
<1> QED
  BY <1>4, <1>5, <1>6 DEF CutOf

\* A batch is of hosts whose turn has not come: their entries are to be made.
LEMMA BatchFresh ==
  ASSUME TypeOK, NEW j \in Jobs, RunFits(j), EntriesFit(j), job[j].pc \in Phases, ~job[j].wait,
         job[j].pc = "snapshot" => Entered(j) = {}
  PROVE  /\ Batch(j) \subseteq job[j].hosts \ Launched(j) /\ job[j].hosts \in SUBSET Hosts
         /\ job[j].pc # "cleanup" =>
              /\ Batch(j) \intersect Entered(j) = {}
              /\ \A h \in Batch(j) : cmd[j][h] \notin Running
         /\ job[j].pc = "upload" /\ ~job[j].existing => \A h \in Batch(j) : cmd[j][h] = "ok"
<1>1. Batch(j) \subseteq job[j].hosts \ Launched(j) /\ job[j].hosts \in SUBSET Hosts
  BY Batches
<1>2. CASE job[j].pc = "snapshot"
  BY <1>1, <1>2 DEF RunFits, Running
<1>3. CASE job[j].pc = "upload"
  <2>1. \A h \in Batch(j) : cmd[j][h] = IF job[j].existing THEN "none" ELSE "ok"
    BY <1>1, <1>3 DEF RunFits
  <2>2. Batch(j) \intersect Entered(j) = {}
    BY <1>1, <1>3 DEF EntriesFit
  <2> QED BY <1>1, <1>3, <2>1, <2>2 DEF Running
<1> QED
  BY <1>1, <1>2, <1>3 DEF Phases

LEMMA LaunchFresh ==
  ASSUME Known, NEW j \in Jobs, RunAlone(j), RunGoesOn(j), job[j].pc \in Phases, ~job[j].wait,
         NEW reached \in SUBSET Batch(j), Launch(j, reached)
  PROVE  /\ \A h \in Hosts : cmd'[j][h] # cmd[j][h] =>
              /\ h \in reached /\ h \notin Entered(j)
              /\ \/ job[j].pc = "snapshot" /\ cmd'[j][h] = "snapshot"
                 \/ job[j].pc = "upload" /\ cmd'[j][h] = "backup"
         /\ NothingCleared(j)' => NothingCleared(j)
         /\ job[j].pc # "cleanup" => NothingCleared(j) /\ NothingCleared(j)'
         /\ UploadsBegun(j)' => job[j].pc = "upload" \/ UploadsBegun(j)
<1>0. /\ TypeOK /\ RunFits(j) /\ EntriesFit(j) /\ (job[j].pc = "snapshot" => Entered(j) = {})
      /\ using' = using
  BY RunBusy DEF CutOf
<1>1. /\ job[j].pc # "cleanup" => Batch(j) \intersect Entered(j) = {}
      /\ reached \in SUBSET Hosts
  BY <1>0, BatchFresh
<1>2. CASE job[j].pc = "cleanup"
  <2>1. /\ cmd'[j] = cmd[j]
        /\ \A h \in Hosts : clear'[j][h] = IF h \in reached THEN "clear" ELSE clear[j][h]
    BY <1>0, <1>1, <1>2, LaunchDoes
  <2>2. NothingCleared(j)' => NothingCleared(j)
    BY <2>1 DEF NothingCleared
  <2>3. UploadsBegun(j)' = UploadsBegun(j)
    BY <1>0, <2>1 DEF UploadsBegun
  <2> QED BY <1>2, <2>1, <2>2, <2>3
<1>3. CASE job[j].pc = "snapshot"
  <2>1. /\ clear'[j] = clear[j]
        /\ \A h \in Hosts : cmd'[j][h] = IF h \in reached THEN "snapshot" ELSE cmd[j][h]
    BY <1>0, <1>1, <1>3, LaunchDoes
  <2>2. NothingCleared(j) /\ NothingCleared(j)'
    BY <1>0, <1>3, <2>1 DEF NothingCleared, RunFits
  <2>3. ~UploadsBegun(j)'
    BY <1>0, <1>3, <2>1 DEF UploadsBegun, Uploading, RunFits
  <2> QED BY <1>0, <1>3, <2>1, <2>2, <2>3
<1>4. CASE job[j].pc = "upload"
  <2>1. /\ clear'[j] = clear[j]
        /\ \A h \in Hosts : cmd'[j][h] = IF h \in reached THEN "backup" ELSE cmd[j][h]
    BY <1>0, <1>1, <1>4, LaunchDoes
  <2>2. NothingCleared(j) /\ NothingCleared(j)'
    BY <1>0, <1>4, <2>1 DEF NothingCleared, RunFits
  <2> QED BY <1>1, <1>4, <2>1, <2>2
<1> QED
  BY <1>2, <1>3, <1>4 DEF Phases

\* The commands of a batch are run, on all of its hosts or on those that can be reached.
LEMMA LaunchCut ==
  ASSUME Known, NEW j \in Jobs, RunAlone(j), RunGoesOn(j), job[j].pc \in Phases, ~job[j].wait,
         NEW reached \in SUBSET Batch(j), Launch(j, reached), SameOptions(j),
         job'[j].hosts = job[j].hosts, job'[j].pc \in {job[j].pc, "cleanup", "failed"},
         job'[j].pc = "upload" => Launched(j) \subseteq Launched(j)'
  PROVE  EntriesFit(j)' /\ SnapshotsHeld(j)' /\ SnapshotsOwned(j)' /\ ContentsCut(j)'
<1>0. /\ TypeOK /\ RunFits(j) /\ Busy(j) /\ EntriesFit(j) /\ SnapshotsHeld(j)
      /\ SnapshotsOwned(j) /\ ContentsCut(j)
      /\ Entered(j)' = Entered(j) /\ backup' = backup /\ snap' = snap /\ using' = using
      /\ job'[j].existing = job[j].existing
      /\ (job[j].pc = "snapshot" => Entered(j) = {})
  BY RunBusy DEF CutOf, SameOptions
<1>1. /\ \A h \in Hosts : cmd'[j][h] # cmd[j][h] =>
           /\ h \in reached /\ h \notin Entered(j)
           /\ \/ job[j].pc = "snapshot" /\ cmd'[j][h] = "snapshot"
              \/ job[j].pc = "upload" /\ cmd'[j][h] = "backup"
      /\ NothingCleared(j)' => NothingCleared(j)
      /\ job[j].pc # "cleanup" => NothingCleared(j) /\ NothingCleared(j)'
      /\ UploadsBegun(j)' => job[j].pc = "upload" \/ UploadsBegun(j)
  BY LaunchFresh
<1>2. /\ Batch(j) \subseteq job[j].hosts \ Launched(j) /\ job[j].hosts \in SUBSET Hosts
      /\ job[j].pc = "upload" /\ ~job[j].existing => \A h \in Batch(j) : cmd[j][h] = "ok"
  BY <1>0, BatchFresh
<1>3. Entered(j) \subseteq Hosts
  BY <1>0, <1>2 DEF EntriesFit
<1>4. EntriesFit(j)'
  BY <1>0, <1>1, <1>3 DEF EntriesFit
<1>5. SnapshotsHeld(j)'
  <2> SUFFICES ASSUME NothingCleared(j), ~job[j].existing, NEW h \in job[j].hosts,
                      \/ cmd'[j][h] \in {"backup", "started", "uploading"}
                      \/ /\ cmd'[j][h] = "ok" /\ job'[j].pc \in {"snapshot", "upload"}
                         /\ job'[j].pc = "upload" => h \notin Launched(j)'
               PROVE  /\ snap[h] = <<j, "cut">>
                      /\ cmd'[j][h] = "uploading" => using[j][h] = <<j, "cut">>
    BY <1>0, <1>1 DEF SnapshotsHeld
  <2>1. CASE cmd'[j][h] = cmd[j][h]
    <3>1. cmd[j][h] = "ok" => job[j].pc = job'[j].pc \/ cmd'[j][h] # "ok"
      OBVIOUS
    <3> QED BY <1>0, <2>1, <3>1 DEF SnapshotsHeld
  <2>2. CASE cmd'[j][h] # cmd[j][h]
    <3>1. job[j].pc = "upload" /\ cmd'[j][h] = "backup" /\ h \in Batch(j)
      BY <1>1, <1>2, <2>2
    <3>2. cmd[j][h] = "ok" /\ h \notin Launched(j)
      BY <1>2, <3>1
    <3> QED BY <1>0, <3>1, <3>2 DEF SnapshotsHeld
  <2> QED BY <2>1, <2>2
<1>6. SnapshotsOwned(j)'
  BY <1>0, <1>1 DEF SnapshotsOwned
<1>7. ContentsCut(j)'
  BY <1>0, <1>1, <1>3 DEF ContentsCut
<1> QED
  BY <1>4, <1>5, <1>6, <1>7

LEMMA BatchStartedCut ==
  ASSUME Known, NEW j \in Jobs, RunAlone(j), BatchStarted(j) PROVE CutOf(j)'
<1>0. /\ RunGoesOn(j) /\ job[j].pc \in Phases /\ ~job[j].wait /\ Launch(j, Batch(j))
      /\ SameOptions(j) /\ job'[j].hosts = job[j].hosts /\ job'[j].pc = job[j].pc
      /\ job'[j].next = job[j].next /\ job'[j].wait /\ (job[j].broken => job'[j].broken)
  BY DEF BatchStarted, RunGoesOn, BrokenStays
<1>1. TypeOK /\ Spoiled(j) /\ Entered(j)' = Entered(j) /\ backup' = backup
  BY <1>0, RunBusy DEF CutOf
<1>2. Launched(j) \subseteq Launched(j)'
  <2>1. Launched(j)' = {h \in job[j].hosts :
                            Place(job[j].hosts, h) <= job[j].next + Pool(job[j].pc)}
    BY <1>0 DEF Launched, Place, Pool
  <2>2. Launched(j) = Joined(j)
    BY <1>0, <1>1, Batches
  <2> QED BY <1>1, <2>1, <2>2, LaunchedNext
<1>3. EntriesFit(j)' /\ SnapshotsHeld(j)' /\ SnapshotsOwned(j)' /\ ContentsCut(j)'
  BY <1>0, <1>2, LaunchCut
<1>4. Spoiled(j)'
  <2>1. /\ job[j].pc # "cleanup" => NothingCleared(j)'
        /\ job[j].pc = "cleanup" => \A h \in Hosts : cmd'[j][h] = cmd[j][h]
    BY <1>0, LaunchFresh
  <2>2. job[j].hosts \in SUBSET Hosts
    BY <1>1, Batches
  <2> QED BY <1>0, <1>1, <2>1, <2>2 DEF Spoiled
<1> QED
  BY <1>3, <1>4 DEF CutOf

LEMMA BatchRaisedCut ==
  ASSUME Known, NEW j \in Jobs, RunAlone(j), BatchRaised(j) PROVE CutOf(j)'
<1>0. /\ RunGoesOn(j) /\ job[j].pc \in Phases /\ ~job[j].wait /\ SameOptions(j)
      /\ job'[j].hosts = job[j].hosts /\ job'[j].pc \in {"cleanup", "failed"}
      /\ (job[j].broken => job'[j].broken)
  BY DEF BatchRaised, RunGoesOn, RaiseTo, BrokenStays
<1>1. /\ TypeOK /\ Spoiled(j) /\ Entered(j)' = Entered(j) /\ backup' = backup /\ RunFits(j)
      /\ EntriesFit(j) /\ (job[j].pc = "snapshot" => Entered(j) = {})
  BY <1>0, RunBusy DEF CutOf
<1>2. PICK lost \in SUBSET Batch(j) : lost # {} /\ Launch(j, Batch(j) \ lost)
  BY DEF BatchRaised
<1>3. Batch(j) \ lost \in SUBSET Batch(j)
  OBVIOUS
<1>4. EntriesFit(j)' /\ SnapshotsHeld(j)' /\ SnapshotsOwned(j)' /\ ContentsCut(j)'
  BY <1>0, <1>2, <1>3, LaunchCut
<1>5. \A h \in Hosts : cmd'[j][h] # cmd[j][h] => h \in Batch(j) \ lost /\ job[j].pc # "cleanup"
  BY <1>0, <1>2, <1>3, LaunchFresh
<1>6. Spoiled(j)'
  <2>1. CASE job[j].pc = "cleanup"
    <3>1. job[j].hosts \in SUBSET Hosts /\ \A h \in Hosts : cmd'[j][h] = cmd[j][h]
      BY <1>1, <1>5, <2>1, Batches
    <3> QED BY <1>0, <1>1, <2>1, <3>1 DEF Spoiled
  <2>2. CASE job[j].pc # "cleanup"
    <3>1. PICK h \in lost : TRUE
      BY <1>2
    <3>2. h \in job[j].hosts /\ h \in Hosts /\ h \notin Entered(j) /\ cmd[j][h] \notin Running
      BY <1>0, <1>1, <2>2, <3>1, BatchFresh
    <3>3. cmd'[j][h] = cmd[j][h]
      BY <1>5, <3>1, <3>2
    <3> QED BY <1>0, <1>1, <3>2, <3>3 DEF Spoiled
  <2> QED BY <2>1, <2>2
<1> QED
  BY <1>4, <1>6 DEF CutOf

LEMMA BatchJoinedCut ==
  ASSUME Known, NEW j \in Jobs, RunAlone(j), BatchJoined(j) PROVE CutOf(j)'
<1>0. /\ RunGoesOn(j) /\ job[j].pc \in Phases /\ job[j].wait /\ SameOptions(j) /\ BatchEnded(j)
      /\ job'[j].hosts = job[j].hosts /\ cmd' = cmd /\ clear' = clear /\ ~job'[j].wait
      /\ (job[j].broken => job'[j].broken)
  BY DEF BatchJoined, RunGoesOn, BrokenStays
<1>1. /\ TypeOK /\ Entered(j)' = Entered(j) /\ backup' = backup /\ RunFits(j)
      /\ EntriesFit(j) /\ (job[j].pc = "snapshot" => Entered(j) = {})
      /\ Busy(j) /\ SnapshotsHeld(j) /\ SnapshotsOwned(j) /\ ContentsCut(j) /\ Spoiled(j)
      /\ snap' = snap /\ using' = using /\ job'[j].existing = job[j].existing
  BY <1>0, RunBusy DEF CutOf, SameOptions
<1>2. UploadsBegun(j)' = UploadsBegun(j) /\ NothingCleared(j)' = NothingCleared(j)
  BY <1>0, <1>1 DEF UploadsBegun, NothingCleared
<1>3. job'[j].pc = "upload" => \/ job[j].pc = "upload" /\ Launched(j)' = Launched(j)
                               \/ job[j].pc = "snapshot" /\ AllSucceeded(j)
  <2>1. ASSUME job'[j].pc = "upload", job[j].pc = "upload" PROVE Launched(j)' = Launched(j)
    <3>1. job'[j].next = job[j].next + Pool(job[j].pc)
      BY <2>1 DEF BatchJoined
    <3>2. Launched(j)' = {h \in job[j].hosts :
                            Place(job[j].hosts, h) <= job[j].next + Pool(job[j].pc) + 0}
      BY <1>0, <3>1 DEF Launched, Place
    <3>3. Launched(j) = Joined(j) \union Batch(j)
      BY <1>0, <1>1, Batches
    <3> QED BY <1>1, <3>2, <3>3, LaunchedNext
  <2> QED BY <2>1 DEF BatchJoined
<1>4. job'[j].pc = "snapshot" => job[j].pc = "snapshot"
  BY DEF BatchJoined
<1>5. EntriesFit(j)'
  BY <1>0, <1>1, <1>3 DEF EntriesFit
<1>6. ContentsCut(j)'
  BY <1>0, <1>1, <1>2 DEF ContentsCut
<1>7. SnapshotsHeld(j)'
  <2> SUFFICES ASSUME NothingCleared(j), ~job[j].existing, NEW h \in job[j].hosts,
                      \/ cmd[j][h] \in {"backup", "started", "uploading"}
                      \/ /\ cmd[j][h] = "ok" /\ job'[j].pc \in {"snapshot", "upload"}
                         /\ job'[j].pc = "upload" => h \notin Launched(j)'
               PROVE  /\ snap[h] = <<j, "cut">>
                      /\ cmd[j][h] = "uploading" => using[j][h] = <<j, "cut">>
    BY <1>0, <1>1, <1>2 DEF SnapshotsHeld
  <2> QED BY <1>1, <1>3, <1>4 DEF SnapshotsHeld
<1>8. SnapshotsOwned(j)'
  <2>1. CASE job'[j].pc = "upload" /\ job[j].pc = "snapshot"
    <3>1. \A h \in job[j].hosts : cmd[j][h] = "ok" /\ NothingCleared(j) /\ ~job[j].existing
      BY <1>1, <1>3, <2>1 DEF AllSucceeded, Status, RunFits
    <3>2. \A h \in job[j].hosts : snap[h] = <<j, "cut">>
      BY <1>1, <2>1, <3>1 DEF SnapshotsHeld
    <3>3. <<j, "cut">>[1] = j
      OBVIOUS
    <3> QED BY <1>0, <1>1, <3>2, <3>3 DEF SnapshotsOwned
  <2>2. CASE ~(job'[j].pc = "upload" /\ job[j].pc = "snapshot")
    BY <1>0, <1>1, <1>2, <1>3, <2>2 DEF SnapshotsOwned
  <2> QED BY <2>1, <2>2
<1>9. Spoiled(j)'
  <2>1. CASE job'[j].pc = "cleanup" /\ job[j].pc # "cleanup"
    <3>1. /\ LastBatch(j) /\ ~AllSucceeded(j) /\ job'[j].broken = BrokenBy(j, job[j].lost)
          /\ job[j].pc \in {"snapshot", "upload"}
      BY <2>1 DEF BatchJoined, Phases
    <3>2. CASE job[j].pc = "snapshot"
      <4>1. PICK h \in job[j].hosts : TRUE
        BY <1>0, <1>1 DEF RunFits
      <4>2. cmd[j][h] \notin Running \ {"snapshot"}
        BY <1>1, <3>2, <4>1, Batches DEF RunFits, UploadsBegun, Uploading, Running
      <4> QED BY <1>0, <1>1, <3>2, <4>1, <4>2 DEF Spoiled
    <3>3. CASE job[j].pc = "upload"
      <4> SUFFICES ASSUME ~job'[j].broken PROVE Spoiled(j)'
        BY DEF Spoiled
      <4>1. job[j].lost = {}
        BY <3>1, <3>3 DEF BrokenBy
      <4>2. PICK h \in job[j].hosts : cmd[j][h] # "ok"
        BY <2>1, <3>1, <4>1 DEF AllSucceeded, Status
      <4>3. cmd[j][h] \notin Running
        <5>1. h \in Joined(j) \/ h \in Batch(j)
          BY <1>1, <3>1, Batches DEF LastBatch
        <5>2. h \in Batch(j) => cmd[j][h] \notin Running
          BY <1>0, <2>1, <4>1 DEF BatchEnded, Status, Running
        <5>3. h \in Joined(j) => cmd[j][h] \notin Running
          BY <1>1, <3>3, <4>1 DEF RunFits
        <5> QED BY <5>1, <5>2, <5>3
      <4>4. h \in Entered(j) => backup[h].state # "finished"
        BY <1>1, <4>2 DEF EntriesFit
      <4> QED BY <1>0, <1>1, <4>3, <4>4 DEF Spoiled
    <3> QED BY <3>1, <3>2, <3>3
  <2>2. CASE ~(job'[j].pc = "cleanup" /\ job[j].pc # "cleanup")
    BY <1>0, <1>1, <1>2, <2>2 DEF Spoiled
  <2> QED BY <2>1, <2>2
<1> QED
  BY <1>5, <1>6, <1>7, <1>8, <1>9 DEF CutOf

LEMMA RunEndsCut ==
  ASSUME Known, NEW j \in Jobs, RunAlone(j), RunEnds(j) PROVE CutOf(j)'
<1>0. /\ RunGoesOn(j) /\ SameOptions(j) /\ job'[j].pc \in {"failed", "killed"}
      /\ job'[j].hosts = job[j].hosts /\ cmd' = cmd /\ clear' = clear
      /\ (job[j].broken => job'[j].broken)
  BY DEF RunEnds, RunGoesOn, BrokenStays
<1>1. /\ TypeOK /\ Entered(j)' = Entered(j) /\ backup' = backup
      /\ EntriesFit(j) /\ Busy(j) /\ SnapshotsHeld(j) /\ SnapshotsOwned(j) /\ ContentsCut(j)
      /\ Spoiled(j) /\ snap' = snap /\ using' = using /\ job'[j].existing = job[j].existing
  BY <1>0, RunBusy DEF CutOf, SameOptions
<1>2. UploadsBegun(j)' = UploadsBegun(j) /\ NothingCleared(j)' = NothingCleared(j)
  BY <1>0, <1>1 DEF UploadsBegun, NothingCleared
<1>3. EntriesFit(j)' /\ ContentsCut(j)' /\ Spoiled(j)'
  BY <1>0, <1>1, <1>2 DEF EntriesFit, ContentsCut, Spoiled
<1>4. SnapshotsHeld(j)'
  BY <1>0, <1>1, <1>2 DEF SnapshotsHeld
<1>5. SnapshotsOwned(j)'
  BY <1>0, <1>1, <1>2 DEF SnapshotsOwned
<1> QED
  BY <1>3, <1>4, <1>5 DEF CutOf

LEMMA HostLostCut ==
  ASSUME Known, NEW j \in Jobs, RunAlone(j), HostLost(j) PROVE CutOf(j)'
<1>0. /\ RunGoesOn(j) /\ SameOptions(j) /\ job'[j].pc = job[j].pc
      /\ job'[j].hosts = job[j].hosts /\ cmd' = cmd /\ clear' = clear
      /\ job'[j].next = job[j].next /\ job'[j].wait = job[j].wait
      /\ (job[j].broken => job'[j].broken)
  BY DEF HostLost, RunGoesOn, BrokenStays
<1>1. /\ Entered(j)' = Entered(j) /\ backup' = backup
      /\ EntriesFit(j) /\ Busy(j) /\ SnapshotsHeld(j) /\ SnapshotsOwned(j) /\ ContentsCut(j)
      /\ Spoiled(j) /\ snap' = snap /\ using' = using /\ job'[j].existing = job[j].existing
  BY <1>0, RunBusy DEF CutOf, SameOptions
<1>2. UploadsBegun(j)' = UploadsBegun(j) /\ NothingCleared(j)' = NothingCleared(j)
  BY <1>0, <1>1 DEF UploadsBegun, NothingCleared
<1>3. Launched(j)' = Launched(j)
  BY <1>0 DEF Launched, Place, Pool
<1>4. EntriesFit(j)' /\ ContentsCut(j)' /\ Spoiled(j)'
  BY <1>0, <1>1, <1>2, <1>3 DEF EntriesFit, ContentsCut, Spoiled
<1>5. SnapshotsHeld(j)'
  BY <1>0, <1>1, <1>2, <1>3 DEF SnapshotsHeld
<1>6. SnapshotsOwned(j)'
  BY <1>0, <1>1, <1>2 DEF SnapshotsOwned
<1> QED
  BY <1>4, <1>5, <1>6 DEF CutOf

\* join gives a batch up: its backup-nodes, if there are any, make the run broken.
LEMMA JoinRaisedCut ==
  ASSUME Known, NEW j \in Jobs, RunAlone(j), JoinRaised(j) PROVE CutOf(j)'
<1>0. /\ RunGoesOn(j) /\ SameOptions(j) /\ job'[j].pc \in {"cleanup", "failed"}
      /\ job[j].pc \in Phases /\ job'[j].hosts = job[j].hosts /\ cmd' = cmd /\ clear' = clear
      /\ (job[j].broken => job'[j].broken) /\ (job[j].pc = "upload" => job'[j].broken)
  BY DEF JoinRaised, RunGoesOn, BrokenStays, RaiseTo
<1>1. /\ TypeOK /\ RunFits(j) /\ Entered(j)' = Entered(j) /\ backup' = backup
      /\ EntriesFit(j) /\ Busy(j) /\ SnapshotsHeld(j) /\ SnapshotsOwned(j) /\ ContentsCut(j)
      /\ Spoiled(j) /\ snap' = snap /\ using' = using /\ job'[j].existing = job[j].existing
      /\ (job[j].pc = "snapshot" => Entered(j) = {})
  BY <1>0, RunBusy DEF CutOf, SameOptions
<1>2. UploadsBegun(j)' = UploadsBegun(j) /\ NothingCleared(j)' = NothingCleared(j)
  BY <1>0, <1>1 DEF UploadsBegun, NothingCleared
<1>3. EntriesFit(j)' /\ ContentsCut(j)'
  BY <1>0, <1>1, <1>2 DEF EntriesFit, ContentsCut
<1>4. SnapshotsHeld(j)'
  BY <1>0, <1>1, <1>2 DEF SnapshotsHeld
<1>5. SnapshotsOwned(j)'
  BY <1>0, <1>1, <1>2 DEF SnapshotsOwned
<1>6. Spoiled(j)'
  <2>1. CASE job[j].pc = "snapshot"
    <3>1. PICK h \in job[j].hosts : TRUE
      BY <1>0, <1>1 DEF RunFits
    <3>2. cmd[j][h] \notin Running \ {"snapshot"}
      BY <1>1, <2>1, <3>1, Batches DEF RunFits, UploadsBegun, Uploading, Running
    <3> QED BY <1>0, <1>1, <2>1, <3>1, <3>2 DEF Spoiled
  <2>2. CASE job[j].pc = "upload"
    BY <1>0, <2>2 DEF Spoiled
  <2>3. CASE job[j].pc = "cleanup"
    BY <1>0, <1>1, <1>2, <2>3 DEF Spoiled
  <2> QED BY <1>0, <2>1, <2>2, <2>3 DEF Phases
<1> QED
  BY <1>3, <1>4, <1>5, <1>6 DEF CutOf

\* A run that is left alone, and whose entries are.
LEMMA RunFrameCut ==
  ASSUME NEW i \in Jobs, job'[i] = job[i], cmd'[i] = cmd[i], clear'[i] = clear[i],
         using'[i] = using[i], UNCHANGED <<backup, index, snap>>,
         EntriesFit(i), SnapshotsHeld(i), SnapshotsOwned(i), ContentsCut(i), Spoiled(i)
  PROVE  CutOf(i)' /\ Busy(i)' = Busy(i) /\ Entered(i)' = Entered(i)
<1>1. /\ Launched(i)' = Launched(i) /\ NothingCleared(i)' = NothingCleared(i)
      /\ UploadsBegun(i)' = UploadsBegun(i) /\ Busy(i)' = Busy(i)
  BY RunFrame DEF Busy
<1>2. Entered(i)' = Entered(i)
  BY DEF Entered
<1>3. EntriesFit(i)' /\ ContentsCut(i)' /\ Spoiled(i)'
  BY <1>1, <1>2 DEF EntriesFit, ContentsCut, Spoiled
<1>4. SnapshotsHeld(i)'
  BY <1>1 DEF SnapshotsHeld
<1>5. SnapshotsOwned(i)'
  BY <1>1 DEF SnapshotsOwned
<1> QED
  BY <1>1, <1>2, <1>3, <1>4, <1>5 DEF CutOf

LEMMA RunKeepsCut ==
  ASSUME Known, ~OverlappingJobs, NEW j \in Jobs, RunStep(j)
  PROVE  CutInvariant'
<1>0. TypeOK /\ CutInvariant /\ RunFits(j) /\ EntriesFit(j)
  BY DEF Known, ClusterInvariant, CutInvariant
<1>1. RunAlone(j) /\ RunTurn(j)
  BY <1>0, RunStepTurns
<1>2. ASSUME Begins(j)
      PROVE  /\ \A i, k \in Jobs : Busy(i)' /\ Busy(k)' => i = k
             /\ IndexOfOneRun' /\ CutOf(j)'
  <2>1. Begin(j)
    <3>1. ~JobStep(j) /\ ~Kill(j) /\ ~JoinRaises(j) /\ \A h \in Hosts : ~LoseHost(j, h)
      BY <1>2 DEF Begins, JobStep, Kill, ReadHosts, ReadHostsFails, RunBatch, RunBatchRaises,
                  JoinBatch, JoinRaises, LoseHost, Active, Phases
    <3> QED BY <3>1 DEF RunStep
  <2> QED BY <1>1, <1>2, <2>1, BeginCut
<1>3. ASSUME RunGoesOn(j)
      PROVE  /\ \A i, k \in Jobs : Busy(i)' /\ Busy(k)' => i = k
             /\ IndexOfOneRun' /\ CutOf(j)'
  BY <1>1, <1>3, RunBusy, HostsReadCut, BatchStartedCut, BatchRaisedCut, BatchJoinedCut,
     HostLostCut, JoinRaisedCut, RunEndsCut DEF RunGoesOn
<1>4. /\ \A i, k \in Jobs : Busy(i)' /\ Busy(k)' => i = k
      /\ IndexOfOneRun' /\ CutOf(j)'
  BY <1>1, <1>2, <1>3 DEF RunTurn, RunGoesOn
<1>5. ASSUME NEW i \in Jobs \ {j} PROVE CutOf(i)'
  <2>1. /\ job'[i] = job[i] /\ cmd'[i] = cmd[i] /\ clear'[i] = clear[i] /\ using'[i] = using[i]
        /\ UNCHANGED <<backup, index, snap>>
    BY <1>1 DEF RunAlone
  <2>2. /\ EntriesFit(i) /\ SnapshotsHeld(i) /\ SnapshotsOwned(i) /\ ContentsCut(i) /\ Spoiled(i)
    BY <1>0 DEF CutInvariant
  <2> QED BY <2>1, <2>2, RunFrameCut
<1>6. SameRing'
  <2>1. UNCHANGED <<ring, backup, index, moves>> /\ \A i \in Jobs \ {j} : job'[i] = job[i]
    BY <1>1 DEF RunAlone
  <2>2. SameRing
    BY <1>0 DEF CutInvariant
  <2>3. \/ job'[j].hosts = {}
        \/ job'[j].hosts = {h \in ring : DataCentre[h] = job'[j].dc}
        \/ job'[j].hosts = job[j].hosts /\ job'[j].dc = job[j].dc
    <3>1. CASE Begins(j)
      BY <1>0, <3>1 DEF Begins, RunFits
    <3>2. CASE HostsRead(j)
      BY <3>2 DEF HostsRead, SameOptions, TokenmapOf
    <3>3. CASE \/ BatchStarted(j) \/ BatchRaised(j) \/ BatchJoined(j)
               \/ HostLost(j) \/ JoinRaised(j) \/ RunEnds(j)
      BY <3>3 DEF BatchStarted, BatchRaised, BatchJoined, HostLost, JoinRaised, RunEnds, SameOptions
    <3> QED BY <1>1, <3>1, <3>2, <3>3 DEF RunTurn
  <2>4. moves = 0 =>
           /\ job'[j].hosts \subseteq {h \in ring : DataCentre[h] = job'[j].dc}
           /\ job'[j].hosts # {} => job'[j].hosts = {h \in ring : DataCentre[h] = job'[j].dc}
    BY <2>2, <2>3 DEF SameRing
  <2> QED BY <2>1, <2>2, <2>4 DEF SameRing
<1> QED
  BY <1>4, <1>5, <1>6 DEF CutInvariant, CutOf

-----------------------------------------------------------------------------
(* The ring, delete-backup and the purge                                   *)

\* A step that takes entries out of the index, or none.
LEMMA FewerEntries ==
  ASSUME CutInvariant, UNCHANGED <<snap, job, cmd, using, clear>>,
         NEW left \in SUBSET Range(index), Range(index') = left,
         index = <<>> => index' = <<>>,
         \A h \in left : backup'[h] = backup[h],
         SameRing'
  PROVE  CutInvariant'
<1>1. \A i \in Jobs : Entered(i)' = Entered(i) \intersect left
  BY DEF Entered
<1>2. ASSUME NEW i \in Jobs
      PROVE  /\ Launched(i)' = Launched(i) /\ NothingCleared(i)' = NothingCleared(i)
             /\ UploadsBegun(i)' = UploadsBegun(i) /\ Busy(i)' = Busy(i)
  BY RunFrame DEF Busy
<1>3. \A i, k \in Jobs : Busy(i)' /\ Busy(k)' => i = k
  BY <1>2 DEF CutInvariant
<1>4. IndexOfOneRun'
  <2>1. IndexOfOneRun
    BY DEF CutInvariant
  <2>2. ASSUME NEW i \in Jobs, Range(index) = Entered(i) PROVE Range(index') = Entered(i)'
    BY <1>1, <2>2
  <2>3. \E i \in Jobs : Range(index') = Entered(i)'
    BY <2>1, <2>2 DEF IndexOfOneRun
  <2>4. \A i \in Jobs : Busy(i)' => Range(index') = Entered(i)'
    BY <1>2, <2>1, <2>2 DEF IndexOfOneRun
  <2>5. \A i \in Jobs : job'[i].pc \in {"connect", "snapshot"} => index' = <<>>
    BY <2>1 DEF IndexOfOneRun
  <2> QED BY <2>3, <2>4, <2>5 DEF IndexOfOneRun
<1>5. ASSUME NEW i \in Jobs PROVE CutOf(i)'
  <2>0. /\ EntriesFit(i) /\ SnapshotsHeld(i) /\ SnapshotsOwned(i) /\ ContentsCut(i) /\ Spoiled(i)
        /\ Entered(i)' = Entered(i) \intersect left
        /\ Launched(i)' = Launched(i) /\ NothingCleared(i)' = NothingCleared(i)
        /\ UploadsBegun(i)' = UploadsBegun(i) /\ Busy(i)' = Busy(i)
    BY <1>1, <1>2 DEF CutInvariant
  <2>1. EntriesFit(i)'
    BY <2>0 DEF EntriesFit
  <2>2. ContentsCut(i)'
    BY <2>0 DEF ContentsCut
  <2>3. Spoiled(i)'
    BY <2>0 DEF Spoiled
  <2>4. SnapshotsHeld(i)'
    BY <2>0 DEF SnapshotsHeld
  <2>5. SnapshotsOwned(i)'
    BY <2>0 DEF SnapshotsOwned
  <2> QED BY <2>1, <2>2, <2>3, <2>4, <2>5 DEF CutOf
<1> QED
  BY <1>3, <1>4, <1>5 DEF CutInvariant, CutOf

LEMMA OtherKeepsCut == ASSUME Known, OtherStep PROVE CutInvariant'
<1>0. CutInvariant /\ ClusterInvariant /\ UNCHANGED <<snap, job, cmd, using, clear>>
      /\ SameRing /\ Range(index) \subseteq Hosts /\ TypeOK /\ IndexFollows
  BY OtherKeeps DEF Known, CutInvariant, ClusterInvariant, IndexFollows
<1>1. ASSUME NEW h \in Hosts, Join(h) \/ Leave(h) PROVE CutInvariant'
  <2>1. moves' # 0 /\ UNCHANGED <<backup, index>>
    <3>1. moves' = moves + 1 /\ moves \in Nat
      BY <1>0, <1>1, FlagsAssumption DEF Join, Leave, TypeOK
    <3> QED BY <1>1, <3>1 DEF Join, Leave, nodeVars
  <2>2. SameRing'
    BY <2>1 DEF SameRing
  <2> QED BY <1>0, <2>1, <2>2, FewerEntries
<1>2. ASSUME NEW h \in Hosts, PurgeNode(h) PROVE CutInvariant'
  <2>1. /\ index' = IndexWithout(h) /\ UNCHANGED <<ring, job, moves>>
        /\ \A g \in Hosts \ {h} : backup'[g] = backup[g]
    BY <1>0, <1>2 DEF PurgeNode, TypeOK
  <2>2. Range(index') = Range(index) \ {h}
    BY <1>0, <2>1, IndexWithoutHost DEF TypeOK, IndexFollows
  <2>3. index = <<>> => index' = <<>>
    <3>1. Range(<<>>) = {}
      BY DEF Range
    <3> QED BY <2>1, <3>1 DEF IndexWithout
  <2>4. SameRing'
    BY <1>0, <2>1, <2>2 DEF SameRing
  <2> QED BY <1>0, <2>1, <2>2, <2>3, <2>4, FewerEntries
<1>3. CASE DeleteBackup
  <2>1. index' = <<>> /\ UNCHANGED <<ring, job, moves>>
    BY <1>3 DEF DeleteBackup
  <2>2. Range(index') = {}
    BY <2>1 DEF Range
  <2>3. SameRing'
    BY <1>0, <2>1, <2>2 DEF SameRing
  <2> QED BY <1>0, <2>1, <2>2, <2>3, FewerEntries
<1>4. CASE PurgeList \/ PurgeLive
  <2>1. UNCHANGED <<ring, job, moves, backup, index>>
    BY <1>4 DEF PurgeList, PurgeLive, nodeVars
  <2>2. SameRing'
    BY <1>0, <2>1 DEF SameRing
  <2> QED BY <1>0, <2>1, <2>2, FewerEntries
<1> QED
  BY <1>1, <1>2, <1>3, <1>4 DEF OtherStep

-----------------------------------------------------------------------------
(* One cut                                                                 *)

LEMMA CutInit == Init => CutInvariant
<1> SUFFICES ASSUME Init PROVE CutInvariant
  OBVIOUS
<1>0. index = <<>> /\ ring = InitialRing /\ Range(<<>>) = {}
  BY DEF Init, Range
<1>1. ASSUME NEW j \in Jobs
      PROVE  /\ job[j] = NoJob
             /\ \A h \in Hosts : cmd[j][h] = "none" /\ using[j][h] = NoSnapshot
                                 /\ clear[j][h] = "none"
  BY DEF Init
<1>2. ASSUME NEW j \in Jobs
      PROVE  ~Busy(j) /\ Entered(j) = {} /\ NothingCleared(j) /\ job[j].hosts = {}
  BY <1>0, <1>1 DEF Busy, Active, Alive, NoJob, Entered, NothingCleared, JobEnds, Running
<1>3. ASSUME NEW j \in Jobs PROVE CutOf(j)
  BY <1>1, <1>2 DEF CutOf, EntriesFit, SnapshotsHeld, SnapshotsOwned, ContentsCut, Spoiled, NoJob
<1>4. IndexOfOneRun
  <2>1. 1 \in Jobs
    BY JobsAssumption DEF Jobs
  <2> QED BY <1>0, <1>2, <2>1 DEF IndexOfOneRun
<1>5. SameRing
  BY <1>0, <1>2 DEF SameRing
<1> QED
  BY <1>2, <1>3, <1>4, <1>5 DEF CutInvariant, CutOf

LEMMA CutNext ==
  ASSUME ~OverlappingJobs, Known, [Next]_vars PROVE CutInvariant'
<1>1. ASSUME NEW j \in Jobs, RunStep(j) PROVE CutInvariant'
  BY <1>1, RunKeepsCut
<1>2. ASSUME NEW j \in Jobs, NEW h \in Hosts, HostStep(j, h) PROVE CutInvariant'
  BY <1>2, HostStepTurns, HostKeepsCut DEF Known, ClusterInvariant
<1>3. ASSUME OtherStep PROVE CutInvariant'
  BY <1>3, OtherKeepsCut
<1>4. CASE UNCHANGED vars
  <2>1. CutInvariant /\ UNCHANGED <<snap, job, cmd, using, clear, backup, index>> /\ SameRing'
    BY <1>4 DEF vars, Known, CutInvariant, SameRing
  <2> QED BY <2>1, FewerEntries
<1> QED
  BY <1>1, <1>2, <1>3, <1>4 DEF Next, OtherStep, RunStep

\* The inductive invariant of runs of one name that do not overlap: one of them at
\* most is at work, the index has entries of one run only, the snapshots of a run stay
\* until it clears them, and a run that clears them lacks the backup of some host, or
\* has lost the connection to a host on which backup-node was running.
THEOREM CutInvariantHolds == ASSUME ~OverlappingJobs PROVE Spec => []CutInvariant
<1>1. Init => CutInvariant
  BY CutInit
<1>2. CutInvariant /\ ClusterInvariant /\ [Next]_vars => CutInvariant'
  BY CutNext DEF Known
<1> QED
  BY <1>1, <1>2, ClusterInvariantHolds, PTL DEF Spec

\* What the storage calls complete (storage/cluster_backup.py) is one cut: the
\* snapshots of one snapshot phase, or the operator's own, also when the run was killed
\* before it could report, and after any number of failed and deleted runs.  The one
\* exception is a run that lost a connection in its uploads (or whose join raised): it
\* clears the snapshots under backup-nodes that go on, and what they finish is still
\* of that run, but not always of its cut.
THEOREM CompleteBackupsAreOneCut == ASSUME ~OverlappingJobs PROVE Spec => []CompleteIsOneCut
<1>1. Known => CompleteIsOneCut
  <2> SUFFICES ASSUME Known, is_complete, moves = 0
               PROVE  \E j \in Jobs : \/ \A h \in Range(index) : backup[h].content = <<j, "cut">>
                                      \/ \A h \in Range(index) : backup[h].content = <<j, "operator">>
                                      \/ job[j].broken /\ \A h \in Range(index) : backup[h].content[1] = j
    BY DEF CompleteIsOneCut
  <2>1. PICK j \in Jobs : Range(index) = Entered(j)
    BY DEF Known, CutInvariant, IndexOfOneRun
  <2>2. EntriesFit(j) /\ ContentsCut(j) /\ Spoiled(j) /\ SameRing /\ index \in Seq(Hosts)
    BY DEF Known, CutInvariant, ClusterInvariant, TypeOK
  <2>3. Head(index) \in Range(index)
    <3>1. index # <<>>
      BY DEF is_complete
    <3>2. 1 \in DOMAIN index /\ Head(index) = index[1]
      BY <2>2, <3>1
    <3> QED BY <3>2 DEF Range
  <2>4. ClusterTokenmap = job[j].hosts
    <3>1. Head(index) \in job[j].hosts
      BY <2>1, <2>2, <2>3 DEF EntriesFit
    <3>2. job[j].hosts = {h \in ring : DataCentre[h] = job[j].dc}
      BY <2>2, <3>1 DEF SameRing
    <3>3. backup[Head(index)].tokenmap = {g \in ring : DataCentre[g] = DataCentre[Head(index)]}
      BY <2>2, <2>3 DEF SameRing
    <3>4. index # <<>>
      BY DEF is_complete
    <3> QED BY <3>1, <3>2, <3>3, <3>4 DEF ClusterTokenmap
  <2>5. \A h \in job[j].hosts : h \in Entered(j)
    BY <2>1, <2>4 DEF is_complete, missing_nodes
  <2>6. \A h \in Entered(j) : backup[h].state = "finished" /\ cmd[j][h] = "ok"
    BY <2>1, <2>2 DEF is_complete, EntriesFit
  <2>7. CASE job[j].broken
    BY <2>1, <2>7 DEF Entered
  <2>8. CASE ~job[j].broken
    <3>1. NothingCleared(j)
      BY <2>2, <2>5, <2>6, <2>8 DEF Spoiled
    <3>2. \A h \in Entered(j) :
             backup[h].content = <<j, IF job[j].existing THEN "operator" ELSE "cut">>
      BY <2>2, <2>6, <3>1 DEF ContentsCut
    <3> QED BY <2>1, <3>2
  <2> QED BY <2>7, <2>8
<1> QED
  BY <1>1, CutInvariantHolds, ClusterInvariantHolds, PTL DEF Known

-----------------------------------------------------------------------------
(* "Done" is complete                                                      *)

LEMMA HostKeepsBackups ==
  ASSUME Known, BackupsThere, NEW j \in Jobs, NEW h \in Hosts, OthersKept(j, h), HostTurn(j, h)
  PROVE  BackupsThere'
<1>0. /\ Busy(j) /\ RunFits(j) /\ TypeOK /\ job'[j] = job[j] /\ purge' = purge
      /\ \A i \in Jobs \ {j} : ~Busy(i)'
      /\ Entered(j)' = Entered(j) \union (IF EntryMade(j, h) THEN {h} ELSE {})
      /\ \A g \in Hosts \ {h} : backup'[g] = backup[g] /\ cmd'[j][g] = cmd[j][g]
      /\ Launched(j)' = Launched(j) /\ job[j].hosts \in SUBSET Hosts
      /\ \A g \in Entered(j) : backup[g].state # "none"
  <2>1. /\ Busy(j) /\ RunFits(j) /\ TypeOK /\ \A i \in Jobs \ {j} : ~Busy(i)'
        /\ Entered(j)' = Entered(j) \union (IF EntryMade(j, h) THEN {h} ELSE {})
        /\ Range(index) = Entered(j)
    BY HostBusy, HostEntries
  <2>2. Launched(j)' = Launched(j) /\ job[j].hosts \in SUBSET Hosts
    BY <2>1, HostFits DEF TypeOK, Runs
  <2> QED BY <2>1, <2>2 DEF OthersKept, Known, ClusterInvariant, IndexFollows
<1> SUFFICES ASSUME NEW g \in job[j].hosts \ purge.absent
             PROVE  /\ cmd'[j][g] \in {"started", "uploading", "closing"} => g \in Entered(j)'
                    /\ job[j].pc = "upload" /\ g \in Launched(j) /\ cmd'[j][g] = "ok" =>
                         g \in Entered(j)' /\ backup'[g].state = "finished"
  BY <1>0 DEF BackupsThere
<1>1. /\ cmd[j][g] \in {"started", "uploading", "closing"} => g \in Entered(j)
      /\ job[j].pc = "upload" /\ g \in Launched(j) /\ cmd[j][g] = "ok" =>
           g \in Entered(j) /\ backup[g].state = "finished"
  BY <1>0 DEF BackupsThere
<1>2. CASE g # h
  BY <1>0, <1>1, <1>2
<1>3. CASE g = h
  <2>1. job[j].pc = "upload" => cmd[j][h] # "snapshot"
    BY <1>0 DEF RunFits
  <2> QED
    BY <1>0, <1>1, <1>3, <2>1 DEF HostTurn, CutTaken, CommandFails, EntryLost, ClearEnds, EntryMade,
       SnapshotTaken, UploadEnds, UploadFails, BackupFinished, Turns
<1> QED
  BY <1>2, <1>3

LEMMA RunKeepsBackups ==
  ASSUME Known, BackupsThere, CutInvariant', NEW j \in Jobs, RunAlone(j), RunTurn(j),
         RunFits(j)'
  PROVE  BackupsThere'
<1>0. /\ RunFits(j) /\ TypeOK /\ UNCHANGED <<backup, index, purge>>
      /\ \A i \in Jobs : Entered(i)' = Entered(i)
  BY DEF Known, ClusterInvariant, RunAlone, Entered
<1>1. ASSUME NEW i \in Jobs \ {j}, Busy(i)', NEW g \in job'[i].hosts \ purge'.absent
      PROVE  /\ cmd'[i][g] \in {"started", "uploading", "closing"} => g \in Entered(i)'
             /\ job'[i].pc = "upload" /\ g \in Launched(i)' /\ cmd'[i][g] = "ok" =>
                  g \in Entered(i)' /\ backup'[g].state = "finished"
  <2>1. job'[i] = job[i] /\ cmd'[i] = cmd[i] /\ clear'[i] = clear[i] /\ using'[i] = using[i]
    BY DEF RunAlone
  <2>2. Busy(i) /\ Launched(i)' = Launched(i)
    BY <1>1, <2>1, RunFrame DEF Busy
  <2> QED BY <1>0, <1>1, <2>1, <2>2 DEF BackupsThere
<1>2. ASSUME Busy(j)', NEW g \in job'[j].hosts \ purge'.absent
      PROVE  /\ cmd'[j][g] \in {"started", "uploading", "closing"} => g \in Entered(j)'
             /\ job'[j].pc = "upload" /\ g \in Launched(j)' /\ cmd'[j][g] = "ok" =>
                  g \in Entered(j)' /\ backup'[g].state = "finished"
  <2>1. CASE Begins(j)
    BY <1>0, <1>2, <2>1 DEF Begins, RunFits
  <2>2. CASE HostsRead(j)
    <3>1. g \in Hosts
      BY <1>0, <1>2, <2>2 DEF HostsRead, TokenmapOf, TypeOK
    <3>2. cmd'[j][g] = "none"
      BY <1>0, <2>2, <3>1 DEF HostsRead, RunFits
    <3> QED BY <3>2
  <2>3. ASSUME NEW reached \in SUBSET Batch(j), Launch(j, reached), RunGoesOn(j),
               job[j].pc \in Phases, ~job[j].wait, job'[j].hosts = job[j].hosts,
               job'[j].pc = "upload" =>
                 job[j].pc = "upload" /\ Launched(j)' = Launched(j) \union Batch(j) /\ reached = Batch(j)
        PROVE  /\ cmd'[j][g] \in {"started", "uploading", "closing"} => g \in Entered(j)'
               /\ job'[j].pc = "upload" /\ g \in Launched(j)' /\ cmd'[j][g] = "ok" =>
                    g \in Entered(j)' /\ backup'[g].state = "finished"
    <3>1. /\ g \in job[j].hosts \ purge.absent /\ g \in Hosts /\ Busy(j)
      BY <1>0, <1>2, <2>3, RunBusy DEF TypeOK, Runs
    <3>2. cmd'[j][g] # cmd[j][g] => g \in reached /\ cmd'[j][g] \in {"snapshot", "backup"}
      BY <2>3, <3>1, LaunchFresh
    <3>3. /\ cmd[j][g] \in {"started", "uploading", "closing"} => g \in Entered(j)
          /\ job[j].pc = "upload" /\ g \in Launched(j) /\ cmd[j][g] = "ok" =>
               g \in Entered(j) /\ backup[g].state = "finished"
      BY <3>1 DEF BackupsThere
    <3>4. job'[j].pc = "upload" /\ g \in Batch(j) => cmd'[j][g] = "backup"
      <4>1. Batch(j) \in SUBSET Hosts
        BY <1>0, Batches
      <4> QED BY <1>0, <2>3, <3>1, <4>1, LaunchDoes
    <3> QED BY <1>0, <2>3, <3>2, <3>3, <3>4
  <2>4. CASE BatchStarted(j)
    <3>1. Launched(j)' = Launched(j) \union Batch(j)
      <4>1. Launched(j)' = {h \in job[j].hosts :
                               Place(job[j].hosts, h) <= job[j].next + Pool(job[j].pc)}
        BY <2>4 DEF BatchStarted, Launched, Place, Pool
      <4>2. Launched(j) = Joined(j)
        BY <1>0, <2>4, Batches DEF BatchStarted
      <4> QED BY <1>0, <4>1, <4>2, LaunchedNext
    <3> QED BY <2>3, <2>4, <3>1 DEF BatchStarted, RunGoesOn
  <2>5. CASE BatchRaised(j)
    <3>1. PICK lost \in SUBSET Batch(j) : Launch(j, Batch(j) \ lost)
      BY <2>5 DEF BatchRaised
    <3>2. Batch(j) \ lost \in SUBSET Batch(j) /\ job'[j].pc # "upload"
      BY <2>5 DEF BatchRaised, RaiseTo
    <3> QED BY <2>3, <2>5, <3>1, <3>2 DEF BatchRaised, RunGoesOn
  <2>6. CASE BatchJoined(j) \/ JoinRaised(j) \/ RunEnds(j)
    <3>1. /\ cmd' = cmd /\ job'[j].hosts = job[j].hosts /\ Busy(j)
      BY <2>6, RunBusy DEF RunGoesOn, BatchJoined, JoinRaised, RunEnds
    <3>2. /\ cmd[j][g] \in {"started", "uploading", "closing"} => g \in Entered(j)
          /\ job[j].pc = "upload" /\ g \in Launched(j) /\ cmd[j][g] = "ok" =>
               g \in Entered(j) /\ backup[g].state = "finished"
      BY <1>0, <1>2, <3>1 DEF BackupsThere
    <3>3. job'[j].pc = "upload" /\ g \in Launched(j)' => job[j].pc = "upload" /\ g \in Launched(j)
      <4>1. ASSUME job'[j].pc = "upload", g \in Launched(j)'
            PROVE  job[j].pc = "upload" /\ g \in Launched(j)
        <5>1. BatchJoined(j) /\ ~job'[j].wait
          BY <2>6, <4>1 DEF RunEnds, JoinRaised, RaiseTo, BatchJoined
        <5>2. Place(job[j].hosts, g) <= job'[j].next + 0
          BY <3>1, <4>1, <5>1 DEF Launched, Place
        <5>3. Place(job[j].hosts, g) \in Nat /\ 1 <= Place(job[j].hosts, g)
          <6>1. job[j].hosts \in SUBSET Hosts
            BY <1>0, Batches
          <6> QED BY <1>2, <3>1, <6>1, PlaceOf
        <5>4. job'[j].next # 0
          BY <5>2, <5>3
        <5>5. job[j].pc = "upload" /\ job'[j].next = job[j].next + Pool(job[j].pc) /\ job[j].wait
          BY <4>1, <5>1, <5>4 DEF BatchJoined
        <5>6. Launched(j) = Joined(j) \union Batch(j)
          BY <1>0, <5>5, Batches
        <5>7. g \in {h \in job[j].hosts :
                        Place(job[j].hosts, h) <= job[j].next + Pool(job[j].pc) + 0}
          BY <1>2, <3>1, <5>2, <5>5
        <5> QED BY <1>0, <5>5, <5>6, <5>7, LaunchedNext
      <4> QED BY <4>1
    <3> QED BY <1>0, <3>1, <3>2, <3>3
  <2>7. CASE HostLost(j)
    <3>1. /\ cmd' = cmd /\ job'[j].hosts = job[j].hosts /\ job'[j].pc = job[j].pc /\ Busy(j)
          /\ Launched(j)' = Launched(j)
      BY <2>7, RunBusy DEF RunGoesOn, HostLost, Launched, Place, Pool
    <3> QED BY <1>0, <1>2, <3>1 DEF BackupsThere
  <2> QED BY <2>1, <2>2, <2>4, <2>5, <2>6, <2>7 DEF RunTurn
<1> QED
  BY <1>1, <1>2 DEF BackupsThere

LEMMA OtherKeepsBackups ==
  ASSUME Known, BackupsThere, SingleCentre, OtherStep PROVE BackupsThere'
<1>0. /\ UNCHANGED <<snap, job, cmd, using, clear>> /\ PurgeFits /\ TypeOK /\ IndexFollows
  BY OtherKeeps DEF Known, ClusterInvariant
<1>1. ASSUME NEW i \in Jobs PROVE Busy(i)' = Busy(i) /\ Launched(i)' = Launched(i)
  BY <1>0, RunFrame DEF Busy
<1>2. ASSUME purge.absent \subseteq purge'.absent,
             \A h \in Range(index) \ purge'.absent : h \in Range(index') /\ backup'[h] = backup[h]
      PROVE  BackupsThere'
  <2>1. \A i \in Jobs : \A h \in Entered(i) \ purge'.absent :
           h \in Entered(i)' /\ backup'[h] = backup[h]
    BY <1>2 DEF Entered
  <2> QED BY <1>0, <1>1, <1>2, <2>1 DEF BackupsThere
<1>3. purge \in Purges
  BY <1>0 DEF TypeOK
<1>4. ASSUME NEW h \in Hosts, Join(h) PROVE BackupsThere'
  BY <1>2, <1>4 DEF Join, nodeVars
<1>5. ASSUME NEW h \in Hosts, Leave(h) PROVE BackupsThere'
  <2>1. purge.absent \subseteq purge'.absent
    BY <1>3, <1>5 DEF Leave, Purges
  <2> QED BY <1>2, <1>5, <2>1 DEF Leave, nodeVars
<1>6. ASSUME NEW h \in Hosts, PurgeNode(h) PROVE BackupsThere'
  <2>1. purge'.absent = purge.absent /\ h \in purge.absent
    BY <1>0, <1>3, <1>6 DEF PurgeNode, Purges, PurgeFits
  <2>2. Range(index') = Range(index) \ {h} /\ Range(index) \subseteq Hosts
    BY <1>0, <1>6, IndexWithoutHost DEF PurgeNode, TypeOK, IndexFollows
  <2>3. \A g \in Hosts \ {h} : backup'[g] = backup[g]
    BY <1>0, <1>6 DEF PurgeNode, TypeOK
  <2> QED BY <1>2, <2>1, <2>2, <2>3
<1>7. CASE DeleteBackup
  <2>1. \A i \in Jobs : ~Busy(i)
    BY <1>7 DEF DeleteBackup, Busy
  <2> QED BY <1>1, <2>1 DEF BackupsThere
<1>8. CASE PurgeList
  <2>1. purge.absent = {}
    BY <1>0, <1>8 DEF PurgeList, PurgeFits
  <2> QED BY <1>2, <1>8, <2>1 DEF PurgeList, nodeVars
<1>9. CASE PurgeLive
  <2>1. purge'.absent = purge.absent
    BY <1>3, <1>9 DEF PurgeLive, Purges
  <2> QED BY <1>2, <1>9, <2>1 DEF PurgeLive, nodeVars
<1> QED
  BY <1>4, <1>5, <1>6, <1>7, <1>8, <1>9 DEF OtherStep

\* The backups that the commands of a run report are in the storage, unless a purge
\* has seen their node leave: the inductive invariant behind "done".
THEOREM BackupsThereHolds ==
  ASSUME ~OverlappingJobs, SingleCentre PROVE Spec => []BackupsThere
<1>1. Init => BackupsThere
  <2>1. Init => \A j \in Jobs : job[j].hosts = {}
    BY DEF Init, NoJob
  <2> QED BY <2>1 DEF BackupsThere
<1>2. BackupsThere /\ Known /\ Known' /\ [Next]_vars => BackupsThere'
  <2> SUFFICES ASSUME BackupsThere, Known, Known', [Next]_vars PROVE BackupsThere'
    OBVIOUS
  <2>1. ASSUME NEW j \in Jobs, RunStep(j) PROVE BackupsThere'
    <3>1. RunAlone(j) /\ RunTurn(j) /\ RunFits(j)' /\ CutInvariant'
      BY <2>1, RunStepTurns DEF Known, ClusterInvariant
    <3> QED BY <3>1, RunKeepsBackups
  <2>2. ASSUME NEW j \in Jobs, NEW h \in Hosts, HostStep(j, h) PROVE BackupsThere'
    BY <2>2, HostStepTurns, HostKeepsBackups DEF Known, ClusterInvariant
  <2>3. ASSUME OtherStep PROVE BackupsThere'
    BY <2>3, OtherKeepsBackups
  <2>4. CASE UNCHANGED vars
    <3>1. ASSUME NEW i \in Jobs
          PROVE  Busy(i)' = Busy(i) /\ Launched(i)' = Launched(i) /\ Entered(i)' = Entered(i)
      BY <2>4, RunFrame DEF vars, Busy, Entered
    <3> QED BY <2>4, <3>1 DEF vars, BackupsThere
  <2> QED BY <2>1, <2>2, <2>3, <2>4 DEF Next, OtherStep, RunStep
<1> QED
  BY <1>1, <1>2, CutInvariantHolds, ClusterInvariantHolds, PTL DEF Spec, Known

\* All of it together, as the run "cluster" checks it on a small instance.
THEOREM SerialInvariantHolds ==
  ASSUME ~OverlappingJobs, SingleCentre PROVE Spec => []SerialInvariant
BY ClusterInvariantHolds, CutInvariantHolds, BackupsThereHolds, PTL DEF SerialInvariant

\* A run becomes done by joining the last batch of uploads that have all succeeded.
LEMMA DoneBy ==
  ASSUME Known, BackupsThere, [Next]_vars, NEW j \in Jobs, BecomesDone(j)
  PROVE  /\ \A h \in job[j].hosts \ purge.absent :
              h \in Entered(j) /\ backup[h].state = "finished" /\ cmd[j][h] = "ok"
         /\ NothingCleared(j) /\ job[j].hosts # {} /\ Range(index) = Entered(j)
<1>0. TypeOK /\ RunFits(j)
  BY DEF Known, ClusterInvariant
<1>1. RunStep(j)
  <2>1. ASSUME NEW i \in Jobs \ {j}, RunStep(i) PROVE FALSE
    BY <1>0, <2>1, RunStepTurns DEF RunAlone, BecomesDone
  <2>2. ASSUME NEW i \in Jobs, NEW h \in Hosts, HostStep(i, h) PROVE FALSE
    BY <1>0, <2>2, HostStepTurns DEF OthersKept, BecomesDone
  <2>3. ASSUME OtherStep PROVE FALSE
    BY <2>3, OtherKeeps DEF Known, BecomesDone
  <2>4. ~UNCHANGED vars
    BY DEF vars, BecomesDone
  <2> QED BY <2>1, <2>2, <2>3, <2>4 DEF Next, OtherStep, RunStep
<1>2. RunAlone(j) /\ RunTurn(j)
  BY <1>0, <1>1, RunStepTurns
<1>3. /\ BatchJoined(j) /\ LastBatch(j) /\ AllSucceeded(j) /\ job[j].pc = "upload"
  <2>1. job[j].pc # "done" /\ job'[j].pc = "done"
    BY DEF BecomesDone
  <2>2. /\ ~Begins(j) /\ ~HostsRead(j) /\ ~BatchRaised(j) /\ ~RunEnds(j) /\ ~BatchStarted(j)
        /\ ~HostLost(j) /\ ~JoinRaised(j)
    BY <2>1 DEF Begins, HostsRead, FirstPhase, BatchRaised, RaiseTo, RunEnds, BatchStarted,
                HostLost, JoinRaised
  <2>3. BatchJoined(j)
    BY <1>2, <2>2 DEF RunTurn
  <2> QED BY <2>1, <2>3 DEF BatchJoined
<1>4. Busy(j) /\ Range(index) = Entered(j)
  <2>1. Busy(j)
    BY <1>3 DEF Busy, Active, JobEnds
  <2> QED BY <2>1 DEF Known, CutInvariant, IndexOfOneRun
<1>5. Launched(j) = job[j].hosts
  BY <1>0, <1>3, Batches DEF BatchJoined, LastBatch
<1>6. \A h \in job[j].hosts : cmd[j][h] = "ok"
  BY <1>3 DEF AllSucceeded, Status
<1>7. NothingCleared(j) /\ job[j].hosts # {}
  BY <1>0, <1>3 DEF RunFits, Phases
<1> QED
  BY <1>3, <1>4, <1>5, <1>6, <1>7 DEF BackupsThere

\* When backup-cluster reports "Backup of the cluster done", every host it read from
\* the token map has finished its backup, however its commands were batched; and the
\* storage calls the backup complete if the nodes saw the ring that it read.
THEOREM DoneBackupsAreComplete ==
  ASSUME ~OverlappingJobs, SingleCentre PROVE Spec => DoneIsComplete
<1>1. Known /\ BackupsThere /\ [Next]_vars =>
        [\A j \in Jobs : BecomesDone(j) =>
           LET hosts == job[j].hosts IN
           /\ \A h \in hosts \ purge.absent : backup[h].state = "finished"
           /\ ClusterTokenmap = hosts /\ hosts \intersect purge.absent = {} => is_complete]_vars
  <2> SUFFICES ASSUME Known, BackupsThere, [Next]_vars, NEW j \in Jobs, BecomesDone(j)
               PROVE  /\ \A h \in job[j].hosts \ purge.absent : backup[h].state = "finished"
                      /\ ClusterTokenmap = job[j].hosts /\ job[j].hosts \intersect purge.absent = {}
                           => is_complete
    OBVIOUS
  <2>1. /\ \A h \in job[j].hosts \ purge.absent : h \in Entered(j) /\ backup[h].state = "finished"
        /\ job[j].hosts # {} /\ Range(index) = Entered(j)
    BY DoneBy
  <2>2. Entered(j) \subseteq job[j].hosts
    BY DEF Known, CutInvariant, EntriesFit
  <2>3. ASSUME ClusterTokenmap = job[j].hosts, job[j].hosts \intersect purge.absent = {}
        PROVE  is_complete
    <3>1. \A h \in job[j].hosts : h \in Range(index) /\ backup[h].state = "finished"
      BY <2>1, <2>3
    <3>2. index # <<>>
      BY <2>1, <3>1 DEF Range
    <3> QED BY <2>1, <2>2, <2>3, <3>1, <3>2 DEF is_complete, missing_nodes
  <2> QED BY <2>1, <2>3
<1> QED
  BY <1>1, BackupsThereHolds, CutInvariantHolds, ClusterInvariantHolds, PTL
     DEF Spec, Known, DoneIsComplete

\* "Take snapshot everywhere, then upload": what a successful run has uploaded comes
\* from the snapshots of its own snapshot phase, on every host and in every batch.
THEOREM UploadsAreTheCut ==
  ASSUME ~OverlappingJobs, SingleCentre PROVE Spec => CutBeforeUpload
<1>1. Known /\ BackupsThere /\ [Next]_vars =>
        [\A j \in Jobs : BecomesDone(j) /\ ~job[j].existing =>
           \A h \in job[j].hosts \ purge.absent : backup[h].content = <<j, "cut">>]_vars
  <2> SUFFICES ASSUME Known, BackupsThere, [Next]_vars, NEW j \in Jobs, BecomesDone(j),
                      ~job[j].existing, NEW h \in job[j].hosts \ purge.absent
               PROVE  backup[h].content = <<j, "cut">>
    OBVIOUS
  <2>1. h \in Entered(j) /\ cmd[j][h] = "ok" /\ NothingCleared(j)
    BY DoneBy
  <2>2. ContentsCut(j)
    BY DEF Known, CutInvariant
  <2> QED BY <2>1, <2>2 DEF ContentsCut
<1> QED
  BY <1>1, BackupsThereHolds, CutInvariantHolds, ClusterInvariantHolds, PTL
     DEF Spec, Known, CutBeforeUpload
=============================================================================
