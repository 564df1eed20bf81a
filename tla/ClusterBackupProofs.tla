------------------------ MODULE ClusterBackupProofs ------------------------
(***************************************************************************)
(* Proofs about ClusterBackup, for any hosts, batches, runs, options and   *)
(* faults.                                                                 *)
(***************************************************************************)
EXTENDS ClusterBackup, FiniteSetTheorems, SequenceTheorems, TLAPS

-----------------------------------------------------------------------------
(* Places, the index and the constants                                     *)

\* The places of the hosts are numbers from 1 to the number of hosts.
LEMMA PlaceOf ==
  ASSUME NEW hosts \in SUBSET Hosts
  PROVE  /\ Cardinality(hosts) \in Nat
         /\ \A h \in hosts : /\ Place(hosts, h) \in Nat
                             /\ 1 <= Place(hosts, h) /\ Place(hosts, h) <= Cardinality(hosts)
<1>1. IsFiniteSet(hosts) /\ Cardinality(hosts) \in Nat
  BY HostsAssumption, FS_Subset, FS_CardinalityType
<1>2. ASSUME NEW h \in hosts
      PROVE  /\ Place(hosts, h) \in Nat
             /\ 1 <= Place(hosts, h) /\ Place(hosts, h) <= Cardinality(hosts)
  <2> DEFINE S == {g \in hosts : Address[g] <= Address[h]}
  <2>1. Address[h] \in Nat
    BY HostsAssumption
  <2>2. h \in S /\ S \subseteq hosts
    BY <2>1
  <2>3. IsFiniteSet(S) /\ Cardinality(S) \in Nat /\ Cardinality(S) <= Cardinality(hosts)
    BY <1>1, <2>2, FS_Subset, FS_CardinalityType
  <2>4. Cardinality(S) # 0
    BY <2>2, <2>3, FS_EmptySet
  <2> QED BY <1>1, <2>3, <2>4 DEF Place
<1> QED
  BY <1>1, <1>2

\* A host is taken out of the index, and entered at its end.
LEMMA IndexWithoutHost ==
  ASSUME index \in Seq(Hosts), IsInjective(index), NEW h \in Hosts
  PROVE  /\ IndexWithout(h) \in Seq(Hosts) /\ IsInjective(IndexWithout(h))
         /\ Range(IndexWithout(h)) = Range(index) \ {h}
<1>1. CASE h \notin Range(index)
  BY <1>1 DEF IndexWithout
<1>2. CASE h \in Range(index)
  <2> DEFINE n == Len(index)
             k == CHOOSE k \in DOMAIN index : index[k] = h
             s == SubSeq(index, 1, k - 1)
             t == SubSeq(index, k + 1, n)
             u == s \o t
  <2>1. k \in DOMAIN index /\ index[k] = h
    BY <1>2 DEF Range
  <2>2. n \in Nat /\ DOMAIN index = 1 .. n /\ k \in 1 .. n
    <3>1. n \in Nat /\ DOMAIN index = 1 .. n
      OBVIOUS
    <3> QED BY <2>1, <3>1
  <2>0. IndexWithout(h) = u
    BY <1>2 DEF IndexWithout, RemoveAt
  <2> HIDE DEF k
  <2>3. /\ s \in Seq(Hosts) /\ Len(s) = k - 1
        /\ \A m \in 1 .. k - 1 : s[m] = index[m]
    <3>1. /\ \A m \in 1 .. k - 1 : index[m] \in Hosts
          /\ 1 \in Int /\ k - 1 \in Int /\ (IF 1 <= k - 1 THEN k - 1 - 1 + 1 ELSE 0) = k - 1
          /\ k - 1 - 1 + 1 = k - 1 /\ \A m \in 1 .. k - 1 : 1 + m - 1 = m
      BY <2>2
    <3>2. /\ s \in Seq(Hosts)
          /\ Len(s) = IF 1 <= k - 1 THEN k - 1 - 1 + 1 ELSE 0
          /\ \A m \in 1 .. k - 1 - 1 + 1 : s[m] = index[1 + m - 1]
      BY <3>1, SubSeqProperties
    <3> QED BY <3>1, <3>2
  <2>4. /\ t \in Seq(Hosts) /\ Len(t) = n - k
        /\ \A m \in 1 .. n - k : t[m] = index[k + m]
    <3>0. \A m \in k + 1 .. n : index[m] \in Hosts
      <4>1. \A m \in k + 1 .. n : m \in DOMAIN index
        BY <2>2
      <4> QED BY <4>1
    <3>1. /\ \A m \in k + 1 .. n : index[m] \in Hosts
          /\ k + 1 \in Int /\ n \in Int /\ (IF k + 1 <= n THEN n - (k + 1) + 1 ELSE 0) = n - k
          /\ n - (k + 1) + 1 = n - k /\ \A m \in 1 .. n - k : k + 1 + m - 1 = k + m
      <4> HIDE DEF n
      <4>1. n \in Int /\ k \in Int /\ k <= n
        BY <2>2
      <4>2. \A m \in 1 .. n - k : k + 1 + m - 1 = k + m
        BY <4>1
      <4>3. n - (k + 1) + 1 = n - k /\ (IF k + 1 <= n THEN n - (k + 1) + 1 ELSE 0) = n - k
        BY <4>1
      <4> QED BY <3>0, <4>1, <4>2, <4>3
    <3>2. /\ t \in Seq(Hosts)
          /\ Len(t) = IF k + 1 <= n THEN n - (k + 1) + 1 ELSE 0
          /\ \A m \in 1 .. n - (k + 1) + 1 : t[m] = index[k + 1 + m - 1]
      BY <3>1, SubSeqProperties
    <3> QED BY <3>1, <3>2
  <2> HIDE DEF s, t
  <2>5. /\ u \in Seq(Hosts) /\ Len(u) = n - 1
        /\ \A m \in 1 .. n - 1 : u[m] = IF m <= k - 1 THEN index[m] ELSE index[m + 1]
    <3>1. /\ u \in Seq(Hosts) /\ Len(u) = Len(s) + Len(t)
          /\ \A m \in 1 .. Len(s) + Len(t) :
               u[m] = IF m <= Len(s) THEN s[m] ELSE t[m - Len(s)]
      BY <2>3, <2>4, ConcatProperties
    <3> HIDE DEF u
    <3>2. Len(s) + Len(t) = n - 1
      BY <2>2, <2>3, <2>4
    <3>3. ASSUME NEW m \in 1 .. n - 1
          PROVE  u[m] = IF m <= k - 1 THEN index[m] ELSE index[m + 1]
      <4>1. CASE m <= k - 1
        <5>1. m \in 1 .. k - 1 /\ m <= Len(s) /\ m \in 1 .. Len(s) + Len(t)
          BY <2>2, <2>3, <3>2, <4>1
        <5> QED BY <2>3, <3>1, <4>1, <5>1
      <4>2. CASE ~(m <= k - 1)
        <5>1. m - (k - 1) \in 1 .. n - k /\ k + (m - (k - 1)) = m + 1
          BY <2>2, <4>2
        <5>2. u[m] = t[m - (k - 1)]
          BY <2>3, <3>1, <3>2, <4>2
        <5> QED BY <2>4, <4>2, <5>1, <5>2
      <4> QED BY <4>1, <4>2
    <3> QED BY <3>1, <3>2, <3>3
  <2> HIDE DEF u, s, t
  <2>9. DOMAIN u = 1 .. n - 1
    BY <2>2, <2>5
  <2>6. IsInjective(u)
    <3> SUFFICES ASSUME NEW a \in 1 .. n - 1, NEW b \in 1 .. n - 1, u[a] = u[b]
                 PROVE  a = b
      BY <2>9 DEF IsInjective
    <3> DEFINE a1 == IF a <= k - 1 THEN a ELSE a + 1
               b1 == IF b <= k - 1 THEN b ELSE b + 1
    <3>1. a1 \in DOMAIN index /\ b1 \in DOMAIN index /\ index[a1] = index[b1]
      <4>1. a1 \in DOMAIN index /\ b1 \in DOMAIN index
        BY <2>2
      <4>2. index[a1] = u[a] /\ index[b1] = u[b]
        BY <2>5
      <4> QED BY <4>1, <4>2
    <3>2. a1 = b1
      BY <3>1 DEF IsInjective
    <3> QED BY <2>2, <3>2
  <2>7. Range(u) = Range(index) \ {h}
    <3>1. ASSUME NEW x \in Range(u) PROVE x \in Range(index) \ {h}
      <4>1. PICK m \in 1 .. n - 1 : x = u[m]
        BY <2>9 DEF Range
      <4>2. PICK p \in DOMAIN index : p # k /\ index[p] = x
        <5> DEFINE p == IF m <= k - 1 THEN m ELSE m + 1
        <5>1. p \in DOMAIN index /\ p # k
          BY <2>2
        <5>2. index[p] = x
          BY <2>5, <4>1
        <5> QED BY <5>1, <5>2
      <4>3. x # h
        BY <2>1, <4>2 DEF IsInjective
      <4> QED BY <4>2, <4>3 DEF Range
    <3>2. ASSUME NEW x \in Range(index) \ {h} PROVE x \in Range(u)
      <4>1. PICK p \in 1 .. n : index[p] = x
        BY DEF Range
      <4>2. p # k
        BY <2>1, <4>1
      <4>3. PICK m \in 1 .. n - 1 : u[m] = index[p]
        <5>1. CASE p <= k - 1
          <6>1. p \in 1 .. n - 1
            BY <2>2, <5>1
          <6>2. u[p] = index[p]
            BY <2>5, <5>1, <6>1
          <6> QED BY <6>1, <6>2
        <5>2. CASE ~(p <= k - 1)
          <6>1. p - 1 \in 1 .. n - 1 /\ ~(p - 1 <= k - 1) /\ p - 1 + 1 = p
            BY <2>2, <4>2, <5>2
          <6> QED BY <2>5, <6>1
        <5> QED BY <5>1, <5>2
      <4> QED BY <2>9, <4>1, <4>3 DEF Range
    <3> QED BY <3>1, <3>2
  <2> QED BY <2>0, <2>5, <2>6, <2>7
<1> QED
  BY <1>1, <1>2

LEMMA IndexWithHost ==
  ASSUME index \in Seq(Hosts), IsInjective(index), NEW h \in Hosts
  PROVE  LET s == Append(IndexWithout(h), h) IN
         s \in Seq(Hosts) /\ IsInjective(s) /\ Range(s) = Range(index) \cup {h}
<1> DEFINE r == IndexWithout(h)
           n == Len(r)
           s == Append(r, h)
<1>1. r \in Seq(Hosts) /\ IsInjective(r) /\ Range(r) = Range(index) \ {h}
  BY IndexWithoutHost
<1> HIDE DEF r
<1>2. /\ s \in Seq(Hosts) /\ Len(s) = n + 1 /\ n \in Nat
      /\ \A m \in 1 .. n : s[m] = r[m]
      /\ s[n + 1] = h
  BY <1>1, AppendProperties
<1> HIDE DEF s
<1>3. \A m \in 1 .. n : r[m] # h
  BY <1>1 DEF Range
<1>4. IsInjective(s)
  <2> SUFFICES ASSUME NEW a \in 1 .. n + 1, NEW b \in 1 .. n + 1, s[a] = s[b] PROVE a = b
    BY <1>2 DEF IsInjective
  <2>1. CASE a <= n /\ b <= n
    BY <1>1, <1>2, <2>1 DEF IsInjective
  <2>2. CASE ~(a <= n /\ b <= n)
    BY <1>2, <1>3, <2>2
  <2> QED BY <2>1, <2>2
<1>5. Range(s) = Range(r) \cup {h}
  <2>1. ASSUME NEW x \in Range(s) PROVE x \in Range(r) \cup {h}
    <3>1. PICK m \in 1 .. n + 1 : x = s[m]
      BY <1>2 DEF Range
    <3>2. CASE m <= n
      <4>1. m \in DOMAIN r /\ x = r[m]
        BY <1>1, <1>2, <3>1, <3>2
      <4> QED BY <4>1 DEF Range
    <3>3. CASE ~(m <= n)
      BY <1>2, <3>1, <3>3
    <3> QED BY <3>2, <3>3
  <2>2. ASSUME NEW x \in Range(r) PROVE x \in Range(s)
    <3>1. PICK m \in 1 .. n : x = r[m]
      BY <1>1, <2>2 DEF Range
    <3>2. m \in DOMAIN s /\ x = s[m]
      BY <1>2, <3>1
    <3> QED BY <3>2 DEF Range
  <2>3. h \in Range(s)
    <3>1. n + 1 \in DOMAIN s
      BY <1>2
    <3> QED BY <1>2, <3>1 DEF Range
  <2> QED BY <2>1, <2>2, <2>3
<1> QED
  BY <1>1, <1>2, <1>4, <1>5 DEF s, r

LEMMA ADataCentre == AnyDataCentre \in DataCentres
BY RingAssumption DEF AnyDataCentre, DataCentres

LEMMA PoolOf == ASSUME NEW phase PROVE Pool(phase) \in Nat \ {0}
BY ParallelAssumption DEF Pool

-----------------------------------------------------------------------------
(* The type invariant                                                      *)

LEMMA TypeInit == Init => TypeOK
<1> SUFFICES ASSUME Init PROVE TypeOK
  OBVIOUS
<1>1. NoBackup \in Backups /\ NoJob \in Runs /\ NoPurge \in Purges
  BY ADataCentre, JobsAssumption
     DEF NoBackup, Backups, Contents, Jobs, NoJob, Runs, NoPurge, Purges
<1>2. ring \in SUBSET Hosts /\ faults \in 0 .. MaxFaults /\ moves \in 0 .. MaxMoves
  BY RingAssumption, FlagsAssumption DEF Init
<1> QED
  BY <1>1, <1>2 DEF Init, TypeOK, CommandStates, ClearStates, SnapshotValues

\* A command that ends on one host.
LEMMA SetCmdType ==
  ASSUME TypeOK, NEW j \in Jobs, NEW h \in Hosts, NEW c \in CommandStates, SetCmd(j, h, c)
  PROVE  cmd' \in [Jobs -> [Hosts -> CommandStates]]
<1>1. cmd \in [Jobs -> [Hosts -> CommandStates]] /\ cmd' = [cmd EXCEPT ![j][h] = c]
  BY DEF TypeOK, SetCmd
<1>2. [cmd[j] EXCEPT ![h] = c] \in [Hosts -> CommandStates]
  BY <1>1
<1> QED
  BY <1>1, <1>2

LEMMA FaultType ==
  ASSUME TypeOK
  PROVE  /\ Fault => faults' \in 0 .. MaxFaults
         /\ \A c \in BOOLEAN : FaultUnless(c) => faults' \in 0 .. MaxFaults
BY FlagsAssumption DEF TypeOK, Fault, FaultUnless

LEMMA LaunchType ==
  ASSUME TypeOK, NEW j \in Jobs, job[j].pc \in Phases, NEW reached \in SUBSET Hosts,
         Launch(j, reached)
  PROVE  /\ cmd' \in [Jobs -> [Hosts -> CommandStates]]
         /\ clear' \in [Jobs -> [Hosts -> ClearStates]]
<1>1. CASE job[j].pc = "cleanup"
  BY <1>1 DEF Launch, TypeOK, ClearStates
<1>2. CASE job[j].pc # "cleanup"
  <2> DEFINE c == LaunchedCommand[job[j].pc]
             f == [h \in Hosts |-> IF h \in reached THEN c ELSE cmd[j][h]]
  <2>1. c \in CommandStates
    BY <1>2 DEF LaunchedCommand, Phases, CommandStates
  <2>2. cmd' = [cmd EXCEPT ![j] = f] /\ UNCHANGED clear
    BY <1>2 DEF Launch
  <2> HIDE DEF c
  <2>3. f \in [Hosts -> CommandStates]
    BY <2>1 DEF TypeOK
  <2> HIDE DEF f
  <2> QED
    BY <2>2, <2>3 DEF TypeOK
<1> QED
  BY <1>1, <1>2

\* The steps of a run.
RunStep(j) ==
    \/ Begin(j) \/ JobStep(j) \/ JoinRaises(j) \/ Kill(j)
    \/ \E h \in Hosts : LoseHost(j, h)

LEMMA RunStepType ==
  ASSUME TypeOK, NEW j \in Jobs, RunStep(j) PROVE TypeOK'
<1> USE DEF TypeOK
<1>0. job[j] \in Runs /\ Batch(j) \subseteq Hosts /\ Pool(job[j].pc) \in Nat
  <2>1. job[j] \in Runs
    OBVIOUS
  <2>2. Batch(j) \subseteq Hosts
    BY <2>1 DEF Batch, Chunk, Runs
  <2> QED BY <2>1, <2>2, PoolOf
<1>1. CASE Begin(j)
  <2>1. PICK dc \in DataCentres, o \in Options[j] :
           job' = [job EXCEPT ![j].pc = IF NameTaken THEN "failed" ELSE "connect",
                              ![j].dc = dc, ![j].keep = o.keep, ![j].existing = o.existing]
    BY <1>1 DEF Begin
  <2>2. o \in [keep : BOOLEAN, existing : BOOLEAN]
    BY FlagsAssumption DEF Jobs
  <2>3. job' = [job EXCEPT ![j] = [job[j] EXCEPT !.pc = IF NameTaken THEN "failed" ELSE "connect",
                                     !.dc = dc, !.keep = o.keep, !.existing = o.existing]]
    BY <2>1
  <2>4. [job[j] EXCEPT !.pc = IF NameTaken THEN "failed" ELSE "connect",
                       !.dc = dc, !.keep = o.keep, !.existing = o.existing] \in Runs
    <3>1. o.keep \in BOOLEAN /\ o.existing \in BOOLEAN
      BY <2>2
    <3>2. (IF NameTaken THEN "failed" ELSE "connect") \in Phases \union JobEnds \union {"idle", "connect"}
      BY DEF JobEnds
    <3> QED BY <1>0, <3>1, <3>2 DEF Runs
  <2>5. handmade' \in [Hosts -> BOOLEAN]
    <3>1. PICK made : handmade' = [h \in Hosts |-> handmade[h] \/ h \in made]
      BY <1>1 DEF Begin
    <3>2. \A h \in Hosts : (handmade[h] \/ h \in made) \in BOOLEAN
      OBVIOUS
    <3> QED BY <3>1, <3>2, Zenon
  <2>6. job' \in [Jobs -> Runs]
    BY <2>3, <2>4
  <2> QED BY <1>1, <2>5, <2>6 DEF Begin
<1>2. CASE ReadHosts(j)
  <2>1. /\ TokenmapOf(job[j].dc) \in SUBSET Hosts
        /\ FirstPhase(j) \in Phases
    BY DEF TokenmapOf, FirstPhase, Phases
  <2>2. job' \in [Jobs -> Runs]
    BY <1>0, <1>2, <2>1 DEF ReadHosts, Runs
  <2> QED BY <1>2, <2>2 DEF ReadHosts, nodeVars
<1>3. CASE ReadHostsFails(j)
  <2>1. faults' \in 0 .. MaxFaults
    BY <1>3, FaultType DEF ReadHostsFails
  <2>2. job' \in [Jobs -> Runs]
    BY <1>0, <1>3 DEF ReadHostsFails, Runs, JobEnds
  <2> QED BY <1>3, <2>1, <2>2 DEF ReadHostsFails, nodeVars
<1>4. CASE RunBatch(j)
  <2>1. /\ cmd' \in [Jobs -> [Hosts -> CommandStates]]
        /\ clear' \in [Jobs -> [Hosts -> ClearStates]]
    BY <1>0, <1>4, LaunchType DEF RunBatch
  <2>2. job' \in [Jobs -> Runs]
    BY <1>0, <1>4 DEF RunBatch, Runs
  <2> QED BY <1>4, <2>1, <2>2 DEF RunBatch
<1>5. CASE RunBatchRaises(j)
  <2>1. PICK lost \in SUBSET Batch(j) : Launch(j, Batch(j) \ lost)
    BY <1>5 DEF RunBatchRaises
  <2>2. /\ cmd' \in [Jobs -> [Hosts -> CommandStates]]
        /\ clear' \in [Jobs -> [Hosts -> ClearStates]]
    <3>1. Batch(j) \ lost \in SUBSET Hosts
      BY <1>0
    <3> QED BY <1>5, <2>1, <3>1, LaunchType DEF RunBatchRaises
  <2>3. faults' \in 0 .. MaxFaults
    BY <1>5, FaultType DEF RunBatchRaises
  <2>4. job' \in [Jobs -> Runs]
    <3>1. RaiseTo(job[j].pc) \in Phases \union JobEnds /\ job[j].broken \in BOOLEAN
      BY <1>0 DEF RaiseTo, Phases, JobEnds, Runs
    <3>2. BrokenBy(j, job[j].lost) \in BOOLEAN
      BY <3>1 DEF BrokenBy
    <3> QED BY <1>0, <1>5, <3>1, <3>2 DEF RunBatchRaises, Runs
  <2> QED BY <1>5, <2>2, <2>3, <2>4 DEF RunBatchRaises
<1>6. CASE JoinBatch(j)
  <2> DEFINE last == job[j].next + Pool(job[j].pc) >= Cardinality(job[j].hosts)
             next1 == IF last THEN 0 ELSE job[j].next + Pool(job[j].pc)
             pc1 == IF ~last THEN job[j].pc
                    ELSE IF job[j].pc = "cleanup" THEN "failed"
                    ELSE IF AllSucceeded(j) THEN NextPhase[job[j].pc] ELSE "cleanup"
             lost1 == IF last THEN {} ELSE job[j].lost
             broken1 == IF last THEN BrokenBy(j, job[j].lost) ELSE job[j].broken
  <2>1. job' = [job EXCEPT ![j] = [job[j] EXCEPT !.wait = FALSE, !.next = next1, !.lost = lost1,
                                                 !.broken = broken1, !.pc = pc1]]
    BY <1>6 DEF JoinBatch
  <2>2. next1 \in Nat
    <3>1. job[j].next \in Nat
      BY <1>0 DEF Runs
    <3> QED BY <1>0, <3>1
  <2>3. pc1 \in Phases \union JobEnds
    <3>1. job[j].pc \in Phases
      BY <1>6 DEF JoinBatch
    <3> HIDE DEF last
    <3> QED BY <3>1 DEF Phases, JobEnds, NextPhase
  <2>6. lost1 \in SUBSET Hosts /\ broken1 \in BOOLEAN
    BY <1>0 DEF Runs, BrokenBy
  <2> HIDE DEF next1, pc1, lost1, broken1
  <2>4. [job[j] EXCEPT !.wait = FALSE, !.next = next1, !.lost = lost1, !.broken = broken1,
                       !.pc = pc1] \in Runs
    BY <1>0, <2>2, <2>3, <2>6 DEF Runs
  <2>5. job' \in [Jobs -> Runs]
    BY <2>1, <2>4
  <2> QED BY <1>6, <2>5 DEF JoinBatch, nodeVars
<1>7. CASE Kill(j)
  <2>1. faults' \in 0 .. MaxFaults
    BY <1>7, FaultType DEF Kill
  <2>2. job' \in [Jobs -> Runs]
    BY <1>0, <1>7 DEF Kill, Runs, JobEnds
  <2> QED BY <1>7, <2>1, <2>2 DEF Kill, nodeVars
<1>8. CASE JoinRaises(j)
  <2>1. faults' \in 0 .. MaxFaults
    BY <1>8, FaultType DEF JoinRaises
  <2>2. job' \in [Jobs -> Runs]
    <3>1. RaiseTo(job[j].pc) \in Phases \union JobEnds /\ job[j].broken \in BOOLEAN
      BY <1>0 DEF RaiseTo, Phases, JobEnds, Runs
    <3>2. BrokenBy(j, Batch(j)) \in BOOLEAN
      BY <3>1 DEF BrokenBy
    <3> QED BY <1>0, <1>8, <3>1, <3>2 DEF JoinRaises, Runs
  <2> QED BY <1>8, <2>1, <2>2 DEF JoinRaises, nodeVars
<1>9. ASSUME NEW h \in Hosts, LoseHost(j, h) PROVE TypeOK'
  <2>1. faults' \in 0 .. MaxFaults
    BY <1>9, FaultType DEF LoseHost
  <2>2. job' \in [Jobs -> Runs]
    BY <1>0, <1>9 DEF LoseHost, Runs
  <2> QED BY <1>9, <2>1, <2>2 DEF LoseHost, nodeVars
<1> QED
  BY <1>1, <1>2, <1>3, <1>4, <1>5, <1>6, <1>7, <1>8, <1>9 DEF JobStep, RunStep

\* The steps on a host.
LEMMA HostStepType ==
  ASSUME TypeOK, IndexFollows, NEW j \in Jobs, RunFits(j), NEW h \in Hosts, HostStep(j, h)
  PROVE  TypeOK'
<1>0. /\ \A s \in {"cut", "late"} : <<j, s>> \in SnapshotValues
      /\ \A s \in {"none", "cut", "late", "operator", "gaps"} : <<j, s>> \in Contents
      /\ NoSnapshot \in SnapshotValues
      /\ \A s \in SnapshotValues : s = NoSnapshot \/ s \in Contents
      /\ backup[h] \in Backups /\ snap[h] \in SnapshotValues /\ using[j][h] \in SnapshotValues
  BY DEF TypeOK, Snapshots, Contents, SnapshotValues
<1>1. /\ snap \in [Hosts -> SnapshotValues] /\ using \in [Jobs -> [Hosts -> SnapshotValues]]
      /\ backup \in [Hosts -> Backups] /\ handmade \in [Hosts -> BOOLEAN]
      /\ clear \in [Jobs -> [Hosts -> ClearStates]] /\ faults \in 0 .. MaxFaults
  BY DEF TypeOK
<1>2. /\ "ok" \in CommandStates /\ "error" \in CommandStates /\ "started" \in CommandStates
      /\ "uploading" \in CommandStates /\ "closing" \in CommandStates /\ "unclean" \in CommandStates
      /\ "ok" \in ClearStates /\ "error" \in ClearStates
  BY DEF CommandStates, ClearStates
<1>3. ASSUME LeaveSnapshot(j, h)
      PROVE  snap' \in [Hosts -> SnapshotValues] /\ handmade' \in [Hosts -> BOOLEAN]
  BY <1>0, <1>1, <1>3 DEF LeaveSnapshot
<1>4. CASE NodetoolSnapshot(j, h)
  <2>1. cmd' \in [Jobs -> [Hosts -> CommandStates]]
    BY <1>2, <1>4, SetCmdType DEF NodetoolSnapshot
  <2>2. snap' \in [Hosts -> SnapshotValues]
    BY <1>0, <1>1, <1>4 DEF NodetoolSnapshot
  <2>3. faults' \in 0 .. MaxFaults
    BY <1>1, <1>4, FaultType DEF NodetoolSnapshot
  <2> QED BY <1>4, <2>1, <2>2, <2>3 DEF NodetoolSnapshot, TypeOK
<1>5. CASE NodetoolClear(j, h)
  <2>1. clear' \in [Jobs -> [Hosts -> ClearStates]]
    <3>1. /\ [clear[j] EXCEPT ![h] = "ok"] \in [Hosts -> ClearStates]
          /\ [clear[j] EXCEPT ![h] = "error"] \in [Hosts -> ClearStates]
      BY <1>1, <1>2
    <3> QED BY <1>1, <1>5, <3>1 DEF NodetoolClear
  <2>2. snap' \in [Hosts -> SnapshotValues]
    BY <1>0, <1>1, <1>5 DEF NodetoolClear
  <2>3. faults' \in 0 .. MaxFaults
    BY <1>1, <1>5, FaultType DEF NodetoolClear
  <2> QED BY <1>5, <2>1, <2>2, <2>3 DEF NodetoolClear, TypeOK
<1>6. CASE NodeFailsEarly(j, h)
  <2>1. cmd' \in [Jobs -> [Hosts -> CommandStates]]
    BY <1>2, <1>6, SetCmdType DEF NodeFailsEarly
  <2>2. faults' \in 0 .. MaxFaults
    BY <1>6, FaultType DEF NodeFailsEarly, NodeRefused
  <2> QED BY <1>6, <2>1, <2>2 DEF NodeFailsEarly, TypeOK
<1>7. CASE NodeStart(j, h)
  <2>1. index' \in Seq(Hosts)
    BY <1>7, IndexWithHost DEF NodeStart, IndexFollows, TypeOK
  <2>2. [state |-> "started", tokenmap |-> TokenmapOf(DataCentre[h]), content |-> <<j, "none">>]
           \in Backups
    BY <1>0 DEF Backups, TokenmapOf, TypeOK
  <2>3. backup' \in [Hosts -> Backups]
    BY <1>1, <1>7, <2>2 DEF NodeStart
  <2>4. cmd' \in [Jobs -> [Hosts -> CommandStates]]
    BY <1>2, <1>7, SetCmdType DEF NodeStart
  <2> QED BY <1>7, <2>1, <2>3, <2>4 DEF NodeStart, TypeOK
<1>8. CASE NodeSnapshot(j, h)
  <2>1. cmd' \in [Jobs -> [Hosts -> CommandStates]]
    BY <1>2, <1>8, SetCmdType DEF NodeSnapshot
  <2>2. snap' \in [Hosts -> SnapshotValues]
    BY <1>0, <1>1, <1>8 DEF NodeSnapshot
  <2>3. using' \in [Jobs -> [Hosts -> SnapshotValues]]
    <3>1. snap'[h] \in SnapshotValues
      BY <2>2
    <3> QED BY <1>1, <1>8, <3>1 DEF NodeSnapshot
  <2>4. faults' \in 0 .. MaxFaults
    BY <1>1, <1>8, FaultType DEF NodeSnapshot
  <2> QED BY <1>8, <2>1, <2>2, <2>3, <2>4 DEF NodeSnapshot, TypeOK
<1>9. CASE NodeUpload(j, h)
  <2>1. Uploaded(j, h) \in Contents
    BY <1>0, <1>9 DEF Uploaded, NodeUpload, RunFits
  <2>2. [backup[h] EXCEPT !.content = IF backup[h].state = "none" THEN @ ELSE Uploaded(j, h)]
           \in Backups
    BY <1>0, <2>1 DEF Backups
  <2>3. backup' \in [Hosts -> Backups]
    BY <1>1, <1>9, <2>2 DEF NodeUpload
  <2>4. cmd' \in [Jobs -> [Hosts -> CommandStates]]
    BY <1>2, <1>9, SetCmdType DEF NodeUpload
  <2> QED BY <1>3, <1>9, <2>3, <2>4 DEF NodeUpload, TypeOK
<1>10. CASE NodeUploadFails(j, h)
  <2>1. cmd' \in [Jobs -> [Hosts -> CommandStates]]
    BY <1>2, <1>10, SetCmdType DEF NodeUploadFails
  <2>2. snap' \in [Hosts -> SnapshotValues] /\ handmade' \in [Hosts -> BOOLEAN]
    BY <1>1, <1>3, <1>10 DEF NodeUploadFails
  <2>3. faults' \in 0 .. MaxFaults
    BY <1>10, FaultType DEF NodeUploadFails
  <2> QED BY <1>10, <2>1, <2>2, <2>3 DEF NodeUploadFails, TypeOK
<1>11. CASE NodeFinish(j, h)
  <2>1. [backup[h] EXCEPT !.state = IF @ = "none" THEN @ ELSE "finished"] \in Backups
    BY <1>0 DEF Backups
  <2>2. backup' \in [Hosts -> Backups]
    BY <1>1, <1>11, <2>1 DEF NodeFinish
  <2>3. cmd' \in [Jobs -> [Hosts -> CommandStates]]
    BY <1>2, <1>11, SetCmdType DEF NodeFinish
  <2>4. faults' \in 0 .. MaxFaults
    BY <1>1, <1>11, FaultType DEF NodeFinish
  <2> QED BY <1>11, <2>2, <2>3, <2>4 DEF NodeFinish, TypeOK
<1>12. CASE NodeStartFails(j, h)
  <2>1. [state |-> "started", tokenmap |-> TokenmapOf(DataCentre[h]), content |-> <<j, "none">>]
           \in Backups
    BY <1>0 DEF Backups, TokenmapOf, TypeOK
  <2>2. backup' \in [Hosts -> Backups]
    BY <1>1, <1>12, <2>1 DEF NodeStartFails
  <2>3. cmd' \in [Jobs -> [Hosts -> CommandStates]]
    BY <1>2, <1>12, SetCmdType DEF NodeStartFails
  <2>4. faults' \in 0 .. MaxFaults
    BY <1>1, <1>12, FaultType DEF NodeStartFails
  <2> QED BY <1>12, <2>2, <2>3, <2>4 DEF NodeStartFails, TypeOK
<1> QED
  BY <1>4, <1>5, <1>6, <1>7, <1>8, <1>9, <1>10, <1>11, <1>12 DEF HostStep

\* The ring, delete-backup and the purge.
LEMMA OtherStepType ==
  ASSUME TypeOK, IndexFollows,
         \/ \E h \in Hosts : Join(h) \/ Leave(h) \/ PurgeNode(h)
         \/ DeleteBackup \/ PurgeList \/ PurgeLive
  PROVE  TypeOK'
<1> USE DEF TypeOK
<1>0. NoBackup \in Backups /\ NoPurge \in Purges /\ purge \in Purges
  BY ADataCentre, JobsAssumption DEF NoBackup, Backups, Contents, Jobs, NoPurge, Purges
<1>1. ASSUME NEW h \in Hosts, Join(h) PROVE TypeOK'
  BY <1>1, FlagsAssumption DEF Join, nodeVars
<1>2. ASSUME NEW h \in Hosts, Leave(h) PROVE TypeOK'
  <2>1. purge' \in Purges
    BY <1>0, <1>2 DEF Leave, Purges
  <2>2. ring' \in SUBSET Hosts /\ moves' \in 0 .. MaxMoves
    BY <1>2, FlagsAssumption DEF Leave
  <2> QED BY <1>2, <2>1, <2>2 DEF Leave, nodeVars
<1>3. ASSUME NEW h \in Hosts, PurgeNode(h) PROVE TypeOK'
  <2>1. purge' \in Purges
    BY <1>0, <1>3 DEF PurgeNode, Purges
  <2>2. index' \in Seq(Hosts)
    BY <1>3, IndexWithoutHost DEF PurgeNode, IndexFollows
  <2>3. backup' \in [Hosts -> Backups]
    BY <1>0, <1>3 DEF PurgeNode
  <2> QED BY <1>3, <2>1, <2>2, <2>3 DEF PurgeNode
<1>4. CASE DeleteBackup
  <2>1. backup' \in [Hosts -> Backups]
    <3>1. backup' = [h \in Hosts |-> IF h \in Range(index) THEN NoBackup ELSE backup[h]]
      BY <1>4 DEF DeleteBackup
    <3> QED BY <1>0, <3>1
  <2>2. index' \in Seq(Hosts)
    BY <1>4 DEF DeleteBackup
  <2> QED BY <1>4, <2>1, <2>2 DEF DeleteBackup
<1>5. CASE PurgeList
  <2>1. purge' \in Purges
    <3>1. PICK dc \in DataCentres :
             purge' = [NoPurge EXCEPT !.pc = "listed", !.dc = dc,
                                      !.all = {h \in Hosts : backup[h].state # "none"},
                                      !.absent = Hosts \ ring]
      BY <1>5 DEF PurgeList
    <3> QED BY <1>0, <3>1 DEF Purges
  <2> QED BY <1>5, <2>1 DEF PurgeList, nodeVars
<1>6. CASE PurgeLive
  <2>1. purge' \in Purges
    BY <1>0, <1>6 DEF PurgeLive, Purges
  <2> QED BY <1>6, <2>1 DEF PurgeLive, nodeVars
<1> QED
  BY <1>1, <1>2, <1>3, <1>4, <1>5, <1>6

-----------------------------------------------------------------------------
(* What a step on a host does                                              *)

\* Everything that is not of run j on host h stays.
OthersKept(j, h) ==
    /\ UNCHANGED <<ring, job, purge, moves>>
    /\ \A i \in Jobs \ {j} : cmd'[i] = cmd[i] /\ using'[i] = using[i] /\ clear'[i] = clear[i]
    /\ \A g \in Hosts \ {h} :
           /\ cmd'[j][g] = cmd[j][g] /\ using'[j][g] = using[j][g] /\ clear'[j][g] = clear[j][g]
           /\ snap'[g] = snap[g] /\ backup'[g] = backup[g]

Turns(j, h, before, after) == cmd[j][h] = before /\ cmd'[j][h] = after

\* The snapshot after the "with snapshot" block.
SnapshotLeft(j, h) ==
    IF job[j].keep \/ job[j].existing THEN snap[h] ELSE NoSnapshot

\* The steps of the commands, one disjunct per outcome.
CutTaken(j, h) ==
    /\ Turns(j, h, "snapshot", "ok") /\ snap[h] = NoSnapshot /\ snap'[h] = <<j, "cut">>
    /\ UNCHANGED <<using, clear, backup, index>>
CommandFails(j, h) ==
    /\ \E c \in {"snapshot", "backup", "started", "closing"} : Turns(j, h, c, "error")
    /\ UNCHANGED <<snap, using, clear, backup, index>>
ClearEnds(j, h) ==
    /\ clear[j][h] = "clear" /\ UNCHANGED <<cmd, using, backup, index>>
    /\ \/ clear'[j][h] = "ok" /\ snap'[h] = NoSnapshot
       \/ clear'[j][h] = "error" /\ UNCHANGED snap
EntryMade(j, h) ==
    /\ Turns(j, h, "backup", "started") /\ UNCHANGED <<snap, using, clear>>
    /\ ~NodeRefused(j, h)
    /\ backup'[h] = [state |-> "started", tokenmap |-> TokenmapOf(DataCentre[h]),
                     content |-> <<j, "none">>]
    /\ index' = Append(IndexWithout(h), h)
EntryLost(j, h) ==
    /\ Turns(j, h, "backup", "error") /\ UNCHANGED <<snap, using, clear, index>>
    /\ backup'[h] = [state |-> "started", tokenmap |-> TokenmapOf(DataCentre[h]),
                     content |-> <<j, "none">>]
SnapshotTaken(j, h) ==
    /\ Turns(j, h, "started", "uploading") /\ UNCHANGED <<clear, backup, index>>
    /\ \/ /\ ~job[j].existing
          /\ snap'[h] = IF snap[h] = NoSnapshot THEN <<j, "late">> ELSE snap[h]
          /\ using'[j][h] = snap'[h]
       \/ job[j].existing /\ UNCHANGED <<snap, using>>
UploadEnds(j, h) ==
    /\ Turns(j, h, "uploading", "closing") /\ UNCHANGED <<using, clear, index>>
    /\ snap'[h] = SnapshotLeft(j, h)
    /\ backup'[h].state = backup[h].state /\ backup'[h].tokenmap = backup[h].tokenmap
    /\ backup'[h].content = IF backup[h].state = "none" THEN backup[h].content ELSE Uploaded(j, h)
UploadFails(j, h) ==
    /\ UNCHANGED <<using, clear, backup, index>>
    /\ \/ Turns(j, h, "uploading", "error") /\ snap'[h] = SnapshotLeft(j, h)
       \/ Turns(j, h, "uploading", "unclean") /\ UNCHANGED snap
BackupFinished(j, h) ==
    /\ Turns(j, h, "closing", "ok") /\ UNCHANGED <<snap, using, clear, index>>
    /\ backup'[h].state = (IF backup[h].state = "none" THEN "none" ELSE "finished")
    /\ backup'[h].tokenmap = backup[h].tokenmap /\ backup'[h].content = backup[h].content

HostTurn(j, h) ==
    \/ CutTaken(j, h) \/ CommandFails(j, h) \/ ClearEnds(j, h) \/ EntryMade(j, h)
    \/ EntryLost(j, h) \/ SnapshotTaken(j, h) \/ UploadEnds(j, h) \/ UploadFails(j, h) \/ BackupFinished(j, h)

LEMMA HostStepTurns ==
  ASSUME TypeOK, NEW j \in Jobs, NEW h \in Hosts, HostStep(j, h)
  PROVE  OthersKept(j, h) /\ HostTurn(j, h)
<1>0. /\ cmd \in [Jobs -> [Hosts -> CommandStates]] /\ snap \in [Hosts -> SnapshotValues]
      /\ using \in [Jobs -> [Hosts -> SnapshotValues]] /\ backup \in [Hosts -> Backups]
      /\ clear \in [Jobs -> [Hosts -> ClearStates]] /\ backup[h] \in Backups
      /\ cmd[j] \in [Hosts -> CommandStates] /\ using[j] \in [Hosts -> SnapshotValues]
      /\ clear[j] \in [Hosts -> ClearStates]
  BY DEF TypeOK
<1>1. ASSUME NEW c, SetCmd(j, h, c)
      PROVE  /\ cmd'[j][h] = c
             /\ \A i \in Jobs \ {j} : cmd'[i] = cmd[i]
             /\ \A g \in Hosts \ {h} : cmd'[j][g] = cmd[j][g]
  BY <1>0, <1>1 DEF SetCmd
<1>2. ASSUME LeaveSnapshot(j, h)
      PROVE  snap'[h] = SnapshotLeft(j, h) /\ \A g \in Hosts \ {h} : snap'[g] = snap[g]
  BY <1>0, <1>2 DEF LeaveSnapshot, SnapshotLeft
<1>3. CASE NodetoolSnapshot(j, h)
  <2>1. \/ /\ SetCmd(j, h, "ok") /\ snap[h] = NoSnapshot
           /\ snap' = [snap EXCEPT ![h] = <<j, "cut">>]
        \/ SetCmd(j, h, "error") /\ UNCHANGED snap
    BY <1>3 DEF NodetoolSnapshot
  <2>2. CutTaken(j, h) \/ CommandFails(j, h)
    BY <1>0, <1>1, <1>3, <2>1 DEF NodetoolSnapshot, CutTaken, CommandFails, Turns
  <2>3. OthersKept(j, h)
    BY <1>0, <1>1, <1>3, <2>1 DEF NodetoolSnapshot, OthersKept
  <2> QED BY <2>2, <2>3 DEF HostTurn
<1>4. CASE NodetoolClear(j, h)
  <2>1. \/ /\ clear' = [clear EXCEPT ![j][h] = "ok"]
           /\ snap' = [snap EXCEPT ![h] = NoSnapshot]
        \/ clear' = [clear EXCEPT ![j][h] = "error"] /\ UNCHANGED snap
    BY <1>4 DEF NodetoolClear
  <2>2. ClearEnds(j, h)
    BY <1>0, <1>4, <2>1 DEF NodetoolClear, ClearEnds
  <2>3. OthersKept(j, h)
    BY <1>0, <1>4, <2>1 DEF NodetoolClear, OthersKept
  <2> QED BY <2>2, <2>3 DEF HostTurn
<1>5. CASE NodeFailsEarly(j, h)
  <2>1. CommandFails(j, h)
    BY <1>1, <1>5 DEF NodeFailsEarly, CommandFails, Turns
  <2>2. OthersKept(j, h)
    BY <1>1, <1>5 DEF NodeFailsEarly, OthersKept
  <2> QED BY <2>1, <2>2 DEF HostTurn
<1>6. CASE NodeStart(j, h)
  <2>1. EntryMade(j, h)
    BY <1>0, <1>1, <1>6 DEF NodeStart, EntryMade, Turns
  <2>2. OthersKept(j, h)
    BY <1>0, <1>1, <1>6 DEF NodeStart, OthersKept
  <2> QED BY <2>1, <2>2 DEF HostTurn
<1>7. CASE NodeSnapshot(j, h)
  <2>1. \/ /\ ~job[j].existing /\ SetCmd(j, h, "uploading")
           /\ snap' = [snap EXCEPT ![h] = IF @ = NoSnapshot THEN <<j, "late">> ELSE @]
           /\ using' = [using EXCEPT ![j][h] = snap'[h]]
        \/ job[j].existing /\ SetCmd(j, h, "uploading") /\ UNCHANGED <<snap, using>>
        \/ SetCmd(j, h, "error") /\ UNCHANGED <<snap, using>>
    BY <1>7 DEF NodeSnapshot
  <2>2. SnapshotTaken(j, h) \/ CommandFails(j, h)
    BY <1>0, <1>1, <1>7, <2>1 DEF NodeSnapshot, SnapshotTaken, CommandFails, Turns
  <2>3. OthersKept(j, h)
    BY <1>0, <1>1, <1>7, <2>1 DEF NodeSnapshot, OthersKept
  <2> QED BY <2>2, <2>3 DEF HostTurn
<1>8. CASE NodeUpload(j, h)
  <2>1. UploadEnds(j, h)
    <3>1. backup'[h] = [backup[h] EXCEPT !.content =
                          IF backup[h].state = "none" THEN @ ELSE Uploaded(j, h)]
      BY <1>0, <1>8 DEF NodeUpload
    <3>2. /\ backup'[h].state = backup[h].state /\ backup'[h].tokenmap = backup[h].tokenmap
          /\ backup'[h].content = IF backup[h].state = "none" THEN backup[h].content
                                  ELSE Uploaded(j, h)
      BY <1>0, <3>1 DEF Backups
    <3> QED BY <1>1, <1>2, <1>8, <3>2 DEF NodeUpload, UploadEnds, Turns
  <2>2. OthersKept(j, h)
    BY <1>0, <1>1, <1>2, <1>8 DEF NodeUpload, OthersKept
  <2> QED BY <2>1, <2>2 DEF HostTurn
<1>9. CASE NodeUploadFails(j, h)
  <2>1. UploadFails(j, h)
    BY <1>1, <1>2, <1>9 DEF NodeUploadFails, UploadFails, Turns
  <2>2. OthersKept(j, h)
    BY <1>1, <1>2, <1>9 DEF NodeUploadFails, OthersKept
  <2> QED BY <2>1, <2>2 DEF HostTurn
<1>10. CASE NodeFinish(j, h)
  <2>1. \/ /\ backup' = [backup EXCEPT ![h].state = IF @ = "none" THEN @ ELSE "finished"]
           /\ SetCmd(j, h, "ok")
        \/ SetCmd(j, h, "error") /\ UNCHANGED backup
    BY <1>10 DEF NodeFinish
  <2>2. BackupFinished(j, h) \/ CommandFails(j, h)
    <3>1. CASE /\ backup' = [backup EXCEPT ![h].state = IF @ = "none" THEN @ ELSE "finished"]
               /\ SetCmd(j, h, "ok")
      <4>1. backup'[h] = [backup[h] EXCEPT !.state = IF @ = "none" THEN @ ELSE "finished"]
        BY <1>0, <3>1
      <4>2. /\ backup'[h].state = (IF backup[h].state = "none" THEN "none" ELSE "finished")
            /\ backup'[h].tokenmap = backup[h].tokenmap
            /\ backup'[h].content = backup[h].content
        BY <1>0, <4>1 DEF Backups
      <4> QED BY <1>1, <1>10, <3>1, <4>2 DEF NodeFinish, BackupFinished, Turns
    <3>2. CASE SetCmd(j, h, "error") /\ UNCHANGED backup
      BY <1>1, <1>10, <3>2 DEF NodeFinish, CommandFails, Turns
    <3> QED BY <2>1, <3>1, <3>2
  <2>3. OthersKept(j, h)
    BY <1>0, <1>1, <1>10, <2>1 DEF NodeFinish, OthersKept
  <2> QED BY <2>2, <2>3 DEF HostTurn
<1>11. CASE NodeStartFails(j, h)
  <2>1. EntryLost(j, h)
    BY <1>0, <1>1, <1>11 DEF NodeStartFails, EntryLost, Turns
  <2>2. OthersKept(j, h)
    BY <1>0, <1>1, <1>11 DEF NodeStartFails, OthersKept
  <2> QED BY <2>1, <2>2 DEF HostTurn
<1> QED
  BY <1>3, <1>4, <1>5, <1>6, <1>7, <1>8, <1>9, <1>10, <1>11 DEF HostStep

-----------------------------------------------------------------------------
(* The invariant of any runs                                               *)

\* A run that is left alone.
LEMMA RunFrame ==
  ASSUME NEW i \in Jobs, job'[i] = job[i], cmd'[i] = cmd[i], clear'[i] = clear[i],
         using'[i] = using[i]
  PROVE  /\ Launched(i)' = Launched(i) /\ Joined(i)' = Joined(i)
         /\ NothingCleared(i)' = NothingCleared(i) /\ UploadsBegun(i)' = UploadsBegun(i)
         /\ RunFits(i)' = RunFits(i) /\ Active(i)' = Active(i) /\ Alive(i)' = Alive(i)
<1>1. Launched(i)' = Launched(i) /\ Joined(i)' = Joined(i)
  BY DEF Launched, Joined, Pool, Place
<1>2. NothingCleared(i)' = NothingCleared(i) /\ UploadsBegun(i)' = UploadsBegun(i)
  BY DEF NothingCleared, UploadsBegun
<1>3. Active(i)' = Active(i) /\ Alive(i)' = Alive(i)
  BY DEF Active, Alive
<1>4. RunFits(i)' = RunFits(i)
  BY <1>1, <1>2 DEF RunFits
<1> QED
  BY <1>1, <1>2, <1>3, <1>4

\* A run on whose host a step is taken.
LEMMA HostFits ==
  ASSUME TypeOK, NEW j \in Jobs, RunFits(j), NEW h \in Hosts, OthersKept(j, h), HostTurn(j, h)
  PROVE  /\ RunFits(j)' /\ h \in job[j].hosts
         /\ Launched(j)' = Launched(j) /\ (UploadsBegun(j)' => UploadsBegun(j))
         /\ NothingCleared(j)' = NothingCleared(j)
         /\ job[j].pc \notin {"idle", "connect"}
<1>0. /\ job'[j] = job[j] /\ job[j] \in Runs
      /\ \A g \in Hosts \ {h} :
           /\ cmd'[j][g] = cmd[j][g] /\ using'[j][g] = using[j][g] /\ clear'[j][g] = clear[j][g]
  BY DEF OthersKept, TypeOK
<1>1. Launched(j)' = Launched(j) /\ Joined(j)' = Joined(j)
  BY <1>0 DEF Launched, Joined, Pool, Place
<1>2. cmd[j][h] \in Running \/ clear[j][h] = "clear"
  BY DEF HostTurn, CutTaken, CommandFails, EntryLost, ClearEnds, EntryMade, SnapshotTaken, UploadEnds,
         UploadFails, BackupFinished, Turns, Running
<1>3. h \in job[j].hosts
  BY <1>2 DEF RunFits, Running
<1>4. UploadsBegun(j)' => UploadsBegun(j)
  <2>1. cmd'[j][h] \in Uploading \/ using'[j][h] # NoSnapshot =>
           cmd[j][h] \in Uploading \/ using[j][h] # NoSnapshot
    BY DEF HostTurn, CutTaken, CommandFails, EntryLost, ClearEnds, EntryMade, SnapshotTaken, UploadEnds,
           UploadFails, BackupFinished, Turns, Uploading
  <2> QED BY <1>0, <2>1 DEF UploadsBegun
<1>5. /\ NothingCleared(j)' = NothingCleared(j)
      /\ clear[j][h] = "none" => clear'[j][h] = "none"
  <2>1. clear'[j][h] = clear[j][h] \/ (clear[j][h] = "clear" /\ clear'[j][h] \in {"ok", "error"})
    BY DEF HostTurn, CutTaken, CommandFails, EntryLost, ClearEnds, EntryMade, SnapshotTaken, UploadEnds,
           UploadFails, BackupFinished
  <2> QED BY <1>0, <2>1 DEF NothingCleared
<1>6. /\ cmd'[j][h] = cmd[j][h] \/ cmd[j][h] \in Running
      /\ cmd[j][h] # "snapshot" => cmd'[j][h] # "snapshot"
      /\ cmd[j][h] = "snapshot" => cmd'[j][h] \in {"snapshot", "ok", "error"}
  BY DEF HostTurn, CutTaken, CommandFails, EntryLost, ClearEnds, EntryMade, SnapshotTaken, UploadEnds,
         UploadFails, BackupFinished, Turns, Running
<1>7. \A g \in Hosts : IF job[j].existing THEN using'[j][g] = NoSnapshot
                       ELSE cmd'[j][g] = "uploading" => using'[j][g] # NoSnapshot
  <2>1. <<j, "late">> # NoSnapshot
    BY DEF NoSnapshot
  <2>2. IF job[j].existing THEN using'[j][h] = NoSnapshot
        ELSE cmd'[j][h] = "uploading" => using'[j][h] # NoSnapshot
    BY <2>1 DEF RunFits, HostTurn, CutTaken, CommandFails, EntryLost, ClearEnds, EntryMade, SnapshotTaken,
                UploadEnds, UploadFails, BackupFinished, Turns
  <2> QED BY <1>0, <2>2 DEF RunFits
<1>8. job[j].pc \in {"snapshot", "upload"} => clear[j][h] = "none" /\ cmd[j][h] \in Running
  BY <1>2 DEF RunFits, NothingCleared
<1>9. \A g \in Hosts \ job[j].hosts : cmd'[j][g] = "none" /\ clear'[j][g] = "none"
  BY <1>0, <1>3 DEF RunFits
<1>10. job[j].pc = "snapshot" =>
         /\ ~job[j].existing /\ ~UploadsBegun(j)'
         /\ \A g \in job[j].hosts \ Launched(j) : cmd'[j][g] = "none"
  <2>1. job[j].pc = "snapshot" => h \in Launched(j)
    BY <1>3, <1>8 DEF RunFits, Running
  <2> QED BY <1>0, <1>4, <2>1 DEF RunFits, Runs
<1>11. job[j].pc = "upload" =>
         /\ \A g \in job[j].hosts \ Launched(j) :
              cmd'[j][g] = IF job[j].existing THEN "none" ELSE "ok"
         /\ \A g \in Hosts : cmd'[j][g] # "snapshot"
  <2>1. job[j].pc = "upload" => h \in Launched(j)
    BY <1>3, <1>8 DEF RunFits, Running
  <2> QED BY <1>0, <1>6, <2>1 DEF RunFits, Runs
<1>12. job[j].pc \in {"snapshot", "upload"} =>
         \A g \in Joined(j) \ job[j].lost : cmd'[j][g] \notin Running
  BY <1>0, <1>8 DEF RunFits, Joined, Runs
<1>13. UploadsBegun(j)' => \A g \in Hosts : cmd'[j][g] # "snapshot"
  BY <1>0, <1>4, <1>6 DEF RunFits
<1>14. job[j].pc \notin {"idle", "connect"}
  BY <1>3 DEF RunFits
<1> QED
  BY <1>0, <1>1, <1>3, <1>4, <1>5, <1>7, <1>9, <1>10, <1>11, <1>12, <1>13, <1>14 DEF RunFits

\* The list of hosts in batches: a batch comes after those that have been joined.
LEMMA Batches ==
  ASSUME TypeOK, NEW j \in Jobs
  PROVE  /\ job[j].hosts \in SUBSET Hosts /\ job[j].next \in Nat
         /\ Pool(job[j].pc) \in Nat \ {0}
         /\ Batch(j) \subseteq job[j].hosts /\ Joined(j) \subseteq job[j].hosts
         /\ Batch(j) \intersect Joined(j) = {}
         /\ ~job[j].wait => Launched(j) = Joined(j)
         /\ job[j].wait => Launched(j) = Joined(j) \union Batch(j)
         /\ job[j].next = 0 => Joined(j) = {}
         /\ job[j].next + Pool(job[j].pc) >= Cardinality(job[j].hosts) =>
              Joined(j) \union Batch(j) = job[j].hosts
<1>1. /\ job[j].hosts \in SUBSET Hosts /\ job[j].next \in Nat /\ job[j].wait \in BOOLEAN
      /\ Pool(job[j].pc) \in Nat \ {0}
  <2>1. job[j] \in Runs
    BY DEF TypeOK
  <2> QED BY <2>1, PoolOf DEF Runs
<1> DEFINE hosts == job[j].hosts
           n == job[j].next
           p == Pool(job[j].pc)
<1>2. /\ Cardinality(hosts) \in Nat
      /\ \A h \in hosts : /\ Place(hosts, h) \in Nat
                          /\ 1 <= Place(hosts, h) /\ Place(hosts, h) <= Cardinality(hosts)
  BY <1>1, PlaceOf
<1>3. /\ Batch(j) = {h \in hosts : n < Place(hosts, h) /\ Place(hosts, h) <= n + p}
      /\ Joined(j) = {h \in hosts : Place(hosts, h) <= n}
      /\ Launched(j) = {h \in hosts : Place(hosts, h) <= n + IF job[j].wait THEN p ELSE 0}
  BY DEF Batch, Chunk, Joined, Launched
<1> HIDE DEF hosts, n, p
<1>4. n \in Nat /\ p \in Nat \ {0}
  BY <1>1 DEF n, p
<1>5. Batch(j) \subseteq hosts /\ Joined(j) \subseteq hosts
  BY <1>3
<1>6. Batch(j) \intersect Joined(j) = {}
  BY <1>2, <1>3, <1>4
<1>7. ~job[j].wait => Launched(j) = Joined(j)
  BY <1>2, <1>3, <1>4
<1>8. job[j].wait => Launched(j) = Joined(j) \union Batch(j)
  BY <1>2, <1>3, <1>4
<1>9. n = 0 => Joined(j) = {}
  BY <1>2, <1>3, <1>4
<1>10. n + p >= Cardinality(hosts) => Joined(j) \union Batch(j) = hosts
  BY <1>2, <1>3, <1>4
<1> QED
  BY <1>1, <1>4, <1>5, <1>6, <1>7, <1>8, <1>9, <1>10 DEF hosts, n, p

LEMMA LaunchedNext ==
  ASSUME TypeOK, NEW j \in Jobs
  PROVE  /\ {h \in job[j].hosts : Place(job[j].hosts, h) <= job[j].next + Pool(job[j].pc)}
              = Joined(j) \union Batch(j)
         /\ {h \in job[j].hosts : Place(job[j].hosts, h) <= job[j].next + Pool(job[j].pc) + 0}
              = Joined(j) \union Batch(j)
<1> DEFINE hosts == job[j].hosts
           n == job[j].next
           p == Pool(job[j].pc)
<1>1. hosts \in SUBSET Hosts /\ n \in Nat /\ p \in Nat
  BY Batches
<1>2. \A h \in hosts : Place(hosts, h) \in Nat
  BY <1>1, PlaceOf
<1>3. /\ Batch(j) = {h \in hosts : n < Place(hosts, h) /\ Place(hosts, h) <= n + p}
      /\ Joined(j) = {h \in hosts : Place(hosts, h) <= n}
  BY DEF Batch, Chunk, Joined
<1> HIDE DEF hosts, n, p
<1>4. {h \in hosts : Place(hosts, h) <= n + p} = Joined(j) \union Batch(j) /\ n + p + 0 = n + p
  BY <1>1, <1>2, <1>3
<1> QED
  BY <1>4 DEF hosts, n, p

\* Everything that is not of run j stays, and the nodes and the storage do.
RunAlone(j) ==
    /\ UNCHANGED <<ring, snap, backup, index, using, purge, moves>>
    /\ \A i \in Jobs \ {j} : job'[i] = job[i] /\ cmd'[i] = cmd[i] /\ clear'[i] = clear[i]

\* What a step of a run is, in terms of the run.
Begins(j) ==
    /\ job[j].pc = "idle" /\ job'[j].pc = IF NameTaken THEN "failed" ELSE "connect"
    /\ job'[j].hosts = job[j].hosts /\ job'[j].next = job[j].next /\ job'[j].wait = job[j].wait
    /\ UNCHANGED <<cmd, clear>>
SameOptions(j) ==
    job'[j].dc = job[j].dc /\ job'[j].keep = job[j].keep /\ job'[j].existing = job[j].existing
BrokenStays(j) == job[j].broken => job'[j].broken
HostsRead(j) ==
    /\ job[j].pc = "connect" /\ job'[j].pc = FirstPhase(j)
    /\ job'[j].hosts = TokenmapOf(job[j].dc) /\ TokenmapOf(job[j].dc) # {}
    /\ job'[j].next = job[j].next /\ job'[j].wait = job[j].wait
    /\ UNCHANGED <<cmd, clear>> /\ SameOptions(j) /\ BrokenStays(j)
BatchStarted(j) ==
    /\ job[j].pc \in Phases /\ ~job[j].wait /\ job'[j].pc = job[j].pc
    /\ job'[j].hosts = job[j].hosts /\ job'[j].next = job[j].next /\ job'[j].wait
    /\ Launch(j, Batch(j)) /\ SameOptions(j) /\ BrokenStays(j)
    /\ job'[j].lost = job[j].lost
BatchRaised(j) ==
    /\ job[j].pc \in Phases /\ ~job[j].wait /\ job'[j].pc = RaiseTo(job[j].pc)
    /\ job'[j].hosts = job[j].hosts /\ job'[j].next = 0 /\ ~job'[j].wait
    /\ \E lost \in SUBSET Batch(j) : lost # {} /\ Launch(j, Batch(j) \ lost)
    /\ SameOptions(j) /\ BrokenStays(j)
LastBatch(j) == job[j].next + Pool(job[j].pc) >= Cardinality(job[j].hosts)
BatchJoined(j) ==
    /\ job[j].pc \in Phases /\ job[j].wait /\ BatchEnded(j)
    /\ job'[j].hosts = job[j].hosts /\ ~job'[j].wait
    /\ \/ /\ ~LastBatch(j) /\ job'[j].pc = job[j].pc
          /\ job'[j].next = job[j].next + Pool(job[j].pc) /\ job'[j].lost = job[j].lost
       \/ /\ LastBatch(j) /\ job[j].pc = "cleanup"
          /\ job'[j].pc = "failed" /\ job'[j].next = 0
       \/ /\ LastBatch(j) /\ job[j].pc = "snapshot" /\ AllSucceeded(j)
          /\ job'[j].pc = "upload" /\ job'[j].next = 0
       \/ /\ LastBatch(j) /\ job[j].pc = "upload" /\ AllSucceeded(j)
          /\ job'[j].pc = "done" /\ job'[j].next = 0
       \/ /\ LastBatch(j) /\ job[j].pc # "cleanup" /\ ~AllSucceeded(j)
          /\ job'[j].pc = "cleanup" /\ job'[j].next = 0
          /\ job'[j].broken = BrokenBy(j, job[j].lost)
    /\ UNCHANGED <<cmd, clear>> /\ SameOptions(j) /\ BrokenStays(j)
HostLost(j) ==
    /\ job[j].pc \in Phases /\ job'[j].pc = job[j].pc
    /\ job'[j].hosts = job[j].hosts /\ job'[j].next = job[j].next /\ job'[j].wait = job[j].wait
    /\ job[j].lost \subseteq job'[j].lost
    /\ UNCHANGED <<cmd, clear>> /\ SameOptions(j) /\ BrokenStays(j)
JoinRaised(j) ==
    /\ job[j].pc \in Phases /\ job'[j].pc = RaiseTo(job[j].pc)
    /\ job'[j].hosts = job[j].hosts /\ job'[j].next = 0 /\ ~job'[j].wait
    /\ job[j].pc = "upload" => job'[j].broken
    /\ UNCHANGED <<cmd, clear>> /\ SameOptions(j) /\ BrokenStays(j)
RunEnds(j) ==
    /\ \/ job[j].pc = "connect" /\ job'[j].pc = "failed"
       \/ Active(j) /\ job'[j].pc = "killed"
    /\ job'[j].hosts = job[j].hosts
    /\ UNCHANGED <<cmd, clear>> /\ SameOptions(j) /\ BrokenStays(j)

RunTurn(j) ==
    \/ Begins(j) \/ HostsRead(j) \/ BatchStarted(j) \/ BatchRaised(j) \/ BatchJoined(j)
    \/ HostLost(j) \/ JoinRaised(j) \/ RunEnds(j)

LEMMA RunStepTurns ==
  ASSUME TypeOK, NEW j \in Jobs, RunStep(j)
  PROVE  RunAlone(j) /\ RunTurn(j)
<1>0. job \in [Jobs -> Runs] /\ job[j] \in Runs /\ cmd \in [Jobs -> [Hosts -> CommandStates]]
      /\ clear \in [Jobs -> [Hosts -> ClearStates]]
  BY DEF TypeOK
<1>8. ASSUME NEW reached, Launch(j, reached)
      PROVE  \A i \in Jobs \ {j} : cmd'[i] = cmd[i] /\ clear'[i] = clear[i]
  BY <1>0, <1>8 DEF Launch
<1>1. CASE Begin(j)
  <2>1. PICK dc \in DataCentres, o \in Options[j] :
           job' = [job EXCEPT ![j].pc = IF NameTaken THEN "failed" ELSE "connect",
                              ![j].dc = dc, ![j].keep = o.keep, ![j].existing = o.existing]
    BY <1>1 DEF Begin
  <2>2. job'[j] = [job[j] EXCEPT !.pc = IF NameTaken THEN "failed" ELSE "connect",
                      !.dc = dc, !.keep = o.keep, !.existing = o.existing]
    BY <1>0, <2>1
  <2>3. Begins(j)
    BY <1>0, <1>1, <2>2 DEF Begin, Begins, Runs
  <2>4. RunAlone(j)
    BY <1>0, <1>1, <2>1 DEF Begin, RunAlone
  <2> QED BY <2>3, <2>4 DEF RunTurn
<1>2. CASE ReadHosts(j)
  <2>1. job'[j] = [job[j] EXCEPT !.hosts = TokenmapOf(job[j].dc), !.pc = FirstPhase(j)]
    BY <1>0, <1>2 DEF ReadHosts
  <2>2. HostsRead(j)
    BY <1>0, <1>2, <2>1 DEF ReadHosts, HostsRead, SameOptions, BrokenStays, Runs, nodeVars
  <2>3. RunAlone(j)
    BY <1>0, <1>2 DEF ReadHosts, RunAlone, nodeVars
  <2> QED BY <2>2, <2>3 DEF RunTurn
<1>3. CASE ReadHostsFails(j)
  <2>1. RunEnds(j)
    BY <1>0, <1>3 DEF ReadHostsFails, RunEnds, SameOptions, BrokenStays, Runs, nodeVars
  <2>2. RunAlone(j)
    BY <1>0, <1>3 DEF ReadHostsFails, RunAlone, nodeVars
  <2> QED BY <2>1, <2>2 DEF RunTurn
<1>4. CASE RunBatch(j)
  <2>1. BatchStarted(j)
    BY <1>0, <1>4 DEF RunBatch, BatchStarted, SameOptions, BrokenStays, Runs
  <2>2. RunAlone(j)
    BY <1>0, <1>4, <1>8 DEF RunBatch, RunAlone
  <2> QED BY <2>1, <2>2 DEF RunTurn
<1>5. CASE RunBatchRaises(j)
  <2>1. BatchRaised(j)
    BY <1>0, <1>5 DEF RunBatchRaises, BatchRaised, BrokenBy, SameOptions, BrokenStays, Runs
  <2>2. RunAlone(j)
    BY <1>0, <1>5, <1>8 DEF RunBatchRaises, RunAlone
  <2> QED BY <2>1, <2>2 DEF RunTurn
<1>6. CASE JoinBatch(j)
  <2> DEFINE next1 == IF LastBatch(j) THEN 0 ELSE job[j].next + Pool(job[j].pc)
             pc1 == IF ~LastBatch(j) THEN job[j].pc
                    ELSE IF job[j].pc = "cleanup" THEN "failed"
                    ELSE IF AllSucceeded(j) THEN NextPhase[job[j].pc] ELSE "cleanup"
             lost1 == IF LastBatch(j) THEN {} ELSE job[j].lost
             broken1 == IF LastBatch(j) THEN BrokenBy(j, job[j].lost) ELSE job[j].broken
  <2>1. job' = [job EXCEPT ![j] = [job[j] EXCEPT !.wait = FALSE, !.next = next1, !.lost = lost1,
                                                 !.broken = broken1, !.pc = pc1]]
    BY <1>6 DEF JoinBatch, LastBatch
  <2>2. job'[j].next = next1 /\ job'[j].pc = pc1 /\ ~job'[j].wait /\ SameOptions(j)
        /\ job'[j].hosts = job[j].hosts /\ job'[j].lost = lost1 /\ job'[j].broken = broken1
    <3> HIDE DEF next1, pc1, lost1, broken1
    <3> QED BY <1>0, <2>1 DEF Runs, SameOptions
  <2>3. job[j].pc \in Phases /\ job[j].wait /\ BatchEnded(j) /\ UNCHANGED <<cmd, clear>>
    BY <1>6 DEF JoinBatch, nodeVars
  <2>6. BrokenStays(j)
    BY <2>2 DEF BrokenStays, BrokenBy
  <2>4. BatchJoined(j)
    BY <2>2, <2>3, <2>6 DEF BatchJoined, Phases, NextPhase
  <2>5. RunAlone(j)
    BY <1>0, <1>6, <2>1 DEF JoinBatch, RunAlone, nodeVars
  <2> QED BY <2>4, <2>5 DEF RunTurn
<1>7. CASE Kill(j)
  <2>1. RunEnds(j)
    BY <1>0, <1>7 DEF Kill, RunEnds, SameOptions, BrokenStays, Runs, nodeVars
  <2>2. RunAlone(j)
    BY <1>0, <1>7 DEF Kill, RunAlone, nodeVars
  <2> QED BY <2>1, <2>2 DEF RunTurn
<1>9. CASE JoinRaises(j)
  <2>1. JoinRaised(j)
    BY <1>0, <1>9 DEF JoinRaises, JoinRaised, BrokenBy, SameOptions, BrokenStays, Runs, nodeVars
  <2>2. RunAlone(j)
    BY <1>0, <1>9 DEF JoinRaises, RunAlone, nodeVars
  <2> QED BY <2>1, <2>2 DEF RunTurn
<1>10. ASSUME NEW h \in Hosts, LoseHost(j, h) PROVE RunAlone(j) /\ RunTurn(j)
  <2>1. HostLost(j)
    BY <1>0, <1>10 DEF LoseHost, HostLost, SameOptions, BrokenStays, Runs, nodeVars
  <2>2. RunAlone(j)
    BY <1>0, <1>10 DEF LoseHost, RunAlone, nodeVars
  <2> QED BY <2>1, <2>2 DEF RunTurn
<1> QED
  BY <1>1, <1>2, <1>3, <1>4, <1>5, <1>6, <1>7, <1>9, <1>10 DEF JobStep, RunStep

LEMMA LaunchDoes ==
  ASSUME TypeOK, NEW j \in Jobs, job[j].pc \in Phases, NEW reached \in SUBSET Hosts,
         Launch(j, reached)
  PROVE  /\ job[j].pc = "cleanup" =>
              /\ cmd'[j] = cmd[j]
              /\ \A h \in Hosts : clear'[j][h] = IF h \in reached THEN "clear" ELSE clear[j][h]
         /\ job[j].pc # "cleanup" => clear'[j] = clear[j]
         /\ job[j].pc = "snapshot" =>
              \A h \in Hosts : cmd'[j][h] = IF h \in reached THEN "snapshot" ELSE cmd[j][h]
         /\ job[j].pc = "upload" =>
              \A h \in Hosts : cmd'[j][h] = IF h \in reached THEN "backup" ELSE cmd[j][h]
<1>1. cmd \in [Jobs -> [Hosts -> CommandStates]] /\ clear \in [Jobs -> [Hosts -> ClearStates]]
  BY DEF TypeOK
<1>2. LaunchedCommand["snapshot"] = "snapshot" /\ LaunchedCommand["upload"] = "backup"
  BY DEF LaunchedCommand
<1> QED
  BY <1>1, <1>2 DEF Launch

\* A run that takes a step.
LEMMA RunTurnFits ==
  ASSUME TypeOK, TypeOK', NEW j \in Jobs, RunFits(j), RunAlone(j), RunTurn(j)
  PROVE  RunFits(j)'
<1>0. /\ using'[j] = using[j] /\ job[j] \in Runs /\ job'[j] \in Runs
      /\ cmd[j] \in [Hosts -> CommandStates] /\ clear[j] \in [Hosts -> ClearStates]
      /\ using[j] \in [Hosts -> SnapshotValues]
  BY DEF RunAlone, TypeOK
<1>1. CASE Begins(j)
  <2>1. job[j].hosts = {} /\ ~UploadsBegun(j) /\ job[j].next = 0 /\ ~job[j].wait
    BY <1>1 DEF Begins, RunFits
  <2>2. \A h \in Hosts : cmd[j][h] = "none" /\ using[j][h] = NoSnapshot /\ clear[j][h] = "none"
    BY <2>1 DEF RunFits, UploadsBegun
  <2>3. ~UploadsBegun(j)'
    BY <1>0, <1>1, <2>1 DEF UploadsBegun, Begins
  <2>4. /\ \A h \in Hosts : cmd'[j][h] = "none" /\ using'[j][h] = NoSnapshot /\ clear'[j][h] = "none"
        /\ job'[j].pc \in {"failed", "connect"} /\ job'[j].hosts = {} /\ job'[j].next = 0
        /\ ~job'[j].wait
    BY <1>0, <1>1, <2>1, <2>2 DEF Begins
  <2> QED BY <2>3, <2>4 DEF RunFits, Phases
<1>2. CASE HostsRead(j)
  <2>1. job[j].hosts = {} /\ ~UploadsBegun(j) /\ job[j].next = 0 /\ ~job[j].wait
    BY <1>2 DEF HostsRead, RunFits
  <2>2. \A h \in Hosts : cmd[j][h] = "none" /\ using[j][h] = NoSnapshot /\ clear[j][h] = "none"
    BY <2>1 DEF RunFits, UploadsBegun
  <2>3. ~UploadsBegun(j)'
    BY <1>0, <1>2, <2>1 DEF UploadsBegun, HostsRead
  <2>4. /\ \A h \in Hosts : cmd'[j][h] = "none" /\ using'[j][h] = NoSnapshot /\ clear'[j][h] = "none"
        /\ job'[j].pc = (IF job'[j].existing THEN "upload" ELSE "snapshot") /\ job'[j].hosts # {}
        /\ job'[j].next = 0 /\ ~job'[j].wait
    BY <1>0, <1>2, <2>1, <2>2 DEF HostsRead, FirstPhase, SameOptions
  <2>5. Launched(j)' = {} /\ Joined(j)' = {}
    <3>1. job'[j].hosts \in SUBSET Hosts
      BY <1>0 DEF Runs
    <3>2. \A h \in job'[j].hosts : /\ Place(job'[j].hosts, h) \in Nat
                                   /\ 1 <= Place(job'[j].hosts, h)
      BY <3>1, PlaceOf
    <3>3. \A h \in job'[j].hosts : ~(Place(job'[j].hosts, h) <= 0)
      BY <3>2
    <3>4. Joined(j)' = {}
      BY <2>4, <3>3 DEF Joined, Place
    <3>5. Launched(j)' = {h \in job'[j].hosts : Place(job'[j].hosts, h) <= 0 + 0}
      BY <2>4 DEF Launched, Place
    <3> QED BY <3>3, <3>4, <3>5
  <2>6. NothingCleared(j)'
    BY <2>4 DEF NothingCleared
  <2>7. job'[j].hosts \in SUBSET Hosts
    BY <1>0 DEF Runs
  <2>8. CASE job'[j].existing
    BY <2>3, <2>4, <2>5, <2>6, <2>7, <2>8 DEF RunFits, Phases
  <2>9. CASE ~job'[j].existing
    BY <2>3, <2>4, <2>5, <2>6, <2>7, <2>9 DEF RunFits, Phases
  <2> QED BY <2>8, <2>9
<1>3. CASE BatchStarted(j)
  <2>1. /\ job[j].pc \in Phases /\ Batch(j) \in SUBSET Hosts /\ Batch(j) \subseteq job[j].hosts
        /\ Batch(j) \intersect Joined(j) = {} /\ Launched(j) = Joined(j)
        /\ job[j].hosts \in SUBSET Hosts /\ Joined(j) \subseteq job[j].hosts
    BY <1>3, Batches DEF BatchStarted
  <2>2. /\ job'[j].pc = job[j].pc /\ job'[j].hosts = job[j].hosts /\ job'[j].next = job[j].next
        /\ job'[j].existing = job[j].existing /\ Launch(j, Batch(j)) /\ job'[j].wait
        /\ job'[j].lost = job[j].lost
    BY <1>3 DEF BatchStarted, SameOptions
  <2>3. Joined(j)' = Joined(j) /\ Launched(j)' = Joined(j) \union Batch(j)
    <3>1. Joined(j)' = Joined(j)
      BY <2>2 DEF Joined, Place
    <3>2. Launched(j)' = {h \in job[j].hosts :
                            Place(job[j].hosts, h) <= job[j].next + Pool(job[j].pc)}
      BY <2>2 DEF Launched, Place, Pool
    <3> QED BY <3>1, <3>2, LaunchedNext
  <2>4. CASE job[j].pc = "cleanup"
    <3>1. /\ cmd'[j] = cmd[j]
          /\ \A h \in Hosts \ Batch(j) : clear'[j][h] = clear[j][h]
      BY <2>1, <2>2, <2>4, LaunchDoes
    <3>2. UploadsBegun(j)' = UploadsBegun(j)
      BY <1>0, <3>1 DEF UploadsBegun
    <3> QED BY <1>0, <2>1, <2>2, <2>4, <3>1, <3>2 DEF RunFits
  <2>5. CASE job[j].pc = "snapshot"
    <3>1. /\ clear'[j] = clear[j]
          /\ \A h \in Hosts : cmd'[j][h] = IF h \in Batch(j) THEN "snapshot" ELSE cmd[j][h]
      BY <2>1, <2>2, <2>5, LaunchDoes
    <3>2. ~UploadsBegun(j)'
      BY <1>0, <2>5, <3>1 DEF UploadsBegun, Uploading, RunFits
    <3>3. NothingCleared(j)'
      BY <2>5, <3>1 DEF NothingCleared, RunFits
    <3>4. \A h \in job[j].hosts \ Launched(j)' : cmd'[j][h] = "none"
      BY <2>1, <2>3, <2>5, <3>1 DEF RunFits
    <3>5. \A h \in Joined(j) \ job[j].lost : cmd'[j][h] \notin Running
      BY <2>1, <2>5, <3>1 DEF RunFits
    <3>6. ~job[j].existing /\ \A h \in Hosts : cmd'[j][h] = "uploading" => cmd[j][h] = "uploading"
      BY <2>5, <3>1 DEF RunFits
    <3> QED BY <1>0, <2>1, <2>2, <2>3, <2>5, <3>1, <3>2, <3>3, <3>4, <3>5, <3>6 DEF RunFits
  <2>6. CASE job[j].pc = "upload"
    <3>1. /\ clear'[j] = clear[j]
          /\ \A h \in Hosts : cmd'[j][h] = IF h \in Batch(j) THEN "backup" ELSE cmd[j][h]
      BY <2>1, <2>2, <2>6, LaunchDoes
    <3>3. NothingCleared(j)'
      BY <2>6, <3>1 DEF NothingCleared, RunFits
    <3>4. \A h \in job[j].hosts \ Launched(j)' :
             cmd'[j][h] = IF job[j].existing THEN "none" ELSE "ok"
      BY <2>1, <2>3, <2>6, <3>1 DEF RunFits
    <3>5. \A h \in Joined(j) \ job[j].lost : cmd'[j][h] \notin Running
      BY <2>1, <2>6, <3>1 DEF RunFits
    <3>6. \A h \in Hosts : /\ cmd'[j][h] = "uploading" => cmd[j][h] = "uploading"
                           /\ cmd'[j][h] # "snapshot"
      BY <2>6, <3>1 DEF RunFits
    <3> QED BY <1>0, <2>1, <2>2, <2>3, <2>6, <3>1, <3>3, <3>4, <3>5, <3>6 DEF RunFits
  <2> QED BY <2>1, <2>4, <2>5, <2>6 DEF Phases
<1>4. CASE BatchRaised(j)
  <2>1. PICK lost \in SUBSET Batch(j) : Launch(j, Batch(j) \ lost)
    BY <1>4 DEF BatchRaised
  <2>2. /\ job[j].pc \in Phases /\ job'[j].hosts = job[j].hosts
        /\ job'[j].pc \in {"cleanup", "failed"} /\ job'[j].existing = job[j].existing
    BY <1>4 DEF BatchRaised, SameOptions, RaiseTo
  <2>3. Batch(j) \ lost \in SUBSET Hosts /\ Batch(j) \ lost \subseteq job[j].hosts
        /\ job[j].hosts \in SUBSET Hosts
    BY Batches
  <2> DEFINE reached == Batch(j) \ lost
  <2> HIDE DEF reached
  <2>4. /\ \A h \in Hosts \ reached : cmd'[j][h] = cmd[j][h] /\ clear'[j][h] = clear[j][h]
        /\ \A h \in reached : cmd'[j][h] = cmd[j][h] \/ cmd'[j][h] \in {"snapshot", "backup"}
        /\ job[j].pc = "snapshot" => ~UploadsBegun(j)'
        /\ job[j].pc # "snapshot" => \A h \in reached : cmd'[j][h] # "snapshot" \/ cmd'[j] = cmd[j]
        /\ job[j].pc = "cleanup" => cmd'[j] = cmd[j]
    <3>1. CASE job[j].pc = "cleanup"
      BY <2>1, <2>2, <2>3, <3>1, LaunchDoes DEF reached
    <3>2. CASE job[j].pc = "snapshot"
      <4>1. /\ clear'[j] = clear[j]
            /\ \A h \in Hosts : cmd'[j][h] = IF h \in reached THEN "snapshot" ELSE cmd[j][h]
        BY <2>1, <2>2, <2>3, <3>2, LaunchDoes DEF reached
      <4>2. ~UploadsBegun(j)'
        BY <1>0, <3>2, <4>1 DEF UploadsBegun, Uploading, RunFits
      <4> QED BY <2>3, <3>2, <4>1, <4>2 DEF reached
    <3>3. CASE job[j].pc = "upload"
      BY <2>1, <2>2, <2>3, <3>3, LaunchDoes DEF reached
    <3> QED BY <2>2, <3>1, <3>2, <3>3 DEF Phases
  <2>5. UploadsBegun(j)' => \A h \in Hosts : cmd'[j][h] # "snapshot"
    <3>1. CASE job[j].pc = "cleanup"
      BY <1>0, <2>4, <3>1 DEF UploadsBegun, RunFits
    <3>2. CASE job[j].pc = "snapshot"
      BY <2>4, <3>2
    <3>3. CASE job[j].pc = "upload"
      BY <2>4, <3>3 DEF RunFits
    <3> QED BY <2>2, <3>1, <3>2, <3>3 DEF Phases
  <2>6. \A h \in Hosts : cmd'[j][h] = "uploading" => cmd[j][h] = "uploading"
    BY <2>4
  <2>7. \A h \in Hosts \ job[j].hosts : cmd'[j][h] = "none" /\ clear'[j][h] = "none"
    BY <2>3, <2>4 DEF RunFits, reached
  <2>8. job[j].hosts # {}
    BY <2>2 DEF RunFits
  <2> QED BY <1>0, <2>2, <2>5, <2>6, <2>7, <2>8 DEF RunFits
<1>5. CASE BatchJoined(j)
  <2>1. /\ job[j].pc \in Phases /\ Launched(j) = Joined(j) \union Batch(j)
        /\ job[j].hosts \in SUBSET Hosts /\ Joined(j) \subseteq job[j].hosts
        /\ job[j].next \in Nat /\ Pool(job[j].pc) \in Nat
        /\ LastBatch(j) => Joined(j) \union Batch(j) = job[j].hosts
    BY <1>5, Batches DEF BatchJoined, LastBatch
  <2>2. /\ cmd'[j] = cmd[j] /\ clear'[j] = clear[j] /\ job'[j].hosts = job[j].hosts
        /\ job'[j].existing = job[j].existing /\ BatchEnded(j) /\ job[j].wait /\ ~job'[j].wait
        /\ job[j].hosts # {}
    BY <1>5 DEF BatchJoined, SameOptions, RunFits
  <2>3. UploadsBegun(j)' = UploadsBegun(j) /\ NothingCleared(j)' = NothingCleared(j)
    BY <1>0, <2>2 DEF UploadsBegun, NothingCleared
  <2>4. job'[j].next = 0 => Launched(j)' = {} /\ Joined(j)' = {}
    <3>1. \A h \in job[j].hosts : /\ Place(job[j].hosts, h) \in Nat
                                  /\ 1 <= Place(job[j].hosts, h)
      BY <2>1, PlaceOf
    <3>2. \A h \in job[j].hosts : ~(Place(job[j].hosts, h) <= 0)
      BY <3>1
    <3>3. job'[j].next = 0 => Joined(j)' = {}
      BY <2>2, <3>2 DEF Joined, Place
    <3>4. job'[j].next = 0 =>
            Launched(j)' = {h \in job[j].hosts : Place(job[j].hosts, h) <= 0 + 0}
      BY <2>2 DEF Launched, Place
    <3> QED BY <3>2, <3>3, <3>4
  <2>5. CASE job'[j].pc = job[j].pc
    <3>1. job'[j].next = job[j].next + Pool(job[j].pc) /\ job'[j].lost = job[j].lost
      BY <1>5, <2>5 DEF BatchJoined
    <3>2. /\ Joined(j)' = {h \in job[j].hosts :
                             Place(job[j].hosts, h) <= job[j].next + Pool(job[j].pc)}
          /\ Launched(j)' = {h \in job[j].hosts :
                             Place(job[j].hosts, h) <= job[j].next + Pool(job[j].pc) + 0}
      BY <2>2, <3>1 DEF Joined, Launched, Place
    <3>3. Joined(j)' = Launched(j) /\ Launched(j)' = Launched(j)
      BY <2>1, <3>2, LaunchedNext
    <3>4. job[j].pc \in {"snapshot", "upload"} =>
            \A h \in Launched(j) \ job[j].lost : cmd[j][h] \notin Running
      <4>1. job[j].pc \in {"snapshot", "upload"} =>
              \A h \in Batch(j) \ job[j].lost : cmd[j][h] \notin Running
        BY <2>2 DEF BatchEnded, Status, Running
      <4> QED BY <2>1, <4>1 DEF RunFits
    <3> QED BY <1>0, <2>2, <2>3, <2>5, <3>1, <3>3, <3>4 DEF RunFits
  <2>6. CASE job'[j].pc \in {"failed", "cleanup"} /\ job'[j].pc # job[j].pc
    BY <1>0, <2>2, <2>3, <2>6 DEF RunFits, Phases
  <2>7. CASE job'[j].pc = "upload" /\ job'[j].pc # job[j].pc
    <3>1. job[j].pc = "snapshot" /\ AllSucceeded(j) /\ job'[j].next = 0
      BY <1>5, <2>7 DEF BatchJoined
    <3>2. /\ \A h \in job[j].hosts : cmd[j][h] = "ok"
          /\ \A h \in Hosts : cmd[j][h] # "snapshot"
      BY <3>1 DEF AllSucceeded, Status, RunFits
    <3> QED BY <1>0, <2>1, <2>2, <2>3, <2>4, <2>7, <3>1, <3>2 DEF RunFits, Phases
  <2>8. CASE job'[j].pc = "done"
    <3>1. job[j].pc = "upload"
      BY <1>5, <2>8 DEF BatchJoined, Phases
    <3> QED BY <1>0, <2>2, <2>3, <2>8, <3>1 DEF RunFits, Phases
  <2> QED BY <1>5, <2>5, <2>6, <2>7, <2>8 DEF BatchJoined
<1>6. CASE RunEnds(j)
  <2>1. UploadsBegun(j)' = UploadsBegun(j)
    BY <1>0, <1>6 DEF UploadsBegun, RunEnds
  <2> QED BY <1>0, <1>6, <2>1 DEF RunFits, RunEnds, SameOptions, Phases
<1>7. CASE HostLost(j)
  <2>1. UploadsBegun(j)' = UploadsBegun(j) /\ NothingCleared(j)' = NothingCleared(j)
    BY <1>0, <1>7 DEF UploadsBegun, NothingCleared, HostLost
  <2>2. Launched(j)' = Launched(j) /\ Joined(j)' = Joined(j)
    BY <1>7 DEF HostLost, Launched, Joined, Place, Pool
  <2> QED BY <1>0, <1>7, <2>1, <2>2 DEF RunFits, HostLost, SameOptions
<1>8. CASE JoinRaised(j)
  <2>1. UploadsBegun(j)' = UploadsBegun(j)
    BY <1>0, <1>8 DEF UploadsBegun, JoinRaised
  <2> QED BY <1>0, <1>8, <2>1 DEF RunFits, JoinRaised, SameOptions, RaiseTo, Phases
<1> QED
  BY <1>1, <1>2, <1>3, <1>4, <1>5, <1>6, <1>7, <1>8 DEF RunTurn

LEMMA RunTurnClears ==
  ASSUME TypeOK, NEW j \in Jobs, RunFits(j), Cleared(j), RunAlone(j), RunTurn(j)
  PROVE  Cleared(j)'
<1>0. using'[j] = using[j] /\ snap' = snap
  BY DEF RunAlone
<1>1. \/ NothingCleared(j)'
      \/ /\ cmd'[j] = cmd[j] /\ job'[j].keep = job[j].keep /\ job'[j].existing = job[j].existing
         /\ \A h \in Hosts : clear'[j][h] = "ok" => clear[j][h] = "ok"
  <2>1. CASE Begins(j)
    BY <2>1 DEF Begins, RunFits, NothingCleared
  <2>2. ASSUME NEW reached \in SUBSET Hosts, Launch(j, reached), job[j].pc \in Phases, SameOptions(j)
        PROVE  \/ NothingCleared(j)'
               \/ /\ cmd'[j] = cmd[j] /\ job'[j].keep = job[j].keep
                  /\ job'[j].existing = job[j].existing
                  /\ \A h \in Hosts : clear'[j][h] = "ok" => clear[j][h] = "ok"
    <3>1. CASE job[j].pc = "cleanup"
      BY <2>2, <3>1, LaunchDoes DEF SameOptions
    <3>2. CASE job[j].pc # "cleanup"
      <4>1. clear'[j] = clear[j] /\ NothingCleared(j)
        BY <2>2, <3>2, LaunchDoes DEF RunFits, Phases
      <4> QED BY <4>1 DEF NothingCleared
    <3> QED BY <3>1, <3>2
  <2>3. CASE BatchStarted(j)
    BY <2>2, <2>3, Batches DEF BatchStarted
  <2>4. CASE BatchRaised(j)
    <3>1. PICK lost \in SUBSET Batch(j) : Launch(j, Batch(j) \ lost)
      BY <2>4 DEF BatchRaised
    <3>2. Batch(j) \ lost \in SUBSET Hosts
      BY Batches
    <3> QED BY <2>2, <2>4, <3>1, <3>2 DEF BatchRaised
  <2>5. CASE HostsRead(j) \/ BatchJoined(j) \/ HostLost(j) \/ JoinRaised(j) \/ RunEnds(j)
    BY <2>5 DEF HostsRead, BatchJoined, HostLost, JoinRaised, RunEnds, SameOptions
  <2> QED BY <2>1, <2>3, <2>4, <2>5 DEF RunTurn
<1>2. CASE NothingCleared(j)'
  BY <1>2 DEF NothingCleared, Cleared
<1>3. CASE /\ cmd'[j] = cmd[j] /\ job'[j].keep = job[j].keep /\ job'[j].existing = job[j].existing
           /\ \A h \in Hosts : clear'[j][h] = "ok" => clear[j][h] = "ok"
  <2>1. UploadsBegun(j)' = UploadsBegun(j)
    BY <1>0, <1>3 DEF UploadsBegun
  <2> QED BY <1>0, <1>3, <2>1 DEF Cleared
<1> QED
  BY <1>1, <1>2, <1>3

\* The snapshots of a run and its clearsnapshot, as its commands go on.
LEMMA HostClears ==
  ASSUME TypeOK, NEW j \in Jobs, RunFits(j), Cleared(j), NEW h \in Hosts, OthersKept(j, h),
         HostTurn(j, h)
  PROVE  Cleared(j)'
<1> SUFFICES ASSUME UploadsBegun(j)', ~job'[j].keep, ~job'[j].existing, NEW g \in Hosts,
                    clear'[j][g] = "ok", snap'[g] # NoSnapshot, snap'[g][1] = j
             PROVE  cmd'[j][g] \in {"uploading", "unclean"}
  BY DEF Cleared
<1>1. /\ ~job[j].keep /\ ~job[j].existing /\ UploadsBegun(j) /\ cmd[j][h] # "snapshot"
  BY HostFits DEF OthersKept, RunFits
<1>2. clear[j][g] = "ok" /\ snap[g] # NoSnapshot /\ snap[g][1] = j =>
        cmd[j][g] \in {"uploading", "unclean"}
  BY <1>1 DEF Cleared
<1>3. CASE g # h
  BY <1>2, <1>3 DEF OthersKept
<1>4. CASE g = h
  BY <1>1, <1>2, <1>4 DEF HostTurn, CutTaken, CommandFails, EntryLost, ClearEnds, EntryMade, SnapshotTaken,
     UploadEnds, UploadFails, BackupFinished, Turns, SnapshotLeft
<1> QED
  BY <1>3, <1>4

LEMMA HostClearsOther ==
  ASSUME NEW j \in Jobs, NEW h \in Hosts, OthersKept(j, h), HostTurn(j, h),
         NEW i \in Jobs \ {j}, Cleared(i)
  PROVE  Cleared(i)'
<1>1. /\ cmd'[i] = cmd[i] /\ using'[i] = using[i] /\ clear'[i] = clear[i] /\ job'[i] = job[i]
      /\ \A g \in Hosts \ {h} : snap'[g] = snap[g]
  BY DEF OthersKept
<1>2. UploadsBegun(i)' = UploadsBegun(i)
  BY <1>1 DEF UploadsBegun
<1>3. <<j, "cut">>[1] = j /\ <<j, "late">>[1] = j
  OBVIOUS
<1>4. snap'[h] = snap[h] \/ snap'[h] = NoSnapshot \/ snap'[h][1] = j
  BY <1>3 DEF HostTurn, CutTaken, CommandFails, EntryLost, ClearEnds, EntryMade, SnapshotTaken,
     UploadEnds, UploadFails, BackupFinished, SnapshotLeft
<1> QED
  BY <1>1, <1>2, <1>4 DEF Cleared

\* The index follows the backups.
LEMMA HostIndex ==
  ASSUME TypeOK, IndexFollows, NEW j \in Jobs, NEW h \in Hosts, OthersKept(j, h), HostTurn(j, h)
  PROVE  IndexFollows'
<1>1. \A g \in Hosts \ {h} : backup'[g] = backup[g]
  BY DEF OthersKept
<1>2. CASE EntryMade(j, h)
  <2>1. index' = Append(IndexWithout(h), h) /\ backup'[h].state = "started"
    BY <1>2 DEF EntryMade
  <2>2. IsInjective(index') /\ Range(index') = Range(index) \cup {h}
    BY <2>1, IndexWithHost DEF TypeOK, IndexFollows
  <2> QED BY <1>1, <2>1, <2>2 DEF IndexFollows
<1>3. CASE ~EntryMade(j, h)
  <2>1. index' = index
    BY <1>3 DEF HostTurn, CutTaken, CommandFails, EntryLost, ClearEnds, SnapshotTaken,
                UploadEnds, UploadFails, BackupFinished
  <2>2. backup'[h].state = "none" => backup[h].state = "none"
    BY <1>3 DEF HostTurn, CutTaken, CommandFails, EntryLost, ClearEnds, SnapshotTaken,
                UploadEnds, UploadFails, BackupFinished
  <2>3. \A g \in Hosts : backup[g].state # "none" => backup'[g].state # "none"
    BY <1>1, <2>2
  <2> QED BY <2>1, <2>3 DEF IndexFollows
<1> QED
  BY <1>2, <1>3

LEMMA AllOfTheRing ==
  ASSUME TypeOK, SingleCentre, NEW dc \in DataCentres PROVE TokenmapOf(dc) = ring
BY DEF TypeOK, SingleCentre, DataCentres, TokenmapOf

\* Of the steps of the ring, delete-backup and the purge.
OtherStep ==
    \/ \E h \in Hosts : Join(h) \/ Leave(h) \/ PurgeNode(h)
    \/ DeleteBackup \/ PurgeList \/ PurgeLive

LEMMA OtherKeeps ==
  ASSUME ClusterInvariant, OtherStep
  PROVE  /\ UNCHANGED <<snap, job, cmd, using, clear>>
         /\ IndexFollows' /\ PurgeFits'
<1> USE DEF ClusterInvariant
<1>0. purge \in Purges /\ NoPurge \in Purges
  BY ADataCentre DEF TypeOK, NoPurge, Purges
<1>1. ASSUME NEW h \in Hosts, Join(h)
      PROVE  UNCHANGED <<snap, job, cmd, using, clear>> /\ IndexFollows' /\ PurgeFits'
  BY <1>1 DEF Join, nodeVars, IndexFollows, PurgeFits
<1>2. ASSUME NEW h \in Hosts, Leave(h)
      PROVE  UNCHANGED <<snap, job, cmd, using, clear>> /\ IndexFollows' /\ PurgeFits'
  <2>1. /\ purge'.pc = purge.pc /\ purge'.gone = purge.gone
        /\ purge'.absent = IF purge.pc \in {"listed", "purging"} THEN purge.absent \union {h}
                           ELSE purge.absent
    BY <1>0, <1>2 DEF Leave, Purges
  <2>2. PurgeFits'
    BY <1>2, <2>1 DEF Leave, PurgeFits
  <2> QED BY <1>2, <2>2 DEF Leave, nodeVars, IndexFollows
<1>3. ASSUME NEW h \in Hosts, PurgeNode(h)
      PROVE  UNCHANGED <<snap, job, cmd, using, clear>> /\ IndexFollows' /\ PurgeFits'
  <2>1. /\ purge'.pc \in {"done", "purging"} /\ purge'.gone \subseteq purge.gone
        /\ purge'.absent = purge.absent /\ purge.pc = "purging" /\ ring' = ring
    BY <1>0, <1>3 DEF PurgeNode, Purges
  <2>2. PurgeFits'
    BY <2>1 DEF PurgeFits
  <2>3. IsInjective(index') /\ Range(index') = Range(index) \ {h}
    BY <1>3, IndexWithoutHost DEF PurgeNode, TypeOK, IndexFollows
  <2>4. \A g \in Hosts : backup'[g] = IF g = h THEN NoBackup ELSE backup[g]
    BY <1>3 DEF PurgeNode, TypeOK
  <2>5. IndexFollows'
    BY <2>3, <2>4 DEF IndexFollows, NoBackup
  <2> QED BY <1>3, <2>2, <2>5 DEF PurgeNode
<1>4. CASE DeleteBackup
  <2>1. index' = <<>>
    BY <1>4 DEF DeleteBackup
  <2>2. IsInjective(<<>>) /\ Range(<<>>) = {}
    BY DEF IsInjective, Range
  <2>3. IndexFollows'
    BY <2>1, <2>2 DEF IndexFollows
  <2>4. PurgeFits'
    BY <1>4 DEF DeleteBackup, PurgeFits
  <2> QED BY <1>4, <2>3, <2>4 DEF DeleteBackup
<1>5. CASE PurgeList
  <2>1. PICK dc \in DataCentres :
           purge' = [NoPurge EXCEPT !.pc = "listed", !.dc = dc,
                                    !.all = {h \in Hosts : backup[h].state # "none"},
                                    !.absent = Hosts \ ring]
    BY <1>5 DEF PurgeList
  <2>2. purge'.pc = "listed" /\ purge'.absent = Hosts \ ring
    BY <1>0, <2>1 DEF Purges
  <2>3. PurgeFits'
    BY <1>5, <2>2 DEF PurgeList, PurgeFits
  <2> QED BY <1>5, <2>3 DEF PurgeList, nodeVars, IndexFollows
<1>6. CASE PurgeLive
  <2>1. /\ purge'.pc \in {"failed", "purging"} /\ purge'.gone = purge.all \ LiveNodes(purge.dc)
        /\ purge'.absent = purge.absent /\ purge.pc = "listed" /\ ring' = ring
    BY <1>0, <1>6 DEF PurgeLive, Purges
  <2>2. SingleCentre => LiveNodes(purge.dc) = ring /\ purge.all \in SUBSET Hosts
    BY <1>0, AllOfTheRing DEF LiveNodes, Purges
  <2>3. PurgeFits'
    BY <2>1, <2>2 DEF PurgeFits
  <2> QED BY <1>6, <2>3 DEF PurgeLive, nodeVars, IndexFollows
<1> QED
  BY <1>1, <1>2, <1>3, <1>4, <1>5, <1>6 DEF OtherStep

LEMMA ClusterInit == Init => ClusterInvariant
<1> SUFFICES ASSUME Init PROVE ClusterInvariant
  OBVIOUS
<1>1. TypeOK
  BY TypeInit
<1>2. index = <<>> /\ \A h \in Hosts : backup[h] = NoBackup
  BY DEF Init
<1>3. IsInjective(<<>>) /\ Range(<<>>) = {}
  BY DEF IsInjective, Range
<1>4. IndexFollows
  BY <1>2, <1>3 DEF IndexFollows, NoBackup
<1>5. PurgeFits
  BY DEF Init, NoPurge, PurgeFits
<1>6. ASSUME NEW j \in Jobs PROVE RunFits(j) /\ Cleared(j)
  <2>1. job[j] = NoJob
        /\ \A h \in Hosts : cmd[j][h] = "none" /\ using[j][h] = NoSnapshot /\ clear[j][h] = "none"
    BY DEF Init
  <2>2. ~UploadsBegun(j)
    BY <2>1 DEF UploadsBegun, Uploading
  <2>3. Cleared(j)
    BY <2>2 DEF Cleared
  <2> QED BY <2>1, <2>2, <2>3 DEF RunFits, NoJob, Phases
<1> QED
  BY <1>1, <1>4, <1>5, <1>6 DEF ClusterInvariant

LEMMA ClusterNext == ClusterInvariant /\ [Next]_vars => ClusterInvariant'
<1> SUFFICES ASSUME ClusterInvariant, [Next]_vars PROVE ClusterInvariant'
  OBVIOUS
<1>0. /\ TypeOK /\ IndexFollows /\ PurgeFits
      /\ \A j \in Jobs : RunFits(j) /\ Cleared(j)
  BY DEF ClusterInvariant
<1>1. ASSUME NEW j \in Jobs, RunStep(j) PROVE ClusterInvariant'
  <2>1. TypeOK'
    BY <1>0, <1>1, RunStepType
  <2>2. RunAlone(j) /\ RunTurn(j)
    BY <1>0, <1>1, RunStepTurns
  <2>3. RunFits(j)' /\ Cleared(j)'
    BY <1>0, <2>1, <2>2, RunTurnFits, RunTurnClears
  <2>4. ASSUME NEW i \in Jobs \ {j} PROVE RunFits(i)' /\ Cleared(i)'
    <3>1. job'[i] = job[i] /\ cmd'[i] = cmd[i] /\ clear'[i] = clear[i] /\ using'[i] = using[i]
          /\ snap' = snap
      BY <2>2 DEF RunAlone
    <3>2. RunFits(i)' /\ UploadsBegun(i)' = UploadsBegun(i)
      BY <1>0, <3>1, RunFrame
    <3> QED BY <1>0, <3>1, <3>2 DEF Cleared
  <2>5. IndexFollows' /\ PurgeFits'
    BY <1>0, <2>2 DEF RunAlone, IndexFollows, PurgeFits
  <2> QED BY <2>1, <2>3, <2>4, <2>5 DEF ClusterInvariant
<1>2. ASSUME NEW j \in Jobs, NEW h \in Hosts, HostStep(j, h) PROVE ClusterInvariant'
  <2>1. TypeOK'
    BY <1>0, <1>2, HostStepType
  <2>2. OthersKept(j, h) /\ HostTurn(j, h)
    BY <1>0, <1>2, HostStepTurns
  <2>3. RunFits(j)' /\ Cleared(j)'
    BY <1>0, <2>2, HostFits, HostClears
  <2>4. ASSUME NEW i \in Jobs \ {j} PROVE RunFits(i)' /\ Cleared(i)'
    <3>1. job'[i] = job[i] /\ cmd'[i] = cmd[i] /\ clear'[i] = clear[i] /\ using'[i] = using[i]
      BY <2>2 DEF OthersKept
    <3>2. RunFits(i)'
      BY <1>0, <3>1, RunFrame
    <3> QED BY <1>0, <2>2, <3>2, HostClearsOther
  <2>5. IndexFollows' /\ PurgeFits'
    BY <1>0, <2>2, HostIndex DEF OthersKept, PurgeFits
  <2> QED BY <2>1, <2>3, <2>4, <2>5 DEF ClusterInvariant
<1>3. ASSUME OtherStep PROVE ClusterInvariant'
  <2>1. TypeOK'
    BY <1>0, <1>3, OtherStepType DEF OtherStep
  <2>2. UNCHANGED <<snap, job, cmd, using, clear>> /\ IndexFollows' /\ PurgeFits'
    BY <1>3, OtherKeeps
  <2>3. ASSUME NEW i \in Jobs PROVE RunFits(i)' /\ Cleared(i)'
    <3>1. RunFits(i)' /\ UploadsBegun(i)' = UploadsBegun(i)
      BY <1>0, <2>2, RunFrame
    <3> QED BY <1>0, <2>2, <3>1 DEF Cleared
  <2> QED BY <2>1, <2>2, <2>3 DEF ClusterInvariant
<1>4. CASE UNCHANGED vars
  <2>1. TypeOK'
    BY <1>0, <1>4 DEF vars, TypeOK
  <2>2. ASSUME NEW i \in Jobs PROVE RunFits(i)' /\ Cleared(i)'
    <3>1. RunFits(i)' /\ UploadsBegun(i)' = UploadsBegun(i)
      BY <1>0, <1>4, RunFrame DEF vars
    <3> QED BY <1>0, <1>4, <3>1 DEF Cleared, vars
  <2>3. IndexFollows' /\ PurgeFits'
    BY <1>0, <1>4 DEF vars, IndexFollows, PurgeFits
  <2> QED BY <2>1, <2>2, <2>3 DEF ClusterInvariant
<1> QED
  BY <1>1, <1>2, <1>3, <1>4 DEF Next, OtherStep, RunStep

-----------------------------------------------------------------------------
(* What holds of any runs, overlapping or not                              *)

\* The inductive invariant of the cluster backup: types, the index that follows the
\* backups, what the commands of a run may be in its phases, and which snapshots can
\* outlive a clearsnapshot.
THEOREM ClusterInvariantHolds == Spec => []ClusterInvariant
<1>1. Init => ClusterInvariant
  BY ClusterInit
<1>2. ClusterInvariant /\ [Next]_vars => ClusterInvariant'
  BY ClusterNext
<1> QED
  BY <1>1, <1>2, PTL DEF Spec

\* The cluster backup is type correct, for any hosts, batch sizes, runs and faults.
THEOREM TypeCorrect == Spec => []TypeOK
<1>1. ClusterInvariant => TypeOK
  BY DEF ClusterInvariant
<1> QED
  BY <1>1, ClusterInvariantHolds, PTL

\* A run that fails once its uploads have begun (orchestration's cleanup of
\* backup_cluster.py) leaves no snapshot of its own where its clearsnapshot went
\* through, also when other runs of the name are at work at the same time.
THEOREM SnapshotsCleanedUp == Spec => []CleanedUp
<1>1. ClusterInvariant => CleanedUp
  <2> SUFFICES ASSUME ClusterInvariant, NEW j \in Jobs,
                      ~Alive(j), ~job[j].keep, NEW g \in Hosts, using[j][g] # NoSnapshot,
                      NEW h \in job[j].hosts, clear[j][h] = "ok", cmd[j][h] # "unclean",
                      snap[h] # NoSnapshot
               PROVE  snap[h][1] # j
    BY DEF CleanedUp
  <2>1. RunFits(j) /\ Cleared(j) /\ h \in Hosts
    BY DEF ClusterInvariant, TypeOK, Runs
  <2>2. UploadsBegun(j) /\ ~job[j].existing
    BY <2>1 DEF UploadsBegun, RunFits
  <2>3. cmd[j][h] # "uploading"
    BY <2>1 DEF Alive, Running
  <2> QED BY <2>1, <2>2, <2>3 DEF Cleared
<1> QED
  BY <1>1, ClusterInvariantHolds, PTL

\* purge-decommissioned removes the backups of a node only if the node has been out
\* of the ring at some moment since the command began, whatever joins or leaves
\* between its listing, its question to Cassandra and its deletions.
THEOREM OnlyGoneNodesPurged == ASSUME SingleCentre PROVE Spec => OnlyGonePurged
<1>1. ClusterInvariant /\ [Next]_vars =>
        [\A h \in Hosts : purge' # purge /\ backup[h].state # "none" /\ backup'[h].state = "none"
           => h \in purge.absent]_vars
  <2> SUFFICES ASSUME ClusterInvariant, Next, NEW h \in Hosts, purge' # purge,
                      backup[h].state # "none", backup'[h].state = "none"
               PROVE  h \in purge.absent
    BY DEF vars
  <2>1. PICK g \in Hosts : PurgeNode(g)
    <3>1. ASSUME NEW j \in Jobs, RunStep(j) PROVE FALSE
      BY <3>1, RunStepTurns DEF RunAlone, ClusterInvariant
    <3>2. ASSUME NEW j \in Jobs, NEW i \in Hosts, HostStep(j, i) PROVE FALSE
      BY <3>2, HostStepTurns DEF OthersKept, ClusterInvariant
    <3>3. CASE PurgeList \/ PurgeLive
      BY <3>3 DEF PurgeList, PurgeLive, nodeVars
    <3>4. CASE DeleteBackup
      BY <3>4 DEF DeleteBackup
    <3>5. ASSUME NEW i \in Hosts, Join(i) \/ Leave(i) PROVE FALSE
      BY <3>5 DEF Join, Leave, nodeVars
    <3> QED BY <3>1, <3>2, <3>3, <3>4, <3>5 DEF Next, RunStep
  <2>2. backup' = [backup EXCEPT ![g] = NoBackup] /\ g \in purge.gone /\ purge.pc = "purging"
    BY <2>1 DEF PurgeNode
  <2>3. h = g
    BY <2>2 DEF ClusterInvariant, TypeOK
  <2> QED BY <2>2, <2>3 DEF ClusterInvariant, PurgeFits
<1> QED
  BY <1>1, ClusterInvariantHolds, PTL DEF Spec, OnlyGonePurged
=============================================================================
