------------------------ MODULE ClusterRestoreProofs ------------------------
(***************************************************************************)
(* Theorems about the restore, for any rings, requests, sections, batch    *)
(* sizes, runs and faults.                                                 *)
(***************************************************************************)
EXTENDS ClusterRestore, FiniteSetTheorems, TLAPS

-----------------------------------------------------------------------------
(* The order of the nodes.                                                 *)

\* The elements that come before one of a finite set of numbers.
Earlier(set, key, i) == {j \in set : Before(key, j, i)}

\* The number of elements that come before one tells the elements apart.
LEMMA RanksDiffer ==
  ASSUME NEW set, set \subseteq Int, IsFiniteSet(set), NEW key \in [set -> Int],
         NEW i \in set, NEW j \in set, i # j
  PROVE  Cardinality(Earlier(set, key, i)) # Cardinality(Earlier(set, key, j))
<1>1. ASSUME NEW a \in set, NEW b \in set, Before(key, a, b)
      PROVE  Cardinality(Earlier(set, key, a)) # Cardinality(Earlier(set, key, b))
  <2>1. key[a] \in Int /\ key[b] \in Int /\ a \in Int /\ b \in Int
    OBVIOUS
  <2>2. Earlier(set, key, a) \subseteq Earlier(set, key, b)
    <3> SUFFICES ASSUME NEW c \in set, Before(key, c, a) PROVE Before(key, c, b)
      BY DEF Earlier
    <3>1. key[c] \in Int /\ c \in Int
      OBVIOUS
    <3> QED BY <1>1, <2>1, <3>1 DEF Before
  <2>3. a \in Earlier(set, key, b) /\ a \notin Earlier(set, key, a)
    BY <1>1, <2>1 DEF Earlier, Before
  <2>4. IsFiniteSet(Earlier(set, key, b))
    BY FS_Subset DEF Earlier
  <2> QED BY <2>2, <2>3, <2>4, FS_Subset
<1>2. Before(key, i, j) \/ Before(key, j, i)
  <2>1. key[i] \in Int /\ key[j] \in Int /\ i \in Int /\ j \in Int
    OBVIOUS
  <2> QED BY <2>1 DEF Before
<1> QED BY <1>1, <1>2

\* Every place of the order is taken.
LEMMA NthExists ==
  ASSUME NEW set, set \subseteq Int, IsFiniteSet(set), NEW key \in [set -> Int],
         NEW k \in 1 .. Cardinality(set)
  PROVE  /\ Nth(set, key, k) \in set
         /\ Cardinality(Earlier(set, key, Nth(set, key, k))) = k - 1
<1> DEFINE n == Cardinality(set)
           rank == [i \in set |-> Cardinality(Earlier(set, key, i))]
<1>1. n \in Nat
  BY FS_CardinalityType
<1>2. ASSUME NEW i \in set PROVE Cardinality(Earlier(set, key, i)) \in 0 .. n - 1
  <2>1. Earlier(set, key, i) \subseteq set /\ i \notin Earlier(set, key, i)
    <3>1. key[i] \in Int /\ i \in Int
      OBVIOUS
    <3> QED BY <3>1 DEF Earlier, Before
  <2>2. Earlier(set, key, i) # set
    BY <2>1
  <2>3. /\ IsFiniteSet(Earlier(set, key, i))
        /\ Cardinality(Earlier(set, key, i)) <= n
        /\ Cardinality(Earlier(set, key, i)) # n
    BY <2>1, <2>2, FS_Subset
  <2>4. Cardinality(Earlier(set, key, i)) \in Nat
    BY <2>3, FS_CardinalityType
  <2> QED BY <1>1, <2>3, <2>4
<1>3. rank \in Injection(set, 0 .. n - 1)
  <2>1. rank \in [set -> 0 .. n - 1]
    BY <1>2
  <2>2. ASSUME NEW i \in set, NEW j \in set, rank[i] = rank[j] PROVE i = j
    BY <2>2, RanksDiffer
  <2> QED BY <2>1, <2>2 DEF Injection, IsInjective
<1>4. IsFiniteSet(0 .. n - 1) /\ Cardinality(0 .. n - 1) = n
  <2>1. n - 1 \in Int /\ 0 \in Int
    BY <1>1
  <2>2. Cardinality(0 .. n - 1) = IF 0 > n - 1 THEN 0 ELSE (n - 1) - 0 + 1
    BY <2>1, FS_Interval
  <2>3. IsFiniteSet(0 .. n - 1)
    BY <2>1, FS_Interval
  <2> HIDE DEF n
  <2> QED BY <1>1, <2>2, <2>3
<1>5. rank \in Surjection(set, 0 .. n - 1)
  <2> HIDE DEF rank, n
  <2> QED BY <1>3, <1>4, FS_Injection DEF n
<1>6. PICK elem \in set : rank[elem] = k - 1
  <2>1. k - 1 \in 0 .. n - 1
    BY <1>1
  <2> QED BY <1>5, <2>1 DEF Surjection
<1>7. \E i \in set : Cardinality({j \in set : Before(key, j, i)}) = k - 1
  BY <1>6 DEF Earlier
<1> QED BY <1>7 DEF Nth, Earlier

\* Different places are taken by different elements.
LEMMA NthDiffer ==
  ASSUME NEW set, set \subseteq Int, IsFiniteSet(set), NEW key \in [set -> Int],
         NEW k \in 1 .. Cardinality(set), NEW m \in 1 .. Cardinality(set), k # m
  PROVE  Nth(set, key, k) # Nth(set, key, m)
<1>1. Cardinality(set) \in Nat
  BY FS_CardinalityType
<1>2. k - 1 # m - 1
  BY <1>1
<1>3. Cardinality(Earlier(set, key, Nth(set, key, k))) = k - 1
  BY NthExists
<1>4. Cardinality(Earlier(set, key, Nth(set, key, m))) = m - 1
  BY NthExists
<1> QED BY <1>2, <1>3, <1>4

\* Every element has its place.
LEMMA NthCovers ==
  ASSUME NEW set, set \subseteq Int, IsFiniteSet(set), NEW key \in [set -> Int],
         NEW i \in set
  PROVE  \E k \in 1 .. Cardinality(set) : Nth(set, key, k) = i
<1> DEFINE n == Cardinality(set)
           place == [k \in 1 .. n |-> Nth(set, key, k)]
<1>1. n \in Nat
  BY FS_CardinalityType
<1>2. place \in Injection(1 .. n, set)
  <2>1. place \in [1 .. n -> set]
    BY NthExists
  <2>2. \A k, m \in 1 .. n : k # m => place[k] # place[m]
    BY NthDiffer
  <2> QED BY <2>1, <2>2 DEF Injection, IsInjective
<1>3. Cardinality(1 .. n) = n
  BY <1>1, FS_Interval
<1>4. place \in Surjection(1 .. n, set)
  <2> HIDE DEF place
  <2> QED BY <1>2, <1>3, FS_Injection DEF n
<1>5. PICK k \in 1 .. n : place[k] = i
  BY <1>4 DEF Surjection
<1> QED BY <1>5

-----------------------------------------------------------------------------
(* The mapping.                                                            *)

\* The fields of a request.
LEMMA RequestTypes ==
  ASSUME NEW r \in Scenarios
  PROVE  /\ r.mode \in {"seed", "list", "pods"}
         /\ r.backup \in Rings /\ r.target \in Rings
         /\ r.lines \in Seq([seed : BOOLEAN, target : Nodes, source : Nodes])
         /\ r.loader \in BOOLEAN /\ r.keep_auth \in BOOLEAN
         /\ r.seeds \subseteq Nodes
         /\ \A h \in DOMAIN r.stored : r.stored[h] \in {"full", "empty", "missing"}
         /\ Hosts(r.backup) \subseteq DOMAIN r.stored
         /\ \A k \in DOMAIN r.lines : r.lines[k].source \in DOMAIN r.stored
<1>1. r \in Requests
  BY ScenariosAssumption
<1>2. PICK hosts \in SUBSET Nodes : r.stored \in [hosts -> {"full", "empty", "missing"}]
  BY <1>1 DEF Requests
<1>3. \A h \in DOMAIN r.stored : r.stored[h] \in {"full", "empty", "missing"}
  BY <1>2
<1> QED BY <1>1, <1>3 DEF Requests

\* The nodes of a ring.
LEMMA RingTypes ==
  ASSUME NEW ring \in Rings
  PROVE  /\ Len(ring) \in Nat \ {0} /\ DOMAIN ring = 1 .. Len(ring)
         /\ DOMAIN ring \subseteq Int /\ IsFiniteSet(DOMAIN ring)
         /\ Cardinality(DOMAIN ring) = Len(ring)
         /\ \A i \in DOMAIN ring : /\ ring[i].host \in Nodes /\ ring[i].rack \in Int
                                   /\ ring[i].tokens[1] \in Int
         /\ \A i, j \in DOMAIN ring : i # j => ring[i].host # ring[j].host
         /\ Hosts(ring) \subseteq Nodes
<1> DEFINE NodeRecords == [host : Nodes, rack : Int, tokens : Seq(Int)]
<1>1. ring \in Seq(NodeRecords) /\ ring # <<>>
  BY DEF Rings
<1>2. Len(ring) \in Nat \ {0} /\ DOMAIN ring = 1 .. Len(ring)
  <2> HIDE DEF NodeRecords
  <2> QED BY <1>1
<1>3. \A i \in DOMAIN ring : ring[i] \in NodeRecords
  <2> HIDE DEF NodeRecords
  <2> QED BY <1>1
<1>4. IsFiniteSet(DOMAIN ring) /\ Cardinality(DOMAIN ring) = Len(ring)
  BY <1>2, FS_Interval
<1>5. ASSUME NEW i \in DOMAIN ring PROVE ring[i].tokens[1] \in Int
  <2>1. ring[i].tokens \in Seq(Int) /\ ring[i].tokens # <<>>
    BY <1>3 DEF Rings
  <2> QED BY <2>1
<1>6. \A i, j \in DOMAIN ring : i # j => ring[i].host # ring[j].host
  BY DEF Rings
<1> QED BY <1>2, <1>3, <1>4, <1>5, <1>6 DEF Hosts

\* A ring has as many hosts as nodes.
LEMMA HostsCounted ==
  ASSUME NEW ring \in Rings
  PROVE  IsFiniteSet(Hosts(ring)) /\ Cardinality(Hosts(ring)) = Len(ring)
<1> DEFINE name == [i \in DOMAIN ring |-> ring[i].host]
<1>1. name \in Surjection(DOMAIN ring, Hosts(ring))
  BY DEF Surjection, Hosts
<1>2. name \in Injection(DOMAIN ring, Hosts(ring))
  BY RingTypes DEF Injection, IsInjective, Hosts
<1> HIDE DEF name
<1> QED BY <1>1, <1>2, RingTypes, FS_Surjection

\* Sorting the nodes of a ring permutes them.
LEMMA Sorted ==
  ASSUME NEW ring \in Rings, NEW key \in [DOMAIN ring -> Int]
  PROVE  /\ DOMAIN SortedBy(ring, key) = DOMAIN ring
         /\ \A k \in DOMAIN ring : \E i \in DOMAIN ring : SortedBy(ring, key)[k] = ring[i]
         /\ \A i \in DOMAIN ring : \E k \in DOMAIN ring : SortedBy(ring, key)[k] = ring[i]
         /\ \A k, m \in DOMAIN ring :
                k # m => SortedBy(ring, key)[k].host # SortedBy(ring, key)[m].host
<1> DEFINE at(k) == Nth(DOMAIN ring, key, k)
<1>1. DOMAIN ring = 1 .. Cardinality(DOMAIN ring)
  BY RingTypes
<1>2. \A k \in DOMAIN ring : at(k) \in DOMAIN ring
  BY <1>1, RingTypes, NthExists
<1>3. \A k, m \in DOMAIN ring : k # m => at(k) # at(m)
  BY <1>1, RingTypes, NthDiffer
<1>4. \A i \in DOMAIN ring : \E k \in DOMAIN ring : at(k) = i
  BY <1>1, RingTypes, NthCovers
<1>5. SortedBy(ring, key) = [k \in DOMAIN ring |-> ring[at(k)]]
  BY DEF SortedBy
<1>6. \A i, j \in DOMAIN ring : i # j => ring[i].host # ring[j].host
  BY RingTypes
<1> HIDE DEF at
<1> QED BY <1>2, <1>3, <1>4, <1>5, <1>6

\* What pairs the nodes of two rings that have as many.
Pairing(map, backup, target) ==
  /\ map \in Seq(Entries) /\ Len(map) = Len(backup)
  /\ \A k \in DOMAIN map : Single(map[k].sources)
  /\ \A k, m \in DOMAIN map : k # m =>
         /\ map[k].target # map[m].target
         /\ map[k].sources \intersect map[m].sources = {}
  /\ UNION {map[k].sources : k \in DOMAIN map} = Hosts(backup)
  /\ {map[k].target : k \in DOMAIN map} = Hosts(target)

LEMMA ZipPairs ==
  ASSUME NEW backup \in Rings, NEW target \in Rings, Len(target) = Len(backup),
         NEW kb \in [DOMAIN backup -> Int], NEW kt \in [DOMAIN target -> Int]
  PROVE  Pairing(Zip(SortedBy(target, kt), SortedBy(backup, kb)), backup, target)
<1> DEFINE B == SortedBy(backup, kb)
           T == SortedBy(target, kt)
           map == Zip(T, B)
           n == Len(backup)
<1>1. n \in Nat /\ DOMAIN backup = 1 .. n /\ DOMAIN target = 1 .. n
  BY RingTypes
<1>2. /\ DOMAIN B = DOMAIN backup
      /\ \A k \in DOMAIN backup : \E i \in DOMAIN backup : B[k] = backup[i]
      /\ \A i \in DOMAIN backup : \E k \in DOMAIN backup : B[k] = backup[i]
      /\ \A k, m \in DOMAIN backup : k # m => B[k].host # B[m].host
  BY Sorted
<1>3. /\ \A k \in DOMAIN target : \E i \in DOMAIN target : T[k] = target[i]
      /\ \A i \in DOMAIN target : \E k \in DOMAIN target : T[k] = target[i]
      /\ \A k, m \in DOMAIN target : k # m => T[k].host # T[m].host
  BY Sorted
<1>4. \A i \in 1 .. n : backup[i].host \in Nodes /\ target[i].host \in Nodes
  BY <1>1, RingTypes
<1> HIDE DEF B, T, n
<1>5. map = [k \in 1 .. n |-> [target |-> T[k].host, sources |-> {B[k].host}]]
  BY <1>1, <1>2 DEF Zip
<1>6. ASSUME NEW k \in 1 .. n PROVE T[k].host \in Nodes /\ B[k].host \in Nodes
  <2>1. PICK i \in 1 .. n : B[k] = backup[i]
    BY <1>1, <1>2
  <2>2. PICK j \in 1 .. n : T[k] = target[j]
    BY <1>1, <1>3
  <2> QED BY <1>4, <2>1, <2>2
<1>7. map \in Seq(Entries) /\ Len(map) = n /\ DOMAIN map = 1 .. n
  <2>1. map \in [1 .. n -> Entries]
    BY <1>5, <1>6 DEF Entries
  <2> HIDE DEF map
  <2> QED BY <1>1, <2>1
<1>8. \A k \in 1 .. n : map[k].target = T[k].host /\ map[k].sources = {B[k].host}
  BY <1>5
<1> HIDE DEF map
<1>9. \A k \in DOMAIN map : Single(map[k].sources)
  BY <1>6, <1>7, <1>8 DEF Single
<1>10. ASSUME NEW k \in DOMAIN map, NEW m \in DOMAIN map, k # m
       PROVE  /\ map[k].target # map[m].target
              /\ map[k].sources \intersect map[m].sources = {}
  <2>1. k \in 1 .. n /\ m \in 1 .. n /\ T[k].host # T[m].host /\ B[k].host # B[m].host
    BY <1>1, <1>2, <1>3, <1>7, <1>10
  <2>2. {B[k].host} \intersect {B[m].host} = {}
    BY <2>1
  <2> QED BY <1>8, <2>1, <2>2
<1>11. UNION {map[k].sources : k \in DOMAIN map} = Hosts(backup)
  <2>1. ASSUME NEW k \in DOMAIN map, NEW h \in map[k].sources PROVE h \in Hosts(backup)
    <3>1. h = B[k].host /\ k \in DOMAIN backup
      BY <1>1, <1>7, <1>8, <2>1
    <3> QED BY <1>2, <3>1 DEF Hosts
  <2>2. ASSUME NEW i \in DOMAIN backup
        PROVE  \E k \in DOMAIN map : backup[i].host \in map[k].sources
    <3>1. PICK k \in DOMAIN backup : B[k] = backup[i]
      BY <1>2
    <3> QED BY <1>1, <1>7, <1>8, <3>1
  <2> QED BY <2>1, <2>2 DEF Hosts
<1>12. {map[k].target : k \in DOMAIN map} = Hosts(target)
  <2>1. ASSUME NEW k \in DOMAIN map PROVE map[k].target \in Hosts(target)
    <3>1. map[k].target = T[k].host /\ k \in DOMAIN target
      BY <1>1, <1>7, <1>8
    <3>2. PICK i \in DOMAIN target : T[k] = target[i]
      BY <1>3, <3>1
    <3> QED BY <3>1, <3>2 DEF Hosts
  <2>2. ASSUME NEW i \in DOMAIN target
        PROVE  \E k \in DOMAIN map : target[i].host = map[k].target
    <3>1. PICK k \in DOMAIN target : T[k] = target[i]
      BY <1>3
    <3> QED BY <1>1, <1>7, <1>8, <3>1
  <2> QED BY <2>1, <2>2 DEF Hosts
<1>13. Pairing(map, backup, target)
  BY <1>7, <1>9, <1>10, <1>11, <1>12 DEF Pairing, n
<1> QED BY <1>13 DEF map, T, B

-----------------------------------------------------------------------------
(* The list that is dealt out.                                             *)

LEMMA DivMod ==
  ASSUME NEW x \in Int, NEW n \in Int, n > 0
  PROVE  x = n * (x \div n) + (x % n) /\ x \div n \in Int /\ (x % n) \in 0 .. n - 1
<1> DEFINE q == x \div n
           r == (x % n)
<1>1. q \in Int /\ r \in Int /\ r \in 0 .. n - 1
  OBVIOUS
<1>2. r = x - n * q
  BY Z3
<1> HIDE DEF q, r
<1>3. x = n * q + r
  BY <1>1, <1>2
<1>4. x = n * q + r /\ q \in Int /\ r \in 0 .. n - 1
  BY <1>1, <1>3
<1> QED BY <1>4, Zenon DEF q, r

LEMMA ModIs ==
  ASSUME NEW x \in Int, NEW n \in Nat \ {0}, NEW q \in Int, NEW r \in 0 .. n - 1, x = n * q + r
  PROVE  (x % n) = r
OBVIOUS

LEMMA ModShift ==
  ASSUME NEW x \in Nat, NEW n \in Nat \ {0}, NEW d \in Int, (x % n) + d \in 0 .. n - 1
  PROVE  (x + d) % n = (x % n) + d
OBVIOUS

\* A number that is not its own remainder is the remainder of a smaller one.
LEMMA ModBack ==
  ASSUME NEW x \in Nat, NEW n \in Nat \ {0}
  PROVE  /\ (x % n) <= x
         /\ x # (x % n) => x >= n + (x % n) /\ (x - n) % n = (x % n)
<1> DEFINE q == x \div n
           r == (x % n)
<1>1. q \in Int /\ r \in 0 .. n - 1 /\ x = n * q + r
  BY DivMod
<1> HIDE DEF q, r
<1>2. q >= 0
  <2> SUFFICES ASSUME q <= -1 PROVE FALSE
    BY <1>1
  <2>1. n * q <= -n
    BY <1>1
  <2> QED BY <1>1, <2>1
<1>3. n * q >= 0
  BY <1>1, <1>2
<1>4. ASSUME x # r PROVE x >= n + r /\ (x - n) % n = r
  <2>1. q >= 1
    BY <1>1, <1>2, <1>4
  <2>2. n * q >= n
    BY <1>1, <2>1
  <2>3. x - n = n * (q - 1) + r
    BY <1>1
  <2>4. x - n \in Int /\ q - 1 \in Int
    BY <1>1
  <2>5. (x - n) % n = r
    BY <1>1, <2>3, <2>4, ModIs
  <2> QED BY <1>1, <2>2, <2>5
<1> QED BY <1>1, <1>3, <1>4 DEF r

\* The places of a list of N elements that are dealt to the i-th of n groups.
Dealt(N, n, i) == {m \in 1 .. N : (m - 1) % n = i - 1}

LEMMA DealtFinite ==
  ASSUME NEW N \in Nat, NEW n \in Nat \ {0}, NEW i \in 1 .. n
  PROVE  IsFiniteSet(Dealt(N, n, i)) /\ Cardinality(Dealt(N, n, i)) \in Nat
<1>1. IsFiniteSet(1 .. N)
  BY FS_Interval
<1>2. IsFiniteSet(Dealt(N, n, i))
  BY <1>1, FS_Subset DEF Dealt
<1> QED BY <1>2, FS_CardinalityType

\* The later groups get as much as the earlier ones, or one less.
LEMMA DealtEvenly ==
  ASSUME NEW N \in Nat, NEW n \in Nat \ {0}, NEW i \in 1 .. n, NEW j \in 1 .. n, i < j
  PROVE  /\ Cardinality(Dealt(N, n, j)) <= Cardinality(Dealt(N, n, i))
         /\ Cardinality(Dealt(N, n, i)) <= Cardinality(Dealt(N, n, j)) + 1
<1> DEFINE I == Dealt(N, n, i)
           J == Dealt(N, n, j)
           down == [m \in J |-> m + (i - j)]
           up == [m \in I \ {i} |-> m - n + (j - i)]
<1>1. /\ IsFiniteSet(I) /\ IsFiniteSet(J)
      /\ Cardinality(I) \in Nat /\ Cardinality(J) \in Nat
  BY DealtFinite
<1>2. ASSUME NEW m \in J PROVE m + (i - j) \in I
  <2> DEFINE x == m - 1
             d == i - j
  <2>1. m \in 1 .. N /\ x \in Nat /\ d \in Int /\ x % n = j - 1
    BY DEF Dealt
  <2>2. m = x + 1 /\ i = j + d
    BY <2>1
  <2> HIDE DEF x, d
  <2>3. j - 1 <= x
    BY <2>1, ModBack
  <2>4. (x % n) + d = i - 1 /\ i - 1 \in 0 .. n - 1
    BY <2>1, <2>2
  <2>5. (x + d) % n = (x % n) + d
    BY <2>1, <2>4, ModShift
  <2>6. (m + d) - 1 = x + d /\ m + d \in 1 .. N
    BY <2>1, <2>2, <2>3
  <2>7. m + d \in I
    BY <2>4, <2>5, <2>6 DEF Dealt
  <2> QED BY <2>7 DEF d
<1>3. ASSUME NEW m \in I \ {i} PROVE m - n + (j - i) \in J
  <2> DEFINE x == m - 1
             d == j - i
  <2>1. m \in 1 .. N /\ x \in Nat /\ d \in Int /\ x % n = i - 1
    BY DEF Dealt
  <2>2. m = x + 1 /\ j = i + d
    BY <2>1
  <2>3. x # x % n
    BY <2>1
  <2> HIDE DEF x, d
  <2>4. x >= n + (x % n) /\ (x - n) % n = x % n
    BY <2>1, <2>3, ModBack
  <2>5. x - n \in Nat
    <3>1. x % n >= 0 /\ x % n \in Int
      BY <2>1
    <3> QED BY <2>1, <2>4, <3>1
  <2>6. ((x - n) % n) + d = j - 1 /\ j - 1 \in 0 .. n - 1
    BY <2>1, <2>2, <2>4
  <2>7. ((x - n) + d) % n = ((x - n) % n) + d
    BY <2>1, <2>5, <2>6, ModShift
  <2>8. (m - n + d) - 1 = (x - n) + d /\ m - n + d \in 1 .. N
    BY <2>1, <2>2, <2>4
  <2>9. m - n + d \in J
    BY <2>6, <2>7, <2>8 DEF Dealt
  <2> QED BY <2>9 DEF d
<1>4. down \in Injection(J, I)
  <2>1. \A m \in J : m \in Int
    BY DEF Dealt
  <2> QED BY <1>2, <2>1 DEF Injection, IsInjective
<1>5. up \in Injection(I \ {i}, J)
  <2>1. \A m \in I \ {i} : m \in Int
    BY DEF Dealt
  <2> HIDE DEF I, J
  <2> QED BY <1>3, <2>1 DEF Injection, IsInjective
<1> HIDE DEF I, J, up, down
<1>6. Cardinality(J) <= Cardinality(I)
  BY <1>1, <1>4, FS_Injection
<1>7. Cardinality(I \ {i}) <= Cardinality(J)
  BY <1>1, <1>5, FS_Injection
<1>8. Cardinality(I \ {i}) = IF i \in I THEN Cardinality(I) - 1 ELSE Cardinality(I)
  BY <1>1, FS_RemoveElement
<1>9. Cardinality(I) <= Cardinality(J) + 1
  BY <1>1, <1>7, <1>8
<1> QED BY <1>6, <1>9 DEF I, J

\* An order of a finite set lists its elements once.
LEMMA OrderLists ==
  ASSUME NEW set, IsFiniteSet(set), NEW list \in Orders(set)
  PROVE  /\ Cardinality(set) \in Nat /\ list \in [1 .. Cardinality(set) -> set]
         /\ \A h \in set : \E k \in 1 .. Cardinality(set) : list[k] = h
         /\ \A k, m \in 1 .. Cardinality(set) : list[k] = list[m] => k = m
<1> DEFINE n == Cardinality(set)
<1>1. n \in Nat
  BY FS_CardinalityType
<1>2. list \in [1 .. n -> set] /\ \A h \in set : \E k \in 1 .. n : list[k] = h
  BY DEF Orders, Range
<1>3. list \in Surjection(1 .. n, set)
  BY <1>2 DEF Surjection
<1>4. IsFiniteSet(1 .. n) /\ Cardinality(1 .. n) = n
  BY <1>1, FS_Interval
<1>5. list \in Injection(1 .. n, set)
  BY <1>3, <1>4, FS_SurjSameCardinalityImpliesInj
<1> QED BY <1>1, <1>2, <1>5 DEF Injection, IsInjective

\* What spreads the nodes of one ring over nodes of the other.
Spread(map, backup, target) ==
  /\ map \in Seq(Entries)
  /\ \A k, m \in DOMAIN map : k # m =>
         /\ map[k].target # map[m].target
         /\ map[k].sources \intersect map[m].sources = {}
         /\ Cardinality(map[k].sources) - Cardinality(map[m].sources) \in -1 .. 1
  /\ UNION {map[k].sources : k \in DOMAIN map} = Hosts(backup)
  /\ {map[k].target : k \in DOMAIN map} \subseteq Hosts(target)
  /\ Len(map) <= Len(target)

\* The elements of the i-th group.
Group(list, N, n, i) == {list[k] : k \in Dealt(N, n, i)}

\* A group has as many elements as places are dealt to it.
LEMMA GroupCounted ==
  ASSUME NEW N \in Nat, NEW n \in Nat \ {0}, NEW i \in 1 .. n, NEW S, NEW list \in [1 .. N -> S],
         \A k, m \in 1 .. N : list[k] = list[m] => k = m
  PROVE  Cardinality(Group(list, N, n, i)) = Cardinality(Dealt(N, n, i))
<1> DEFINE D == Dealt(N, n, i)
           G == Group(list, N, n, i)
           f == [k \in D |-> list[k]]
<1>1. D \subseteq 1 .. N
  BY DEF Dealt
<1>2. f \in Surjection(D, G)
  BY DEF Surjection, Group
<1>3. f \in Injection(D, G)
  BY <1>1 DEF Injection, IsInjective, Group
<1>4. IsFiniteSet(D)
  BY DealtFinite
<1> HIDE DEF D, G, f
<1>5. Cardinality(G) = Cardinality(D)
  BY <1>2, <1>3, <1>4, FS_Surjection
<1> QED BY <1>5 DEF D, G

LEMMA DealtSpreads ==
  ASSUME NEW backup \in Rings, NEW target \in Rings,
         NEW map \in map_different_topologies(backup, target)
  PROVE  Spread(map, backup, target)
<1> DEFINE N == Len(backup)
           n == IF Len(backup) >= Len(target) THEN Len(target) ELSE Len(backup)
<1>1. /\ N \in Nat \ {0} /\ n \in Nat \ {0} /\ n <= N /\ n <= Len(target)
      /\ Len(target) \in Nat
  BY RingTypes
<1>2. PICK list \in Orders(Hosts(backup)), hosts \in Orders(Hosts(target)) :
        map = [i \in 1 .. n |-> [target |-> hosts[i], sources |-> chunk(list, n)[i]]]
  BY DEF map_different_topologies
<1>3. /\ list \in [1 .. N -> Hosts(backup)]
      /\ \A h \in Hosts(backup) : \E k \in 1 .. N : list[k] = h
      /\ \A k, m \in 1 .. N : list[k] = list[m] => k = m
  BY HostsCounted, OrderLists
<1>4. /\ hosts \in [1 .. Len(target) -> Hosts(target)]
      /\ \A k, m \in 1 .. Len(target) : hosts[k] = hosts[m] => k = m
  BY HostsCounted, OrderLists
<1>5. Hosts(backup) \subseteq Nodes /\ Hosts(target) \subseteq Nodes
  BY RingTypes
<1> HIDE DEF N, n
<1>6. ASSUME NEW i \in 1 .. n
      PROVE  /\ map[i].target = hosts[i] /\ hosts[i] \in Hosts(target)
             /\ map[i].sources = Group(list, N, n, i)
             /\ map[i] = [target |-> hosts[i], sources |-> Group(list, N, n, i)]
             /\ Group(list, N, n, i) \subseteq Hosts(backup)
  <2>1. chunk(list, n)[i] = Group(list, N, n, i)
    BY <1>3 DEF chunk, Dealt, Group
  <2>2. i \in 1 .. Len(target)
    BY <1>1
  <2>3. Group(list, N, n, i) \subseteq Hosts(backup)
    BY <1>3 DEF Dealt, Group
  <2> QED BY <1>2, <1>4, <2>1, <2>2, <2>3
<1>8. map \in Seq(Entries) /\ Len(map) = n /\ DOMAIN map = 1 .. n
  <2>1. ASSUME NEW i \in 1 .. n PROVE map[i] \in Entries
    <3>1. hosts[i] \in Nodes /\ Group(list, N, n, i) \in SUBSET Nodes
      BY <1>5, <1>6
    <3>2. map[i] = [target |-> hosts[i], sources |-> Group(list, N, n, i)]
      BY <1>6
    <3> QED BY <3>1, <3>2 DEF Entries
  <2>2. map \in [1 .. n -> Entries]
    BY <1>2, <2>1
  <2> QED BY <1>1, <2>2
<1>9. ASSUME NEW k \in DOMAIN map, NEW m \in DOMAIN map, k # m
      PROVE  /\ map[k].target # map[m].target
             /\ map[k].sources \intersect map[m].sources = {}
             /\ Cardinality(map[k].sources) - Cardinality(map[m].sources) \in -1 .. 1
  <2>0. k \in 1 .. n /\ m \in 1 .. n /\ k \in 1 .. Len(target) /\ m \in 1 .. Len(target)
    BY <1>1, <1>8
  <2>1. map[k].target # map[m].target
    BY <1>4, <1>6, <1>9, <2>0
  <2>2. ASSUME NEW h \in map[k].sources, h \in map[m].sources PROVE FALSE
    <3>0. h \in Group(list, N, n, k) /\ h \in Group(list, N, n, m)
      BY <1>6, <2>0, <2>2
    <3>1. PICK a \in Dealt(N, n, k) : h = list[a]
      BY <3>0 DEF Group
    <3>2. PICK b \in Dealt(N, n, m) : h = list[b]
      BY <3>0 DEF Group
    <3>3. a \in 1 .. N /\ b \in 1 .. N /\ (a - 1) % n = k - 1 /\ (b - 1) % n = m - 1
      BY DEF Dealt
    <3>4. a = b
      BY <1>3, <3>1, <3>2, <3>3
    <3> QED BY <1>9, <2>0, <3>3, <3>4
  <2>3. /\ Cardinality(map[k].sources) = Cardinality(Dealt(N, n, k))
        /\ Cardinality(map[m].sources) = Cardinality(Dealt(N, n, m))
    <3>1. \A i \in 1 .. n : Cardinality(Group(list, N, n, i)) = Cardinality(Dealt(N, n, i))
      BY <1>1, <1>3, GroupCounted
    <3> QED BY <1>6, <2>0, <3>1
  <2>4. Cardinality(Dealt(N, n, k)) \in Nat /\ Cardinality(Dealt(N, n, m)) \in Nat
    BY <1>1, <2>0, DealtFinite
  <2>5. Cardinality(Dealt(N, n, k)) - Cardinality(Dealt(N, n, m)) \in -1 .. 1
    <3>1. CASE k < m
      BY <1>1, <2>0, <2>4, <3>1, DealtEvenly
    <3>2. CASE m < k
      BY <1>1, <2>0, <2>4, <3>2, DealtEvenly
    <3> QED BY <1>9, <2>0, <3>1, <3>2
  <2> QED BY <2>1, <2>2, <2>3, <2>5
<1>10. UNION {map[k].sources : k \in DOMAIN map} = Hosts(backup)
  <2>1. ASSUME NEW h \in Hosts(backup) PROVE \E k \in DOMAIN map : h \in map[k].sources
    <3>1. PICK m \in 1 .. N : list[m] = h
      BY <1>3
    <3> DEFINE x == m - 1
               r == x % n
    <3>2. x \in Int /\ n \in Int /\ n > 0
      BY <1>1
    <3>3. r \in 0 .. n - 1
      <4> HIDE DEF x
      <4> QED BY <3>2, DivMod
    <3>4. m \in Dealt(N, n, r + 1)
      <4>1. (m - 1) % n = r
        OBVIOUS
      <4> HIDE DEF r
      <4>2. (r + 1) - 1 = r
        BY <1>1, <3>3
      <4> QED BY <4>1, <4>2 DEF Dealt
    <3>5. r + 1 \in 1 .. n
      <4> HIDE DEF r
      <4> QED BY <1>1, <3>3
    <3> HIDE DEF r
    <3>6. list[m] \in Group(list, N, n, r + 1)
      BY <3>4 DEF Group
    <3> QED BY <1>6, <1>8, <3>1, <3>5, <3>6
  <2>2. ASSUME NEW k \in DOMAIN map PROVE map[k].sources \subseteq Hosts(backup)
    <3> QED BY <1>6, <1>8
  <2> QED BY <2>1, <2>2
<1>11. {map[k].target : k \in DOMAIN map} \subseteq Hosts(target)
  BY <1>6, <1>8
<1> QED BY <1>1, <1>8, <1>9, <1>10, <1>11 DEF Spread

-----------------------------------------------------------------------------
(* The nodes of a rack.                                                    *)

\* A set of positive numbers has a least one.
LEMMA LeastOne ==
  ASSUME NEW S, S \subseteq Nat, S # {}
  PROVE  \E p \in S : \A q \in S : p <= q
<1>1. PICK p \in S : \A q \in S : ~(<<q, p>> \in OpToRel(<, Nat))
  BY NatLessThanWellFounded, WFMin
<1>2. ASSUME NEW q \in S, q < p PROVE FALSE
  BY <1>1, <1>2 DEF OpToRel
<1> QED BY <1>2

\* The p-th rack of a ring in alphabetical order, the nodes of the racks before it,
\* and its own nodes.
RackNo(ring, p) == Nth(Racks(ring), [r \in Racks(ring) |-> r], p)
NodesBelow(ring, p) == {i \in DOMAIN ring : ring[i].rack < RackNo(ring, p)}
NodesOf(ring, p) == {i \in DOMAIN ring : ring[i].rack = RackNo(ring, p)}
RackCount(ring) == Cardinality(Racks(ring))

\* The racks are numbered from 1 on.
LEMMA RacksNumbered ==
  ASSUME NEW ring \in Rings
  PROVE  /\ Racks(ring) \subseteq Int /\ IsFiniteSet(Racks(ring)) /\ RackCount(ring) \in Nat
         /\ \A p \in 1 .. RackCount(ring) :
               /\ RackNo(ring, p) \in Racks(ring)
               /\ Cardinality({r \in Racks(ring) : r < RackNo(ring, p)}) = p - 1
         /\ \A i \in DOMAIN ring : \E p \in 1 .. RackCount(ring) : ring[i].rack = RackNo(ring, p)
<1> DEFINE R == Racks(ring)
           id == [r \in R |-> r]
           rack == [i \in DOMAIN ring |-> ring[i].rack]
<1>1. R \subseteq Int
  BY RingTypes DEF Racks
<1>2. IsFiniteSet(R)
  <2>1. rack \in Surjection(DOMAIN ring, R)
    BY DEF Surjection, Racks
  <2> HIDE DEF rack
  <2> QED BY <2>1, RingTypes, FS_Surjection
<1>3. Cardinality(R) \in Nat
  BY <1>2, FS_CardinalityType
<1>4. id \in [R -> Int]
  BY <1>1
<1>5. ASSUME NEW p \in 1 .. Cardinality(R)
      PROVE  /\ Nth(R, id, p) \in R
             /\ Cardinality({r \in R : r < Nth(R, id, p)}) = p - 1
  <2> HIDE DEF R, id
  <2>1. Nth(R, id, p) \in R /\ Cardinality(Earlier(R, id, Nth(R, id, p))) = p - 1
    BY <1>1, <1>2, <1>4, NthExists
  <2>2. Earlier(R, id, Nth(R, id, p)) = {r \in R : r < Nth(R, id, p)}
    BY <1>1, <2>1 DEF Earlier, Before, id
  <2> QED BY <2>1, <2>2
<1>6. ASSUME NEW i \in DOMAIN ring
      PROVE  \E p \in 1 .. Cardinality(R) : ring[i].rack = Nth(R, id, p)
  <2>1. ring[i].rack \in R
    BY DEF Racks
  <2> HIDE DEF R, id
  <2> QED BY <1>1, <1>2, <1>4, <2>1, NthCovers
<1> QED BY <1>1, <1>2, <1>3, <1>5, <1>6 DEF RackNo, RackCount

\* The numbers of the racks follow their order.
LEMMA RacksAscend ==
  ASSUME NEW ring \in Rings, NEW p \in 1 .. RackCount(ring), NEW q \in 1 .. RackCount(ring), p < q
  PROVE  RackNo(ring, p) < RackNo(ring, q)
<1> DEFINE below(n) == {r \in Racks(ring) : r < RackNo(ring, n)}
<1>1. /\ RackNo(ring, p) \in Int /\ RackNo(ring, q) \in Int /\ Racks(ring) \subseteq Int
      /\ IsFiniteSet(Racks(ring)) /\ RackCount(ring) \in Nat
      /\ Cardinality(below(p)) = p - 1 /\ Cardinality(below(q)) = q - 1
  BY RacksNumbered
<1>2. ASSUME RackNo(ring, q) <= RackNo(ring, p) PROVE FALSE
  <2>1. below(q) \subseteq below(p)
    BY <1>1, <1>2
  <2>2. IsFiniteSet(below(p))
    BY <1>1, FS_Subset
  <2>3. Cardinality(below(q)) <= Cardinality(below(p))
    <3> HIDE DEF below
    <3> QED BY <2>1, <2>2, FS_Subset
  <2> QED BY <1>1, <2>3
<1> QED BY <1>1, <1>2

\* Between a rack and the next one there is no other.
LEMMA NoRackBetween ==
  ASSUME NEW ring \in Rings, NEW p \in 1 .. RackCount(ring), p + 1 \in 1 .. RackCount(ring),
         NEW i \in DOMAIN ring
  PROVE  ring[i].rack < RackNo(ring, p + 1) <=> ring[i].rack <= RackNo(ring, p)
<1>1. RackCount(ring) \in Nat /\ p \in Nat
  BY RacksNumbered
<1>2. PICK q \in 1 .. RackCount(ring) : ring[i].rack = RackNo(ring, q)
  BY RacksNumbered
<1>3. \A n \in 1 .. RackCount(ring) : RackNo(ring, n) \in Int
  BY RacksNumbered
<1>4. CASE q < p
  <2>1. RackNo(ring, q) < RackNo(ring, p) /\ RackNo(ring, q) < RackNo(ring, p + 1)
    BY <1>1, <1>4, RacksAscend
  <2> QED BY <1>2, <1>3, <2>1
<1>5. CASE q = p
  <2>1. RackNo(ring, p) < RackNo(ring, p + 1)
    BY <1>1, RacksAscend
  <2> QED BY <1>2, <1>3, <1>5, <2>1
<1>6. CASE q > p
  <2>1. RackNo(ring, p) < RackNo(ring, q)
    BY <1>6, RacksAscend
  <2>2. CASE q = p + 1
    BY <1>2, <1>3, <2>1, <2>2
  <2>3. CASE q > p + 1
    <3>1. RackNo(ring, p + 1) < RackNo(ring, q)
      BY <1>1, <2>3, RacksAscend
    <3> QED BY <1>2, <1>3, <2>1, <3>1
  <2> QED BY <1>1, <1>6, <2>2, <2>3
<1> QED BY <1>1, <1>4, <1>5, <1>6

\* The nodes of the racks up to one are those below the next one.
LEMMA RacksCounted ==
  ASSUME NEW ring \in Rings
  PROVE  /\ \A p \in 1 .. RackCount(ring) :
               /\ Cardinality(NodesBelow(ring, p)) \in Nat
               /\ Cardinality(NodesOf(ring, p)) \in Nat
               /\ IsFiniteSet(NodesBelow(ring, p)) /\ IsFiniteSet(NodesOf(ring, p))
               /\ NodesBelow(ring, p) \intersect NodesOf(ring, p) = {}
               /\ Cardinality(NodesBelow(ring, p) \union NodesOf(ring, p)) =
                     Cardinality(NodesBelow(ring, p)) + Cardinality(NodesOf(ring, p))
         /\ 1 \in 1 .. RackCount(ring) => Cardinality(NodesBelow(ring, 1)) = 0
         /\ \A p \in 1 .. RackCount(ring) : p + 1 \in 1 .. RackCount(ring) =>
               Cardinality(NodesBelow(ring, p + 1)) =
                 Cardinality(NodesBelow(ring, p)) + Cardinality(NodesOf(ring, p))
<1>1. \A i \in DOMAIN ring : ring[i].rack \in Int /\ ring[i].rack \in Racks(ring)
  BY RingTypes DEF Racks
<1>2. \A p \in 1 .. RackCount(ring) : RackNo(ring, p) \in Int
  BY RacksNumbered
<1>3. ASSUME NEW p \in 1 .. RackCount(ring)
      PROVE  /\ Cardinality(NodesBelow(ring, p)) \in Nat
             /\ Cardinality(NodesOf(ring, p)) \in Nat
             /\ IsFiniteSet(NodesBelow(ring, p)) /\ IsFiniteSet(NodesOf(ring, p))
             /\ NodesBelow(ring, p) \intersect NodesOf(ring, p) = {}
             /\ Cardinality(NodesBelow(ring, p) \union NodesOf(ring, p)) =
                   Cardinality(NodesBelow(ring, p)) + Cardinality(NodesOf(ring, p))
  <2>1. IsFiniteSet(NodesBelow(ring, p)) /\ IsFiniteSet(NodesOf(ring, p))
    BY RingTypes, FS_Subset DEF NodesBelow, NodesOf
  <2>2. NodesBelow(ring, p) \intersect NodesOf(ring, p) = {}
    BY <1>1, <1>2 DEF NodesBelow, NodesOf
  <2>3. Cardinality(NodesBelow(ring, p)) \in Nat /\ Cardinality(NodesOf(ring, p)) \in Nat
    BY <2>1, FS_CardinalityType
  <2>4. Cardinality(NodesBelow(ring, p) \union NodesOf(ring, p)) =
          Cardinality(NodesBelow(ring, p)) + Cardinality(NodesOf(ring, p)) - Cardinality({})
    BY <2>1, <2>2, FS_Union
  <2>5. Cardinality({}) = 0
    BY FS_EmptySet
  <2> QED BY <2>1, <2>2, <2>3, <2>4, <2>5
<1>4. ASSUME 1 \in 1 .. RackCount(ring) PROVE Cardinality(NodesBelow(ring, 1)) = 0
  <2> DEFINE below == {r \in Racks(ring) : r < RackNo(ring, 1)}
  <2>1. Cardinality(below) = 0 /\ IsFiniteSet(Racks(ring))
    BY <1>4, RacksNumbered
  <2>2. IsFiniteSet(below)
    BY <2>1, FS_Subset
  <2>3. below = {}
    <3> HIDE DEF below
    <3> QED BY <2>1, <2>2, FS_EmptySet
  <2>4. NodesBelow(ring, 1) = {}
    BY <1>1, <2>3 DEF NodesBelow
  <2> QED BY <2>4, FS_EmptySet
<1>5. ASSUME NEW p \in 1 .. RackCount(ring), p + 1 \in 1 .. RackCount(ring)
      PROVE  NodesBelow(ring, p + 1) = NodesBelow(ring, p) \union NodesOf(ring, p)
  <2>1. \A i \in DOMAIN ring : ring[i].rack < RackNo(ring, p + 1) <=> ring[i].rack <= RackNo(ring, p)
    BY <1>5, NoRackBetween
  <2>2. \A i \in DOMAIN ring : ring[i].rack <= RackNo(ring, p)
                               <=> ring[i].rack < RackNo(ring, p) \/ ring[i].rack = RackNo(ring, p)
    BY <1>1, <1>2
  <2> QED BY <2>1, <2>2 DEF NodesBelow, NodesOf
<1> QED BY <1>3, <1>4, <1>5

\* The counts of one rack follow those of all racks before it.
LEMMA CountsAscend ==
  ASSUME NEW ring \in Rings, NEW p \in 1 .. RackCount(ring), NEW q \in 1 .. RackCount(ring), p < q
  PROVE  Cardinality(NodesBelow(ring, p)) + Cardinality(NodesOf(ring, p))
           <= Cardinality(NodesBelow(ring, q))
<1>1. /\ RackNo(ring, p) < RackNo(ring, q)
      /\ RackNo(ring, p) \in Int /\ RackNo(ring, q) \in Int
  BY RacksAscend, RacksNumbered
<1>2. NodesBelow(ring, p) \union NodesOf(ring, p) \subseteq NodesBelow(ring, q)
  BY <1>1, RingTypes DEF NodesBelow, NodesOf
<1>3. Cardinality(NodesBelow(ring, p) \union NodesOf(ring, p)) <= Cardinality(NodesBelow(ring, q))
  BY <1>2, RacksCounted, FS_Subset
<1> QED BY <1>3, RacksCounted

\* Rings of the same topology have as many nodes below every rack.
LEMMA SameCounts ==
  ASSUME NEW backup \in Rings, NEW target \in Rings,
         rack_topology(backup) = rack_topology(target)
  PROVE  /\ RackCount(backup) = RackCount(target)
         /\ \A p \in 1 .. RackCount(backup) :
               /\ Cardinality(NodesOf(backup, p)) = Cardinality(NodesOf(target, p))
               /\ Cardinality(NodesBelow(backup, p)) = Cardinality(NodesBelow(target, p))
<1> DEFINE P == RackCount(backup)
<1>1. \A ring : rack_topology(ring) = [p \in 1 .. RackCount(ring) |-> Cardinality(NodesOf(ring, p))]
  BY DEF rack_topology, RackCount, NodesOf, RackNo
<1>2. P \in Nat /\ RackCount(target) \in Nat
  BY RacksNumbered
<1>3. 1 .. P = 1 .. RackCount(target)
  BY <1>1
<1>4. P = RackCount(target)
  BY <1>2, <1>3
<1>5. \A p \in 1 .. P : Cardinality(NodesOf(backup, p)) = Cardinality(NodesOf(target, p))
  BY <1>1, <1>4
<1> DEFINE Bad == {p \in 1 .. P : Cardinality(NodesBelow(backup, p)) # Cardinality(NodesBelow(target, p))}
<1>6. Bad = {}
  <2> SUFFICES ASSUME Bad # {} PROVE FALSE
    OBVIOUS
  <2>1. PICK p \in Bad : \A q \in Bad : p <= q
    <3>1. Bad \subseteq Nat
      BY <1>2
    <3> HIDE DEF Bad
    <3> QED BY <3>1, LeastOne
  <2>2. p \in 1 .. P /\ p \in 1 .. RackCount(target)
    BY <1>4
  <2>3. CASE p = 1
    BY <1>4, <2>2, <2>3, RacksCounted
  <2>4. CASE p # 1
    <3>1. PICK q \in 1 .. P : p = q + 1 /\ q \in 1 .. RackCount(target)
      <4>1. p - 1 \in 1 .. P /\ p = (p - 1) + 1
        BY <1>2, <2>2, <2>4
      <4> QED BY <1>4, <4>1
    <3>2. q \notin Bad
      BY <1>2, <2>1, <2>2, <3>1
    <3>3. Cardinality(NodesBelow(backup, q)) = Cardinality(NodesBelow(target, q))
      BY <3>2
    <3>4. Cardinality(NodesBelow(backup, q + 1)) =
            Cardinality(NodesBelow(backup, q)) + Cardinality(NodesOf(backup, q))
      BY <2>2, <3>1, RacksCounted
    <3>5. Cardinality(NodesBelow(target, q + 1)) =
            Cardinality(NodesBelow(target, q)) + Cardinality(NodesOf(target, q))
      BY <2>2, <3>1, RacksCounted
    <3> QED BY <1>5, <3>1, <3>3, <3>4, <3>5
  <2> QED BY <2>3, <2>4
<1> QED BY <1>4, <1>5, <1>6

\* Where the list of the nodes by rack has the nodes of a rack.
LEMMA RackPlace ==
  ASSUME NEW ring \in Rings, NEW k \in DOMAIN ring
  PROVE  \E p \in 1 .. RackCount(ring) :
            /\ tokenmap_to_nodes_per_rack(ring)[k].rack = RackNo(ring, p)
            /\ Cardinality(NodesBelow(ring, p)) <= k - 1
            /\ k - 1 < Cardinality(NodesBelow(ring, p)) + Cardinality(NodesOf(ring, p))
<1> DEFINE key == [i \in DOMAIN ring |-> ring[i].rack]
           i == Nth(DOMAIN ring, key, k)
           E == Earlier(DOMAIN ring, key, i)
<1>1. key \in [DOMAIN ring -> Int]
  BY RingTypes
<1>2. /\ DOMAIN ring \subseteq Int /\ IsFiniteSet(DOMAIN ring)
      /\ k \in 1 .. Cardinality(DOMAIN ring)
  BY RingTypes
<1>3. i \in DOMAIN ring /\ Cardinality(E) = k - 1
  <2> HIDE DEF key
  <2> QED BY <1>1, <1>2, NthExists
<1>4. tokenmap_to_nodes_per_rack(ring)[k] = ring[i]
  BY DEF tokenmap_to_nodes_per_rack, SortedBy
<1> HIDE DEF i
<1>5. PICK p \in 1 .. RackCount(ring) : ring[i].rack = RackNo(ring, p)
  BY <1>3, RacksNumbered
<1>6. \A j \in DOMAIN ring : ring[j].rack \in Int /\ j \in Int
  BY <1>2, RingTypes
<1>7. NodesBelow(ring, p) \subseteq E
  BY <1>3, <1>5, <1>6 DEF NodesBelow, Earlier, Before
<1>8. E \subseteq NodesBelow(ring, p) \union NodesOf(ring, p)
  BY <1>3, <1>5, <1>6 DEF NodesBelow, NodesOf, Earlier, Before
<1>9. i \in NodesOf(ring, p) /\ i \notin E
  BY <1>3, <1>5, <1>6 DEF NodesOf, Earlier, Before
<1>10. IsFiniteSet(E)
  BY <1>2, FS_Subset DEF Earlier
<1> HIDE DEF E
<1>11. Cardinality(NodesBelow(ring, p)) <= k - 1
  BY <1>3, <1>7, <1>10, FS_Subset
<1> DEFINE U == NodesBelow(ring, p) \union NodesOf(ring, p)
<1>12. IsFiniteSet(U) /\ E \subseteq U /\ E # U
  BY <1>8, <1>9, RacksCounted, FS_Union
<1>13. /\ Cardinality(U) = Cardinality(NodesBelow(ring, p)) + Cardinality(NodesOf(ring, p))
       /\ Cardinality(U) \in Nat
  BY RacksCounted
<1> HIDE DEF U
<1>14. Cardinality(E) <= Cardinality(U) /\ Cardinality(E) # Cardinality(U)
  BY <1>12, FS_Subset
<1>15. k - 1 \in Int
  BY <1>2
<1>16. k - 1 < Cardinality(NodesBelow(ring, p)) + Cardinality(NodesOf(ring, p))
  BY <1>3, <1>13, <1>14, <1>15
<1> QED BY <1>4, <1>5, <1>11, <1>16

\* Nodes of one rack are paired with nodes of one rack.
LEMMA RacksPaired ==
  ASSUME NEW backup \in Rings, NEW target \in Rings, Len(target) = Len(backup),
         rack_topology(backup) = rack_topology(target),
         NEW k \in 1 .. Len(backup), NEW m \in 1 .. Len(backup)
  PROVE  tokenmap_to_nodes_per_rack(target)[k].rack = tokenmap_to_nodes_per_rack(target)[m].rack
         <=> tokenmap_to_nodes_per_rack(backup)[k].rack = tokenmap_to_nodes_per_rack(backup)[m].rack
<1> DEFINE B == tokenmap_to_nodes_per_rack(backup)
           T == tokenmap_to_nodes_per_rack(target)
           P == RackCount(backup)
<1>1. ASSUME NEW n \in 1 .. Len(backup)
      PROVE  \E p \in 1 .. P : B[n].rack = RackNo(backup, p) /\ T[n].rack = RackNo(target, p)
  <2>0. n \in DOMAIN backup /\ n \in DOMAIN target /\ n - 1 \in Int
    BY RingTypes
  <2>1. PICK p \in 1 .. P : /\ B[n].rack = RackNo(backup, p)
                            /\ Cardinality(NodesBelow(backup, p)) <= n - 1
                            /\ n - 1 < Cardinality(NodesBelow(backup, p)) + Cardinality(NodesOf(backup, p))
    BY <2>0, RackPlace
  <2>2. PICK q \in 1 .. RackCount(target) :
            /\ T[n].rack = RackNo(target, q)
            /\ Cardinality(NodesBelow(target, q)) <= n - 1
            /\ n - 1 < Cardinality(NodesBelow(target, q)) + Cardinality(NodesOf(target, q))
    BY <2>0, RackPlace
  <2> HIDE DEF B, T
  <2>3. /\ q \in 1 .. P /\ P \in Nat
        /\ Cardinality(NodesBelow(target, q)) = Cardinality(NodesBelow(backup, q))
        /\ Cardinality(NodesOf(target, q)) = Cardinality(NodesOf(backup, q))
    BY SameCounts, RacksNumbered
  <2>4. /\ Cardinality(NodesBelow(backup, q)) \in Nat /\ Cardinality(NodesOf(backup, q)) \in Nat
        /\ Cardinality(NodesBelow(backup, p)) \in Nat /\ Cardinality(NodesOf(backup, p)) \in Nat
    BY <2>3, RacksCounted
  <2>5. ~(p < q)
    <3> SUFFICES ASSUME p < q PROVE FALSE
      OBVIOUS
    <3>1. Cardinality(NodesBelow(backup, p)) + Cardinality(NodesOf(backup, p))
            <= Cardinality(NodesBelow(backup, q))
      BY <2>3, CountsAscend
    <3> QED BY <2>0, <2>1, <2>2, <2>3, <2>4, <3>1
  <2>6. ~(q < p)
    <3> SUFFICES ASSUME q < p PROVE FALSE
      OBVIOUS
    <3>1. Cardinality(NodesBelow(backup, q)) + Cardinality(NodesOf(backup, q))
            <= Cardinality(NodesBelow(backup, p))
      BY <2>3, CountsAscend
    <3> QED BY <2>0, <2>1, <2>2, <2>3, <2>4, <3>1
  <2> QED BY <2>1, <2>2, <2>3, <2>5, <2>6
<1>2. PICK p \in 1 .. P : B[k].rack = RackNo(backup, p) /\ T[k].rack = RackNo(target, p)
  BY <1>1
<1>3. PICK q \in 1 .. P : B[m].rack = RackNo(backup, q) /\ T[m].rack = RackNo(target, q)
  BY <1>1
<1> HIDE DEF B, T
<1>4. P \in Nat /\ RackCount(target) = P
  BY SameCounts, RacksNumbered
<1>5. /\ RackNo(backup, p) \in Int /\ RackNo(backup, q) \in Int
      /\ RackNo(target, p) \in Int /\ RackNo(target, q) \in Int
  BY <1>4, RacksNumbered
<1>6. CASE p < q
  <2>1. RackNo(backup, p) < RackNo(backup, q) /\ RackNo(target, p) < RackNo(target, q)
    BY <1>4, <1>6, RacksAscend
  <2>2. B[k].rack # B[m].rack /\ T[k].rack # T[m].rack
    BY <1>2, <1>3, <1>5, <2>1
  <2> QED BY <2>2 DEF B, T
<1>7. CASE q < p
  <2>1. RackNo(backup, q) < RackNo(backup, p) /\ RackNo(target, q) < RackNo(target, p)
    BY <1>4, <1>7, RacksAscend
  <2>2. B[k].rack # B[m].rack /\ T[k].rack # T[m].rack
    BY <1>2, <1>3, <1>5, <2>1
  <2> QED BY <2>2 DEF B, T
<1>8. CASE p = q
  <2>1. B[k].rack = B[m].rack /\ T[k].rack = T[m].rack
    BY <1>2, <1>3, <1>8
  <2> QED BY <2>1 DEF B, T
<1> QED BY <1>4, <1>6, <1>7, <1>8

-----------------------------------------------------------------------------
(* The mapping is sound.                                                   *)

LEMMA LoaderSound ==
  ASSUME NEW r \in Scenarios, NEW loader \in BOOLEAN,
         NEW map \in Seq(Entries), Spread(map, r.backup, r.target), loader
  PROVE  Sound(map, loader, r)
BY DEF Sound, Spread, Targets

\* The rack of a node that the sorted list has.
LEMMA RackOfSorted ==
  ASSUME NEW ring \in Rings, NEW key \in [DOMAIN ring -> Int], NEW k \in DOMAIN ring
  PROVE  RackOf(ring, SortedBy(ring, key)[k].host) = SortedBy(ring, key)[k].rack
<1>1. PICK i \in DOMAIN ring : SortedBy(ring, key)[k] = ring[i]
  BY Sorted
<1>2. \A j \in DOMAIN ring : ring[j].host = ring[i].host => j = i
  BY RingTypes
<1>3. (CHOOSE j \in DOMAIN ring : ring[j].host = ring[i].host) = i
  BY <1>2
<1> QED BY <1>1, <1>3 DEF RackOf

\* A pairing of sorted lists.
LEMMA ZipSound ==
  ASSUME NEW r \in Scenarios, NEW loader \in BOOLEAN, Len(r.target) = Len(r.backup),
         NEW kb \in [DOMAIN r.backup -> Int], NEW kt \in [DOMAIN r.target -> Int],
         r.backup = r.target => kb = kt,
         ~r.ignore_racks =>
            \A k, m \in 1 .. Len(r.backup) :
               SortedBy(r.target, kt)[k].rack = SortedBy(r.target, kt)[m].rack
               <=> SortedBy(r.backup, kb)[k].rack = SortedBy(r.backup, kb)[m].rack
  PROVE  Sound(Zip(SortedBy(r.target, kt), SortedBy(r.backup, kb)), loader, r)
<1> DEFINE B == SortedBy(r.backup, kb)
           T == SortedBy(r.target, kt)
           map == Zip(T, B)
           n == Len(r.backup)
<1>0. r.backup \in Rings /\ r.target \in Rings
  BY RequestTypes
<1>1. Pairing(map, r.backup, r.target)
  BY <1>0, ZipPairs
<1>2. DOMAIN B = 1 .. n /\ DOMAIN r.backup = 1 .. n /\ DOMAIN r.target = 1 .. n
  BY <1>0, Sorted, RingTypes
<1>3. \A k \in 1 .. n : map[k].target = T[k].host /\ map[k].sources = {B[k].host}
  BY <1>2 DEF Zip
<1>4. DOMAIN map = 1 .. n
  BY <1>2 DEF Zip
<1>5. \A k \in 1 .. n : /\ RackOf(r.target, T[k].host) = T[k].rack
                        /\ RackOf(r.backup, B[k].host) = B[k].rack
  BY <1>0, <1>2, RackOfSorted
<1>6. ~r.ignore_racks => \A k, m \in 1 .. n : T[k].rack = T[m].rack <=> B[k].rack = B[m].rack
  OBVIOUS
<1>7. r.backup = r.target => B = T
  OBVIOUS
<1> HIDE DEF B, T, map, n
<1>8. \A k, m \in DOMAIN map : k # m =>
         /\ map[k].target # map[m].target
         /\ map[k].sources \intersect map[m].sources = {}
  BY <1>1 DEF Pairing
<1>9. ASSUME NEW k \in DOMAIN map PROVE Cardinality(map[k].sources) = 1
  <2>1. map[k].sources = {B[k].host}
    BY <1>3, <1>4
  <2> QED BY <2>1, FS_Singleton
<1>10. ASSUME NEW k \in DOMAIN map PROVE Sources(map, map[k].target) = map[k].sources
  <2>1. \A m \in DOMAIN map : map[m].target = map[k].target <=> m = k
    BY <1>8
  <2>2. {m \in DOMAIN map : map[m].target = map[k].target} = {k}
    BY <2>1
  <2>3. Sources(map, map[k].target) = UNION {map[j].sources : j \in {k}}
    BY <2>2 DEF Sources
  <2> QED BY <2>3
<1>11. ASSUME NEW t \in Targets(map)
       PROVE  \E k \in 1 .. n : t = T[k].host /\ Sources(map, t) = {B[k].host}
  <2>1. PICK k \in DOMAIN map : t = map[k].target
    BY DEF Targets
  <2> QED BY <1>3, <1>4, <1>10, <2>1
<1>12. ASSUME ~r.ignore_racks, NEW t \in Targets(map), NEW u \in Targets(map),
              NEW s \in Sources(map, t), NEW q \in Sources(map, u)
       PROVE  (RackOf(r.target, t) = RackOf(r.target, u))
                <=> (RackOf(r.backup, s) = RackOf(r.backup, q))
  <2>1. PICK k \in 1 .. n : t = T[k].host /\ Sources(map, t) = {B[k].host}
    BY <1>11
  <2>2. PICK m \in 1 .. n : u = T[m].host /\ Sources(map, u) = {B[m].host}
    BY <1>11
  <2>3. s = B[k].host /\ q = B[m].host
    BY <2>1, <2>2
  <2>4. T[k].rack = T[m].rack <=> B[k].rack = B[m].rack
    BY <1>6, <1>12
  <2>5. /\ RackOf(r.target, t) = T[k].rack /\ RackOf(r.backup, s) = B[k].rack
        /\ RackOf(r.target, u) = T[m].rack /\ RackOf(r.backup, q) = B[m].rack
    BY <1>5, <2>1, <2>2, <2>3
  <2> QED BY <2>4, <2>5
<1>13. ASSUME r.backup = r.target, NEW t \in Targets(map) PROVE Sources(map, t) = {t}
  BY <1>7, <1>11, <1>13
<1>14. ASSUME NEW k \in DOMAIN map, NEW m \in DOMAIN map
       PROVE  Cardinality(map[k].sources) - Cardinality(map[m].sources) \in -1 .. 1
  <2>1. Cardinality(map[k].sources) = 1 /\ Cardinality(map[m].sources) = 1
    BY <1>9
  <2> QED BY <2>1
<1>15. /\ UNION {map[k].sources : k \in DOMAIN map} = Hosts(r.backup)
       /\ Targets(map) = Hosts(r.target)
       /\ \A k \in DOMAIN map : Single(map[k].sources)
  BY <1>1 DEF Pairing, Targets
<1>16. Sound(map, loader, r)
  BY <1>8, <1>12, <1>13, <1>14, <1>15 DEF Sound
<1> QED BY <1>16 DEF map, B, T

\* populate_ringmap of restore_cluster.py, for every pair of rings.
LEMMA RingmapSound ==
  ASSUME NEW r \in Scenarios, NEW loader \in BOOLEAN,
         needs_loader(r.backup, r.target, r.ignore_racks) => loader,
         NEW map \in populate_ringmap(r.backup, r.target, r.ignore_racks)
  PROVE  Sound(map, loader, r) /\ map \in Seq(Entries) /\ Len(map) <= Len(r.target)
<1>0. r.backup \in Rings /\ r.target \in Rings
  BY RequestTypes
<1>1. CASE needs_loader(r.backup, r.target, r.ignore_racks)
  <2>1. map \in map_different_topologies(r.backup, r.target)
    BY <1>1 DEF populate_ringmap
  <2>2. Spread(map, r.backup, r.target)
    BY <1>0, <2>1, DealtSpreads
  <2>3. map \in Seq(Entries) /\ Len(map) <= Len(r.target)
    BY <2>2 DEF Spread
  <2> QED BY <1>1, <2>2, <2>3, LoaderSound
<1>2. CASE ~needs_loader(r.backup, r.target, r.ignore_racks)
  <2>1. /\ Len(r.target) = Len(r.backup)
        /\ r.ignore_racks \/ rack_topology(r.backup) = rack_topology(r.target)
    BY <1>2 DEF needs_loader, topology_matches
  <2>2. \A ring \in Rings : Len(ring) \in Nat
    BY RingTypes
  <2>3. CASE r.ignore_racks
    <3> DEFINE kb == [i \in DOMAIN r.backup |-> r.backup[i].tokens[1]]
               kt == [i \in DOMAIN r.target |-> r.target[i].tokens[1]]
    <3>1. map = Zip(SortedBy(r.target, kt), SortedBy(r.backup, kb))
      BY <1>2, <2>3 DEF populate_ringmap, map_ignored_racks, tokenmap_to_sorted_nodes
    <3>2. kb \in [DOMAIN r.backup -> Int] /\ kt \in [DOMAIN r.target -> Int]
      BY <1>0, RingTypes
    <3>3. r.backup = r.target => kb = kt
      OBVIOUS
    <3> HIDE DEF kb, kt
    <3>4. Pairing(map, r.backup, r.target)
      BY <1>0, <2>1, <3>1, <3>2, ZipPairs
    <3>5. Sound(map, loader, r)
      BY <2>1, <2>3, <3>1, <3>2, <3>3, ZipSound
    <3> QED BY <1>0, <2>1, <2>2, <3>4, <3>5 DEF Pairing
  <2>4. CASE ~r.ignore_racks
    <3> DEFINE kb == [i \in DOMAIN r.backup |-> r.backup[i].rack]
               kt == [i \in DOMAIN r.target |-> r.target[i].rack]
    <3>1. map = Zip(SortedBy(r.target, kt), SortedBy(r.backup, kb))
      BY <1>2, <2>4 DEF populate_ringmap, map_with_racks, tokenmap_to_nodes_per_rack
    <3>2. kb \in [DOMAIN r.backup -> Int] /\ kt \in [DOMAIN r.target -> Int]
      BY <1>0, RingTypes
    <3>3. r.backup = r.target => kb = kt
      OBVIOUS
    <3>4. \A k, m \in 1 .. Len(r.backup) :
             SortedBy(r.target, kt)[k].rack = SortedBy(r.target, kt)[m].rack
             <=> SortedBy(r.backup, kb)[k].rack = SortedBy(r.backup, kb)[m].rack
      BY <1>0, <2>1, <2>4, RacksPaired DEF tokenmap_to_nodes_per_rack
    <3> HIDE DEF kb, kt
    <3>5. Pairing(map, r.backup, r.target)
      BY <1>0, <2>1, <3>1, <3>2, ZipPairs
    <3>6. Sound(map, loader, r)
      BY <2>1, <3>1, <3>2, <3>3, <3>4, ZipSound
    <3> QED BY <1>0, <2>1, <2>2, <3>5, <3>6 DEF Pairing
  <2> QED BY <2>3, <2>4
<1> QED BY <1>1, <1>2

-----------------------------------------------------------------------------
(* The host list.                                                          *)

Lines == [seed : BOOLEAN, target : Nodes, source : Nodes]

\* The host list has one entry of each target it names, the last one.
LEMMA HostMapEntries ==
  ASSUME NEW lines \in Seq(Lines)
  PROVE  /\ HostMap(lines) \in Seq(Lines) /\ Len(HostMap(lines)) <= Len(lines)
         /\ \A n \in DOMAIN HostMap(lines) : \E k \in DOMAIN lines : HostMap(lines)[n] = lines[k]
         /\ \A n, m \in DOMAIN HostMap(lines) :
               n # m => HostMap(lines)[n].target # HostMap(lines)[m].target
<1> DEFINE D == DOMAIN lines
           named(t) == {k \in D : lines[k].target = t}
           last(t) == CHOOSE k \in D : /\ lines[k].target = t
                                       /\ \A m \in D : m > k => lines[m].target # t
           firsts == {k \in D : \A m \in D : m < k => lines[m].target # lines[k].target}
           first(n) == Nth(firsts, [k \in firsts |-> k], n)
           N == Cardinality(firsts)
<1>1. /\ D = 1 .. Len(lines) /\ Len(lines) \in Nat /\ D \subseteq Int /\ IsFiniteSet(D)
      /\ Cardinality(D) = Len(lines)
  <2>1. D = 1 .. Len(lines) /\ Len(lines) \in Nat
    OBVIOUS
  <2> QED BY <2>1, FS_Interval
<1>2. ASSUME NEW x \in D
      PROVE  last(lines[x].target) \in D /\ lines[last(lines[x].target)].target = lines[x].target
  <2> DEFINE t == lines[x].target
             left == {Len(lines) - k : k \in named(t)}
  <2>1. left \subseteq Nat /\ left # {}
    <3>1. x \in named(t)
      OBVIOUS
    <3>2. \A k \in named(t) : Len(lines) - k \in Nat
      BY <1>1
    <3> HIDE DEF named
    <3> QED BY <3>1, <3>2
  <2>2. PICK p \in left : \A q \in left : p <= q
    <3> HIDE DEF left
    <3> QED BY <2>1, LeastOne
  <2>3. PICK k \in named(t) : p = Len(lines) - k
    OBVIOUS
  <2>4. ASSUME NEW m \in D, m > k PROVE lines[m].target # t
    <3> SUFFICES ASSUME m \in named(t) PROVE FALSE
      OBVIOUS
    <3>1. Len(lines) - m \in left
      OBVIOUS
    <3>2. m \in Int /\ k \in Int
      BY <1>1
    <3>3. p <= Len(lines) - m
      BY <2>2, <3>1
    <3> QED BY <1>1, <2>3, <2>4, <3>2, <3>3
  <2>5. \E j \in D : lines[j].target = t /\ \A m \in D : m > j => lines[m].target # t
    BY <2>4
  <2> QED BY <2>5
<1>3. firsts \subseteq D /\ IsFiniteSet(firsts) /\ N \in Nat /\ N <= Len(lines)
  BY <1>1, FS_Subset, FS_CardinalityType
<1>4. \A n \in 1 .. N : first(n) \in firsts
  <2>1. [k \in firsts |-> k] \in [firsts -> Int] /\ firsts \subseteq Int
    BY <1>1, <1>3
  <2> HIDE DEF firsts
  <2> QED BY <1>3, <2>1, NthExists
<1>5. \A n, m \in 1 .. N : n # m => first(n) # first(m)
  <2>1. [k \in firsts |-> k] \in [firsts -> Int] /\ firsts \subseteq Int
    BY <1>1, <1>3
  <2> HIDE DEF firsts
  <2> QED BY <1>3, <2>1, NthDiffer
<1>6. HostMap(lines) = [n \in 1 .. N |-> lines[last(lines[first(n)].target)]]
  BY DEF HostMap
<1>7. ASSUME NEW k \in firsts, NEW m \in firsts, k # m PROVE lines[k].target # lines[m].target
  <2>1. k \in Int /\ m \in Int
    BY <1>1, <1>3
  <2> QED BY <1>7, <2>1
<1> HIDE DEF last, first, firsts, N, D
<1>8. ASSUME NEW n \in 1 .. N
      PROVE  /\ HostMap(lines)[n] = lines[last(lines[first(n)].target)]
             /\ first(n) \in firsts /\ first(n) \in D
             /\ last(lines[first(n)].target) \in D
             /\ HostMap(lines)[n].target = lines[first(n)].target
  <2>1. first(n) \in firsts /\ first(n) \in D
    BY <1>3, <1>4
  <2>2. /\ last(lines[first(n)].target) \in D
        /\ lines[last(lines[first(n)].target)].target = lines[first(n)].target
    BY <1>2, <2>1
  <2> QED BY <1>6, <2>1, <2>2
<1>9. \A k \in D : lines[k] \in Lines
  BY DEF D
<1>10. HostMap(lines) \in Seq(Lines) /\ Len(HostMap(lines)) = N /\ DOMAIN HostMap(lines) = 1 .. N
  <2>1. HostMap(lines) \in [1 .. N -> Lines]
    <3>1. \A n \in 1 .. N : HostMap(lines)[n] \in Lines
      BY <1>8, <1>9
    <3> QED BY <1>6, <3>1
  <2> QED BY <1>3, <2>1
<1>11. ASSUME NEW n \in 1 .. N, NEW m \in 1 .. N, n # m
       PROVE  HostMap(lines)[n].target # HostMap(lines)[m].target
  <2>1. first(n) # first(m) /\ first(n) \in firsts /\ first(m) \in firsts
    BY <1>5, <1>8, <1>11
  <2>2. lines[first(n)].target # lines[first(m)].target
    BY <1>7, <2>1
  <2> QED BY <1>8, <2>2
<1>12. ASSUME NEW n \in 1 .. N PROVE \E k \in D : HostMap(lines)[n] = lines[k]
  BY <1>8
<1> QED BY <1>3, <1>10, <1>11, <1>12 DEF D

-----------------------------------------------------------------------------
(* What a step on a host changes.                                          *)

\* The sections of a manifest, and the one that holds the tokens.
LEMMA SectionFacts ==
  /\ Len(Sections) \in Nat \ {0} /\ Indices = 1 .. Len(Sections)
  /\ Local \in Indices /\ Sections[Local].ks = "system" /\ Sections[Local].cf = "local"
<1> DEFINE Names == [ks : STRING, cf : STRING]
<1>1. Sections \in Seq(Names)
  BY SectionsAssumption
<1>2. Len(Sections) \in Nat /\ Indices = 1 .. Len(Sections)
  <2> HIDE DEF Names
  <2> QED BY <1>1 DEF Indices
<1>3. Local \in Indices /\ Sections[Local] = [ks |-> "system", cf |-> "local"]
  BY LocalAssumption DEF Local
<1>4. Sections[Local].ks = "system" /\ Sections[Local].cf = "local"
  BY <1>3
<1> QED BY <1>2, <1>3, <1>4

ProcSteps == Running \union {"none", "ok", "error", "keyed"}

LEMMA ProcFields ==
  ASSUME NEW p \in ProcStates
  PROVE  /\ p.pc \in ProcSteps /\ p.i \in 1 .. Len(Sections) + 1
         /\ p.src \subseteq Nodes /\ p.seeds \subseteq Nodes
         /\ p = [pc |-> p.pc, i |-> p.i, src |-> p.src, seeds |-> p.seeds]
BY DEF ProcStates, ProcSteps

LEMMA ProcBuilt ==
  ASSUME NEW pc \in ProcSteps, NEW i \in 1 .. Len(Sections) + 1,
         NEW src \in SUBSET Nodes, NEW seeds \in SUBSET Nodes
  PROVE  [pc |-> pc, i |-> i, src |-> src, seeds |-> seeds] \in ProcStates
BY DEF ProcStates, ProcSteps

LEMMA NoProcFits == NoProc \in ProcStates
<1>1. 1 \in 1 .. Len(Sections) + 1
  BY SectionFacts
<1>2. "none" \in ProcSteps
  BY DEF ProcSteps
<1> QED BY <1>1, <1>2, ProcBuilt DEF NoProc

\* The command on a host goes on to another step.
LEMMA GotoFields ==
  ASSUME proc \in [Nodes -> ProcStates], NEW t \in Nodes, NEW step \in ProcSteps, Goto(t, step)
  PROVE  /\ proc' \in [Nodes -> ProcStates]
         /\ proc'[t].pc = step /\ proc'[t].i = proc[t].i
         /\ proc'[t].src = proc[t].src /\ proc'[t].seeds = proc[t].seeds
         /\ \A u \in Nodes \ {t} : proc'[u] = proc[u]
<1>1. proc' = [proc EXCEPT ![t] = [proc[t] EXCEPT !.pc = step]]
  BY DEF Goto
<1>2. proc[t] \in ProcStates
  OBVIOUS
<1>3. [proc[t] EXCEPT !.pc = step] =
        [pc |-> step, i |-> proc[t].i, src |-> proc[t].src, seeds |-> proc[t].seeds]
  BY <1>2, ProcFields
<1>4. [proc[t] EXCEPT !.pc = step] \in ProcStates
  BY <1>2, <1>3, ProcFields, ProcBuilt
<1> HIDE DEF Goto
<1> QED BY <1>1, <1>3, <1>4

\* A step of one host leaves the others, the job and the request alone.
OthersKept(t) ==
  /\ UNCHANGED <<sc, job>>
  /\ \A u \in Nodes \ {t} :
        /\ proc'[u] = proc[u] /\ cass'[u] = cass[u] /\ data'[u] = data[u] /\ log'[u] = log[u]
        /\ yaml'[u] = yaml[u] /\ owns'[u] = owns[u] /\ keyed'[u] = keyed[u]

\* What fits a host depends on the host, the job and the request only.
LEMMA NodeFrame ==
  ASSUME NEW u \in Nodes, NodeFits(u), sc' = sc, job'.inPlace = job.inPlace, job'.keep = job.keep,
         keyed[u] => job'.pc = job.pc,
         proc'[u] = proc[u], cass'[u] = cass[u], data'[u] = data[u], log'[u] = log[u],
         yaml'[u] = yaml[u], owns'[u] = owns[u], keyed'[u] = keyed[u]
  PROVE  NodeFits(u)'
<1>1. \A s : Stored(s)' = Stored(s)
  BY DEF Stored
<1>2. InPod' = InPod /\ KeepAuth' = KeepAuth
  BY DEF InPod, KeepAuth
<1>3. \A i : LeftAlone(i)' = LeftAlone(i)
  BY <1>2 DEF LeftAlone, Retained
<1>4. \A s, i : SectionFrom(u, s, i)' = SectionFrom(u, s, i)
  BY <1>3 DEF SectionFrom
<1>5. Untouched(u)' = Untouched(u) /\ \A s : TakenFrom(u, s)' = TakenFrom(u, s)
  BY <1>4 DEF Untouched, TakenFrom
<1>6. DownFor(u)' /\ KeyFits(u)'
  BY <1>2 DEF NodeFits, DownFor, KeyFits
<1>7. WorkFits(u)'
  BY <1>1, <1>2 DEF NodeFits, WorkFits
<1>8. Moved(u)'
  BY <1>4 DEF NodeFits, Moved
<1>9. PodWhole(u)'
  BY <1>1, <1>2, <1>5 DEF NodeFits, PodWhole
<1> QED BY <1>6, <1>7, <1>8, <1>9 DEF NodeFits

-----------------------------------------------------------------------------
(* Types.                                                                  *)

JobSteps == JobEnds \union Phases \union {"idle", "prepare", "confirm", "schema", "verify", "pods"}

LEMMA JobFields ==
  ASSUME NEW j \in JobStates
  PROVE  /\ j.pc \in JobSteps /\ j.map \in Seq(Entries) /\ j.seeds \subseteq Nodes
         /\ j.inPlace \in BOOLEAN /\ j.keep \in BOOLEAN /\ j.loader \in BOOLEAN
         /\ j.next \in Nat \ {0} /\ j.wait \in BOOLEAN
         /\ j = [pc |-> j.pc, map |-> j.map, seeds |-> j.seeds, inPlace |-> j.inPlace,
                 keep |-> j.keep, loader |-> j.loader, next |-> j.next, wait |-> j.wait]
BY DEF JobStates, JobSteps

LEMMA JobBuilt ==
  ASSUME NEW pc \in JobSteps, NEW map \in Seq(Entries), NEW seeds \in SUBSET Nodes,
         NEW inPlace \in BOOLEAN, NEW keep \in BOOLEAN, NEW loader \in BOOLEAN,
         NEW next \in Nat \ {0}, NEW wait \in BOOLEAN
  PROVE  [pc |-> pc, map |-> map, seeds |-> seeds, inPlace |-> inPlace,
          keep |-> keep, loader |-> loader, next |-> next, wait |-> wait] \in JobStates
BY DEF JobStates, JobSteps

\* A step of the run that only goes on, and may stop waiting for the batch.
LEMMA JobGoesOn ==
  ASSUME job \in JobStates, NEW pc \in JobSteps, NEW wait \in BOOLEAN, NEW next \in Nat \ {0},
         job' = [pc |-> pc, map |-> job.map, seeds |-> job.seeds, inPlace |-> job.inPlace,
                 keep |-> job.keep, loader |-> job.loader, next |-> next, wait |-> wait]
  PROVE  /\ job' \in JobStates /\ job'.map = job.map /\ job'.seeds = job.seeds
         /\ job'.inPlace = job.inPlace /\ job'.keep = job.keep /\ job'.loader = job.loader
         /\ job'.pc = pc /\ job'.next = next /\ job'.wait = wait
BY JobFields, JobBuilt

\* What the steps of the run change of the job, but for the preparation.
JobKept ==
  /\ job' \in JobStates /\ job'.map = job.map /\ job'.seeds = job.seeds
  /\ job'.inPlace = job.inPlace /\ job'.keep = job.keep /\ job'.loader = job.loader

JobFailed == job' = [job EXCEPT !.pc = "failed"]

LEMMA FailedKept ==
  ASSUME job \in JobStates, JobFailed
  PROVE  JobKept /\ job'.pc = "failed" /\ job'.next = job.next /\ job'.wait = job.wait
<1>1. "failed" \in JobSteps
  BY DEF JobSteps, JobEnds
<1>2. job' = [pc |-> "failed", map |-> job.map, seeds |-> job.seeds, inPlace |-> job.inPlace,
              keep |-> job.keep, loader |-> job.loader, next |-> job.next, wait |-> job.wait]
  BY JobFields DEF JobFailed
<1> QED BY <1>1, <1>2, JobFields, JobGoesOn DEF JobKept

LEMMA PhaseKept ==
  ASSUME job \in JobStates, NEW pc \in JobSteps, job' = [job EXCEPT !.pc = pc]
  PROVE  JobKept /\ job'.pc = pc /\ job'.next = job.next /\ job'.wait = job.wait
<1>2. job' = [pc |-> pc, map |-> job.map, seeds |-> job.seeds, inPlace |-> job.inPlace,
              keep |-> job.keep, loader |-> job.loader, next |-> job.next, wait |-> job.wait]
  BY JobFields
<1> QED BY <1>2, JobFields, JobGoesOn DEF JobKept

LEMMA JobWaits ==
  ASSUME job \in JobStates, NEW wait
  PROVE  [job EXCEPT !.wait = wait]
           = [pc |-> job.pc, map |-> job.map, seeds |-> job.seeds, inPlace |-> job.inPlace,
              keep |-> job.keep, loader |-> job.loader, next |-> job.next, wait |-> wait]
BY JobFields

LEMMA JobJoins ==
  ASSUME job \in JobStates, NEW pc, NEW next, NEW wait
  PROVE  [job EXCEPT !.wait = wait, !.next = next, !.pc = pc]
           = [pc |-> pc, map |-> job.map, seeds |-> job.seeds, inPlace |-> job.inPlace,
              keep |-> job.keep, loader |-> job.loader, next |-> next, wait |-> wait]
<1> DEFINE a == [job EXCEPT !.wait = wait]
           b == [a EXCEPT !.next = next]
<1>1. a = [pc |-> job.pc, map |-> job.map, seeds |-> job.seeds, inPlace |-> job.inPlace,
           keep |-> job.keep, loader |-> job.loader, next |-> job.next, wait |-> wait]
  BY JobFields
<1>2. [job EXCEPT !.wait = wait, !.next = next, !.pc = pc] = [b EXCEPT !.pc = pc]
  OBVIOUS
<1> HIDE DEF a
<1>3. b = [pc |-> job.pc, map |-> job.map, seeds |-> job.seeds, inPlace |-> job.inPlace,
           keep |-> job.keep, loader |-> job.loader, next |-> next, wait |-> wait]
  BY <1>1
<1> HIDE DEF b
<1> QED BY <1>2, <1>3

\* The next batch is one of the list, or the first.
LEMMA JoinedKept ==
  ASSUME job \in JobStates, JoinBatch
  PROVE  /\ JobKept /\ job'.pc \in {"stop", "restore", "failed", "verify", "done"}
         /\ job'.next = 1 \/ job'.next \in DOMAIN job'.map
         /\ job'.pc = "stop" => job.pc = "stop"
         /\ ~job'.wait
         /\ job.next * ParallelRestores >= Len(job.map) =>
               /\ job'.next = 1
               /\ job'.pc = IF job.pc = "stop" THEN "restore"
                           ELSE IF ~AllSucceeded THEN "failed"
                           ELSE IF sc.verify THEN "verify" ELSE "done"
<1> DEFINE last == job.next * ParallelRestores >= Len(job.map)
           pc == IF ~last THEN job.pc
                 ELSE IF job.pc = "stop" THEN "restore"
                 ELSE IF ~AllSucceeded THEN "failed"
                 ELSE IF sc.verify THEN "verify" ELSE "done"
           next == NextBatch(last)
<1>1. job.pc \in Phases /\ job' = [job EXCEPT !.wait = FALSE, !.next = next, !.pc = pc]
  BY DEF JoinBatch
<1>2. pc \in {"stop", "restore", "failed", "verify", "done"} /\ (pc = "stop" => job.pc = "stop")
  BY <1>1 DEF Phases
<1>3. pc \in JobSteps
  BY <1>2 DEF JobSteps, JobEnds, Phases
<1>4. Len(job.map) \in Nat /\ DOMAIN job.map = 1 .. Len(job.map) /\ job.next \in Nat \ {0}
  BY JobFields
<1>5. next \in Nat \ {0}
  BY <1>4 DEF NextBatch
<1>6. next = 1 \/ next \in DOMAIN job.map
  <2> SUFFICES ASSUME ~last PROVE next \in DOMAIN job.map
    BY DEF NextBatch
  <2>1. job.next * ParallelRestores < Len(job.map)
    BY <1>4, ParallelAssumption
  <2>2. job.next <= job.next * ParallelRestores
    <3> DEFINE n == job.next
    <3>1. n \in Nat /\ ParallelRestores \in Nat \ {0}
      BY <1>4, ParallelAssumption
    <3> HIDE DEF n
    <3>2. n <= n * ParallelRestores
      BY <3>1, Z3
    <3> QED BY <3>2 DEF n
  <2>3. next = job.next + 1
    BY DEF NextBatch
  <2>4. job.next * ParallelRestores \in Nat
    BY <1>4, ParallelAssumption
  <2> HIDE DEF next, last
  <2> QED BY <1>4, <2>1, <2>2, <2>3, <2>4
<1>7. last => next = 1 /\ pc = IF job.pc = "stop" THEN "restore"
                                ELSE IF ~AllSucceeded THEN "failed"
                                ELSE IF sc.verify THEN "verify" ELSE "done"
  BY DEF NextBatch
<1> HIDE DEF pc, next, last
<1>8. job' = [pc |-> pc, map |-> job.map, seeds |-> job.seeds, inPlace |-> job.inPlace,
              keep |-> job.keep, loader |-> job.loader, next |-> next, wait |-> FALSE]
  BY <1>1, JobJoins, Zenon
<1>9. JobKept /\ job'.pc = pc /\ job'.next = next /\ ~job'.wait
  BY <1>3, <1>5, <1>8, JobGoesOn DEF JobKept
<1> QED BY <1>2, <1>6, <1>9, <1>7 DEF JobKept, last

\* The job after its preparation, as the model and as the proofs write it.
Entered(j, pc, map, seeds, inPlace, keep, loader) ==
  [j EXCEPT !.pc = pc, !.map = map, !.seeds = seeds, !.inPlace = inPlace,
            !.keep = keep, !.loader = loader]
Prepared(j, pc, map, seeds, inPlace, keep, loader) ==
  [pc |-> pc, map |-> map, seeds |-> seeds, inPlace |-> inPlace,
   keep |-> keep, loader |-> loader, next |-> j.next, wait |-> j.wait]

LEMMA JobPrepared ==
  ASSUME NEW j \in JobStates, NEW pc, NEW map, NEW seeds, NEW inPlace, NEW keep, NEW loader
  PROVE  Entered(j, pc, map, seeds, inPlace, keep, loader)
           = Prepared(j, pc, map, seeds, inPlace, keep, loader)
<1> DEFINE a == [j EXCEPT !.pc = pc]
           b == [a EXCEPT !.map = map]
           c == [b EXCEPT !.seeds = seeds]
           d == [c EXCEPT !.inPlace = inPlace]
           e == [d EXCEPT !.keep = keep]
<1>1. Entered(j, pc, map, seeds, inPlace, keep, loader) = [e EXCEPT !.loader = loader]
  BY DEF Entered
<1>2. a = [pc |-> pc, map |-> j.map, seeds |-> j.seeds, inPlace |-> j.inPlace,
           keep |-> j.keep, loader |-> j.loader, next |-> j.next, wait |-> j.wait]
  BY JobFields
<1> HIDE DEF a
<1>3. b = [pc |-> pc, map |-> map, seeds |-> j.seeds, inPlace |-> j.inPlace,
           keep |-> j.keep, loader |-> j.loader, next |-> j.next, wait |-> j.wait]
  BY <1>2
<1> HIDE DEF b
<1>4. c = [pc |-> pc, map |-> map, seeds |-> seeds, inPlace |-> j.inPlace,
           keep |-> j.keep, loader |-> j.loader, next |-> j.next, wait |-> j.wait]
  BY <1>3
<1> HIDE DEF c
<1>5. d = [pc |-> pc, map |-> map, seeds |-> seeds, inPlace |-> inPlace,
           keep |-> j.keep, loader |-> j.loader, next |-> j.next, wait |-> j.wait]
  BY <1>4
<1> HIDE DEF d
<1>6. e = [pc |-> pc, map |-> map, seeds |-> seeds, inPlace |-> inPlace,
           keep |-> keep, loader |-> j.loader, next |-> j.next, wait |-> j.wait]
  BY <1>5
<1> HIDE DEF e
<1> QED BY <1>1, <1>6 DEF Prepared

\* The preparation enters a sound mapping.
LEMMA RingPrepared ==
  ASSUME sc \in Scenarios, job \in JobStates, PrepareRing
  PROVE  /\ job' \in JobStates /\ job'.next = job.next
         /\ job'.pc = (IF sc.mode = "pods" THEN "pods" ELSE "confirm")
         /\ Sound(job'.map, job'.loader, sc)
         /\ ~job'.loader => \A k \in DOMAIN job'.map : Single(job'.map[k].sources)
         /\ Len(job'.map) <= Len(sc.target) /\ job'.wait = job.wait
         /\ job'.loader = (sc.loader \/ needs_loader(sc.backup, sc.target, sc.ignore_racks))
         /\ ~job'.loader => job'.seeds \subseteq Hosts(sc.target)
<1> DEFINE inPlace == is_restore_in_place(sc.backup, sc.target)
           forced == needs_loader(sc.backup, sc.target, sc.ignore_racks)
           pc == IF sc.mode = "pods" THEN "pods" ELSE "confirm"
           seeds == IF forced THEN {} ELSE sc.seeds \intersect Hosts(sc.target)
           loader == sc.loader \/ forced
<1>1. PICK map \in populate_ringmap(sc.backup, sc.target, sc.ignore_racks), answer \in BOOLEAN :
         job' = [job EXCEPT !.pc = pc, !.map = map, !.seeds = seeds, !.inPlace = inPlace,
                            !.keep = ~inPlace /\ (sc.keep_auth \/ answer), !.loader = loader]
  BY DEF PrepareRing
<1> DEFINE keep == ~inPlace /\ (sc.keep_auth \/ answer)
<1>2. pc \in JobSteps
  BY DEF JobSteps
<1>3. seeds \in SUBSET Nodes
  BY RequestTypes
<1>4. inPlace \in BOOLEAN /\ keep \in BOOLEAN /\ loader \in BOOLEAN /\ (forced => loader)
  BY DEF is_restore_in_place
<1>5. Sound(map, loader, sc) /\ map \in Seq(Entries) /\ Len(map) <= Len(sc.target)
  <2> HIDE DEF loader
  <2> QED BY <1>1, <1>4, RingmapSound
<1>6. job' = [pc |-> pc, map |-> map, seeds |-> seeds, inPlace |-> inPlace,
              keep |-> keep, loader |-> loader, next |-> job.next, wait |-> job.wait]
  <2> HIDE DEF pc, seeds, inPlace, loader
  <2>1. job' = Entered(job, pc, map, seeds, inPlace, keep, loader)
    BY <1>1 DEF Entered
  <2> HIDE DEF keep
  <2>2. job' = Prepared(job, pc, map, seeds, inPlace, keep, loader)
    BY <2>1, JobPrepared
  <2> QED BY <2>2 DEF Prepared
<1>7. ~loader => seeds \subseteq Hosts(sc.target)
  OBVIOUS
<1> HIDE DEF pc, seeds, inPlace, keep, loader, forced
<1>8. job' \in JobStates
  BY <1>2, <1>3, <1>4, <1>5, <1>6, JobFields, JobBuilt
<1>9. /\ job'.pc = pc /\ job'.map = map /\ job'.loader = loader /\ job'.next = job.next
      /\ job'.wait = job.wait /\ job'.seeds = seeds
  BY <1>6
<1>10. ~loader => \A k \in DOMAIN map : Single(map[k].sources)
  BY <1>5 DEF Sound
<1> QED BY <1>5, <1>8, <1>9, <1>10, <1>7 DEF pc, loader, forced

\* A target of the host list has one source.
LEMMA ListPrepared ==
  ASSUME sc \in Scenarios, job \in JobStates, PrepareList
  PROVE  /\ job' \in JobStates /\ job'.next = job.next /\ job'.pc = "confirm"
         /\ \A k \in DOMAIN job'.map : Single(job'.map[k].sources)
         /\ Len(job'.map) <= Len(sc.lines) /\ job'.wait = job.wait /\ job'.loader = sc.loader
         /\ job'.seeds \subseteq Targets(job'.map)
         /\ \A k \in DOMAIN job'.map : job'.map[k].sources \subseteq DOMAIN sc.stored
         /\ \A k, m \in DOMAIN job'.map : k # m => job'.map[k].target # job'.map[m].target
<1> DEFINE lines == HostMap(sc.lines)
           map == [k \in DOMAIN lines |->
                      [target |-> lines[k].target, sources |-> {lines[k].source}]]
           seeds == {lines[k].target : k \in {m \in DOMAIN lines : lines[m].seed}}
<1>1. job' = [job EXCEPT !.pc = "confirm", !.map = map, !.seeds = seeds,
                         !.keep = sc.keep_auth, !.loader = sc.loader]
  BY DEF PrepareList
<1>2. lines \in Seq(Lines)
  BY RequestTypes, HostMapEntries DEF Lines
<1>3. DOMAIN lines = 1 .. Len(lines) /\ Len(lines) \in Nat /\ \A k \in DOMAIN lines : lines[k] \in Lines
  <2> HIDE DEF lines
  <2> QED BY <1>2
<1>4. \A k \in DOMAIN lines : lines[k].target \in Nodes /\ lines[k].source \in Nodes
  BY <1>3 DEF Lines
<1>5. /\ Len(lines) <= Len(sc.lines)
      /\ \A k \in DOMAIN lines : \E m \in DOMAIN sc.lines : lines[k] = sc.lines[m]
      /\ \A k, m \in DOMAIN lines : k # m => lines[k].target # lines[m].target
  BY RequestTypes, HostMapEntries DEF Lines
<1>6. \A k \in DOMAIN lines : lines[k].source \in DOMAIN sc.stored
  BY <1>5, RequestTypes
<1> HIDE DEF lines
<1>7. map \in Seq(Entries)
  <2>1. \A k \in 1 .. Len(lines) : [target |-> lines[k].target, sources |-> {lines[k].source}] \in Entries
    BY <1>3, <1>4 DEF Entries
  <2>2. map = [k \in 1 .. Len(lines) |->
                  [target |-> lines[k].target, sources |-> {lines[k].source}]]
    BY <1>3
  <2>3. map \in [1 .. Len(lines) -> Entries]
    BY <2>1, <2>2
  <2> HIDE DEF map
  <2> QED BY <1>3, <2>3
<1>8. seeds \in SUBSET Nodes
  BY <1>4
<1>9. \A k \in DOMAIN map : Single(map[k].sources)
  BY <1>4 DEF Single
<1>10. /\ seeds \subseteq Targets(map)
       /\ \A k \in DOMAIN map : map[k].sources \subseteq DOMAIN sc.stored
       /\ \A k, m \in DOMAIN map : k # m => map[k].target # map[m].target
  BY <1>5, <1>6 DEF Targets
<1>11. Len(map) <= Len(sc.lines)
  <2>1. DOMAIN map = 1 .. Len(lines)
    BY <1>3
  <2> HIDE DEF map
  <2>2. Len(map) = Len(lines)
    BY <1>3, <1>7, <2>1
  <2> QED BY <1>5, <2>2
<1> HIDE DEF map, seeds
<1>12. sc.keep_auth \in BOOLEAN /\ sc.loader \in BOOLEAN
  BY RequestTypes
<1>13. job' = [pc |-> "confirm", map |-> map, seeds |-> seeds, inPlace |-> job.inPlace,
              keep |-> sc.keep_auth, loader |-> sc.loader, next |-> job.next, wait |-> job.wait]
  <2>1. job' = Entered(job, "confirm", map, seeds, job.inPlace, sc.keep_auth, sc.loader)
    BY <1>1, JobFields DEF Entered
  <2>2. job' = Prepared(job, "confirm", map, seeds, job.inPlace, sc.keep_auth, sc.loader)
    BY <2>1, JobPrepared
  <2> QED BY <2>2 DEF Prepared
<1>14. "confirm" \in JobSteps
  BY DEF JobSteps
<1>15. job' \in JobStates
  BY <1>7, <1>8, <1>12, <1>13, <1>14, JobFields, JobBuilt
<1>16. /\ job'.pc = "confirm" /\ job'.map = map /\ job'.next = job.next
       /\ job'.wait = job.wait /\ job'.loader = sc.loader /\ job'.seeds = seeds
  BY <1>13
<1> QED BY <1>9, <1>15, <1>16, <1>10, <1>11

\* The commands of a batch: a host gets one, or keeps what it has.
LEMMA LaunchTyped ==
  ASSUME job \in JobStates, proc \in [Nodes -> ProcStates],
         NEW places \in SUBSET Batch, Launch(places)
  PROVE  /\ proc' \in [Nodes -> ProcStates]
         /\ \A t \in Nodes :
               \/ proc'[t] = proc[t]
               \/ /\ proc'[t].i = 1 /\ proc'[t].pc \in {"stop", "load", "lookup"}
                  /\ proc'[t].pc = "lookup" =>
                        /\ ~job.loader
                        /\ \E k \in DOMAIN job.map : proc'[t].src = job.map[k].sources
<1>1. Len(job.map) \in Nat /\ DOMAIN job.map = 1 .. Len(job.map)
  BY JobFields
<1>2. \A k \in DOMAIN job.map : job.map[k].target \in Nodes /\ job.map[k].sources \subseteq Nodes
  <2>1. \A k \in DOMAIN job.map : job.map[k] \in Entries
    BY JobFields
  <2> QED BY <2>1 DEF Entries
<1>3. ASSUME NEW k \in Batch
      PROVE  /\ Launched(k) \in ProcStates
             /\ Launched(k).i = 1 /\ Launched(k).pc \in {"stop", "load", "lookup"}
             /\ Launched(k).pc = "lookup" =>
                   ~job.loader /\ \E m \in DOMAIN job.map : Launched(k).src = job.map[m].sources
  <2> DEFINE m == ((k - 1) % ParallelRestores) + 1
  <2>1. k \in DOMAIN job.map
    BY DEF Batch
  <2>2. m \in DOMAIN job.map
    <3>1. k - 1 \in Nat /\ k <= Len(job.map)
      BY <1>1, <2>1
    <3>2. ((k - 1) % ParallelRestores) \in Nat /\ ((k - 1) % ParallelRestores) <= k - 1
      BY <3>1, ParallelAssumption, ModBack, DivMod
    <3> QED BY <1>1, <2>1, <3>1, <3>2
  <2> HIDE DEF m
  <2>3. HostVariables(k) = job.map[m]
    BY DEF HostVariables, m
  <2>4. 1 \in 1 .. Len(Sections) + 1
    BY SectionFacts
  <2>5. "stop" \in ProcSteps /\ "load" \in ProcSteps /\ "lookup" \in ProcSteps
    BY DEF ProcSteps, Running, NodeSteps
  <2>6. CASE job.pc = "stop"
    <3>1. Launched(k) = [pc |-> "stop", i |-> 1, src |-> {}, seeds |-> {}]
      BY <2>6 DEF Launched, NoProc
    <3>2. Launched(k) \in ProcStates
      BY <2>4, <2>5, <3>1, ProcBuilt
    <3> QED BY <3>1, <3>2
  <2>7. CASE job.pc # "stop"
    <3> DEFINE pc == IF job.loader THEN "load" ELSE "lookup"
               seeds == SeedsFor(job.map[m].target)
    <3>1. Launched(k) = [pc |-> pc, i |-> 1, src |-> job.map[m].sources, seeds |-> seeds]
      BY <2>3, <2>7 DEF Launched
    <3>2. seeds \in SUBSET Nodes
      BY JobFields DEF SeedsFor
    <3>3. pc \in ProcSteps /\ pc \in {"load", "lookup"} /\ (pc = "lookup" => ~job.loader)
      BY <2>5, JobFields
    <3>4. job.map[m].sources \in SUBSET Nodes
      BY <1>2, <2>2
    <3> HIDE DEF pc, seeds
    <3>5. Launched(k) \in ProcStates
      BY <2>4, <3>1, <3>2, <3>3, <3>4, ProcBuilt
    <3>6. Launched(k).pc = pc /\ Launched(k).i = 1 /\ Launched(k).src = job.map[m].sources
      BY <3>1
    <3> QED BY <2>2, <3>3, <3>5, <3>6
  <2> QED BY <2>6, <2>7
<1>4. ASSUME NEW t \in Nodes
      PROVE  proc'[t] = proc[t] \/ \E k \in Batch : proc'[t] = Launched(k)
  <2>1. proc'[t] = IF \E k \in places : job.map[k].target = t
                   THEN Launched(CHOOSE k \in places : job.map[k].target = t) ELSE proc[t]
    BY DEF Launch
  <2>2. CASE \E k \in places : job.map[k].target = t
    <3>1. (CHOOSE k \in places : job.map[k].target = t) \in Batch
      BY <2>2
    <3> QED BY <2>1, <2>2, <3>1
  <2> QED BY <2>1, <2>2
<1>5. \A t \in Nodes : proc'[t] \in ProcStates
  BY <1>3, <1>4
<1>6. proc' \in [Nodes -> ProcStates]
  <2>1. proc' = [t \in Nodes |-> proc'[t]]
    BY DEF Launch
  <2> QED BY <1>5, <2>1
<1> QED BY <1>3, <1>4, <1>6

-----------------------------------------------------------------------------
(* The steps of the run keep the invariant.                                *)

\* A step that takes the job on and leaves the hosts alone.
LEMMA RunGoesOn ==
  ASSUME RestoreInvariant, JobKept, job'.next = 1 \/ job'.next \in DOMAIN job'.map,
         job.pc # "pods", job'.pc \notin {"pods", "idle", "prepare", "confirm"},
         job'.pc = "schema" => job.pc = "confirm", InPod => job'.pc \in {"failed", "killed"},
         UNCHANGED <<sc, proc, cass, diskVars, owns, keyed, runs>>,
         rows' \in [Indices -> SUBSET ({"old"} \union Nodes)], faults' \in 0 .. MaxFaults
  PROVE  RestoreInvariant'
<1>1. TypeOK'
  BY DEF RestoreInvariant, TypeOK, JobKept, diskVars
<1>2. JobFits'
  <2>1. InPod' = InPod
    BY DEF InPod
  <2>2. job'.pc = "schema" \/ (InPod /\ job'.pc # "pods") => \A t \in Nodes : proc[t] = NoProc
    BY DEF RestoreInvariant, JobFits
  <2>3. ~InPod /\ ~job.loader => \A k \in DOMAIN job.map : Single(job.map[k].sources)
    BY DEF RestoreInvariant, JobFits
  <2> QED BY <2>1, <2>2, <2>3 DEF JobFits, JobKept
<1>3. ASSUME NEW u \in Nodes PROVE NodeFits(u)'
  <2>1. NodeFits(u) /\ ~keyed[u]
    BY DEF RestoreInvariant, NodeFits, KeyFits
  <2> QED BY <2>1, NodeFrame DEF JobKept, diskVars
<1> QED BY <1>1, <1>2, <1>3 DEF RestoreInvariant

\* Faults are counted up to their bound.
LEMMA FaultsCounted ==
  ASSUME faults \in 0 .. MaxFaults
  PROVE  /\ Fault => faults' \in 0 .. MaxFaults
         /\ \A c \in BOOLEAN : FaultUnless(c) => faults' \in 0 .. MaxFaults
BY BoundsAssumption DEF Fault, FaultUnless

\* The hosts fit whatever the preparation enters, because nothing runs there yet.
LEMMA IdleFits ==
  ASSUME RestoreInvariant, job.pc \in {"idle", "prepare"} \/ (job.pc \in {"failed", "killed"} /\ ~Alive),
         NEW u \in Nodes, proc'[u] = NoProc, sc' = sc, cass'[u] = cass[u], data'[u] = data[u],
         log'[u] = log[u], owns'[u] = owns[u], keyed'[u] = keyed[u]
  PROVE  NodeFits(u)'
<1>1. ~keyed[u]
  BY DEF RestoreInvariant, NodeFits, KeyFits
<1>2. InPod => proc[u] = NoProc
  BY DEF RestoreInvariant, JobFits
<1>3. NoProc.pc = "none" /\ NoProc.i = 1 /\ NoProc.src = {}
  BY DEF NoProc
<1>4. InPod' = InPod /\ (InPod => Untouched(u))
  BY <1>2, <1>3 DEF InPod, RestoreInvariant, NodeFits, PodWhole
<1>5. Untouched(u)' = Untouched(u)
  BY DEF Untouched
<1>6. DownFor(u)' /\ KeyFits(u)' /\ WorkFits(u)' /\ Moved(u)'
  <2>1. InPod => cass[u] # "unseen"
    BY DEF RestoreInvariant, NodeFits, KeyFits
  <2> QED BY <1>1, <1>3, <1>4, <2>1 DEF DownFor, KeyFits, WorkFits, Moved, NodeSteps
<1>7. PodWhole(u)'
  BY <1>3, <1>4, <1>5 DEF PodWhole
<1> QED BY <1>6, <1>7 DEF NodeFits

LEMMA BeginKeeps ==
  ASSUME RestoreInvariant, Begin
  PROVE  RestoreInvariant'
<1>1. job' = [pc |-> "prepare", map |-> <<>>, seeds |-> {}, inPlace |-> FALSE, keep |-> FALSE,
              loader |-> FALSE, next |-> 1, wait |-> FALSE]
  BY DEF Begin, NoJob
<1>2. job' \in JobStates /\ job'.pc = "prepare" /\ job'.next = 1 /\ job'.map = <<>>
  <2>1. "prepare" \in JobSteps
    BY DEF JobSteps
  <2>2. <<>> \in Seq(Entries) /\ {} \in SUBSET Nodes /\ 1 \in Nat \ {0} /\ FALSE \in BOOLEAN
    OBVIOUS
  <2>3. job' \in JobStates
    BY <1>1, <2>1, <2>2, JobBuilt, Zenon
  <2> QED BY <1>1, <2>3
<1>3. TypeOK'
  <2>1. proc' \in [Nodes -> ProcStates]
    BY NoProcFits DEF Begin
  <2>2. runs' \in 0 .. MaxRuns
    BY BoundsAssumption DEF RestoreInvariant, TypeOK, Begin
  <2> QED BY <1>2, <2>1, <2>2 DEF RestoreInvariant, TypeOK, Begin, diskVars
<1>4. JobFits'
  BY <1>2 DEF JobFits, Begin
<1>5. ASSUME NEW u \in Nodes PROVE NodeFits(u)'
  <2>1. proc'[u] = NoProc
    BY DEF Begin
  <2>2. job.pc \in {"idle", "prepare"} \/ (job.pc \in {"failed", "killed"} /\ ~Alive)
    BY DEF Begin
  <2> QED BY <2>1, <2>2, IdleFits DEF Begin, diskVars
<1> QED BY <1>3, <1>4, <1>5 DEF RestoreInvariant

LEMMA PrepareKeeps ==
  ASSUME RestoreInvariant, PrepareRing \/ PrepareList
  PROVE  RestoreInvariant'
<1>1. sc \in Scenarios /\ job \in JobStates
  BY DEF RestoreInvariant, TypeOK
<1>2. /\ job' \in JobStates /\ job'.next = job.next
      /\ job'.pc = (IF sc.mode = "pods" THEN "pods" ELSE "confirm")
      /\ ~job'.loader => \A k \in DOMAIN job'.map : Single(job'.map[k].sources)
  <2>1. CASE PrepareRing
    BY <1>1, <2>1, RingPrepared
  <2>2. CASE PrepareList
    <3>1. sc.mode = "list"
      BY <2>2 DEF PrepareList
    <3> QED BY <1>1, <2>2, <3>1, ListPrepared
  <2> QED BY <2>1, <2>2
<1>3. job.pc = "prepare" /\ UNCHANGED <<sc, nodeVars, runs, faults>>
  BY DEF PrepareRing, PrepareList
<1>4. job.next = 1 /\ \A t \in Nodes : proc[t] = NoProc
  BY <1>3 DEF RestoreInvariant, JobFits
<1>5. TypeOK'
  BY <1>2, <1>3, <1>4 DEF RestoreInvariant, TypeOK, nodeVars, diskVars
<1>6. JobFits'
  BY <1>2, <1>3, <1>4 DEF JobFits, InPod, nodeVars
<1>7. ASSUME NEW u \in Nodes PROVE NodeFits(u)'
  <2>1. /\ proc'[u] = NoProc /\ sc' = sc /\ cass'[u] = cass[u] /\ data'[u] = data[u]
        /\ log'[u] = log[u] /\ owns'[u] = owns[u] /\ keyed'[u] = keyed[u]
    BY <1>3, <1>4 DEF nodeVars, diskVars
  <2> QED BY <1>3, <2>1, IdleFits
<1> QED BY <1>5, <1>6, <1>7 DEF RestoreInvariant

\* Dropped tables lose their rows, and their files on the targets.
LEMMA TablesDropped ==
  ASSUME data \in [Nodes -> [Indices -> FileOrigins]],
         rows \in [Indices -> SUBSET ({"old"} \union Nodes)], NEW dropped, DropTables(dropped)
  PROVE  /\ data' \in [Nodes -> [Indices -> FileOrigins]]
         /\ rows' \in [Indices -> SUBSET ({"old"} \union Nodes)]
         /\ \A t \in Nodes, i \in Indices :
               data'[t][i] # data[t][i] => data'[t][i] = "gone" /\ i \in dropped
BY DEF DropTables, FileOrigins

\* A step that leaves the run while its commands go on.
LEMMA JobAbandoned ==
  ASSUME job \in JobStates, NEW pc \in JobSteps, job' = [job EXCEPT !.pc = pc, !.wait = FALSE]
  PROVE  JobKept /\ job'.pc = pc /\ job'.next = job.next /\ job'.wait = FALSE
<1>1. job' = [pc |-> pc, map |-> job.map, seeds |-> job.seeds, inPlace |-> job.inPlace,
              keep |-> job.keep, loader |-> job.loader, next |-> job.next, wait |-> FALSE]
  <2> DEFINE a == [job EXCEPT !.pc = pc]
  <2>1. a = [pc |-> pc, map |-> job.map, seeds |-> job.seeds, inPlace |-> job.inPlace,
             keep |-> job.keep, loader |-> job.loader, next |-> job.next, wait |-> job.wait]
    BY JobFields
  <2>2. job' = [a EXCEPT !.wait = FALSE]
    OBVIOUS
  <2> HIDE DEF a
  <2> QED BY <2>1, <2>2
<1> QED BY <1>1, JobFields, JobGoesOn DEF JobKept

\* No command runs when the schema is made, and the job is not one of pods.
LEMMA SchemaKeeps ==
  ASSUME RestoreInvariant, RestoreSchema \/ RestoreSchemaFails
  PROVE  RestoreInvariant'
<1>1. /\ job \in JobStates /\ faults \in 0 .. MaxFaults /\ job.pc = "schema"
      /\ data \in [Nodes -> [Indices -> FileOrigins]]
      /\ rows \in [Indices -> SUBSET ({"old"} \union Nodes)]
      /\ job.next = 1 \/ job.next \in DOMAIN job.map
  BY DEF RestoreInvariant, TypeOK, RestoreSchema, RestoreSchemaFails
<1>2. ~InPod /\ \A u \in Nodes : proc[u] = NoProc
  BY <1>1 DEF RestoreInvariant, JobFits
<1>3. UNCHANGED <<sc, proc, cass, log, yaml, owns, keyed, runs>> /\ faults' \in 0 .. MaxFaults
  BY <1>1, FaultsCounted DEF RestoreSchema, RestoreSchemaFails
<1>4. JobKept /\ job'.pc \in {"restore", "failed"} /\ job'.next = job.next
  <2>1. "restore" \in JobSteps /\ "failed" \in JobSteps
    BY DEF JobSteps, Phases, JobEnds
  <2>2. job' = [job EXCEPT !.pc = "restore"] \/ job' = [job EXCEPT !.pc = "failed"]
    BY DEF RestoreSchema, RestoreSchemaFails
  <2> QED BY <1>1, <2>1, <2>2, PhaseKept
<1>5. /\ data' \in [Nodes -> [Indices -> FileOrigins]]
      /\ rows' \in [Indices -> SUBSET ({"old"} \union Nodes)]
  <2>1. PICK dropped : DropTables(dropped)
    BY DEF RestoreSchema, RestoreSchemaFails
  <2> QED BY <1>1, <2>1, TablesDropped
<1>6. TypeOK'
  BY <1>1, <1>3, <1>4, <1>5 DEF RestoreInvariant, TypeOK, JobKept
<1>7. ~InPod'
  BY <1>2, <1>3 DEF InPod
<1>8. JobFits'
  <2>1. ~job.loader => \A k \in DOMAIN job.map : Single(job.map[k].sources)
    BY <1>2 DEF RestoreInvariant, JobFits
  <2> QED BY <1>4, <1>7, <2>1 DEF JobFits, JobKept
<1>9. ASSUME NEW u \in Nodes PROVE NodeFits(u)'
  <2>1. ~keyed[u]
    BY <1>1 DEF RestoreInvariant, NodeFits, KeyFits
  <2>2. proc'[u].pc = "none" /\ proc'[u].i = 1 /\ proc'[u].src = {}
    BY <1>2, <1>3 DEF NoProc
  <2>3. DownFor(u)' /\ KeyFits(u)' /\ WorkFits(u)' /\ Moved(u)' /\ PodWhole(u)'
    BY <1>3, <1>7, <2>1, <2>2 DEF DownFor, KeyFits, WorkFits, Moved, PodWhole, NodeSteps
  <2> QED BY <2>3 DEF NodeFits
<1> QED BY <1>6, <1>8, <1>9 DEF RestoreInvariant

LEMMA RunKeeps ==
  ASSUME RestoreInvariant,
         \/ PrepareFails \/ Confirm \/ Cancel \/ JoinBatch \/ Verify \/ Kill \/ JoinRaises
  PROVE  RestoreInvariant'
<1>1. /\ job \in JobStates /\ sc \in Scenarios /\ faults \in 0 .. MaxFaults
      /\ rows \in [Indices -> SUBSET ({"old"} \union Nodes)]
      /\ job.next = 1 \/ job.next \in DOMAIN job.map
      /\ InPod => job.pc \in {"idle", "prepare", "pods", "failed", "killed"}
  BY DEF RestoreInvariant, TypeOK, JobFits
<1>2. CASE PrepareFails
  <2>1. job.pc = "prepare" /\ UNCHANGED <<sc, nodeVars, runs>> /\ JobFailed
    BY <1>2 DEF PrepareFails, JobFailed
  <2>2. faults' \in 0 .. MaxFaults
    BY <1>1, <1>2, FaultsCounted DEF PrepareFails
  <2>3. JobKept /\ job'.pc = "failed" /\ job'.next = job.next
    BY <1>1, <2>1, FailedKept
  <2> QED BY <1>1, <2>1, <2>2, <2>3, RunGoesOn DEF nodeVars, JobKept
<1>3. CASE Confirm
  <2> DEFINE pc == IF job.loader THEN "schema" ELSE "stop"
  <2>1. job.pc = "confirm" /\ UNCHANGED <<sc, nodeVars, runs, faults>> /\ job' = [job EXCEPT !.pc = pc]
    BY <1>3 DEF Confirm
  <2>2. pc \in JobSteps /\ pc \in {"schema", "stop"}
    BY DEF JobSteps, Phases
  <2> HIDE DEF pc
  <2>3. JobKept /\ job'.pc = pc /\ job'.next = job.next
    BY <1>1, <2>1, <2>2, PhaseKept
  <2> QED BY <1>1, <2>1, <2>2, <2>3, RunGoesOn DEF nodeVars, JobKept
<1>4. CASE Cancel
  <2>1. job.pc = "confirm" /\ UNCHANGED <<sc, nodeVars, runs, faults>>
        /\ job' = [job EXCEPT !.pc = "cancelled"]
    BY <1>4 DEF Cancel
  <2>2. "cancelled" \in JobSteps
    BY DEF JobSteps, JobEnds
  <2>3. JobKept /\ job'.pc = "cancelled" /\ job'.next = job.next
    BY <1>1, <2>1, <2>2, PhaseKept
  <2> QED BY <1>1, <2>1, <2>3, RunGoesOn DEF nodeVars, JobKept
<1>7. CASE JoinBatch
  <2>1. job.pc \in Phases /\ UNCHANGED <<sc, nodeVars, runs, faults>>
    BY <1>7 DEF JoinBatch
  <2>2. /\ JobKept /\ job'.pc \in {"stop", "restore", "failed", "verify", "done"}
        /\ job'.next = 1 \/ job'.next \in DOMAIN job'.map
    BY <1>1, <1>7, JoinedKept
  <2> QED BY <1>1, <2>1, <2>2, RunGoesOn DEF nodeVars, Phases
<1>8. CASE Verify
  <2>1. job.pc = "verify" /\ UNCHANGED <<sc, nodeVars, runs>>
    BY <1>8 DEF Verify
  <2>2. "done" \in JobSteps /\ "failed" \in JobSteps
    BY DEF JobSteps, JobEnds
  <2>3. JobKept /\ job'.pc \in {"done", "failed"} /\ job'.next = job.next
    BY <1>1, <1>8, <2>2, PhaseKept DEF Verify
  <2>4. faults' \in 0 .. MaxFaults
    BY <1>1, <1>8, FaultsCounted DEF Verify
  <2> QED BY <1>1, <2>1, <2>3, <2>4, RunGoesOn DEF nodeVars, JobKept
<1>9. CASE Kill
  <2>1. job.pc \notin {"pods"} /\ UNCHANGED <<sc, nodeVars, runs>>
        /\ job' = [job EXCEPT !.pc = "killed", !.wait = FALSE]
    BY <1>9 DEF Kill
  <2>2. "killed" \in JobSteps
    BY DEF JobSteps, JobEnds
  <2>4. JobKept /\ job'.pc = "killed" /\ job'.next = job.next
    BY <1>1, <2>1, <2>2, JobAbandoned
  <2>5. faults' \in 0 .. MaxFaults
    BY <1>1, <1>9, FaultsCounted DEF Kill
  <2> QED BY <1>1, <2>1, <2>4, <2>5, RunGoesOn DEF nodeVars, JobKept
<1>10. CASE JoinRaises
  <2>1. job.pc \in Phases /\ UNCHANGED <<sc, nodeVars, runs>>
        /\ job' = [job EXCEPT !.pc = "failed", !.wait = FALSE]
    BY <1>10 DEF JoinRaises
  <2>2. "failed" \in JobSteps
    BY DEF JobSteps, JobEnds
  <2>4. JobKept /\ job'.pc = "failed" /\ job'.next = job.next
    BY <1>1, <2>1, <2>2, JobAbandoned
  <2>5. faults' \in 0 .. MaxFaults
    BY <1>1, <1>10, FaultsCounted DEF JoinRaises
  <2> QED BY <1>1, <2>1, <2>4, <2>5, RunGoesOn DEF nodeVars, JobKept, Phases
<1> QED BY <1>2, <1>3, <1>4, <1>7, <1>8, <1>9, <1>10

LEMMA LaunchKeeps ==
  ASSUME RestoreInvariant, RunBatch \/ RunBatchRaises
  PROVE  RestoreInvariant'
<1>1. /\ job \in JobStates /\ proc \in [Nodes -> ProcStates] /\ faults \in 0 .. MaxFaults
      /\ job.next = 1 \/ job.next \in DOMAIN job.map
      /\ InPod => job.pc \in {"idle", "prepare", "pods", "failed", "killed"}
  BY DEF RestoreInvariant, TypeOK, JobFits
<1>2. job.pc \in Phases /\ ~InPod
  BY <1>1 DEF RunBatch, RunBatchRaises, Phases
<1>3. /\ JobKept /\ job'.pc \in {"failed", "stop", "restore"} /\ job'.next = job.next
  <2>1. CASE RunBatch
    <3>1. job' = [job EXCEPT !.wait = TRUE]
      BY <2>1 DEF RunBatch
    <3>2. job' = [pc |-> job.pc, map |-> job.map, seeds |-> job.seeds, inPlace |-> job.inPlace,
                  keep |-> job.keep, loader |-> job.loader, next |-> job.next, wait |-> TRUE]
      BY <1>1, <3>1, JobWaits, Zenon
    <3> QED BY <1>1, <1>2, <3>2, JobFields, JobGoesOn DEF JobKept, Phases
  <2>2. CASE RunBatchRaises
    BY <1>1, <2>2, FailedKept DEF RunBatchRaises, JobFailed
  <2> QED BY <2>1, <2>2
<1>4. PICK places \in SUBSET Batch : Launch(places)
  BY DEF RunBatch, RunBatchRaises
<1>5. /\ proc' \in [Nodes -> ProcStates]
      /\ \A t \in Nodes :
            \/ proc'[t] = proc[t]
            \/ /\ proc'[t].i = 1 /\ proc'[t].pc \in {"stop", "load", "lookup"}
               /\ proc'[t].pc = "lookup" =>
                     /\ ~job.loader
                     /\ \E k \in DOMAIN job.map : proc'[t].src = job.map[k].sources
  BY <1>1, <1>4, LaunchTyped
<1>6. UNCHANGED <<sc, cass, diskVars, owns, rows, keyed, runs>> /\ faults' \in 0 .. MaxFaults
  BY <1>1, FaultsCounted DEF RunBatch, RunBatchRaises
<1>7. TypeOK'
  BY <1>1, <1>3, <1>5, <1>6 DEF RestoreInvariant, TypeOK, JobKept, diskVars
<1>8. InPod' = InPod
  BY <1>6 DEF InPod
<1>9. JobFits'
  <2>1. ~InPod /\ ~job.loader => \A k \in DOMAIN job.map : Single(job.map[k].sources)
    BY DEF RestoreInvariant, JobFits
  <2> QED BY <1>2, <1>3, <1>8, <2>1 DEF JobFits, JobKept
<1>10. ASSUME NEW u \in Nodes PROVE NodeFits(u)'
  <2>1. NodeFits(u) /\ ~keyed[u]
    BY <1>2 DEF RestoreInvariant, NodeFits, KeyFits, Phases
  <2>2. CASE proc'[u] = proc[u]
    BY <1>3, <1>6, <2>1, <2>2, NodeFrame DEF JobKept, diskVars
  <2>3. CASE proc'[u] # proc[u]
    <3>1. /\ proc'[u].i = 1 /\ proc'[u].pc \in {"stop", "load", "lookup"}
          /\ proc'[u].pc = "lookup" => Single(proc'[u].src)
      BY <1>2, <1>5, <2>3 DEF RestoreInvariant, JobFits
    <3>2. DownFor(u)' /\ KeyFits(u)'
      BY <1>2, <1>6, <1>8, <2>1, <3>1 DEF DownFor, KeyFits
    <3>3. WorkFits(u)'
      BY <1>2, <1>8, <3>1 DEF WorkFits, NodeSteps
    <3>4. Moved(u)' /\ PodWhole(u)'
      BY <1>2, <1>8, <3>1 DEF Moved, PodWhole
    <3> QED BY <3>2, <3>3, <3>4 DEF NodeFits
  <2> QED BY <2>2, <2>3
<1> QED BY <1>7, <1>9, <1>10 DEF RestoreInvariant

-----------------------------------------------------------------------------
(* The steps on a host keep the invariant.                                 *)

LEMMA HostKeeps ==
  ASSUME RestoreInvariant, NEW t \in Nodes, TypeOK', OthersKept(t), NodeFits(t)',
         proc[t].pc # "none" \/ job.pc = "pods"
  PROVE  RestoreInvariant'
<1>1. ~(job.pc \in {"idle", "prepare", "confirm", "schema"} \/ (InPod /\ job.pc # "pods"))
  BY DEF RestoreInvariant, JobFits, NoProc
<1>2. JobFits'
  BY <1>1 DEF RestoreInvariant, JobFits, OthersKept, InPod
<1>3. ASSUME NEW u \in Nodes PROVE NodeFits(u)'
  BY NodeFrame DEF RestoreInvariant, OthersKept
<1> QED BY <1>2, <1>3 DEF RestoreInvariant

\* What the request and the job say of the sections stays.
LEMMA RequestSame ==
  ASSUME UNCHANGED <<sc, job>>
  PROVE  /\ InPod' = InPod /\ \A s : Stored(s)' = Stored(s)
         /\ \A i : LeftAlone(i)' = LeftAlone(i)
<1>1. InPod' = InPod /\ KeepAuth' = KeepAuth
  BY DEF InPod, KeepAuth
<1> QED BY <1>1 DEF Stored, LeftAlone, Retained

\* What holds of the files of a host that stay.
LEMMA FilesSame ==
  ASSUME UNCHANGED <<sc, job>>, NEW t \in Nodes, data'[t] = data[t], log'[t] = log[t]
  PROVE  /\ \A s, i : SectionFrom(t, s, i)' = SectionFrom(t, s, i)
         /\ owns'[t] = owns[t] => Untouched(t)' = Untouched(t)
         /\ owns'[t] = owns[t] /\ yaml'[t] = yaml[t] => \A s : TakenFrom(t, s)' = TakenFrom(t, s)
<1>1. \A s, i : SectionFrom(t, s, i)' = SectionFrom(t, s, i)
  BY RequestSame DEF SectionFrom
<1>2. owns'[t] = owns[t] => Untouched(t)' = Untouched(t)
  BY DEF Untouched
<1>3. owns'[t] = owns[t] /\ yaml'[t] = yaml[t] => \A s : TakenFrom(t, s)' = TakenFrom(t, s)
  BY <1>1 DEF TakenFrom
<1> QED BY <1>1, <1>2, <1>3

LEMMA DataWritten ==
  ASSUME data \in [Nodes -> [Indices -> FileOrigins]], NEW t \in Nodes, NEW i \in Indices,
         NEW v \in FileOrigins, data' = [data EXCEPT ![t][i] = v]
  PROVE  /\ data' \in [Nodes -> [Indices -> FileOrigins]] /\ data'[t][i] = v
         /\ \A j \in Indices \ {i} : data'[t][j] = data[t][j]
         /\ \A u \in Nodes \ {t} : data'[u] = data[u]
OBVIOUS

\* A command that does not run in a pod ends, or goes on with the next source.
LEMMA EndFits ==
  ASSUME NEW t \in Nodes, UNCHANGED <<sc, job>>, ~InPod, ~keyed'[t],
         proc'[t].pc \in {"ok", "error", "load"}
  PROVE  NodeFits(t)'
<1>1. ~InPod'
  BY RequestSame
<1>2. DownFor(t)' /\ KeyFits(t)' /\ WorkFits(t)' /\ Moved(t)' /\ PodWhole(t)'
  BY <1>1 DEF DownFor, KeyFits, WorkFits, Moved, PodWhole, NodeSteps
<1> QED BY <1>2 DEF NodeFits

LEMMA StopCommandKeeps ==
  ASSUME RestoreInvariant, NEW t \in Nodes, StopCommand(t)
  PROVE  RestoreInvariant'
<1>1. /\ proc \in [Nodes -> ProcStates] /\ cass \in [Nodes -> {"up", "down", "unseen"}] /\ faults \in 0 .. MaxFaults
      /\ proc[t].pc = "stop" /\ NodeFits(t)
  BY DEF RestoreInvariant, TypeOK, StopCommand, At
<1>2. ~InPod /\ ~keyed[t]
  BY <1>1 DEF NodeFits, KeyFits
<1>3. "ok" \in ProcSteps /\ "error" \in ProcSteps
  BY DEF ProcSteps
<1>4. /\ proc' \in [Nodes -> ProcStates] /\ proc'[t].pc \in {"ok", "error"}
      /\ \A u \in Nodes \ {t} : proc'[u] = proc[u]
  BY <1>1, <1>3, GotoFields DEF StopCommand
<1>5. UNCHANGED <<sc, job, diskVars, owns, rows, keyed, runs>> /\ faults' \in 0 .. MaxFaults
  BY <1>1, FaultsCounted DEF StopCommand
<1>6. cass' \in [Nodes -> {"up", "down", "unseen"}] /\ \A u \in Nodes \ {t} : cass'[u] = cass[u]
  BY <1>1 DEF StopCommand
<1>7. TypeOK'
  BY <1>4, <1>5, <1>6 DEF RestoreInvariant, TypeOK, diskVars
<1>8. OthersKept(t)
  BY <1>4, <1>5, <1>6 DEF OthersKept, diskVars
<1>9. NodeFits(t)'
  BY <1>2, <1>4, <1>5, EndFits
<1> QED BY <1>1, <1>7, <1>8, <1>9, HostKeeps

\* What sstableloader does with a source.
LEMMA SourceLoaded ==
  ASSUME proc \in [Nodes -> ProcStates], NEW t \in Nodes, NEW s \in proc[t].src,
         proc' = [proc EXCEPT ![t].pc = IF proc[t].src = {s} THEN "ok" ELSE "load",
                              ![t].src = @ \ {s}]
  PROVE  /\ proc' \in [Nodes -> ProcStates]
         /\ proc'[t].pc = (IF proc[t].src = {s} THEN "ok" ELSE "load")
         /\ proc'[t].src = proc[t].src \ {s}
         /\ \A u \in Nodes \ {t} : proc'[u] = proc[u]
<1> DEFINE pc == IF proc[t].src = {s} THEN "ok" ELSE "load"
           src == proc[t].src \ {s}
           p == [pc |-> pc, i |-> proc[t].i, src |-> src, seeds |-> proc[t].seeds]
<1>1. proc[t] \in ProcStates /\ "ok" \in ProcSteps /\ "load" \in ProcSteps
  BY DEF ProcSteps, Running
<1>2. pc \in ProcSteps /\ src \in SUBSET Nodes
  BY <1>1, ProcFields
<1>3. proc' = [proc EXCEPT ![t] = p]
  <2> DEFINE q == [proc[t] EXCEPT !.pc = pc]
  <2>1. proc' = [proc EXCEPT ![t] = [q EXCEPT !.src = src]]
    BY <1>1
  <2> HIDE DEF pc, src
  <2>2. q = [pc |-> pc, i |-> proc[t].i, src |-> proc[t].src, seeds |-> proc[t].seeds]
    BY <1>1, ProcFields
  <2> HIDE DEF q
  <2>3. [q EXCEPT !.src = src] = p
    BY <2>2
  <2> QED BY <2>1, <2>3
<1> HIDE DEF pc, src
<1>4. p \in ProcStates /\ p.pc = pc /\ p.src = src
  BY <1>1, <1>2, ProcFields, ProcBuilt
<1> HIDE DEF p
<1>5. /\ proc' \in [Nodes -> ProcStates] /\ proc'[t].pc = pc /\ proc'[t].src = src
      /\ \A u \in Nodes \ {t} : proc'[u] = proc[u]
  BY <1>1, <1>3, <1>4
<1> QED BY <1>5 DEF pc, src

LEMMA LoadKeeps ==
  ASSUME RestoreInvariant, NEW t \in Nodes, LoadSource(t) \/ LoadFails(t)
  PROVE  RestoreInvariant'
<1>1. /\ proc \in [Nodes -> ProcStates] /\ faults \in 0 .. MaxFaults
      /\ rows \in [Indices -> SUBSET ({"old"} \union Nodes)]
      /\ proc[t].pc = "load" /\ NodeFits(t)
  BY DEF RestoreInvariant, TypeOK, LoadSource, LoadFails, At
<1>2. ~InPod /\ ~keyed[t]
  BY <1>1 DEF NodeFits, KeyFits
<1>3. "ok" \in ProcSteps /\ "error" \in ProcSteps /\ "load" \in ProcSteps
  BY DEF ProcSteps, Running
<1>4. /\ proc[t] \in ProcStates /\ proc[t].src \subseteq Nodes
  BY <1>1, ProcFields
<1>5. UNCHANGED <<sc, job, cass, diskVars, owns, keyed, runs>> /\ faults' \in 0 .. MaxFaults
  BY <1>1, FaultsCounted DEF LoadSource, LoadFails
<1>6. /\ proc' \in [Nodes -> ProcStates] /\ proc'[t].pc \in {"ok", "error", "load"}
      /\ \A u \in Nodes \ {t} : proc'[u] = proc[u]
  <2>1. CASE \E step \in {"ok", "error"} : Goto(t, step)
    BY <1>1, <1>3, <2>1, GotoFields
  <2>2. CASE LoadSource(t) /\ ~\E step \in {"ok", "error"} : Goto(t, step)
    <3>1. PICK s \in proc[t].src :
             proc' = [proc EXCEPT ![t].pc = IF proc[t].src = {s} THEN "ok" ELSE "load",
                                  ![t].src = @ \ {s}]
      BY <2>2 DEF LoadSource
    <3> QED BY <1>1, <3>1, SourceLoaded
  <2>3. CASE LoadFails(t)
    BY <2>1, <2>3 DEF LoadFails
  <2> QED BY <2>1, <2>2, <2>3
<1>7. rows' \in [Indices -> SUBSET ({"old"} \union Nodes)]
  BY <1>1, <1>4 DEF LoadSource, LoadFails
<1>8. TypeOK'
  BY <1>5, <1>6, <1>7 DEF RestoreInvariant, TypeOK, diskVars
<1>9. OthersKept(t)
  BY <1>5, <1>6 DEF OthersKept, diskVars
<1>10. NodeFits(t)'
  BY <1>2, <1>5, <1>6, EndFits
<1> QED BY <1>1, <1>8, <1>9, <1>10, HostKeeps

\* A step of restore-node that leaves the files alone.
LEMMA StepKeeps ==
  ASSUME RestoreInvariant, NEW t \in Nodes, proc[t].pc \in NodeSteps,
         NEW step \in {"download", "shutdown", "waitdown", "clean", "start", "ok", "error"},
         Goto(t, step), UNCHANGED <<sc, job, diskVars, owns, rows, keyed, runs>>,
         faults' \in 0 .. MaxFaults,
         \/ cass' = cass
         \/ step = "waitdown" /\ cass' = [cass EXCEPT ![t] = "down"]
         \/ step = "clean" /\ ~InPod /\ cass' = [cass EXCEPT ![t] = "unseen"],
         step \in NodeSteps => \A s \in proc[t].src : Stored(s) = "full",
         step \in {"download", "shutdown", "waitdown", "clean"} =>
            proc[t].pc \in {"lookup", "download", "shutdown", "waitdown"},
         step = "clean" => cass'[t] = "down" \/ (cass'[t] = "unseen" /\ ~InPod),
         step = "start" => proc[t].pc = "seeds",
         InPod /\ step = "ok" => \A s \in proc[t].src : Stored(s) # "full"
  PROVE  RestoreInvariant'
<1>1. /\ proc \in [Nodes -> ProcStates] /\ cass \in [Nodes -> {"up", "down", "unseen"}] /\ NodeFits(t)
  BY DEF RestoreInvariant, TypeOK
<1>2. step \in ProcSteps
  BY DEF ProcSteps, Running, NodeSteps
<1>3. /\ proc' \in [Nodes -> ProcStates] /\ proc'[t].pc = step /\ proc'[t].i = proc[t].i
      /\ proc'[t].src = proc[t].src /\ \A u \in Nodes \ {t} : proc'[u] = proc[u]
  BY <1>1, <1>2, GotoFields
<1>4. /\ cass' \in [Nodes -> {"up", "down", "unseen"}] /\ \A u \in Nodes \ {t} : cass'[u] = cass[u]
      /\ cass'[t] = cass[t] \/ cass'[t] = "down" \/ ~InPod
      /\ step \notin {"waitdown", "clean"} => cass'[t] = cass[t]
  BY <1>1
<1>5. TypeOK' /\ OthersKept(t)
  BY <1>3, <1>4 DEF RestoreInvariant, TypeOK, OthersKept, diskVars
<1>6. ~keyed[t] /\ proc[t].pc \notin {"none", "keyed", "stop", "load", "ok", "error"}
  BY <1>1 DEF NodeFits, KeyFits, NodeSteps
<1>7. InPod' = InPod /\ \A s : Stored(s)' = Stored(s)
  BY RequestSame
<1>8. /\ \A s, i : SectionFrom(t, s, i)' = SectionFrom(t, s, i)
      /\ Untouched(t)' = Untouched(t)
  BY FilesSame DEF diskVars
<1>9. DownFor(t)'
  <2>1. DownFor(t) /\ KeyFits(t)
    BY <1>1 DEF NodeFits
  <2>2. CASE step \in {"waitdown", "clean"}
    BY <1>3, <1>4, <1>7, <2>1, <2>2 DEF DownFor, NodeSteps
  <2>3. CASE step \notin {"waitdown", "clean"}
    BY <1>3, <1>4, <1>7, <2>1, <2>3 DEF DownFor, NodeSteps
  <2> QED BY <2>2, <2>3
<1>10. KeyFits(t)'
  <2>1. InPod => cass[t] # "unseen"
    BY <1>1 DEF NodeFits, KeyFits
  <2> QED BY <1>3, <1>4, <1>6, <1>7, <2>1 DEF KeyFits
<1>11. WorkFits(t)'
  BY <1>1, <1>3, <1>7 DEF NodeFits, WorkFits, NodeSteps
<1>12. Moved(t)'
  BY <1>1, <1>3, <1>4, <1>8 DEF NodeFits, Moved, diskVars
<1>13. PodWhole(t)'
  BY <1>1, <1>3, <1>7, <1>8 DEF NodeFits, PodWhole
<1>14. NodeFits(t)'
  BY <1>9, <1>10, <1>11, <1>12, <1>13 DEF NodeFits
<1> QED BY <1>5, <1>6, <1>14, HostKeeps

LEMMA StoredKinds ==
  ASSUME sc \in Scenarios
  PROVE  \A s : Stored(s) \in {"full", "empty", "missing"}
BY RequestTypes DEF Stored

LEMMA NodeStepsKeep ==
  ASSUME RestoreInvariant, NEW t \in Nodes,
         \/ Lookup(t) \/ Download(t) \/ Shutdown(t) \/ WaitForDown(t) \/ WaitForSeeds(t)
         \/ GiveUpOnSeeds(t)
  PROVE  RestoreInvariant'
<1>1. /\ NodeFits(t) /\ faults \in 0 .. MaxFaults /\ sc \in Scenarios
      /\ cass \in [Nodes -> {"up", "down", "unseen"}]
  BY DEF RestoreInvariant, TypeOK
<1>2. UNCHANGED <<sc, job, diskVars, owns, rows, keyed, runs>> /\ faults' \in 0 .. MaxFaults
  BY <1>1, FaultsCounted DEF Lookup, Download, Shutdown, WaitForDown, WaitForSeeds, GiveUpOnSeeds
<1>3. /\ proc[t].pc \in NodeSteps => Single(proc[t].src)
      /\ proc[t].pc \in NodeSteps \ {"lookup"} => \A s \in proc[t].src : Stored(s) = "full"
  BY <1>1 DEF NodeFits, WorkFits
<1>4. CASE Lookup(t)
  <2>1. proc[t].pc = "lookup" /\ proc[t].pc \in NodeSteps /\ cass' = cass
    BY <1>4 DEF Lookup, At, NodeSteps
  <2>2. PICK s \in proc[t].src :
           Goto(t, CASE Stored(s) = "full" -> "download"
                     [] Stored(s) = "empty" -> "ok"
                     [] Stored(s) = "missing" -> IF InPod THEN "ok" ELSE "error")
    BY <1>4 DEF Lookup
  <2>3. proc[t].src = {s}
    BY <1>3, <2>1 DEF Single
  <2>4. CASE Stored(s) = "full"
    <3>1. Goto(t, "download")
      BY <2>2, <2>4
    <3> QED BY <1>2, <2>1, <2>3, <2>4, <3>1, StepKeeps
  <2>5. CASE Stored(s) # "full" /\ (Stored(s) = "empty" \/ InPod)
    <3>1. Goto(t, "ok")
      BY <1>1, <2>2, <2>5, StoredKinds
    <3>2. "ok" \notin NodeSteps
      BY DEF NodeSteps
    <3> QED BY <1>2, <2>1, <2>3, <2>5, <3>1, <3>2, StepKeeps
  <2>6. CASE Stored(s) = "missing" /\ ~InPod
    <3>1. Goto(t, "error")
      BY <2>2, <2>6
    <3>2. "error" \notin NodeSteps
      BY DEF NodeSteps
    <3> QED BY <1>2, <2>1, <2>3, <2>6, <3>1, <3>2, StepKeeps
  <2> QED BY <1>1, <2>4, <2>5, <2>6, StoredKinds
<1>5. CASE Download(t)
  <2>1. proc[t].pc = "download" /\ proc[t].pc \in NodeSteps \ {"lookup"} /\ cass' = cass
    BY <1>5 DEF Download, At, NodeSteps
  <2>2. CASE InPod
    <3>1. Goto(t, "clean")
      BY <1>5, <2>2 DEF Download
    <3>2. cass[t] = "down"
      BY <1>1, <2>1, <2>2 DEF NodeFits, DownFor
    <3> QED BY <1>2, <1>3, <2>1, <3>1, <3>2, StepKeeps
  <2>3. CASE ~InPod
    <3>1. Goto(t, "shutdown")
      BY <1>5, <2>3 DEF Download
    <3> QED BY <1>2, <1>3, <2>1, <3>1, StepKeeps
  <2> QED BY <2>2, <2>3
<1>6. CASE Shutdown(t)
  <2>1. proc[t].pc = "shutdown" /\ proc[t].pc \in NodeSteps \ {"lookup"} /\ Goto(t, "waitdown")
    BY <1>6 DEF Shutdown, At, NodeSteps
  <2>2. cass' = cass \/ cass' = [cass EXCEPT ![t] = "down"]
    BY <1>6 DEF Shutdown
  <2> QED BY <1>2, <1>3, <2>1, <2>2, StepKeeps
<1>7. CASE WaitForDown(t)
  <2>1. proc[t].pc = "waitdown" /\ proc[t].pc \in NodeSteps \ {"lookup"}
    BY <1>7 DEF WaitForDown, At, NodeSteps
  <2>2. CASE cass[t] = "down"
    <3>1. Goto(t, "clean") /\ cass' = cass
      BY <1>7, <2>2 DEF WaitForDown
    <3> QED BY <1>2, <1>3, <2>1, <2>2, <3>1, StepKeeps
  <2>3. CASE cass[t] # "down" /\ cass' = cass /\ Goto(t, "error")
    BY <1>2, <1>3, <2>1, <2>3, StepKeeps
  <2>4. CASE cass[t] # "down" /\ cass' = [cass EXCEPT ![t] = "unseen"] /\ Goto(t, "clean")
    <3>1. cass'[t] = "unseen" /\ ~InPod
      BY <1>1, <2>1, <2>4 DEF NodeFits, DownFor
    <3> QED BY <1>2, <1>3, <2>1, <2>4, <3>1, StepKeeps
  <2> QED BY <1>7, <2>2, <2>3, <2>4 DEF WaitForDown
<1>8. CASE WaitForSeeds(t)
  <2>1. proc[t].pc = "seeds" /\ proc[t].pc \in NodeSteps \ {"lookup"} /\ cass' = cass /\ Goto(t, "start")
    BY <1>8 DEF WaitForSeeds, At, NodeSteps
  <2> QED BY <1>2, <1>3, <2>1, StepKeeps
<1>9. CASE GiveUpOnSeeds(t)
  <2>1. proc[t].pc = "seeds" /\ proc[t].pc \in NodeSteps \ {"lookup"} /\ cass' = cass /\ Goto(t, "error")
    BY <1>9 DEF GiveUpOnSeeds, At, NodeSteps
  <2> QED BY <1>2, <1>3, <2>1, StepKeeps
<1> QED BY <1>4, <1>5, <1>6, <1>7, <1>8, <1>9

LEMMA CleanKeeps ==
  ASSUME RestoreInvariant, NEW t \in Nodes, CleanCommitLog(t)
  PROVE  RestoreInvariant'
<1>1. /\ proc \in [Nodes -> ProcStates] /\ log \in [Nodes -> {"old", "clean"}]
      /\ proc[t].pc = "clean" /\ NodeFits(t)
  BY DEF RestoreInvariant, TypeOK, CleanCommitLog, At
<1>2. "move" \in ProcSteps /\ "clean" \in NodeSteps \ {"lookup"}
  BY DEF ProcSteps, Running, NodeSteps
<1>3. /\ proc' \in [Nodes -> ProcStates] /\ proc'[t].pc = "move" /\ proc'[t].i = proc[t].i
      /\ proc'[t].src = proc[t].src /\ \A u \in Nodes \ {t} : proc'[u] = proc[u]
  BY <1>1, <1>2, GotoFields DEF CleanCommitLog
<1>4. UNCHANGED <<sc, job, cass, data, yaml, owns, rows, keyed, runs, faults>>
  BY DEF CleanCommitLog
<1>5. /\ log' \in [Nodes -> {"old", "clean"}] /\ (cass[t] = "down" => log'[t] = "clean")
      /\ \A u \in Nodes \ {t} : log'[u] = log[u]
  BY <1>1 DEF CleanCommitLog
<1>6. TypeOK' /\ OthersKept(t)
  BY <1>3, <1>4, <1>5 DEF RestoreInvariant, TypeOK, OthersKept
<1>7. /\ Single(proc[t].src) /\ \A s \in proc[t].src : Stored(s) = "full"
      /\ proc[t].i = 1 /\ (cass[t] = "down" \/ (cass[t] = "unseen" /\ ~InPod)) /\ ~keyed[t]
  BY <1>1, <1>2 DEF NodeFits, WorkFits, DownFor, KeyFits
<1>8. InPod' = InPod /\ \A s : Stored(s)' = Stored(s)
  BY <1>4, RequestSame
<1>9. DownFor(t)' /\ KeyFits(t)'
  BY <1>1, <1>3, <1>4, <1>7, <1>8 DEF NodeFits, DownFor, KeyFits
<1>10. WorkFits(t)'
  BY <1>3, <1>7, <1>8, SectionFacts DEF WorkFits
<1>11. Moved(t)'
  BY <1>3, <1>4, <1>5, <1>7, SectionFacts DEF Moved
<1>12. PodWhole(t)'
  BY <1>3, <1>7, <1>8 DEF PodWhole, Single
<1>13. NodeFits(t)'
  BY <1>9, <1>10, <1>11, <1>12 DEF NodeFits
<1> QED BY <1>1, <1>6, <1>13, HostKeeps

\* What restore-node does with a section.
LEMMA SectionMoved ==
  ASSUME RestoreInvariant, NEW t \in Nodes, MoveSection(t)
  PROVE  /\ proc[t].pc = "move" /\ proc[t].i \in Indices
         /\ proc' \in [Nodes -> ProcStates]
         /\ proc'[t].pc = (IF proc[t].i = Len(Sections) THEN "seeds" ELSE "move")
         /\ proc'[t].i = proc[t].i + 1
         /\ proc'[t].src = proc[t].src /\ proc'[t].seeds = proc[t].seeds
         /\ \A u \in Nodes \ {t} : proc'[u] = proc[u] /\ data'[u] = data[u]
         /\ data' \in [Nodes -> [Indices -> FileOrigins]]
         /\ \A j \in Indices \ {proc[t].i} : data'[t][j] = data[t][j]
         /\ \E s \in proc[t].src :
               data'[t][proc[t].i] =
                  Placed(t, proc[t].i, maybe_restore_section(proc[t].i, data[t][proc[t].i], s))
<1> DEFINE i == proc[t].i
           step == IF i = Len(Sections) THEN "seeds" ELSE "move"
           p == [pc |-> step, i |-> i + 1, src |-> proc[t].src, seeds |-> proc[t].seeds]
<1>1. /\ proc \in [Nodes -> ProcStates] /\ data \in [Nodes -> [Indices -> FileOrigins]]
      /\ proc[t].pc = "move" /\ NodeFits(t)
  BY DEF RestoreInvariant, TypeOK, MoveSection, At
<1>2. step \in ProcSteps
  BY DEF ProcSteps, Running, NodeSteps
<1>3. i \in Indices
  BY <1>1 DEF NodeFits, WorkFits
<1>4. proc[t] \in ProcStates /\ proc[t].src \subseteq Nodes /\ proc[t].seeds \subseteq Nodes
  BY <1>1, ProcFields
<1>5. i + 1 \in 1 .. Len(Sections) + 1
  BY <1>3, SectionFacts
<1>6. proc' = [proc EXCEPT ![t] = p]
  <2> DEFINE q == [proc[t] EXCEPT !.pc = step]
  <2>1. proc' = [proc EXCEPT ![t] = [q EXCEPT !.i = i + 1]]
    BY <1>1 DEF MoveSection
  <2> HIDE DEF step, i
  <2>2. q = [pc |-> step, i |-> proc[t].i, src |-> proc[t].src, seeds |-> proc[t].seeds]
    BY <1>4, ProcFields
  <2> HIDE DEF q
  <2>3. [q EXCEPT !.i = i + 1] = p
    BY <2>2
  <2> QED BY <2>1, <2>3
<1>7. p \in ProcStates /\ p.pc = step /\ p.i = i + 1 /\ p.src = proc[t].src /\ p.seeds = proc[t].seeds
  <2> HIDE DEF step, i
  <2> QED BY <1>2, <1>4, <1>5, ProcBuilt
<1> HIDE DEF p
<1>8. /\ proc' \in [Nodes -> ProcStates] /\ proc'[t].pc = step /\ proc'[t].i = i + 1
      /\ proc'[t].src = proc[t].src /\ proc'[t].seeds = proc[t].seeds
      /\ \A u \in Nodes \ {t} : proc'[u] = proc[u]
  BY <1>1, <1>6, <1>7
<1>9. PICK s \in proc[t].src :
         data' = [data EXCEPT ![t][i] = Placed(t, i, maybe_restore_section(i, @, s))]
  BY DEF MoveSection
<1> DEFINE v == Placed(t, i, maybe_restore_section(i, data[t][i], s))
<1>10. v \in FileOrigins
  BY <1>1, <1>3, <1>4 DEF maybe_restore_section, Placed, FileOrigins
<1>11. data' = [data EXCEPT ![t][i] = v]
  BY <1>9
<1> HIDE DEF v
<1>12. /\ data' \in [Nodes -> [Indices -> FileOrigins]] /\ data'[t][i] = v
       /\ \A j \in Indices \ {i} : data'[t][j] = data[t][j]
       /\ \A u \in Nodes \ {t} : data'[u] = data[u]
  <2> HIDE DEF i
  <2> QED BY <1>1, <1>3, <1>10, <1>11, DataWritten
<1> QED BY <1>1, <1>3, <1>8, <1>12 DEF v

LEMMA MoveKeeps ==
  ASSUME RestoreInvariant, NEW t \in Nodes, MoveSection(t)
  PROVE  RestoreInvariant'
<1> DEFINE i == proc[t].i
           step == IF i = Len(Sections) THEN "seeds" ELSE "move"
<1>1. /\ proc \in [Nodes -> ProcStates] /\ data \in [Nodes -> [Indices -> FileOrigins]]
      /\ proc[t].pc = "move" /\ NodeFits(t)
  BY DEF RestoreInvariant, TypeOK, MoveSection, At
<1>2. "move" \in NodeSteps \ {"lookup"} /\ step \in ProcSteps /\ step \in {"seeds", "move"}
  BY DEF ProcSteps, Running, NodeSteps
<1>3. /\ Single(proc[t].src) /\ \A s \in proc[t].src : Stored(s) = "full"
      /\ i \in Indices /\ (cass[t] = "down" \/ (cass[t] = "unseen" /\ ~InPod)) /\ ~keyed[t]
  BY <1>1, <1>2 DEF NodeFits, WorkFits, DownFor, KeyFits
<1>4. proc[t] \in ProcStates /\ proc[t].src \subseteq Nodes /\ proc[t].seeds \subseteq Nodes
  BY <1>1, ProcFields
<1>5. Len(Sections) \in Nat /\ Indices = 1 .. Len(Sections) /\ i \in Nat /\ i <= Len(Sections)
  BY <1>3, SectionFacts
<1>6. /\ proc' \in [Nodes -> ProcStates] /\ proc'[t].pc = step /\ proc'[t].i = i + 1
      /\ proc'[t].src = proc[t].src /\ \A u \in Nodes \ {t} : proc'[u] = proc[u]
      /\ \A u \in Nodes \ {t} : data'[u] = data[u]
  BY SectionMoved
<1>7. PICK s \in proc[t].src : data'[t][i] = Placed(t, i, maybe_restore_section(i, data[t][i], s))
  BY SectionMoved
<1> DEFINE v == Placed(t, i, maybe_restore_section(i, data[t][i], s))
<1>8. /\ data' \in [Nodes -> [Indices -> FileOrigins]] /\ data'[t][i] = v
      /\ \A j \in Indices \ {i} : data'[t][j] = data[t][j]
  BY <1>7, SectionMoved
<1> HIDE DEF v
<1>9. UNCHANGED <<sc, job, cass, log, yaml, owns, rows, keyed, runs, faults>>
  BY DEF MoveSection
<1>10. TypeOK' /\ OthersKept(t)
  BY <1>6, <1>8, <1>9 DEF RestoreInvariant, TypeOK, OthersKept
<1>11. /\ InPod' = InPod /\ \A q : Stored(q)' = Stored(q)
       /\ \A j : LeftAlone(j)' = LeftAlone(j)
  BY <1>9, RequestSame
<1>12. proc[t].src = {s}
  BY <1>3 DEF Single
<1>13. cass[t] = "down" => \A j \in Indices : j < i + 1 => SectionFrom(t, s, j)'
  <2> SUFFICES ASSUME cass[t] = "down", NEW j \in Indices, j < i + 1 PROVE SectionFrom(t, s, j)'
    OBVIOUS
  <2>1. CASE j = i
    BY <1>8, <1>9, <1>11, <2>1 DEF SectionFrom, v, maybe_restore_section, Placed
  <2>2. CASE j # i
    <3>1. SectionFrom(t, s, j)
      BY <1>1, <1>5, <2>2 DEF NodeFits, Moved
    <3> QED BY <1>8, <1>9, <1>11, <2>2, <3>1 DEF SectionFrom
  <2> QED BY <2>1, <2>2
<1>14. DownFor(t)' /\ KeyFits(t)'
  BY <1>1, <1>2, <1>3, <1>6, <1>9, <1>11 DEF NodeFits, DownFor, KeyFits
<1>15. WorkFits(t)'
  BY <1>2, <1>3, <1>5, <1>6, <1>11 DEF WorkFits
<1>16. Moved(t)'
  <2>1. cass[t] = "down" => log'[t] = "clean"
    BY <1>1, <1>9 DEF NodeFits, Moved
  <2>2. step = "seeds" => \A j \in Indices : j < i + 1
    BY <1>5
  <2> HIDE DEF step, i
  <2> QED BY <1>2, <1>6, <1>9, <1>12, <1>13, <2>1, <2>2 DEF Moved
<1>17. PodWhole(t)'
  BY <1>2, <1>3, <1>6, <1>11 DEF PodWhole, Single
<1>18. NodeFits(t)'
  BY <1>14, <1>15, <1>16, <1>17 DEF NodeFits
<1> QED BY <1>1, <1>10, <1>18, HostKeeps

\* What the start of Cassandra makes of a host.
LEMMA Started ==
  ASSUME data \in [Nodes -> [Indices -> FileOrigins]], cass \in [Nodes -> {"up", "down", "unseen"}],
         owns \in [Nodes -> Nodes], yaml' \in [Nodes -> Nodes], NEW t \in Nodes, CassandraStarts(t)
  PROVE  /\ data' \in [Nodes -> [Indices -> FileOrigins]] /\ cass' \in [Nodes -> {"up", "down", "unseen"}]
         /\ owns' \in [Nodes -> Nodes] /\ cass'[t] = "up"
         /\ data'[t][Local] = (IF data[t][Local] = "gone" THEN "new" ELSE data[t][Local])
         /\ \A j \in Indices \ {Local} : data'[t][j] = data[t][j]
         /\ data[t][Local] \in Nodes => owns'[t] = data[t][Local]
         /\ data[t][Local] = "gone" => owns'[t] = yaml'[t]
         /\ data[t][Local] \in {"old", "new"} => owns'[t] = owns[t]
         /\ \A u \in Nodes \ {t} : cass'[u] = cass[u] /\ owns'[u] = owns[u] /\ data'[u] = data[u]
<1> DEFINE here == data[t][Local]
           there == IF here = "gone" THEN "new" ELSE here
           o == IF here \in Nodes THEN here ELSE IF here = "gone" THEN yaml'[t] ELSE owns[t]
<1>1. Local \in Indices
  BY SectionFacts
<1>2. there \in FileOrigins /\ o \in Nodes
  BY <1>1 DEF FileOrigins
<1>3. data' = [data EXCEPT ![t][Local] = there] /\ owns' = [owns EXCEPT ![t] = o]
      /\ cass' = [cass EXCEPT ![t] = "up"]
  BY DEF CassandraStarts
<1>4. here \in Nodes => o = here
  OBVIOUS
<1>5. here = "gone" => o = yaml'[t]
  BY NodesAssumption
<1>6. here \in {"old", "new"} => o = owns[t]
  BY NodesAssumption
<1> HIDE DEF o, there
<1>7. /\ data' \in [Nodes -> [Indices -> FileOrigins]] /\ data'[t][Local] = there
      /\ \A j \in Indices \ {Local} : data'[t][j] = data[t][j]
      /\ \A u \in Nodes \ {t} : data'[u] = data[u]
  BY <1>1, <1>2, <1>3, DataWritten
<1>8. /\ owns' \in [Nodes -> Nodes] /\ owns'[t] = o /\ \A u \in Nodes \ {t} : owns'[u] = owns[u]
  BY <1>2, <1>3
<1>9. /\ cass' \in [Nodes -> {"up", "down", "unseen"}] /\ cass'[t] = "up"
      /\ \A u \in Nodes \ {t} : cass'[u] = cass[u]
  BY <1>3
<1> QED BY <1>4, <1>5, <1>6, <1>7, <1>8, <1>9 DEF there

\* system.local is restored, or removed in a remote restore.
LEMMA LocalTaken ==
  ASSUME job \in JobStates, NEW t \in Nodes, NEW s \in Nodes, SectionFrom(t, s, Local)
  PROVE  data[t][Local] = IF job.inPlace THEN s ELSE "gone"
<1>1. ~UserSection(Local) /\ Sections[Local].ks # "system_auth" /\ SkippedRemote(Local)
  BY SectionFacts DEF UserSection, SystemKeyspaces, SkippedRemote
<1>2. ~LeftAlone(Local)
  BY <1>1 DEF LeftAlone, Retained
<1> QED BY <1>1, <1>2, JobFields DEF SectionFrom

LEMMA StartKeeps ==
  ASSUME RestoreInvariant, NEW t \in Nodes, StartCassandra(t)
  PROVE  RestoreInvariant'
<1>1. /\ proc \in [Nodes -> ProcStates] /\ yaml \in [Nodes -> Nodes] /\ job \in JobStates
      /\ data \in [Nodes -> [Indices -> FileOrigins]] /\ cass \in [Nodes -> {"up", "down", "unseen"}]
      /\ owns \in [Nodes -> Nodes] /\ proc[t].pc = "start" /\ NodeFits(t)
  BY DEF RestoreInvariant, TypeOK, StartCassandra, At
<1>2. "ok" \in ProcSteps /\ "start" \in NodeSteps \ {"lookup"}
  BY DEF ProcSteps, NodeSteps
<1>3. /\ proc' \in [Nodes -> ProcStates] /\ proc'[t].pc = "ok"
      /\ proc'[t].src = proc[t].src /\ \A u \in Nodes \ {t} : proc'[u] = proc[u]
  BY <1>1, <1>2, GotoFields DEF StartCassandra
<1>4. /\ Single(proc[t].src) /\ \A s \in proc[t].src : Stored(s) = "full"
      /\ ~keyed[t] /\ proc[t].src \subseteq Nodes
  BY <1>1, <1>2, ProcFields DEF NodeFits, WorkFits, KeyFits
<1>5. PICK s \in proc[t].src : yaml' = [yaml EXCEPT ![t] = IF job.inPlace THEN @ ELSE s]
  BY DEF StartCassandra, Tokens
<1>6. /\ yaml' \in [Nodes -> Nodes] /\ (~job.inPlace => yaml'[t] = s)
      /\ \A u \in Nodes \ {t} : yaml'[u] = yaml[u]
  BY <1>1, <1>4, <1>5
<1>7. UNCHANGED <<sc, job, log, rows, keyed, runs, faults>>
  BY DEF StartCassandra
<1>8. proc[t].src = {s}
  BY <1>4 DEF Single
<1>9. CASE InPod
  <2>1. UNCHANGED <<cass, owns, data>> /\ cass[t] = "down"
    BY <1>1, <1>9 DEF StartCassandra, NodeFits, DownFor
  <2>2. TypeOK' /\ OthersKept(t)
    BY <1>3, <1>6, <1>7, <2>1 DEF RestoreInvariant, TypeOK, OthersKept
  <2>3. InPod' = InPod /\ \A q : Stored(q)' = Stored(q)
    BY <1>7, RequestSame
  <2>4. \A q, j : SectionFrom(t, q, j)' = SectionFrom(t, q, j)
    BY <1>7, <2>1, FilesSame
  <2>5. log[t] = "clean" /\ \A j \in Indices : SectionFrom(t, s, j)
    BY <1>1, <1>8, <2>1 DEF NodeFits, Moved
  <2>6. data[t][Local] = IF job.inPlace THEN s ELSE "gone"
    BY <1>1, <1>4, <2>5, SectionFacts, LocalTaken
  <2>7. TakenFrom(t, s)'
    BY <1>1, <1>6, <1>7, <2>1, <2>4, <2>5, <2>6, JobFields DEF TakenFrom
  <2>8. PodWhole(t)'
    BY <1>3, <1>4, <1>8, <2>3, <2>7 DEF PodWhole
  <2>9. DownFor(t)' /\ KeyFits(t)' /\ Moved(t)'
    BY <1>1, <1>3, <1>4, <1>7, <2>1, <2>3 DEF NodeFits, DownFor, KeyFits, Moved, NodeSteps
  <2>10. WorkFits(t)'
    BY <1>3, <1>4, <2>3 DEF WorkFits, NodeSteps
  <2>11. NodeFits(t)'
    BY <2>8, <2>9, <2>10 DEF NodeFits
  <2> QED BY <1>1, <2>2, <2>11, HostKeeps
<1>10. CASE ~InPod
  <2>1. CassandraStarts(t) \/ UNCHANGED <<cass, owns, data>>
    BY <1>10 DEF StartCassandra
  <2>2. /\ data' \in [Nodes -> [Indices -> FileOrigins]] /\ cass' \in [Nodes -> {"up", "down", "unseen"}]
        /\ owns' \in [Nodes -> Nodes]
        /\ \A u \in Nodes \ {t} : cass'[u] = cass[u] /\ owns'[u] = owns[u] /\ data'[u] = data[u]
    BY <1>1, <1>6, <2>1, Started
  <2>3. TypeOK' /\ OthersKept(t)
    BY <1>3, <1>6, <1>7, <2>2 DEF RestoreInvariant, TypeOK, OthersKept
  <2>4. NodeFits(t)'
    BY <1>3, <1>4, <1>7, <1>10, EndFits
  <2> QED BY <1>1, <2>3, <2>4, HostKeeps
<1> QED BY <1>9, <1>10

LEMMA FailKeeps ==
  ASSUME RestoreInvariant, NEW t \in Nodes, NodeFails(t)
  PROVE  RestoreInvariant'
<1>1. /\ proc \in [Nodes -> ProcStates] /\ data \in [Nodes -> [Indices -> FileOrigins]]
      /\ faults \in 0 .. MaxFaults /\ proc[t].pc \in NodeSteps /\ NodeFits(t) /\ Goto(t, "error")
  BY DEF RestoreInvariant, TypeOK, NodeFails
<1>2. UNCHANGED <<sc, job, cass, log, yaml, owns, rows, keyed, runs>> /\ faults' \in 0 .. MaxFaults
  BY <1>1, FaultsCounted DEF NodeFails
<1>3. "error" \notin NodeSteps
  BY DEF NodeSteps
<1>4. CASE data' = data
  BY <1>1, <1>2, <1>3, <1>4, StepKeeps DEF diskVars
<1>5. CASE proc[t].pc = "move" /\ data' = [data EXCEPT ![t][proc[t].i] = Placed(t, proc[t].i, "gone")]
  <2>1. /\ "error" \in ProcSteps /\ "move" \in NodeSteps \ {"lookup"}
        /\ Placed(t, proc[t].i, "gone") \in FileOrigins
    BY DEF ProcSteps, NodeSteps, FileOrigins, Placed
  <2>2. /\ proc' \in [Nodes -> ProcStates] /\ proc'[t].pc = "error"
        /\ proc'[t].src = proc[t].src /\ \A u \in Nodes \ {t} : proc'[u] = proc[u]
    BY <1>1, <2>1, GotoFields
  <2>3. /\ Single(proc[t].src) /\ \A s \in proc[t].src : Stored(s) = "full"
        /\ ~keyed[t] /\ proc[t].i \in Indices
    BY <1>1, <1>5, <2>1 DEF NodeFits, WorkFits, KeyFits
  <2>4. /\ data' \in [Nodes -> [Indices -> FileOrigins]]
        /\ \A u \in Nodes \ {t} : data'[u] = data[u]
    BY <1>1, <1>5, <2>1, <2>3, DataWritten
  <2>5. TypeOK' /\ OthersKept(t)
    BY <1>2, <2>2, <2>4 DEF RestoreInvariant, TypeOK, OthersKept
  <2>6. InPod' = InPod /\ \A q : Stored(q)' = Stored(q)
    BY <1>2, RequestSame
  <2>7. DownFor(t)' /\ KeyFits(t)' /\ Moved(t)'
    BY <1>1, <1>2, <2>2, <2>3, <2>6 DEF NodeFits, DownFor, KeyFits, Moved, NodeSteps
  <2>8. WorkFits(t)'
    BY <2>2, <2>3, <2>6 DEF WorkFits, NodeSteps
  <2>9. PodWhole(t)'
    BY <2>2, <2>3, <2>6 DEF PodWhole, Single
  <2>10. NodeFits(t)'
    BY <2>7, <2>8, <2>9 DEF NodeFits
  <2>11. proc[t].pc # "none"
    BY <1>5
  <2> QED BY <2>5, <2>10, <2>11, HostKeeps
<1> QED BY <1>4, <1>5 DEF NodeFails, At

\* An init container that is started from its beginning.
LEMMA ContainerFits ==
  ASSUME RestoreInvariant, NEW t \in Nodes, job.pc = "pods", NEW src \in SUBSET Nodes,
         src = {} \/ Single(src), ~keyed[t],
         proc' = [proc EXCEPT ![t] = ContainerAt(t, src)],
         cass' = [cass EXCEPT ![t] = "down"],
         UNCHANGED <<sc, job, diskVars, owns, rows, keyed, runs>>, faults' \in 0 .. MaxFaults,
         (\A s \in src : Stored(s) # "full") => Untouched(t)
  PROVE  RestoreInvariant'
<1> DEFINE pc == IF src = {} THEN "ok" ELSE "lookup"
           p == [pc |-> pc, i |-> 1, src |-> src, seeds |-> {}]
<1>1. proc \in [Nodes -> ProcStates] /\ cass \in [Nodes -> {"up", "down", "unseen"}] /\ InPod
  BY DEF RestoreInvariant, TypeOK, JobFits
<1>2. pc \in ProcSteps /\ pc \in {"ok", "lookup"} /\ (pc = "ok" <=> src = {})
  BY DEF ProcSteps, Running, NodeSteps
<1>3. ContainerAt(t, src) = p
  <2> DEFINE q == [NoProc EXCEPT !.pc = pc]
  <2>1. ContainerAt(t, src) = [q EXCEPT !.src = src]
    BY DEF ContainerAt
  <2> HIDE DEF pc
  <2>2. q = [pc |-> pc, i |-> 1, src |-> {}, seeds |-> {}]
    BY DEF NoProc
  <2> HIDE DEF q
  <2> QED BY <2>1, <2>2
<1> HIDE DEF pc
<1>4. p \in ProcStates /\ p.pc = pc /\ p.i = 1 /\ p.src = src
  <2>1. 1 \in 1 .. Len(Sections) + 1
    BY SectionFacts
  <2>2. {} \in SUBSET Nodes
    OBVIOUS
  <2> QED BY <1>2, <2>1, <2>2, ProcBuilt
<1> HIDE DEF p
<1>5. /\ proc' \in [Nodes -> ProcStates] /\ proc'[t].pc = pc /\ proc'[t].i = 1
      /\ proc'[t].src = src /\ \A u \in Nodes \ {t} : proc'[u] = proc[u]
  BY <1>1, <1>3, <1>4
<1>6. /\ cass' \in [Nodes -> {"up", "down", "unseen"}] /\ cass'[t] = "down"
      /\ \A u \in Nodes \ {t} : cass'[u] = cass[u]
  BY <1>1
<1>7. TypeOK' /\ OthersKept(t)
  BY <1>5, <1>6 DEF RestoreInvariant, TypeOK, OthersKept, diskVars
<1>8. InPod' = InPod /\ (\A q : Stored(q)' = Stored(q)) /\ Untouched(t)' = Untouched(t)
  BY RequestSame, FilesSame DEF diskVars
<1>9. DownFor(t)' /\ KeyFits(t)'
  BY <1>2, <1>5, <1>6 DEF DownFor, KeyFits
<1>10. WorkFits(t)' /\ Moved(t)'
  BY <1>2, <1>5 DEF WorkFits, Moved, NodeSteps
<1>11. PodWhole(t)'
  BY <1>2, <1>5, <1>8 DEF PodWhole
<1>12. NodeFits(t)'
  BY <1>9, <1>10, <1>11 DEF NodeFits
<1> QED BY <1>7, <1>12, HostKeeps

LEMMA PodRecreatedKeeps ==
  ASSUME RestoreInvariant, NEW t \in Nodes, PodRecreated(t)
  PROVE  RestoreInvariant'
<1>1. job.pc = "pods" /\ proc[t].pc = "none" /\ NodeFits(t) /\ InPod /\ job \in JobStates
      /\ faults \in 0 .. MaxFaults
  BY DEF RestoreInvariant, TypeOK, JobFits, PodRecreated, At
<1>2. ~keyed[t] /\ Untouched(t)
  BY <1>1 DEF NodeFits, KeyFits, WorkFits, PodWhole
<1>3. PICK src \in IF PodSources(t) = {} THEN {{}} ELSE PodSources(t) :
         proc' = [proc EXCEPT ![t] = ContainerAt(t, src)]
  BY DEF PodRecreated
<1>4. Sources(job.map, t) \subseteq Nodes
  <2>1. \A k \in DOMAIN job.map : job.map[k] \in Entries
    BY <1>1, JobFields
  <2>2. \A k \in DOMAIN job.map : job.map[k].sources \subseteq Nodes
    BY <2>1 DEF Entries
  <2> QED BY <2>2 DEF Sources
<1>5. src \in SUBSET Nodes /\ (src = {} \/ Single(src))
  BY <1>3, <1>4 DEF PodSources, Single
<1>6. /\ cass' = [cass EXCEPT ![t] = "down"] /\ faults' \in 0 .. MaxFaults
      /\ UNCHANGED <<sc, job, diskVars, owns, rows, keyed, runs>>
  BY <1>1 DEF PodRecreated
<1> QED BY <1>1, <1>2, <1>3, <1>5, <1>6, ContainerFits

LEMMA WriteKeyKeeps ==
  ASSUME RestoreInvariant, NEW t \in Nodes, WriteKey(t)
  PROVE  RestoreInvariant'
<1>1. /\ proc \in [Nodes -> ProcStates] /\ keyed \in [Nodes -> BOOLEAN]
      /\ job.pc = "pods" /\ proc[t].pc = "ok" /\ NodeFits(t)
  BY DEF RestoreInvariant, TypeOK, WriteKey, At
<1>2. "keyed" \in ProcSteps
  BY DEF ProcSteps
<1>3. /\ proc' \in [Nodes -> ProcStates] /\ proc'[t].pc = "keyed"
      /\ proc'[t].src = proc[t].src /\ \A u \in Nodes \ {t} : proc'[u] = proc[u]
  BY <1>1, <1>2, GotoFields DEF WriteKey
<1>4. keyed' \in [Nodes -> BOOLEAN] /\ keyed'[t] /\ \A u \in Nodes \ {t} : keyed'[u] = keyed[u]
  BY <1>1 DEF WriteKey
<1>5. UNCHANGED <<sc, job, cass, diskVars, owns, rows, runs, faults>>
  BY DEF WriteKey
<1>6. TypeOK' /\ OthersKept(t)
  BY <1>3, <1>4, <1>5 DEF RestoreInvariant, TypeOK, OthersKept, diskVars
<1>7. InPod' = InPod /\ \A q : Stored(q)' = Stored(q)
  BY <1>5, RequestSame
<1>8. Untouched(t)' = Untouched(t) /\ \A s : TakenFrom(t, s)' = TakenFrom(t, s)
  BY <1>5, FilesSame DEF diskVars
<1>9. DownFor(t)' /\ KeyFits(t)' /\ Moved(t)'
  BY <1>1, <1>3, <1>4, <1>5, <1>7 DEF NodeFits, DownFor, KeyFits, Moved, NodeSteps
<1>10. WorkFits(t)'
  BY <1>1, <1>3, <1>7 DEF NodeFits, WorkFits, NodeSteps
<1>11. PodWhole(t)'
  BY <1>1, <1>3, <1>7, <1>8 DEF NodeFits, PodWhole
<1>12. NodeFits(t)'
  BY <1>9, <1>10, <1>11 DEF NodeFits
<1> QED BY <1>1, <1>6, <1>12, HostKeeps

LEMMA PodStartsKeeps ==
  ASSUME RestoreInvariant, NEW t \in Nodes, PodStarts(t)
  PROVE  RestoreInvariant'
<1>1. /\ data \in [Nodes -> [Indices -> FileOrigins]] /\ cass \in [Nodes -> {"up", "down", "unseen"}]
      /\ owns \in [Nodes -> Nodes] /\ yaml \in [Nodes -> Nodes] /\ proc \in [Nodes -> ProcStates]
      /\ proc[t].pc = "keyed" /\ job.pc = "pods" /\ NodeFits(t) /\ CassandraStarts(t)
  BY DEF RestoreInvariant, TypeOK, PodStarts, At
<1>2. UNCHANGED <<sc, job, proc, log, yaml, rows, keyed, runs, faults>>
  BY DEF PodStarts
<1>3. /\ data' \in [Nodes -> [Indices -> FileOrigins]] /\ cass' \in [Nodes -> {"up", "down", "unseen"}]
      /\ owns' \in [Nodes -> Nodes] /\ cass'[t] = "up"
      /\ data'[t][Local] = (IF data[t][Local] = "gone" THEN "new" ELSE data[t][Local])
      /\ \A j \in Indices \ {Local} : data'[t][j] = data[t][j]
      /\ data[t][Local] \in Nodes => owns'[t] = data[t][Local]
      /\ data[t][Local] = "gone" => owns'[t] = yaml'[t]
      /\ data[t][Local] \in {"old", "new"} => owns'[t] = owns[t]
      /\ \A u \in Nodes \ {t} : cass'[u] = cass[u] /\ owns'[u] = owns[u] /\ data'[u] = data[u]
  BY <1>1, <1>2, Started
<1>4. TypeOK' /\ OthersKept(t)
  BY <1>2, <1>3 DEF RestoreInvariant, TypeOK, OthersKept
<1>5. /\ InPod' = InPod /\ \A q : Stored(q)' = Stored(q)
      /\ \A j : LeftAlone(j)' = LeftAlone(j)
  BY <1>2, RequestSame
<1>6. Untouched(t) => Untouched(t)'
  BY <1>2, <1>3, SectionFacts DEF Untouched
<1>7. ASSUME NEW s \in Nodes, TakenFrom(t, s) PROVE TakenFrom(t, s)'
  <2>1. \A j \in Indices \ {Local} : SectionFrom(t, s, j)'
    BY <1>2, <1>3, <1>5, <1>7 DEF TakenFrom, SectionFrom
  <2>2. log'[t] = "clean"
    BY <1>2, <1>7 DEF TakenFrom
  <2>3. \/ data'[t][Local] = s
        \/ data'[t][Local] = "gone" /\ yaml'[t] = s
        \/ data'[t][Local] = "new" /\ owns'[t] = s
    <3>1. s # "gone"
      BY NodesAssumption
    <3> QED BY <1>2, <1>3, <1>7, <3>1 DEF TakenFrom
  <2> QED BY <2>1, <2>2, <2>3 DEF TakenFrom
<1>8. proc[t].src \subseteq Nodes
  BY <1>1, ProcFields
<1>9. DownFor(t)' /\ KeyFits(t)' /\ WorkFits(t)' /\ Moved(t)'
  <2>1. WorkFits(t) /\ KeyFits(t)
    BY <1>1 DEF NodeFits
  <2> QED BY <1>1, <1>2, <1>3, <1>5, <2>1 DEF DownFor, KeyFits, Moved, WorkFits, NodeSteps
<1>10. PodWhole(t)'
  BY <1>1, <1>2, <1>5, <1>6, <1>7, <1>8 DEF NodeFits, PodWhole
<1>11. NodeFits(t)'
  BY <1>9, <1>10 DEF NodeFits
<1> QED BY <1>1, <1>4, <1>11, HostKeeps

LEMMA PodRestartsKeeps ==
  ASSUME RestoreInvariant, NEW t \in Nodes, PodRestarts(t)
  PROVE  RestoreInvariant'
<1>1. /\ proc \in [Nodes -> ProcStates] /\ cass \in [Nodes -> {"up", "down", "unseen"}]
      /\ job.pc = "pods" /\ NodeFits(t) /\ InPod /\ faults \in 0 .. MaxFaults /\ proc[t].pc # "none"
  BY DEF RestoreInvariant, TypeOK, PodRestarts, JobFits
<1>2. /\ cass' = [cass EXCEPT ![t] = "down"] /\ proc' = [proc EXCEPT ![t] = AfterRestart(t)]
      /\ UNCHANGED <<sc, job, diskVars, owns, rows, keyed, runs>> /\ faults' \in 0 .. MaxFaults
  <2>1. FaultUnless(At(t, "error")) /\ At(t, "error") \in BOOLEAN
    BY DEF PodRestarts, At
  <2>2. faults' \in 0 .. MaxFaults
    BY <1>1, <2>1, FaultsCounted
  <2> QED BY <2>2 DEF PodRestarts
<1>3. CASE ~keyed[t]
  <2>1. proc' = [proc EXCEPT ![t] = ContainerAt(t, proc[t].src)]
    BY <1>2, <1>3 DEF AfterRestart
  <2>2. proc[t].src \in SUBSET Nodes
    BY <1>1, ProcFields
  <2>3. proc[t].src = {} \/ Single(proc[t].src)
    BY <1>1 DEF NodeFits, WorkFits
  <2>4. (\A s \in proc[t].src : Stored(s) # "full") => Untouched(t)
    BY <1>1 DEF NodeFits, PodWhole
  <2> QED BY <1>1, <1>2, <1>3, <2>1, <2>2, <2>3, <2>4, ContainerFits
<1>4. CASE keyed[t]
  <2>1. proc[t].pc = "keyed"
    BY <1>1, <1>4 DEF NodeFits, KeyFits
  <2>2. AfterRestart(t) = proc[t]
    <3>1. AfterRestart(t) = [proc[t] EXCEPT !.pc = "keyed"]
      BY <1>4 DEF AfterRestart
    <3> QED BY <1>1, <2>1, <3>1, ProcFields
  <2>3. proc' = proc
    BY <1>1, <1>2, <2>2
  <2>4. /\ cass' \in [Nodes -> {"up", "down", "unseen"}] /\ cass'[t] = "down"
        /\ \A u \in Nodes \ {t} : cass'[u] = cass[u]
    BY <1>1, <1>2
  <2>5. TypeOK' /\ OthersKept(t)
    BY <1>2, <2>3, <2>4 DEF RestoreInvariant, TypeOK, OthersKept, diskVars
  <2>6. InPod' = InPod /\ \A q : Stored(q)' = Stored(q)
    BY <1>2, RequestSame
  <2>7. Untouched(t)' = Untouched(t) /\ \A s : TakenFrom(t, s)' = TakenFrom(t, s)
    BY <1>2, FilesSame DEF diskVars
  <2>8. DownFor(t)' /\ Moved(t)'
    BY <2>1, <2>3 DEF DownFor, Moved, NodeSteps
  <2>9. KeyFits(t)' /\ WorkFits(t)'
    <3>1. WorkFits(t) /\ KeyFits(t)
      BY <1>1 DEF NodeFits
    <3> QED BY <1>2, <2>3, <2>4, <2>6, <3>1 DEF KeyFits, WorkFits
  <2>10. PodWhole(t)'
    BY <1>1, <2>3, <2>6, <2>7 DEF NodeFits, PodWhole
  <2>11. NodeFits(t)'
    BY <2>8, <2>9, <2>10 DEF NodeFits
  <2> QED BY <1>1, <2>5, <2>11, HostKeeps
<1> QED BY <1>3, <1>4

-----------------------------------------------------------------------------
(* The theorems.                                                           *)

LEMMA RestoreInit ==
  ASSUME Init
  PROVE  RestoreInvariant
<1>1. job = [pc |-> "idle", map |-> <<>>, seeds |-> {}, inPlace |-> FALSE, keep |-> FALSE,
             loader |-> FALSE, next |-> 1, wait |-> FALSE]
  BY DEF Init, NoJob
<1>2. job \in JobStates /\ job.pc = "idle" /\ job.next = 1 /\ job.map = <<>>
  <2>1. "idle" \in JobSteps
    BY DEF JobSteps
  <2>2. <<>> \in Seq(Entries) /\ {} \in SUBSET Nodes /\ 1 \in Nat \ {0} /\ FALSE \in BOOLEAN
    OBVIOUS
  <2>3. job \in JobStates
    BY <1>1, <2>1, <2>2, JobBuilt, Zenon
  <2> QED BY <1>1, <2>3
<1>3. /\ proc \in [Nodes -> ProcStates] /\ cass \in [Nodes -> {"up", "down", "unseen"}]
      /\ data \in [Nodes -> [Indices -> FileOrigins]] /\ log \in [Nodes -> {"old", "clean"}]
      /\ yaml \in [Nodes -> Nodes] /\ owns \in [Nodes -> Nodes]
      /\ rows \in [Indices -> SUBSET ({"old"} \union Nodes)]
  BY NoProcFits DEF Init, FileOrigins
<1>4. keyed \in [Nodes -> BOOLEAN] /\ runs \in 0 .. MaxRuns /\ faults \in 0 .. MaxFaults
  BY BoundsAssumption DEF Init
<1>5. TypeOK
  BY <1>2, <1>3, <1>4 DEF Init, TypeOK
<1>6. JobFits
  BY <1>2 DEF Init, JobFits
<1>7. ASSUME NEW t \in Nodes PROVE NodeFits(t)
  <2>1. /\ proc[t].pc = "none" /\ proc[t].i = 1 /\ proc[t].src = {} /\ ~keyed[t] /\ Untouched(t)
        /\ cass[t] = "up"
    BY DEF Init, NoProc, Untouched
  <2>2. DownFor(t) /\ KeyFits(t) /\ WorkFits(t) /\ Moved(t) /\ PodWhole(t)
    BY <2>1 DEF DownFor, KeyFits, WorkFits, Moved, PodWhole, NodeSteps
  <2> QED BY <2>2 DEF NodeFits
<1> QED BY <1>5, <1>6, <1>7 DEF RestoreInvariant

LEMMA RestoreStep ==
  ASSUME RestoreInvariant, [Next]_vars
  PROVE  RestoreInvariant'
<1>1. CASE UNCHANGED vars
  <2>1. TypeOK' /\ JobFits'
    BY <1>1 DEF RestoreInvariant, TypeOK, JobFits, InPod, vars, nodeVars, diskVars
  <2>2. ASSUME NEW u \in Nodes PROVE NodeFits(u)'
    BY <1>1, NodeFrame DEF RestoreInvariant, vars, nodeVars, diskVars
  <2> QED BY <2>1, <2>2 DEF RestoreInvariant
<1>2. CASE Begin
  BY <1>2, BeginKeeps
<1>3. CASE JobStep \/ JoinRaises \/ Kill
  BY <1>3, PrepareKeeps, SchemaKeeps, RunKeeps, LaunchKeeps DEF JobStep
<1>4. ASSUME NEW t \in Nodes, HostStep(t) PROVE RestoreInvariant'
  BY <1>4, StopCommandKeeps, NodeStepsKeep, CleanKeeps, MoveKeeps, StartKeeps, FailKeeps, LoadKeeps
     DEF HostStep
<1>5. ASSUME NEW t \in Nodes, PodStep(t) PROVE RestoreInvariant'
  BY <1>5, PodRecreatedKeeps, WriteKeyKeeps, PodStartsKeeps, PodRestartsKeeps DEF PodStep
<1> QED BY <1>1, <1>2, <1>3, <1>4, <1>5 DEF Next

\* The inductive invariant: for any rings, requests, parallelism and number of
\* faults, what runs on a host fits the run and the files of the host.
THEOREM RestoreInvariantHolds == Spec => []RestoreInvariant
BY RestoreInit, RestoreStep, PTL DEF Spec

\* Every variable has the values the code can give it.
THEOREM TypeCorrect == Spec => []TypeOK
<1>1. RestoreInvariant => TypeOK
  BY DEF RestoreInvariant
<1> QED BY <1>1, RestoreInvariantHolds, PTL

-----------------------------------------------------------------------------
(* The mapping.                                                            *)

LEMMA MappingStep ==
  ASSUME RestoreInvariant, MappingSound, [Next]_vars
  PROVE  MappingSound'
<1>1. sc \in Scenarios /\ job \in JobStates
  BY DEF RestoreInvariant, TypeOK
<1>2. sc' = sc
  BY DEF Next, vars, nodeVars, Begin, JobStep, PrepareRing, PrepareList, PrepareFails, Confirm,
         Cancel, RestoreSchema, RestoreSchemaFails, RunBatch, RunBatchRaises, JoinBatch, Verify,
         JoinRaises, Kill, HostStep, StopCommand, Lookup, Download, Shutdown, WaitForDown, CleanCommitLog,
         MoveSection, WaitForSeeds, GiveUpOnSeeds, StartCassandra, NodeFails, LoadSource,
         LoadFails, PodStep, PodRecreated, WriteKey, PodStarts, PodRestarts
<1>3. CASE job' = job
  BY <1>2, <1>3 DEF MappingSound
<1>4. CASE PrepareRing
  BY <1>1, <1>2, <1>4, RingPrepared DEF MappingSound
<1>5. CASE PrepareList
  BY <1>2, <1>5 DEF MappingSound, PrepareList
<1>6. CASE Begin
  <2>1. job'.pc = "prepare"
    BY <1>6 DEF Begin, NoJob
  <2> QED BY <2>1 DEF MappingSound
<1>7. CASE JoinBatch
  <2>1. job'.pc \in {"stop", "restore", "failed", "verify", "done"}
    BY <1>1, <1>7, JoinedKept
  <2> QED BY <2>1 DEF MappingSound
<1>8. CASE \/ PrepareFails \/ Confirm \/ Cancel \/ RestoreSchema \/ RestoreSchemaFails
           \/ RunBatch \/ RunBatchRaises \/ Verify \/ JoinRaises \/ Kill
  <2>1. job'.pc \notin {"confirm", "pods"}
    BY <1>1, <1>8, JobFields
       DEF PrepareFails, Confirm, Cancel, RestoreSchema, RestoreSchemaFails, RunBatch,
           RunBatchRaises, Verify, JoinRaises, Kill, Phases
  <2> QED BY <2>1 DEF MappingSound
<1>9. CASE UNCHANGED vars \/ \E t \in Nodes : HostStep(t) \/ PodStep(t)
  <2>1. job' = job
    BY <1>9 DEF vars, HostStep, StopCommand, Lookup, Download, Shutdown, WaitForDown,
         CleanCommitLog, MoveSection, WaitForSeeds, GiveUpOnSeeds, StartCassandra, NodeFails,
         LoadSource, LoadFails, PodStep, PodRecreated, WriteKey, PodStarts, PodRestarts
  <2> QED BY <1>3, <2>1
<1> QED BY <1>4, <1>5, <1>6, <1>7, <1>8, <1>9 DEF Next, JobStep

\* The mapping that populate_ringmap enters is sound, for every pair of rings.
THEOREM MappingIsSound == Spec => []MappingSound
<1>1. Init => MappingSound
  BY DEF Init, NoJob, MappingSound
<1>2. RestoreInvariant /\ MappingSound /\ [Next]_vars => MappingSound'
  BY MappingStep
<1> QED BY <1>1, <1>2, RestoreInvariantHolds, PTL DEF Spec

-----------------------------------------------------------------------------
(* What happens to the files of a host.                                    *)

\* The files stay, or restore-node replaces them, or tables are dropped, or Cassandra
\* starts on the files.
Kept(t) == data'[t] = data[t] /\ log'[t] = log[t] /\ (cass'[t] = cass[t] \/ cass'[t] # "up")
Replaced(t) ==
  /\ cass[t] \in {"down", "unseen"} /\ cass'[t] = cass[t] /\ ~keyed[t]
  /\ \A i \in Indices : data'[t][i] # data[t][i] => ~LeftAlone(i)
Dropped(t) ==
  /\ UNCHANGED <<proc, cass, log>> /\ job.pc = "schema" /\ (sc.mode = "seed" \/ UNCHANGED data)
  /\ \A i \in Indices : data'[t][i] # data[t][i] => data'[t][i] = "gone"
Starts(t) ==
  /\ cass[t] = "down" /\ CassandraStarts(t) /\ log'[t] = log[t]
  /\ \/ StartCassandra(t) /\ ~InPod
     \/ PodStarts(t)

LEMMA FilesStep ==
  ASSUME RestoreInvariant, [Next]_vars, NEW t \in Nodes
  PROVE  Kept(t) \/ Replaced(t) \/ Dropped(t) \/ Starts(t)
<1>1. /\ data \in [Nodes -> [Indices -> FileOrigins]] /\ cass \in [Nodes -> {"up", "down", "unseen"}]
      /\ log \in [Nodes -> {"old", "clean"}] /\ owns \in [Nodes -> Nodes]
      /\ yaml \in [Nodes -> Nodes] /\ yaml' \in [Nodes -> Nodes]
      /\ rows \in [Indices -> SUBSET ({"old"} \union Nodes)]
      /\ proc \in [Nodes -> ProcStates] /\ \A u \in Nodes : NodeFits(u)
  BY RestoreStep DEF RestoreInvariant, TypeOK
<1>2. CASE UNCHANGED <<cass, data, log>>
  BY <1>2 DEF Kept
<1>3. CASE \/ UNCHANGED vars \/ Begin \/ JoinRaises \/ Kill
           \/ PrepareRing \/ PrepareList \/ PrepareFails \/ Confirm \/ Cancel
           \/ RunBatch \/ RunBatchRaises \/ JoinBatch \/ Verify
  <2>1. UNCHANGED <<cass, data, log>>
    BY <1>3 DEF Begin, PrepareRing, PrepareList, PrepareFails, Confirm, Cancel,
         RunBatch, RunBatchRaises, JoinBatch, Verify, JoinRaises, Kill, vars, nodeVars, diskVars
  <2> QED BY <1>2, <2>1
<1>8. CASE RestoreSchema \/ RestoreSchemaFails
  <2>1. UNCHANGED <<proc, cass, log>> /\ job.pc = "schema"
    BY <1>8 DEF RestoreSchema, RestoreSchemaFails
  <2>2. PICK dropped : DropTables(dropped) /\ (sc.mode = "seed" \/ dropped = {})
    BY <1>8 DEF RestoreSchema, RestoreSchemaFails
  <2>3. \A i \in Indices : data'[t][i] # data[t][i] => data'[t][i] = "gone"
    BY <1>1, <2>2, TablesDropped
  <2>4. sc.mode = "seed" \/ UNCHANGED data
    BY <1>1, <2>2 DEF DropTables
  <2> QED BY <2>1, <2>3, <2>4 DEF Dropped
<1>4. ASSUME NEW u \in Nodes, UNCHANGED <<data, log>>,
             \E c \in {"down", "unseen"} : cass' = [cass EXCEPT ![u] = c]
      PROVE  Kept(t)
  BY <1>1, <1>4 DEF Kept
<1>5. ASSUME NEW u \in Nodes, cass[u] = "down", CassandraStarts(u), UNCHANGED log,
             (StartCassandra(u) /\ ~InPod) \/ PodStarts(u)
      PROVE  Kept(t) \/ Starts(t)
  <2>1. CASE u = t
    BY <1>5, <2>1 DEF Starts
  <2>2. CASE u # t
    <3>1. \A w \in Nodes \ {u} : cass'[w] = cass[w] /\ data'[w] = data[w]
      BY <1>1, <1>5, Started
    <3> QED BY <1>5, <2>2, <3>1 DEF Kept
  <2> QED BY <2>1, <2>2
<1>6. ASSUME NEW u \in Nodes, HostStep(u) PROVE Kept(t) \/ Replaced(t) \/ Dropped(t) \/ Starts(t)
  <2>0. /\ proc[u].pc \in {"clean", "move", "start"} => cass[u] \in {"down", "unseen"} /\ ~keyed[u]
        /\ proc[u].pc = "move" => proc[u].i \in Indices
    BY <1>1 DEF NodeFits, DownFor, KeyFits, WorkFits
  <2>1. CASE \/ StopCommand(u) \/ Shutdown(u) \/ WaitForDown(u)
    <3>1. /\ UNCHANGED <<data, log>>
          /\ \/ cass' = cass
             \/ cass' = [cass EXCEPT ![u] = "down"]
             \/ cass' = [cass EXCEPT ![u] = "unseen"]
      BY <2>1 DEF StopCommand, Shutdown, WaitForDown, diskVars
    <3> QED BY <1>2, <1>4, <3>1
  <2>2. CASE \/ Lookup(u) \/ Download(u) \/ WaitForSeeds(u) \/ GiveUpOnSeeds(u)
             \/ LoadSource(u) \/ LoadFails(u)
    BY <1>2, <2>2 DEF Lookup, Download, WaitForSeeds, GiveUpOnSeeds, LoadSource, LoadFails, diskVars
  <2>3. CASE CleanCommitLog(u)
    <3>1. cass[u] \in {"down", "unseen"} /\ ~keyed[u] /\ UNCHANGED <<cass, data>>
      BY <2>0, <2>3 DEF CleanCommitLog, At
    <3>2. t # u => log'[t] = log[t]
      BY <1>1, <2>3 DEF CleanCommitLog
    <3> QED BY <3>1, <3>2 DEF Kept, Replaced
  <2>4. CASE MoveSection(u)
    <3>1. /\ cass[u] \in {"down", "unseen"} /\ ~keyed[u] /\ UNCHANGED <<cass, log>>
          /\ proc[u].i \in Indices
      BY <2>0, <2>4 DEF MoveSection, At
    <3>2. PICK s \in proc[u].src :
             data' = [data EXCEPT ![u][proc[u].i] =
                         Placed(u, proc[u].i, maybe_restore_section(proc[u].i, @, s))]
      BY <2>4 DEF MoveSection
    <3>3. t # u => data'[t] = data[t]
      BY <1>1, <3>1, <3>2
    <3>4. ASSUME NEW i \in Indices, data'[u][i] # data[u][i] PROVE ~LeftAlone(i)
      BY <1>1, <3>1, <3>2, <3>4 DEF maybe_restore_section, Placed
    <3> QED BY <3>1, <3>3, <3>4 DEF Kept, Replaced
  <2>5. CASE StartCassandra(u)
    <3>1. UNCHANGED log
      BY <2>5 DEF StartCassandra
    <3>2. CASE InPod \/ cass[u] # "down"
      BY <1>2, <2>5, <3>1, <3>2 DEF StartCassandra
    <3>3. CASE ~InPod /\ cass[u] = "down"
      BY <1>5, <2>5, <3>1, <3>3 DEF StartCassandra
    <3> QED BY <3>2, <3>3
  <2>6. CASE NodeFails(u)
    <3>1. CASE UNCHANGED data
      BY <1>2, <2>6, <3>1 DEF NodeFails
    <3>2. CASE /\ proc[u].pc = "move" /\ ~LeftAlone(proc[u].i)
               /\ data' = [data EXCEPT ![u][proc[u].i] = Placed(u, proc[u].i, "gone")]
      <4>1. /\ cass[u] \in {"down", "unseen"} /\ ~keyed[u] /\ UNCHANGED <<cass, log>>
            /\ proc[u].i \in Indices
        BY <2>0, <2>6, <3>2 DEF NodeFails
      <4>2. t # u => data'[t] = data[t]
        BY <1>1, <3>2
      <4>3. ASSUME NEW i \in Indices, data'[u][i] # data[u][i] PROVE ~LeftAlone(i)
        BY <1>1, <3>2, <4>1, <4>3
      <4> QED BY <4>1, <4>2, <4>3 DEF Kept, Replaced
    <3> QED BY <2>6, <3>1, <3>2 DEF NodeFails, At
  <2> QED BY <1>6, <2>1, <2>2, <2>3, <2>4, <2>5, <2>6 DEF HostStep
<1>7. ASSUME NEW u \in Nodes, PodStep(u) PROVE Kept(t) \/ Replaced(t) \/ Dropped(t) \/ Starts(t)
  <2>1. CASE PodRecreated(u) \/ PodRestarts(u)
    BY <1>4, <2>1 DEF PodRecreated, PodRestarts, diskVars
  <2>2. CASE WriteKey(u)
    BY <1>2, <2>2 DEF WriteKey, diskVars
  <2>3. CASE PodStarts(u)
    BY <1>5, <2>3 DEF PodStarts
  <2> QED BY <1>7, <2>1, <2>2, <2>3 DEF PodStep
<1> QED BY <1>3, <1>6, <1>7, <1>8 DEF Next, JobStep

\* After its restore key is written a pod is not restored again: only the start of
\* Cassandra writes there.
THEOREM PodsRestoredOnce == Spec => RestoredOnce
<1>1. ASSUME RestoreInvariant, [Next]_vars
      PROVE  \A t \in Nodes : keyed[t] /\ data'[t] # data[t] => cass[t] = "down" /\ cass'[t] = "up"
  <2> SUFFICES ASSUME NEW t \in Nodes, keyed[t], data'[t] # data[t]
               PROVE  cass[t] = "down" /\ cass'[t] = "up"
    OBVIOUS
  <2>1. Starts(t)
    <3>1. job.pc = "pods"
      BY <1>1 DEF RestoreInvariant, NodeFits, KeyFits
    <3> QED BY <1>1, <3>1, FilesStep DEF Kept, Replaced, Dropped
  <2>2. cass \in [Nodes -> {"up", "down", "unseen"}]
    BY <1>1 DEF RestoreInvariant, TypeOK
  <2> QED BY <2>1, <2>2 DEF Starts, CassandraStarts
<1> QED BY <1>1, RestoreInvariantHolds, PTL DEF Spec, RestoredOnce

\* The schema is made for requests that go through sstableloader.
LoaderFits ==
  /\ job.pc = "schema" => job.loader
  /\ job.loader /\ sc.mode = "seed" => ThroughLoader

LEMMA LoaderStep ==
  ASSUME RestoreInvariant, LoaderFits, [Next]_vars
  PROVE  LoaderFits' /\ sc' = sc
<1>1. sc \in Scenarios /\ job \in JobStates
  BY DEF RestoreInvariant, TypeOK
<1>2. sc' = sc
  BY DEF Next, vars, nodeVars, Begin, JobStep, PrepareRing, PrepareList, PrepareFails, Confirm,
         Cancel, RestoreSchema, RestoreSchemaFails, RunBatch, RunBatchRaises, JoinBatch, Verify,
         JoinRaises, Kill, HostStep, StopCommand, Lookup, Download, Shutdown, WaitForDown,
         CleanCommitLog, MoveSection, WaitForSeeds, GiveUpOnSeeds, StartCassandra, NodeFails,
         LoadSource, LoadFails, PodStep, PodRecreated, WriteKey, PodStarts, PodRestarts
<1>3. ThroughLoader' = ThroughLoader
  BY <1>2 DEF ThroughLoader
<1>4. CASE job'.loader = job.loader /\ (job'.pc = "schema" => job.pc = "schema" \/ job.loader)
  BY <1>2, <1>3, <1>4 DEF LoaderFits
<1>5. CASE PrepareRing
  <2>1. /\ job'.pc # "schema"
        /\ job'.loader = (sc.loader \/ needs_loader(sc.backup, sc.target, sc.ignore_racks))
    BY <1>1, <1>5, JobFields DEF PrepareRing
  <2> QED BY <1>2, <1>3, <2>1 DEF LoaderFits, ThroughLoader
<1>6. CASE PrepareList
  <2>1. job'.pc = "confirm" /\ sc.mode = "list"
    BY <1>1, <1>6, JobFields DEF PrepareList
  <2> QED BY <1>2, <2>1 DEF LoaderFits
<1>7. CASE Begin
  <2>1. job'.pc = "prepare" /\ ~job'.loader
    BY <1>7 DEF Begin, NoJob
  <2> QED BY <1>2, <2>1 DEF LoaderFits
<1>8. CASE JoinBatch
  <2>1. job'.pc \in {"stop", "restore", "failed", "verify", "done"} /\ JobKept
    BY <1>1, <1>8, JoinedKept
  <2> QED BY <1>4, <2>1 DEF JobKept
<1>9. CASE \/ PrepareFails \/ Confirm \/ Cancel \/ RestoreSchema \/ RestoreSchemaFails
           \/ RunBatch \/ RunBatchRaises \/ Verify \/ JoinRaises \/ Kill
  <2>1. job'.loader = job.loader /\ (job'.pc = "schema" => job.pc = "schema" \/ job.loader)
    BY <1>1, <1>9, JobFields
       DEF PrepareFails, Confirm, Cancel, RestoreSchema, RestoreSchemaFails, RunBatch,
           RunBatchRaises, Verify, JoinRaises, Kill, Phases
  <2> QED BY <1>4, <2>1
<1>10. CASE UNCHANGED vars \/ \E t \in Nodes : HostStep(t) \/ PodStep(t)
  <2>1. job' = job
    BY <1>10 DEF vars, HostStep, StopCommand, Lookup, Download, Shutdown, WaitForDown,
         CleanCommitLog, MoveSection, WaitForSeeds, GiveUpOnSeeds, StartCassandra, NodeFails,
         LoadSource, LoadFails, PodStep, PodRecreated, WriteKey, PodStarts, PodRestarts
  <2> QED BY <1>4, <2>1
<1> QED BY <1>2, <1>5, <1>6, <1>7, <1>8, <1>9, <1>10 DEF Next, JobStep

\* What --keyspace and --table do not name keeps its files on every host, unless the
\* request goes through sstableloader, for which all tables are dropped.
THEOREM UnrequestedFilesKept == Spec => []UnrequestedKept
<1>1. Init => UnrequestedKept /\ LoaderFits
  BY DEF Init, NoJob, UnrequestedKept, LoaderFits
<1>2. ASSUME RestoreInvariant, UnrequestedKept, LoaderFits, [Next]_vars
      PROVE  UnrequestedKept'
  <2>1. sc' = sc /\ ThroughLoader' = ThroughLoader
    BY <1>2, LoaderStep DEF ThroughLoader
  <2> SUFFICES ASSUME NEW t \in Nodes, NEW i \in Indices, UserSection(i), ~Requested(i)
               PROVE  data'[t][i] = data[t][i] \/ (ThroughLoader /\ data'[t][i] = "gone")
    BY <1>2, <2>1 DEF UnrequestedKept, Requested
  <2>2. LeftAlone(i)
    BY DEF LeftAlone, Retained, Requested
  <2>3. i # Local
    BY SectionFacts DEF UserSection, SystemKeyspaces
  <2>4. CASE Starts(t)
    <3>1. /\ data \in [Nodes -> [Indices -> FileOrigins]] /\ cass \in [Nodes -> {"up", "down", "unseen"}]
          /\ owns \in [Nodes -> Nodes] /\ yaml' \in [Nodes -> Nodes]
      BY <1>2, RestoreStep DEF RestoreInvariant, TypeOK
    <3> QED BY <2>3, <2>4, <3>1, Started DEF Starts
  <2>5. CASE Dropped(t)
    BY <1>2, <2>5 DEF Dropped, LoaderFits
  <2> QED BY <1>2, <2>2, <2>4, <2>5, FilesStep DEF Kept, Replaced
<1>3. ASSUME RestoreInvariant, LoaderFits, [Next]_vars
      PROVE  LoaderFits'
  BY <1>3, LoaderStep
<1> QED BY <1>1, <1>2, <1>3, RestoreInvariantHolds, PTL DEF Spec

\* Cassandra starts on a node the restore has not touched, or on all requested
\* sections and the tokens of one source, without the old commit log.
Whole(t) ==
  \/ /\ log[t] = "old" /\ owns'[t] = t
     /\ \A i \in Indices : data[t][i] = "old"
  \/ \E s \in Nodes : /\ log[t] = "clean" /\ owns'[t] = s
                      /\ \A i \in Indices : Requested(i) => data[t][i] = s

\* A requested section is restored.
LEMMA RequestedTaken ==
  ASSUME PeersAreSystem, NEW t \in Nodes, NEW s \in Nodes, NEW i \in Indices, Requested(i),
         SectionFrom(t, s, i)
  PROVE  data[t][i] = s
<1>1. UserSection(i) /\ Retained(i)
  BY DEF Requested, Retained
<1>2. ~LeftAlone(i) /\ ~SkippedRemote(i)
  BY <1>1 DEF LeftAlone, SkippedRemote, UserSection, SystemKeyspaces, PeersAreSystem
<1> QED BY <1>2 DEF SectionFrom

LEMMA StartIsWhole ==
  ASSUME PeersAreSystem, RestoreInvariant, [Next]_vars, NEW t \in Nodes, Starts(t)
  PROVE  Whole(t)
<1>1. /\ data \in [Nodes -> [Indices -> FileOrigins]] /\ cass \in [Nodes -> {"up", "down", "unseen"}]
      /\ owns \in [Nodes -> Nodes] /\ yaml \in [Nodes -> Nodes] /\ yaml' \in [Nodes -> Nodes]
      /\ proc \in [Nodes -> ProcStates] /\ job \in JobStates /\ NodeFits(t) /\ sc \in Scenarios
      /\ job.pc = "pods" => InPod
  BY RestoreStep DEF RestoreInvariant, TypeOK, JobFits
<1>2. /\ data[t][Local] \in Nodes => owns'[t] = data[t][Local]
      /\ data[t][Local] = "gone" => owns'[t] = yaml'[t]
      /\ data[t][Local] \in {"old", "new"} => owns'[t] = owns[t]
  BY <1>1, Started DEF Starts
<1>3. proc[t].src \subseteq Nodes /\ Local \in Indices
  BY <1>1, ProcFields, SectionFacts
<1>4. \A i \in Indices : Requested(i) => i # Local
  BY SectionFacts DEF Requested, UserSection, SystemKeyspaces
<1>5. CASE StartCassandra(t) /\ ~InPod
  <2>1. proc[t].pc = "start" /\ Tokens(t)
    BY <1>5 DEF StartCassandra, At
  <2>2. PICK s \in proc[t].src : yaml' = [yaml EXCEPT ![t] = IF job.inPlace THEN @ ELSE s]
    BY <2>1 DEF Tokens
  <2>3. log[t] = "clean" /\ \A i \in Indices : SectionFrom(t, s, i)
    BY <1>1, <2>1 DEF NodeFits, Moved, Starts
  <2>4. s \in Nodes /\ \A i \in Indices : Requested(i) => data[t][i] = s
    BY <1>3, <2>3, RequestedTaken
  <2>5. data[t][Local] = IF job.inPlace THEN s ELSE "gone"
    BY <1>1, <1>3, <2>3, <2>4, LocalTaken
  <2>6. owns'[t] = s
    <3>1. CASE job.inPlace
      BY <1>2, <2>4, <2>5, <3>1
    <3>2. CASE ~job.inPlace
      BY <1>1, <1>2, <2>2, <2>5, <3>2
    <3> QED BY <3>1, <3>2
  <2> QED BY <2>3, <2>4, <2>6 DEF Whole
<1>6. CASE PodStarts(t)
  <2>1. proc[t].pc = "keyed" /\ InPod /\ UNCHANGED yaml
    BY <1>1, <1>6 DEF PodStarts, At
  <2>2. proc[t].src = {} \/ Single(proc[t].src)
    BY <1>1, <2>1 DEF NodeFits, WorkFits
  <2>3. CASE \A s \in proc[t].src : Stored(s) # "full"
    <3>1. Untouched(t)
      BY <1>1, <2>1, <2>3 DEF NodeFits, PodWhole
    <3> QED BY <1>2, <1>3, <3>1 DEF Untouched, Whole
  <2>4. CASE \E s \in proc[t].src : Stored(s) = "full"
    <3>1. PICK s \in proc[t].src : Stored(s) = "full"
      BY <2>4
    <3>2. TakenFrom(t, s) /\ s \in Nodes
      BY <1>1, <1>3, <2>1, <3>1 DEF NodeFits, PodWhole
    <3>3. owns'[t] = s /\ log[t] = "clean"
      BY <1>2, <2>1, <3>2 DEF TakenFrom
    <3>4. \A i \in Indices : Requested(i) => data[t][i] = s
      BY <1>4, <3>2, RequestedTaken DEF TakenFrom
    <3> QED BY <3>2, <3>3, <3>4 DEF Whole
  <2> QED BY <2>3, <2>4
<1> QED BY <1>5, <1>6 DEF Starts

\* Cassandra is never started on a mixture, whatever fails and is repeated.
THEOREM StartsAreWhole == ASSUME PeersAreSystem PROVE Spec => StartsWhole
<1>1. ASSUME RestoreInvariant, [Next]_vars
      PROVE  \A t \in Nodes : cass[t] = "down" /\ cass'[t] = "up" => Whole(t)
  <2> SUFFICES ASSUME NEW t \in Nodes, cass[t] = "down", cass'[t] = "up" PROVE Whole(t)
    OBVIOUS
  <2>1. Starts(t)
    BY <1>1, FilesStep DEF Kept, Replaced, Dropped
  <2> QED BY <1>1, <2>1, StartIsWhole
<1> QED BY <1>1, RestoreInvariantHolds, PTL DEF Spec, StartsWhole, Whole

-----------------------------------------------------------------------------
(* A restore whose targets are one batch.                                  *)

\* The mapping after a step that leaves it.
LEMMA MapSame ==
  ASSUME sc' = sc, job'.map = job.map, job'.seeds = job.seeds
  PROVE  /\ TargetHosts' = TargetHosts /\ InPod' = InPod /\ Possible' = Possible
         /\ \A t : SourceOf(t)' = SourceOf(t) /\ SeedsFor(t)' = SeedsFor(t)
         /\ \A s : Stored(s)' = Stored(s)
         /\ \A i : Requested(i)' = Requested(i)
<1>1. \A s : Stored(s)' = Stored(s)
  BY DEF Stored
<1>2. Possible' = Possible
  BY <1>1 DEF Possible
<1> QED BY <1>1, <1>2 DEF TargetHosts, Targets, InPod, SourceOf, Sources, SeedsFor, Requested

LEMMA MapKept ==
  ASSUME MapFits, sc' = sc, job'.map = job.map, job'.seeds = job.seeds,
         job'.loader = job.loader, job'.next = 1
  PROVE  MapFits'
BY MapSame DEF MapFits

\* A target that stays as it is stays restored.
LEMMA NodeSame ==
  ASSUME sc' = sc, job'.keep = job.keep, NEW t \in Nodes,
         cass'[t] = cass[t], log'[t] = log[t], owns'[t] = owns[t], data'[t] = data[t]
  PROVE  \A s : NodeRestored(t, s)' = NodeRestored(t, s)
BY DEF NodeRestored, Requested

\* The entries of the mapping.
LEMMA MapEntries ==
  ASSUME job \in JobStates
  PROVE  /\ Len(job.map) \in Nat /\ DOMAIN job.map = 1 .. Len(job.map)
         /\ \A k \in DOMAIN job.map : job.map[k].target \in Nodes /\ job.map[k].sources \subseteq Nodes
         /\ TargetHosts \subseteq Nodes
<1>1. Len(job.map) \in Nat /\ DOMAIN job.map = 1 .. Len(job.map)
  BY JobFields
<1>2. \A k \in DOMAIN job.map : job.map[k].target \in Nodes /\ job.map[k].sources \subseteq Nodes
  <2>1. \A k \in DOMAIN job.map : job.map[k] \in Entries
    BY JobFields
  <2> QED BY <2>1 DEF Entries
<1> QED BY <1>1, <1>2 DEF TargetHosts, Targets

\* A target is entered once, so its sources are those of its entry.
LEMMA EntryOf ==
  ASSUME MapFits, NEW k \in DOMAIN job.map
  PROVE  SourceOf(job.map[k].target) = job.map[k].sources /\ job.map[k].target \in TargetHosts
<1>1. {m \in DOMAIN job.map : job.map[m].target = job.map[k].target} = {k}
  BY DEF MapFits
<1> QED BY <1>1 DEF SourceOf, Sources, TargetHosts, Targets

\* What is stored is known of the sources of a target.
LEMMA SourcesStored ==
  ASSUME MapFits, NEW t
  PROVE  SourceOf(t) \subseteq DOMAIN sc.stored
BY DEF MapFits, SourceOf, Sources

\* The targets are all in the first batch, which is the last one.
LEMMA BatchIsAll ==
  ASSUME job \in JobStates, MapFits
  PROVE  /\ Batch = DOMAIN job.map
         /\ job.next * ParallelRestores >= Len(job.map)
         /\ \A k \in DOMAIN job.map : HostVariables(k) = job.map[k]
<1>1. /\ Len(job.map) \in Nat /\ DOMAIN job.map = 1 .. Len(job.map)
      /\ Len(job.map) <= ParallelRestores /\ job.next = 1 /\ ParallelRestores \in Nat \ {0}
  BY MapEntries, ParallelAssumption DEF MapFits
<1>2. 1 * ParallelRestores = ParallelRestores /\ (1 - 1) * ParallelRestores = 0
  BY <1>1
<1>3. \A k \in DOMAIN job.map : k \in Nat /\ 0 < k /\ k <= ParallelRestores
  BY <1>1
<1>4. Batch = DOMAIN job.map
  BY <1>1, <1>2, <1>3 DEF Batch
<1>5. ASSUME NEW k \in DOMAIN job.map PROVE HostVariables(k) = job.map[k]
  <2>1. k - 1 \in Nat /\ k - 1 < ParallelRestores /\ (k - 1) + 1 = k
    BY <1>1, <1>3
  <2>2. ((k - 1) % ParallelRestores) = k - 1
    BY <1>1, <2>1, ModIs
  <2> QED BY <2>1, <2>2 DEF HostVariables
<1> QED BY <1>1, <1>2, <1>4, <1>5

\* A step on a host leaves what fits the others.
LEMMA OthersFit ==
  ASSUME BatchInvariant, NEW t \in Nodes, OthersKept(t), ~InPod, proc[t].pc \in Running,
         faults' = 0 => faults = 0, \A i \in Indices : rows[i] \subseteq rows'[i],
         NEW u \in Nodes \ {t}
  PROVE  HostFits(u)'
<1>1. /\ sc' = sc /\ job' = job
      /\ proc'[u] = proc[u] /\ cass'[u] = cass[u] /\ data'[u] = data[u] /\ log'[u] = log[u]
      /\ owns'[u] = owns[u]
  BY DEF OthersKept
<1>2. HostFits(u) /\ HostFits(t) /\ MapFits
  BY DEF BatchInvariant
<1>3. /\ TargetHosts' = TargetHosts /\ InPod' = InPod /\ Possible' = Possible
      /\ SourceOf(u)' = SourceOf(u) /\ SeedsFor(u)' = SeedsFor(u)
      /\ \A s : Stored(s)' = Stored(s) /\ \A i : Requested(i)' = Requested(i)
  BY <1>1, MapSame
<1>4. \A s : NodeRestored(u, s)' = NodeRestored(u, s)
  BY <1>1, NodeSame
<1>5. Working' = Working /\ Counted' = Counted
  BY <1>1 DEF Working, Counted
<1>6. TargetFits(u)'
  BY <1>1, <1>2, <1>3, <1>4, <1>5 DEF HostFits, TargetFits
<1>7. QuietFits(u)'
  <2> SUFFICES ASSUME faults = 0 PROVE QuietFits(u)'
    BY DEF QuietFits
  <2>1. ASSUME Working, ~job.loader, NEW w \in job.seeds, cass[w] # "down"
        PROVE  cass'[w] # "down"
    <3>1. w # t
      <4> SUFFICES ASSUME w = t PROVE FALSE
        OBVIOUS
      <4>1. t \in TargetHosts
        BY <1>2, <2>1 DEF MapFits
      <4>2. proc[t].pc = "ok"
        BY <1>2, <2>1, <4>1 DEF HostFits, QuietFits
      <4> QED BY <4>2 DEF Running, NodeSteps
    <3>2. w \in Nodes
      BY JobFields DEF BatchInvariant, RestoreInvariant, TypeOK
    <3> QED BY <2>1, <3>1, <3>2 DEF OthersKept
  <2> QED BY <1>1, <1>2, <1>3, <1>5, <2>1 DEF HostFits, QuietFits
<1>8. PossibleFits(u)'
  BY <1>1, <1>2, <1>3, <1>5 DEF HostFits, PossibleFits
<1> QED BY <1>6, <1>7, <1>8 DEF HostFits

\* What a step of a command does to its own host while the run waits for it.
NodeGoesOn(t) ==
  Working /\ ~job.loader =>
    /\ proc'[t].pc \in NodeSteps \union {"ok", "error"}
    /\ proc'[t].src = proc[t].src /\ proc'[t].seeds = proc[t].seeds
    /\ proc'[t].pc = "ok" => \A s \in SourceOf(t) :
          Stored(s) = "full" => NodeRestored(t, s)' \/ cass'[t] = "unseen"
    /\ faults' = 0 =>
          /\ cass'[t] # "down" => proc'[t].pc = "ok" /\ \A s \in SourceOf(t) : Stored(s) = "full"
          /\ t \notin job.seeds /\ job.seeds # {} /\ proc'[t].pc = "start"
                => \E u \in job.seeds : cass'[u] # "down"
LoadGoesOn(t) ==
  Working /\ job.loader =>
    /\ proc'[t].pc \in {"load", "ok", "error"}
    /\ proc'[t].src \subseteq proc[t].src
    /\ \A i \in Indices : Requested(i) => SourceOf(t) \ proc'[t].src \subseteq rows'[i]
    /\ proc'[t].pc = "ok" => proc'[t].src = {} \/ \E s \in proc'[t].src : Stored(s) = "empty"
StopGoesOn(t) ==
  faults' = 0 =>
    /\ job.pc = "stop" /\ job.wait => proc'[t].pc = "stop" \/ (proc'[t].pc = "ok" /\ cass'[t] = "down")
    /\ Possible /\ job.loader => cass'[t] = "up"
    /\ Possible /\ Working => proc'[t].pc # "error"

\* A command runs on a target, and as long as nothing failed the run waits for it.
LEMMA RunningFacts ==
  ASSUME BatchInvariant, NEW t \in Nodes, ~InPod, proc[t].pc \in Running
  PROVE  /\ t \in TargetHosts /\ ~Counted
         /\ faults = 0 => job.pc \in Phases /\ job.wait
         /\ ~(job.loader /\ job.pc = "restore" /\ ~job.wait)
         /\ job.pc \notin {"idle", "prepare", "confirm", "schema"}
         /\ Working /\ ~job.loader => proc[t].pc \in NodeSteps
         /\ Working /\ job.loader => proc[t].pc = "load"
         /\ faults = 0 /\ job.pc = "stop" => proc[t].pc = "stop"
         /\ Working /\ ~job.loader => proc[t].src = SourceOf(t) /\ proc[t].seeds = SeedsFor(t)
         /\ Working /\ job.loader => proc[t].src \subseteq SourceOf(t)
         /\ faults = 0 /\ Working /\ ~job.loader => cass[t] = "down"
<1>1. TargetFits(t) /\ QuietFits(t) /\ JobFits
  BY DEF BatchInvariant, HostFits, RestoreInvariant
<1>2. proc[t].pc \notin {"none", "ok", "error"} /\ proc[t] # NoProc
  BY DEF Running, NodeSteps, NoProc
<1>3. t \in TargetHosts /\ ~Counted
  BY <1>1, <1>2 DEF TargetFits
<1>4. faults = 0 => job.pc \in Phases /\ job.wait
  BY <1>1 DEF QuietFits
<1>5. /\ ~(job.loader /\ job.pc = "restore" /\ ~job.wait)
      /\ job.pc \notin {"idle", "prepare", "confirm", "schema"}
  BY <1>1, <1>2 DEF TargetFits, JobFits
<1>6. Working /\ ~job.loader =>
         /\ proc[t].pc \in NodeSteps /\ proc[t].src = SourceOf(t) /\ proc[t].seeds = SeedsFor(t)
  BY <1>1, <1>2, <1>3 DEF TargetFits
<1>7. Working /\ job.loader => proc[t].pc = "load" /\ proc[t].src \subseteq SourceOf(t)
  BY <1>1, <1>2, <1>3 DEF TargetFits
<1>8. faults = 0 /\ job.pc = "stop" => proc[t].pc = "stop"
  BY <1>1, <1>2, <1>3, <1>4 DEF QuietFits
<1>9. faults = 0 /\ Working /\ ~job.loader => cass[t] = "down"
  BY <1>1, <1>2, <1>3 DEF QuietFits
<1> QED BY <1>3, <1>4, <1>5, <1>6, <1>7, <1>8, <1>9

\* A step of a command keeps the invariant.
LEMMA CommandKeeps ==
  ASSUME BatchInvariant, RestoreInvariant', NEW t \in Nodes, OthersKept(t), ~InPod,
         proc[t].pc \in Running, faults' = 0 => faults = 0,
         \A i \in Indices : rows[i] \subseteq rows'[i],
         Working /\ job.loader =>
            \A i \in Indices : Requested(i) => rows'[i] \subseteq rows[i] \union SourceOf(t),
         NodeGoesOn(t), LoadGoesOn(t), StopGoesOn(t)
  PROVE  BatchInvariant'
<1>1. sc' = sc /\ job' = job
  BY DEF OthersKept
<1>2. HostFits(t) /\ MapFits /\ PhaseFits
  BY DEF BatchInvariant
<1>3. /\ TargetHosts' = TargetHosts /\ InPod' = InPod /\ Possible' = Possible
      /\ SourceOf(t)' = SourceOf(t) /\ SeedsFor(t)' = SeedsFor(t)
      /\ \A s : Stored(s)' = Stored(s) /\ \A i : Requested(i)' = Requested(i)
  BY <1>1, MapSame
<1>4. Working' = Working /\ Counted' = Counted
  BY <1>1 DEF Working, Counted
<1>5. /\ t \in TargetHosts /\ ~Counted
      /\ faults = 0 => job.pc \in Phases /\ job.wait
      /\ ~(job.loader /\ job.pc = "restore" /\ ~job.wait)
      /\ job.pc \notin {"idle", "prepare", "confirm", "schema"}
      /\ Working /\ ~job.loader => proc[t].src = SourceOf(t) /\ proc[t].seeds = SeedsFor(t)
      /\ Working /\ job.loader => proc[t].src \subseteq SourceOf(t)
  BY RunningFacts
<1>6. TargetFits(t)'
  <2>1. Working /\ ~job.loader =>
          /\ proc'[t].pc \in NodeSteps \union {"ok", "error"}
          /\ proc'[t].src = SourceOf(t) /\ proc'[t].seeds = SeedsFor(t)
          /\ proc'[t].pc = "ok" => \A s \in SourceOf(t) :
                Stored(s) = "full" => NodeRestored(t, s)' \/ cass'[t] = "unseen"
    BY <1>5 DEF NodeGoesOn
  <2>2. Working /\ job.loader =>
          /\ proc'[t].pc \in {"load", "ok", "error"}
          /\ proc'[t].src \subseteq SourceOf(t)
          /\ \A i \in Indices : Requested(i) => SourceOf(t) \ proc'[t].src \subseteq rows'[i]
          /\ proc'[t].pc = "ok" => proc'[t].src = {} \/ \E s \in proc'[t].src : Stored(s) = "empty"
    BY <1>5 DEF LoadGoesOn
  <2> QED BY <1>1, <1>3, <1>4, <1>5, <2>1, <2>2 DEF TargetFits
<1>7. QuietFits(t)'
  <2>1. faults' = 0 => job.pc \in Phases /\ job.wait
    BY <1>5
  <2>2. faults' = 0 /\ Working /\ ~job.loader =>
          /\ cass'[t] # "down" => proc'[t].pc = "ok" /\ \A s \in SourceOf(t) : Stored(s) = "full"
          /\ t \notin job.seeds /\ job.seeds # {} /\ proc'[t].pc = "start"
                => \E u \in job.seeds : cass'[u] # "down"
    BY DEF NodeGoesOn
  <2>3. faults' = 0 /\ job.pc = "stop" /\ job.wait =>
          proc'[t].pc = "stop" \/ (proc'[t].pc = "ok" /\ cass'[t] = "down")
    BY DEF StopGoesOn
  <2> QED BY <1>1, <1>3, <1>4, <2>1, <2>2, <2>3 DEF QuietFits
<1>8. PossibleFits(t)'
  BY <1>1, <1>3, <1>4, <1>5 DEF StopGoesOn, PossibleFits
<1>9. \A u \in Nodes : HostFits(u)'
  BY <1>6, <1>7, <1>8, OthersFit DEF HostFits
<1>10. MapFits'
  BY <1>1, <1>2, MapKept DEF MapFits
<1>11. PhaseFits'
  <2>1. ASSUME job.loader, job.pc \in {"restore", "verify", "done"}, NEW i \in Indices, Requested(i)
        PROVE  sc.mode = "seed" /\ rows'[i] \subseteq Hosts(sc.backup)
    <3>1. sc.mode = "seed" /\ rows[i] \subseteq Hosts(sc.backup)
      BY <1>2, <2>1 DEF PhaseFits
    <3>2. SourceOf(t) \subseteq Hosts(sc.backup)
      BY <1>2, <2>1, <3>1 DEF MapFits, SourceOf, Sources
    <3>3. Working
      BY <1>5, <2>1 DEF Working, Counted
    <3> QED BY <2>1, <3>1, <3>2, <3>3
  <2> QED BY <1>1, <1>2, <1>3, <2>1 DEF PhaseFits
<1> QED BY <1>9, <1>10, <1>11 DEF BatchInvariant

LEMMA StopCommandFits ==
  ASSUME BatchInvariant, RestoreInvariant', NEW t \in Nodes, StopCommand(t)
  PROVE  BatchInvariant'
<1>1. /\ proc \in [Nodes -> ProcStates] /\ cass \in [Nodes -> {"up", "down", "unseen"}] /\ faults \in 0 .. MaxFaults
      /\ proc[t].pc = "stop" /\ NodeFits(t) /\ MapFits /\ PhaseFits
  BY DEF BatchInvariant, RestoreInvariant, TypeOK, StopCommand, At
<1>2. ~InPod /\ proc[t].pc \in Running /\ proc[t].pc \notin NodeSteps
  BY <1>1 DEF NodeFits, KeyFits, Running, NodeSteps
<1>3. "ok" \in ProcSteps /\ "error" \in ProcSteps
  BY DEF ProcSteps
<1>4. UNCHANGED <<sc, job, diskVars, owns, rows, keyed, runs>>
  BY DEF StopCommand
<1>5. \A u \in Nodes \ {t} : proc'[u] = proc[u] /\ cass'[u] = cass[u]
  BY <1>1, <1>3, GotoFields DEF StopCommand
<1>6. faults' = 0 => faults = 0 /\ proc'[t].pc = "ok" /\ cass'[t] = "down"
  BY <1>1, <1>3, GotoFields DEF StopCommand, Fault
<1>7. OthersKept(t)
  BY <1>4, <1>5 DEF OthersKept, diskVars
<1>8. /\ ~Working
      /\ faults = 0 => job.pc = "stop"
  BY <1>1, <1>2, RunningFacts DEF Working, Phases
<1>9. NodeGoesOn(t) /\ LoadGoesOn(t)
  BY <1>8 DEF NodeGoesOn, LoadGoesOn
<1>10. StopGoesOn(t)
  BY <1>1, <1>6, <1>8 DEF StopGoesOn, PhaseFits
<1> QED BY <1>2, <1>4, <1>6, <1>7, <1>8, <1>9, <1>10, CommandKeeps

\* The requested tables are among those that sstableloader loads.
LEMMA RequestedLoaded ==
  ASSUME NEW i \in Indices, Requested(i)
  PROVE  AllowedToLoad(i)
BY DEF Requested, AllowedToLoad, Retained, UserSection, SystemKeyspaces

LEMMA LoadFits ==
  ASSUME BatchInvariant, RestoreInvariant', NEW t \in Nodes, LoadSource(t) \/ LoadFails(t)
  PROVE  BatchInvariant'
<1>1. /\ proc \in [Nodes -> ProcStates] /\ faults \in 0 .. MaxFaults /\ sc \in Scenarios
      /\ rows \in [Indices -> SUBSET ({"old"} \union Nodes)]
      /\ proc[t].pc = "load" /\ NodeFits(t) /\ MapFits /\ HostFits(t)
  BY DEF BatchInvariant, RestoreInvariant, TypeOK, LoadSource, LoadFails, At
<1>2. ~InPod /\ proc[t].pc \in Running /\ proc[t].pc \notin NodeSteps
  BY <1>1 DEF NodeFits, KeyFits, Running, NodeSteps
<1>3. "ok" \in ProcSteps /\ "error" \in ProcSteps
  BY DEF ProcSteps
<1>4. UNCHANGED <<sc, job, cass, diskVars, owns, keyed, runs>>
  BY DEF LoadSource, LoadFails
<1>5. PICK s \in proc[t].src, step \in {"ok", "error", "load"} :
         /\ \A u \in Nodes \ {t} : proc'[u] = proc[u]
         /\ proc'[t].pc = step
         /\ \/ /\ proc'[t].src = proc[t].src
               /\ step = "error" /\ (faults' = 0 => Stored(s) = "missing")
            \/ /\ proc'[t].src = proc[t].src
               /\ step = "ok" /\ Stored(s) = "empty"
            \/ /\ proc'[t].src = proc[t].src \ {s} /\ step # "error"
               /\ step = "ok" => proc[t].src = {s}
               /\ \A i \in Indices : AllowedToLoad(i) => s \in rows'[i]
         /\ \A i \in Indices : rows[i] \subseteq rows'[i] /\ rows'[i] \subseteq rows[i] \union {s}
  <2>1. CASE LoadFails(t)
    <3>1. PICK s \in proc[t].src, loaded \in SUBSET {i \in Indices : AllowedToLoad(i)} :
             rows' = [i \in Indices |-> IF i \in loaded /\ Stored(s) = "full"
                                        THEN rows[i] \union {s} ELSE rows[i]]
      BY <2>1 DEF LoadFails
    <3>2. Goto(t, "error") /\ faults' # 0
      BY <1>1, <2>1 DEF LoadFails, Fault
    <3>3. /\ proc'[t].pc = "error" /\ proc'[t].src = proc[t].src
          /\ \A u \in Nodes \ {t} : proc'[u] = proc[u]
      BY <1>1, <1>3, <3>2, GotoFields
    <3>4. \A i \in Indices : rows[i] \subseteq rows'[i] /\ rows'[i] \subseteq rows[i] \union {s}
      BY <3>1
    <3> QED BY <3>2, <3>3, <3>4
  <2>2. CASE LoadSource(t)
    <3>1. PICK s \in proc[t].src :
             \/ /\ Stored(s) # "full"
                /\ Goto(t, IF Stored(s) = "empty" THEN "ok" ELSE "error")
                /\ UNCHANGED rows
             \/ /\ Stored(s) = "full"
                /\ rows' = [i \in Indices |->
                               IF AllowedToLoad(i) THEN rows[i] \union {s} ELSE rows[i]]
                /\ proc' = [proc EXCEPT ![t].pc = IF proc[t].src = {s} THEN "ok" ELSE "load",
                                        ![t].src = @ \ {s}]
      BY <2>2 DEF LoadSource
    <3>2. CASE Stored(s) = "empty"
      <4>1. Goto(t, "ok") /\ UNCHANGED rows
        BY <3>1, <3>2
      <4>2. /\ proc'[t].pc = "ok" /\ proc'[t].src = proc[t].src
            /\ \A u \in Nodes \ {t} : proc'[u] = proc[u]
        BY <1>1, <1>3, <4>1, GotoFields
      <4> QED BY <3>2, <4>1, <4>2
    <3>3. CASE Stored(s) = "missing"
      <4>1. Goto(t, "error") /\ UNCHANGED rows
        BY <3>1, <3>3
      <4>2. /\ proc'[t].pc = "error" /\ proc'[t].src = proc[t].src
            /\ \A u \in Nodes \ {t} : proc'[u] = proc[u]
        BY <1>1, <1>3, <4>1, GotoFields
      <4> QED BY <3>3, <4>1, <4>2
    <3>4. CASE Stored(s) = "full"
      <4>1. /\ rows' = [i \in Indices |->
                           IF AllowedToLoad(i) THEN rows[i] \union {s} ELSE rows[i]]
            /\ proc' = [proc EXCEPT ![t].pc = IF proc[t].src = {s} THEN "ok" ELSE "load",
                                    ![t].src = @ \ {s}]
        BY <3>1, <3>4
      <4>2. /\ proc'[t].pc = (IF proc[t].src = {s} THEN "ok" ELSE "load")
            /\ proc'[t].src = proc[t].src \ {s}
            /\ \A u \in Nodes \ {t} : proc'[u] = proc[u]
        BY <1>1, <4>1, SourceLoaded
      <4>3. /\ \A i \in Indices : rows[i] \subseteq rows'[i] /\ rows'[i] \subseteq rows[i] \union {s}
            /\ \A i \in Indices : AllowedToLoad(i) => s \in rows'[i]
        BY <4>1
      <4> QED BY <4>2, <4>3
    <3> QED BY <1>1, <3>2, <3>3, <3>4, StoredKinds
  <2> QED BY <2>1, <2>2
<1>6. OthersKept(t)
  BY <1>4, <1>5 DEF OthersKept, diskVars
<1>7. faults' = 0 => faults = 0
  BY <1>1 DEF LoadSource, LoadFails, Fault
<1>8. /\ t \in TargetHosts /\ (faults = 0 => Working /\ job.loader)
      /\ Working => job.loader /\ s \in SourceOf(t) /\ proc[t].src \subseteq SourceOf(t)
  BY <1>1, <1>2, RunningFacts DEF Working, Phases
<1>9. NodeGoesOn(t)
  BY <1>8 DEF NodeGoesOn
<1>10. LoadGoesOn(t)
  <2> SUFFICES ASSUME Working, job.loader PROVE LoadGoesOn(t)
    BY DEF LoadGoesOn
  <2>1. \A i \in Indices : Requested(i) => SourceOf(t) \ proc[t].src \subseteq rows[i]
    BY <1>1, <1>2, <1>8 DEF HostFits, TargetFits
  <2>2. \A i \in Indices : Requested(i) => SourceOf(t) \ proc'[t].src \subseteq rows'[i]
    BY <1>5, <2>1, RequestedLoaded
  <2>3. proc'[t].src \subseteq proc[t].src
    BY <1>5
  <2>4. proc'[t].pc = "ok" => proc'[t].src = {} \/ \E q \in proc'[t].src : Stored(q) = "empty"
    BY <1>5
  <2> QED BY <1>5, <2>2, <2>3, <2>4 DEF LoadGoesOn
<1>11. StopGoesOn(t)
  <2> SUFFICES ASSUME faults' = 0 PROVE StopGoesOn(t)
    BY DEF StopGoesOn
  <2>1. faults = 0 /\ Working /\ job.loader /\ s \in SourceOf(t)
    BY <1>7, <1>8
  <2>2. Possible => cass'[t] = "up"
    BY <1>1, <1>2, <1>4, <2>1 DEF HostFits, PossibleFits
  <2>3. Possible => Stored(s) = "full"
    BY <1>1, <2>1, SourcesStored DEF Possible
  <2>4. Possible => proc'[t].pc # "error"
    BY <1>5, <2>3
  <2> QED BY <2>1, <2>2, <2>4 DEF StopGoesOn, Working
<1> QED BY <1>2, <1>5, <1>6, <1>7, <1>8, <1>9, <1>10, <1>11, CommandKeeps

\* A step of restore-node keeps the invariant: it ends well only with its target
\* restored, leaves Cassandra down before, and starts it after a seed.
LEMMA NodeStepFits ==
  ASSUME BatchInvariant, RestoreInvariant', NEW t \in Nodes, ~InPod, OthersKept(t),
         proc[t].pc \in NodeSteps, rows' = rows, faults' = 0 => faults = 0,
         proc'[t].pc \in NodeSteps \union {"ok", "error"},
         proc'[t].src = proc[t].src, proc'[t].seeds = proc[t].seeds,
         proc'[t].pc = "ok" => \A s \in proc[t].src :
            Stored(s) = "full" => NodeRestored(t, s)' \/ cass'[t] = "unseen",
         cass'[t] # "down" =>
            cass[t] # "down" \/ (proc'[t].pc = "ok" /\ \A s \in proc[t].src : Stored(s) = "full"),
         proc'[t].pc = "start" =>
            cass' = cass /\ (proc[t].seeds = {} \/ \E u \in proc[t].seeds : cass[u] # "down"),
         faults' = 0 /\ Possible /\ Working => proc'[t].pc # "error"
  PROVE  BatchInvariant'
<1>1. proc[t].pc \in Running /\ proc[t].pc \notin {"stop", "load"}
  BY DEF Running, NodeSteps
<1>2. /\ faults = 0 => Working /\ ~job.loader
      /\ Working => ~job.loader /\ proc[t].src = SourceOf(t) /\ proc[t].seeds = SeedsFor(t)
      /\ faults = 0 => cass[t] = "down"
  BY <1>1, RunningFacts DEF Working, Phases
<1>3. NodeGoesOn(t)
  <2> SUFFICES ASSUME Working PROVE NodeGoesOn(t)
    BY DEF NodeGoesOn
  <2>1. proc[t].src = SourceOf(t) /\ proc[t].seeds = SeedsFor(t)
    BY <1>2
  <2>2. ASSUME faults' = 0, t \notin job.seeds, job.seeds # {}, proc'[t].pc = "start"
        PROVE  \E u \in job.seeds : cass'[u] # "down"
    BY <2>1, <2>2 DEF SeedsFor
  <2> QED BY <1>2, <2>1, <2>2 DEF NodeGoesOn
<1>4. LoadGoesOn(t)
  BY <1>2 DEF LoadGoesOn
<1>5. StopGoesOn(t)
  BY <1>2 DEF StopGoesOn, Working
<1> QED BY <1>1, <1>2, <1>3, <1>4, <1>5, CommandKeeps

\* What restore-node starts runs on the files and the tokens of the source.
LEMMA StartRestores ==
  ASSUME PeersAreSystem, RestoreInvariant, RestoreInvariant', NEW t \in Nodes, StartCassandra(t),
         ~InPod, cass[t] = "down", NEW s \in proc[t].src
  PROVE  NodeRestored(t, s)'
<1>1. /\ data \in [Nodes -> [Indices -> FileOrigins]] /\ cass \in [Nodes -> {"up", "down", "unseen"}]
      /\ owns \in [Nodes -> Nodes] /\ yaml \in [Nodes -> Nodes] /\ yaml' \in [Nodes -> Nodes]
      /\ proc \in [Nodes -> ProcStates] /\ job \in JobStates /\ NodeFits(t)
  BY DEF RestoreInvariant, TypeOK
<1>2. /\ proc[t].pc = "start" /\ Tokens(t) /\ CassandraStarts(t) /\ UNCHANGED <<sc, job, log>>
  BY DEF StartCassandra, At
<1>3. /\ cass'[t] = "up"
      /\ \A j \in Indices \ {Local} : data'[t][j] = data[t][j]
      /\ data[t][Local] \in Nodes => owns'[t] = data[t][Local]
      /\ data[t][Local] = "gone" => owns'[t] = yaml'[t]
  BY <1>1, <1>2, Started
<1>4. "start" \in NodeSteps
  BY DEF NodeSteps
<1>5. s \in Nodes /\ Single(proc[t].src) /\ Local \in Indices
  BY <1>1, <1>2, <1>4, ProcFields, SectionFacts DEF NodeFits, WorkFits
<1>6. proc[t].src = {s}
  BY <1>5 DEF Single
<1>7. yaml' = [yaml EXCEPT ![t] = IF job.inPlace THEN @ ELSE s]
  BY <1>2, <1>6 DEF Tokens
<1>8. log[t] = "clean" /\ \A i \in Indices : SectionFrom(t, s, i)
  BY <1>1, <1>2 DEF NodeFits, Moved
<1>9. data[t][Local] = IF job.inPlace THEN s ELSE "gone"
  BY <1>1, <1>5, <1>8, LocalTaken
<1>10. owns'[t] = s
  <2>1. CASE job.inPlace
    BY <1>3, <1>5, <1>9, <2>1
  <2>2. CASE ~job.inPlace
    BY <1>1, <1>3, <1>7, <1>9, <2>2
  <2> QED BY <2>1, <2>2
<1>11. ASSUME NEW i \in Indices, Requested(i) PROVE data'[t][i] = s
  <2>1. data[t][i] = s
    BY <1>5, <1>8, <1>11, RequestedTaken
  <2>2. i # Local
    BY <1>11, SectionFacts DEF Requested, UserSection, SystemKeyspaces
  <2> QED BY <1>3, <2>1, <2>2
<1>12. ASSUME NEW i \in Indices, Sections[i].ks = "system_auth", ~job.keep PROVE data'[t][i] = s
  <2>1. ~LeftAlone(i)
    BY <1>12 DEF LeftAlone, Retained, UserSection, SystemKeyspaces, KeepAuth
  <2>2. ~SkippedRemote(i)
    BY <1>12 DEF SkippedRemote, PeersAreSystem
  <2>3. data[t][i] = s
    BY <1>8, <2>1, <2>2 DEF SectionFrom
  <2>4. i # Local
    BY <1>12, SectionFacts
  <2> QED BY <1>3, <2>3, <2>4
<1>13. \A i : Requested(i)' = Requested(i)
  BY <1>2 DEF Requested
<1> QED BY <1>2, <1>3, <1>8, <1>10, <1>11, <1>12, <1>13 DEF NodeRestored

\* In a restore that can succeed the seeds that are not being restored are up: nobody
\* gives up on them.
LEMMA SeedsCome ==
  ASSUME BatchInvariant, NEW t \in Nodes, ~InPod, proc[t].pc \in NodeSteps,
         faults = 0, Possible, proc[t].seeds # {},
         \A s \in proc[t].seeds :
            proc[s].pc \notin Running \/ (proc[s].pc = "seeds" /\ proc[s].seeds # {})
  PROVE  \E s \in proc[t].seeds : cass[s] # "down"
<1>1. proc[t].pc \in Running /\ proc[t].pc \notin {"stop", "load"}
  BY DEF Running, NodeSteps
<1>2. Working /\ ~job.loader /\ proc[t].seeds = SeedsFor(t)
  BY <1>1, RunningFacts DEF Working, Phases
<1>3. proc[t].seeds = job.seeds
  BY <1>2 DEF SeedsFor
<1>4. PICK s \in job.seeds : TRUE
  BY <1>3
<1>5. job \in JobStates /\ MapFits /\ JobFits
  BY DEF BatchInvariant, RestoreInvariant, TypeOK
<1>6. s \in TargetHosts /\ s \in Nodes
  BY <1>2, <1>5, JobFields DEF MapFits
<1>7. TargetFits(s) /\ PossibleFits(s)
  BY <1>6 DEF BatchInvariant, HostFits
<1>8. /\ proc[s].pc \in NodeSteps \union {"ok", "error"} /\ proc[s].seeds = SeedsFor(s)
      /\ proc[s].pc = "ok" => \A q \in SourceOf(s) :
            Stored(q) = "full" => NodeRestored(s, q) \/ cass[s] = "unseen"
  BY <1>2, <1>6, <1>7 DEF TargetFits
<1>9. proc[s].pc \notin Running
  BY <1>3, <1>8 DEF SeedsFor
<1>10. proc[s].pc = "ok"
  BY <1>2, <1>7, <1>8, <1>9 DEF PossibleFits, Running
<1>11. PICK k \in DOMAIN job.map : job.map[k].target = s
  BY <1>6 DEF TargetHosts, Targets
<1>12. SourceOf(s) = job.map[k].sources /\ Single(job.map[k].sources)
  BY <1>2, <1>5, <1>11, EntryOf DEF JobFits
<1>13. PICK q \in SourceOf(s) : TRUE
  BY <1>12 DEF Single
<1>14. Stored(q) = "full"
  BY <1>5, <1>13, SourcesStored DEF Possible
<1>15. cass[s] # "down"
  BY <1>8, <1>10, <1>13, <1>14 DEF NodeRestored
<1> QED BY <1>3, <1>15

\* A step of restore-node that leaves the files alone.
LEMMA CommandFits ==
  ASSUME BatchInvariant, RestoreInvariant', NEW t \in Nodes, ~InPod, proc[t].pc \in NodeSteps,
         NEW step \in NodeSteps \union {"ok", "error"}, Goto(t, step),
         UNCHANGED <<sc, job, diskVars, owns, rows, keyed>>, faults' = 0 => faults = 0,
         \/ cass' = cass
         \/ cass' = [cass EXCEPT ![t] = "down"]
         \/ cass[t] # "down" /\ cass' = [cass EXCEPT ![t] = "unseen"],
         step = "ok" => \A s \in proc[t].src : Stored(s) # "full",
         step = "start" =>
            cass' = cass /\ (proc[t].seeds = {} \/ \E u \in proc[t].seeds : cass[u] # "down"),
         faults' = 0 /\ Possible /\ Working => step # "error"
  PROVE  BatchInvariant'
<1>1. proc \in [Nodes -> ProcStates] /\ cass \in [Nodes -> {"up", "down", "unseen"}]
  BY DEF BatchInvariant, RestoreInvariant, TypeOK
<1>2. step \in ProcSteps
  BY DEF ProcSteps, Running
<1>3. /\ proc'[t].pc = step /\ proc'[t].src = proc[t].src /\ proc'[t].seeds = proc[t].seeds
      /\ \A u \in Nodes \ {t} : proc'[u] = proc[u]
  BY <1>1, <1>2, GotoFields
<1>4. /\ \A u \in Nodes \ {t} : cass'[u] = cass[u]
      /\ cass'[t] # "down" => cass[t] # "down"
  BY <1>1
<1>5. OthersKept(t)
  BY <1>3, <1>4 DEF OthersKept, diskVars
<1> QED BY <1>3, <1>4, <1>5, NodeStepFits

LEMMA NodeStepsFit ==
  ASSUME PeersAreSystem, BatchInvariant, RestoreInvariant', NEW t \in Nodes, ~InPod,
         \/ Lookup(t) \/ Download(t) \/ Shutdown(t) \/ WaitForDown(t) \/ CleanCommitLog(t)
         \/ MoveSection(t) \/ WaitForSeeds(t) \/ GiveUpOnSeeds(t) \/ StartCassandra(t)
         \/ NodeFails(t)
  PROVE  BatchInvariant'
<1>1. /\ RestoreInvariant /\ NodeFits(t) /\ faults \in 0 .. MaxFaults /\ sc \in Scenarios
      /\ cass \in [Nodes -> {"up", "down", "unseen"}] /\ proc \in [Nodes -> ProcStates] /\ MapFits
      /\ log \in [Nodes -> {"old", "clean"}] /\ data \in [Nodes -> [Indices -> FileOrigins]]
  BY DEF BatchInvariant, RestoreInvariant, TypeOK
<1>2. proc[t].pc \in NodeSteps
  BY DEF Lookup, Download, Shutdown, WaitForDown, CleanCommitLog, MoveSection, WaitForSeeds,
         GiveUpOnSeeds, StartCassandra, NodeFails, At, NodeSteps
<1>3. /\ Single(proc[t].src)
      /\ proc[t].pc # "lookup" => \A s \in proc[t].src : Stored(s) = "full"
  BY <1>1, <1>2 DEF NodeFits, WorkFits
<1>4. proc[t].pc \in Running /\ proc[t].pc \notin {"stop", "load"}
  BY <1>2 DEF Running, NodeSteps
<1>5. /\ faults = 0 => Working /\ cass[t] = "down"
      /\ Working => proc[t].src = SourceOf(t)
  BY <1>4, RunningFacts DEF Working, Phases
<1>6. CASE Lookup(t)
  <2>1. UNCHANGED <<sc, job, cass, diskVars, owns, rows, keyed, faults>>
    BY <1>6 DEF Lookup
  <2>2. PICK s \in proc[t].src :
           Goto(t, CASE Stored(s) = "full" -> "download"
                     [] Stored(s) = "empty" -> "ok"
                     [] Stored(s) = "missing" -> IF InPod THEN "ok" ELSE "error")
    BY <1>6 DEF Lookup
  <2>3. proc[t].src = {s}
    BY <1>3 DEF Single
  <2>4. CASE Stored(s) = "full"
    <3>1. Goto(t, "download") /\ "download" \in NodeSteps
      BY <2>2, <2>4 DEF NodeSteps
    <3> QED BY <1>2, <2>1, <3>1, CommandFits
  <2>5. CASE Stored(s) = "empty"
    <3>1. Goto(t, "ok")
      BY <2>2, <2>5
    <3> QED BY <1>2, <2>1, <2>3, <2>5, <3>1, CommandFits
  <2>6. CASE Stored(s) = "missing"
    <3>1. Goto(t, "error")
      BY <2>2, <2>6
    <3>2. ~(Possible /\ Working)
      BY <1>1, <1>5, <2>6, SourcesStored DEF Possible
    <3> QED BY <1>2, <2>1, <3>1, <3>2, CommandFits
  <2> QED BY <1>1, <2>4, <2>5, <2>6, StoredKinds
<1>7. CASE Download(t)
  <2>1. /\ UNCHANGED <<sc, job, cass, diskVars, owns, rows, keyed, faults>>
        /\ Goto(t, "shutdown") /\ "shutdown" \in NodeSteps
    BY <1>7 DEF Download, NodeSteps
  <2> QED BY <1>2, <2>1, CommandFits
<1>8. CASE Shutdown(t)
  <2>1. /\ UNCHANGED <<sc, job, diskVars, owns, rows, keyed>>
        /\ Goto(t, "waitdown") /\ "waitdown" \in NodeSteps
        /\ cass' = cass \/ cass' = [cass EXCEPT ![t] = "down"]
    BY <1>8 DEF Shutdown, NodeSteps
  <2>2. faults' = 0 => faults = 0
    BY <1>1, <1>8 DEF Shutdown, Fault
  <2> QED BY <1>2, <2>1, <2>2, CommandFits
<1>9. CASE WaitForDown(t)
  <2>1. UNCHANGED <<sc, job, diskVars, owns, rows, keyed>> /\ "clean" \in NodeSteps
    BY <1>9 DEF WaitForDown, NodeSteps
  <2>2. CASE cass[t] = "down"
    <3>1. Goto(t, "clean") /\ UNCHANGED <<cass, faults>>
      BY <1>9, <2>2 DEF WaitForDown
    <3> QED BY <1>2, <2>1, <3>1, CommandFits
  <2>3. CASE cass[t] # "down" /\ Goto(t, "error") /\ UNCHANGED <<cass, faults>>
    <3>1. faults' # 0
      BY <1>5, <2>3
    <3> QED BY <1>2, <2>1, <2>3, <3>1, CommandFits
  <2>4. CASE cass[t] # "down" /\ Fault /\ Goto(t, "clean") /\ cass' = [cass EXCEPT ![t] = "unseen"]
    <3>1. faults' # 0
      BY <1>1, <2>4 DEF Fault
    <3> QED BY <1>2, <2>1, <2>4, <3>1, CommandFits
  <2> QED BY <1>9, <2>2, <2>3, <2>4 DEF WaitForDown
<1>10. CASE CleanCommitLog(t)
  <2>1. /\ UNCHANGED <<sc, job, cass, data, yaml, owns, rows, keyed, faults>>
        /\ Goto(t, "move") /\ "move" \in NodeSteps
    BY <1>10 DEF CleanCommitLog, NodeSteps
  <2>2. "move" \in ProcSteps
    BY DEF ProcSteps, Running, NodeSteps
  <2>3. /\ proc'[t].pc = "move" /\ proc'[t].src = proc[t].src /\ proc'[t].seeds = proc[t].seeds
        /\ \A u \in Nodes \ {t} : proc'[u] = proc[u]
    BY <1>1, <2>1, <2>2, GotoFields
  <2>4. \A u \in Nodes \ {t} : log'[u] = log[u]
    BY <1>1, <1>10 DEF CleanCommitLog
  <2>5. OthersKept(t)
    BY <2>1, <2>3, <2>4 DEF OthersKept
  <2> QED BY <1>2, <2>1, <2>3, <2>5, NodeStepFits
<1>11. CASE MoveSection(t)
  <2>1. UNCHANGED <<sc, job, cass, log, yaml, owns, rows, keyed, faults>>
    BY <1>11 DEF MoveSection
  <2>2. /\ proc'[t].pc \in {"seeds", "move"} /\ proc'[t].src = proc[t].src
        /\ proc'[t].seeds = proc[t].seeds
        /\ \A u \in Nodes \ {t} : proc'[u] = proc[u] /\ data'[u] = data[u]
    BY <1>1, <1>11, SectionMoved
  <2>3. OthersKept(t)
    BY <2>1, <2>2 DEF OthersKept
  <2>4. proc'[t].pc \in NodeSteps
    BY <2>2 DEF NodeSteps
  <2> QED BY <1>2, <2>1, <2>2, <2>3, <2>4, NodeStepFits
<1>12. CASE WaitForSeeds(t)
  <2>1. /\ UNCHANGED <<sc, job, cass, diskVars, owns, rows, keyed, faults>>
        /\ Goto(t, "start") /\ "start" \in NodeSteps
        /\ proc[t].seeds = {} \/ \E u \in proc[t].seeds : cass[u] # "down"
    BY <1>12 DEF WaitForSeeds, NodeSteps
  <2> QED BY <1>2, <2>1, CommandFits
<1>13. CASE GiveUpOnSeeds(t)
  <2>1. /\ UNCHANGED <<sc, job, cass, diskVars, owns, rows, keyed>> /\ Goto(t, "error")
        /\ proc[t].seeds # {} /\ \A s \in proc[t].seeds : cass[s] = "down"
    BY <1>13 DEF GiveUpOnSeeds
  <2> DEFINE lost == \A s \in proc[t].seeds :
                       proc[s].pc \notin Running \/ (proc[s].pc = "seeds" /\ proc[s].seeds # {})
  <2>2. faults' = 0 => faults = 0 /\ lost
    <3>1. FaultUnless(lost)
      BY <1>13 DEF GiveUpOnSeeds, At
    <3> HIDE DEF lost
    <3>2. faults' = IF lost THEN faults ELSE faults + 1
      BY <3>1 DEF FaultUnless
    <3>3. faults \in Nat
      BY <1>1
    <3> QED BY <3>2, <3>3
  <2>3. ~(faults' = 0 /\ Possible)
    BY <1>2, <2>1, <2>2, SeedsCome
  <2> QED BY <1>2, <2>1, <2>2, <2>3, CommandFits
<1>14. CASE StartCassandra(t)
  <2>1. /\ UNCHANGED <<sc, job, log, rows, keyed, faults>> /\ Goto(t, "ok")
        /\ IF cass[t] = "down" THEN CassandraStarts(t) ELSE UNCHANGED <<cass, owns, data>>
        /\ Tokens(t) /\ proc[t].pc = "start"
    BY <1>14 DEF StartCassandra, At
  <2>2. "ok" \in ProcSteps
    BY DEF ProcSteps
  <2>3. /\ proc'[t].pc = "ok" /\ proc'[t].src = proc[t].src /\ proc'[t].seeds = proc[t].seeds
        /\ \A u \in Nodes \ {t} : proc'[u] = proc[u]
    BY <1>1, <2>1, <2>2, GotoFields
  <2>4. yaml \in [Nodes -> Nodes] /\ yaml' \in [Nodes -> Nodes] /\ owns \in [Nodes -> Nodes]
    BY <1>1 DEF RestoreInvariant, TypeOK
  <2>5. \A u \in Nodes \ {t} : cass'[u] = cass[u] /\ owns'[u] = owns[u] /\ data'[u] = data[u]
    BY <1>1, <2>1, <2>4, Started
  <2>6. \A u \in Nodes \ {t} : yaml'[u] = yaml[u]
    BY <2>1, <2>4 DEF Tokens
  <2>7. OthersKept(t)
    BY <2>1, <2>3, <2>5, <2>6 DEF OthersKept
  <2>8. \A s \in proc[t].src : Stored(s) = "full"
    BY <1>3, <2>1
  <2>9. CASE cass[t] = "down"
    <3>1. \A s \in proc[t].src : NodeRestored(t, s)'
      BY <1>1, <1>14, <2>9, StartRestores
    <3> QED BY <1>2, <2>1, <2>3, <2>7, <2>8, <3>1, NodeStepFits
  <2>10. CASE cass[t] # "down"
    <3>1. cass' = cass /\ cass[t] = "unseen"
      BY <1>1, <2>1, <2>10 DEF NodeFits, DownFor
    <3> QED BY <1>2, <2>1, <2>3, <2>7, <2>8, <3>1, NodeStepFits
  <2> QED BY <2>9, <2>10
<1>15. CASE NodeFails(t)
  <2>1. UNCHANGED <<sc, job, cass, log, yaml, owns, rows, keyed>> /\ Goto(t, "error") /\ faults' # 0
    BY <1>1, <1>15 DEF NodeFails, Fault
  <2>2. "error" \in ProcSteps
    BY DEF ProcSteps
  <2>3. /\ proc'[t].pc = "error" /\ proc'[t].src = proc[t].src /\ proc'[t].seeds = proc[t].seeds
        /\ \A u \in Nodes \ {t} : proc'[u] = proc[u]
    BY <1>1, <2>1, <2>2, GotoFields
  <2>4. \A u \in Nodes \ {t} : data'[u] = data[u]
    BY <1>1, <1>15 DEF NodeFails
  <2>5. OthersKept(t)
    BY <2>1, <2>3, <2>4 DEF OthersKept
  <2> QED BY <1>2, <2>1, <2>3, <2>5, NodeStepFits
<1> QED BY <1>6, <1>7, <1>8, <1>9, <1>10, <1>11, <1>12, <1>13, <1>14, <1>15

\* In pods nothing depends on the batch.
LEMMA PodsFit ==
  ASSUME BatchInvariant, RestoreInvariant', NEW t \in Nodes, (HostStep(t) /\ InPod) \/ PodStep(t)
  PROVE  BatchInvariant'
<1>1. UNCHANGED <<sc, job, rows>> \/ LoadSource(t) \/ LoadFails(t)
  BY DEF HostStep, StopCommand, Lookup, Download, Shutdown, WaitForDown, CleanCommitLog,
         MoveSection, WaitForSeeds, GiveUpOnSeeds, StartCassandra, NodeFails,
         PodStep, PodRecreated, WriteKey, PodStarts, PodRestarts
<1>2. JobFits /\ NodeFits(t) /\ MapFits /\ PhaseFits /\ faults \in 0 .. MaxFaults
  BY DEF BatchInvariant, RestoreInvariant, TypeOK
<1>3. InPod /\ job.pc = "pods"
  <2>1. CASE PodStep(t)
    <3>1. job.pc = "pods"
      BY <2>1 DEF PodStep, PodRecreated, WriteKey, PodStarts, PodRestarts
    <3> QED BY <1>2, <3>1 DEF JobFits
  <2>2. CASE HostStep(t) /\ InPod
    <3>1. proc[t].pc # "none"
      BY <2>2 DEF HostStep, StopCommand, Lookup, Download, Shutdown, WaitForDown, CleanCommitLog,
           MoveSection, WaitForSeeds, GiveUpOnSeeds, StartCassandra, NodeFails, LoadSource,
           LoadFails, At, NodeSteps
    <3> QED BY <1>2, <2>2, <3>1 DEF JobFits, NoProc
  <2> QED BY <2>1, <2>2
<1>4. UNCHANGED <<sc, job, rows>>
  BY <1>1, <1>2, <1>3 DEF NodeFits, KeyFits, LoadSource, LoadFails, At
<1>5. InPod' = InPod /\ Possible' = Possible /\ \A i : Requested(i)' = Requested(i)
  BY <1>4, MapSame
<1>6. MapFits'
  BY <1>2, <1>4, MapKept DEF MapFits
<1>7. PhaseFits'
  BY <1>2, <1>3, <1>4 DEF PhaseFits
<1>8. ASSUME NEW u \in Nodes PROVE HostFits(u)'
  <2>1. TargetFits(u)' /\ QuietFits(u)'
    BY <1>3, <1>5 DEF TargetFits, QuietFits
  <2>2. PossibleFits(u)'
    BY <1>3, <1>4, <1>5 DEF PossibleFits, Working
  <2> QED BY <2>1, <2>2 DEF HostFits
<1> QED BY <1>6, <1>7, <1>8 DEF BatchInvariant

LEMMA BatchInit ==
  ASSUME Init
  PROVE  BatchInvariant
<1>1. RestoreInvariant
  BY RestoreInit
<1>2. /\ job.pc = "idle" /\ job.map = <<>> /\ job.seeds = {} /\ ~job.loader /\ job.next = 1
      /\ ~job.wait /\ faults = 0
  BY DEF Init, NoJob
<1>3. DOMAIN job.map = {} /\ Len(job.map) = 0 /\ TargetHosts = {}
  BY <1>2 DEF TargetHosts, Targets
<1>4. MapFits
  BY <1>2, <1>3, ParallelAssumption DEF MapFits
<1>5. PhaseFits
  BY <1>2 DEF PhaseFits
<1>6. ASSUME NEW t \in Nodes PROVE HostFits(t)
  <2>1. proc[t] = NoProc /\ cass[t] = "up" /\ NoProc.pc \notin Running
    BY DEF Init, NoProc, Running, NodeSteps
  <2>2. ~Working /\ ~Counted
    BY <1>2 DEF Working, Counted
  <2>3. TargetFits(t) /\ QuietFits(t) /\ PossibleFits(t)
    BY <1>2, <1>3, <2>1, <2>2 DEF TargetFits, QuietFits, PossibleFits
  <2> QED BY <2>3 DEF HostFits
<1> QED BY <1>1, <1>4, <1>5, <1>6 DEF BatchInvariant

LEMMA BeginFits ==
  ASSUME BatchInvariant, RestoreInvariant', Begin
  PROVE  BatchInvariant'
<1>1. /\ job'.pc = "prepare" /\ job'.map = <<>> /\ job'.seeds = {} /\ ~job'.loader /\ job'.next = 1
      /\ ~job'.wait
  BY DEF Begin, NoJob
<1>2. UNCHANGED <<sc, cass, faults>> /\ \A t \in Nodes : proc'[t] = NoProc
  BY DEF Begin
<1>3. DOMAIN job'.map = {} /\ Len(job'.map) = 0 /\ TargetHosts' = {}
  BY <1>1 DEF TargetHosts, Targets
<1>4. MapFits'
  BY <1>1, <1>3, ParallelAssumption DEF MapFits
<1>5. PhaseFits'
  BY <1>1 DEF PhaseFits
<1>6. Possible' = Possible
  BY <1>2 DEF Possible, Stored
<1>7. faults = 0 /\ Possible => job.pc = "idle"
  BY DEF BatchInvariant, PhaseFits, Begin
<1>8. ASSUME NEW t \in Nodes PROVE HostFits(t)'
  <2>1. proc'[t] = NoProc /\ NoProc.pc \notin Running
    BY <1>2 DEF NoProc, Running, NodeSteps
  <2>2. ~Working' /\ ~Counted'
    BY <1>1 DEF Working, Counted
  <2>3. TargetFits(t)' /\ QuietFits(t)'
    BY <1>1, <1>3, <2>1, <2>2 DEF TargetFits, QuietFits
  <2>4. faults = 0 /\ Possible => cass[t] = "up"
    BY <1>7 DEF BatchInvariant, HostFits, PossibleFits
  <2>5. PossibleFits(t)'
    BY <1>2, <1>6, <2>2, <2>4 DEF PossibleFits
  <2> QED BY <2>3, <2>5 DEF HostFits
<1> QED BY <1>4, <1>5, <1>8 DEF BatchInvariant

\* Before a command is launched, what fits a host says nothing but that it was found up.
LEMMA UnlaunchedFits ==
  ASSUME BatchInvariant, NEW t \in Nodes, proc'[t] = NoProc, sc' = sc, cass' = cass, ~job'.wait,
         faults' = 0 => faults = 0, job'.pc \notin {"idle", "prepare", "verify", "done"},
         job'.pc = "restore" => job'.loader,
         faults' = 0 /\ Possible /\ job'.loader /\ ~InPod =>
            job.pc \in {"idle", "prepare"} \/ job.loader
  PROVE  HostFits(t)'
<1>1. NoProc.pc \notin Running /\ NoProc.pc # "start"
  BY DEF NoProc, Running, NodeSteps
<1>2. ~Working' /\ ~Counted'
  BY DEF Working, Counted
<1>3. InPod' = InPod /\ Possible' = Possible
  BY DEF InPod, Possible, Stored
<1>4. TargetFits(t)'
  BY <1>2 DEF TargetFits
<1>5. QuietFits(t)'
  BY <1>1, <1>2 DEF QuietFits
<1>6. PossibleFits(t)
  BY DEF BatchInvariant, HostFits
<1>7. PossibleFits(t)'
  BY <1>2, <1>3, <1>6 DEF PossibleFits
<1> QED BY <1>4, <1>5, <1>7 DEF HostFits

LEMMA PrepareFits ==
  ASSUME OneBatch, BatchInvariant, RestoreInvariant', PrepareRing \/ PrepareList
  PROVE  BatchInvariant'
<1>1. /\ sc \in Scenarios /\ job \in JobStates /\ JobFits /\ PhaseFits
      /\ ParallelRestores \in Nat \ {0} /\ job' \in JobStates
  BY ParallelAssumption DEF BatchInvariant, RestoreInvariant, TypeOK
<1>2. job.pc = "prepare" /\ UNCHANGED <<sc, nodeVars, runs, faults>>
  BY DEF PrepareRing, PrepareList
<1>3. job.next = 1 /\ ~job.wait /\ \A t \in Nodes : proc[t] = NoProc
  BY <1>1, <1>2 DEF JobFits, PhaseFits
<1>4. /\ job'.pc = (IF sc.mode = "pods" THEN "pods" ELSE "confirm")
      /\ job'.next = job.next /\ job'.wait = job.wait
  <2>1. CASE PrepareRing
    BY <1>1, <2>1, RingPrepared
  <2>2. CASE PrepareList
    <3>1. sc.mode = "list"
      BY <2>2 DEF PrepareList
    <3> QED BY <1>1, <2>2, <3>1, ListPrepared
  <2> QED BY <2>1, <2>2
<1>5. /\ Len(job'.map) <= ParallelRestores
      /\ \A k, m \in DOMAIN job'.map : k # m => job'.map[k].target # job'.map[m].target
      /\ \A k \in DOMAIN job'.map : job'.map[k].sources \subseteq DOMAIN sc.stored
      /\ ~job'.loader => job'.seeds \subseteq Targets(job'.map)
      /\ job'.loader => \/ sc.loader
                        \/ sc.mode # "list" /\ needs_loader(sc.backup, sc.target, sc.ignore_racks)
      /\ sc.mode = "seed" => UNION {job'.map[k].sources : k \in DOMAIN job'.map} = Hosts(sc.backup)
  <2>0. Len(job'.map) \in Nat
    BY <1>1, JobFields
  <2>1. CASE PrepareRing
    <3>1. sc.mode # "list"
      BY <2>1 DEF PrepareRing
    <3>2. /\ Sound(job'.map, job'.loader, sc) /\ Len(job'.map) <= Len(sc.target)
          /\ job'.loader = (sc.loader \/ needs_loader(sc.backup, sc.target, sc.ignore_racks))
          /\ ~job'.loader => job'.seeds \subseteq Hosts(sc.target)
      BY <1>1, <2>1, RingPrepared
    <3>3. /\ \A k, m \in DOMAIN job'.map : k # m => job'.map[k].target # job'.map[m].target
          /\ UNION {job'.map[k].sources : k \in DOMAIN job'.map} = Hosts(sc.backup)
          /\ ~job'.loader => Targets(job'.map) = Hosts(sc.target)
      BY <3>2 DEF Sound
    <3>4. Hosts(sc.backup) \subseteq DOMAIN sc.stored /\ sc.target \in Rings
      BY <1>1, RequestTypes
    <3>5. \A k \in DOMAIN job'.map : job'.map[k].sources \subseteq DOMAIN sc.stored
      BY <3>3, <3>4
    <3>6. Len(sc.target) \in Nat /\ Len(sc.target) <= ParallelRestores
      BY <1>1, <3>4, RingTypes DEF OneBatch
    <3>7. Len(job'.map) <= ParallelRestores
      BY <1>1, <2>0, <3>2, <3>6
    <3> QED BY <3>1, <3>2, <3>3, <3>5, <3>7
  <2>2. CASE PrepareList
    <3>1. sc.mode = "list"
      BY <2>2 DEF PrepareList
    <3>2. /\ Len(job'.map) <= Len(sc.lines) /\ job'.loader = sc.loader
          /\ job'.seeds \subseteq Targets(job'.map)
          /\ \A k \in DOMAIN job'.map : job'.map[k].sources \subseteq DOMAIN sc.stored
          /\ \A k, m \in DOMAIN job'.map : k # m => job'.map[k].target # job'.map[m].target
      BY <1>1, <2>2, ListPrepared
    <3>3. Len(sc.lines) \in Nat /\ Len(sc.lines) <= ParallelRestores
      BY <1>1, RequestTypes DEF OneBatch
    <3>4. Len(job'.map) <= ParallelRestores
      BY <1>1, <2>0, <3>2, <3>3
    <3> QED BY <3>1, <3>2, <3>4
  <2> QED BY <2>1, <2>2
<1>6. MapFits'
  <2>1. TargetHosts' = Targets(job'.map)
    BY DEF TargetHosts, Targets
  <2> QED BY <1>2, <1>3, <1>4, <1>5, <2>1 DEF MapFits
<1>7. PhaseFits'
  BY <1>3, <1>4 DEF PhaseFits
<1>8. ASSUME NEW t \in Nodes PROVE HostFits(t)'
  <2>1. proc'[t] = NoProc /\ sc' = sc /\ cass' = cass /\ faults' = faults
    BY <1>2, <1>3 DEF nodeVars
  <2>2. ~job'.wait /\ job'.pc \notin {"idle", "prepare", "verify", "done", "restore"}
    BY <1>3, <1>4
  <2> QED BY <1>2, <2>1, <2>2, UnlaunchedFits
<1> QED BY <1>6, <1>7, <1>8 DEF BatchInvariant

\* The steps of the run before it launches a command.
LEMMA EarlyFits ==
  ASSUME BatchInvariant, RestoreInvariant',
         PrepareFails \/ Confirm \/ Cancel \/ RestoreSchema \/ RestoreSchemaFails
  PROVE  BatchInvariant'
<1>1. /\ job \in JobStates /\ sc \in Scenarios /\ faults \in 0 .. MaxFaults /\ JobFits /\ PhaseFits
      /\ MapFits /\ cass \in [Nodes -> {"up", "down", "unseen"}]
  BY DEF BatchInvariant, RestoreInvariant, TypeOK
<1>2. job.pc \in {"prepare", "confirm", "schema"}
  BY DEF PrepareFails, Confirm, Cancel, RestoreSchema, RestoreSchemaFails
<1>3. ~job.wait /\ job.next = 1 /\ \A t \in Nodes : proc[t] = NoProc
  BY <1>1, <1>2 DEF PhaseFits, MapFits, JobFits
<1>4. UNCHANGED <<sc, proc, cass>>
  BY DEF PrepareFails, Confirm, Cancel, RestoreSchema, RestoreSchemaFails, nodeVars
<1>5. PICK pc \in {"failed", "schema", "stop", "cancelled", "restore"} :
         /\ job' = [job EXCEPT !.pc = pc]
         /\ pc = "failed" /\ Possible => faults' # 0
         /\ pc = "restore" => job.loader /\ sc.mode = "seed"
         /\ pc = "restore" => \A i \in Indices : Requested(i) => rows'[i] = {}
         /\ pc = "schema" => job.loader
         /\ pc = "stop" => ~job.loader
         /\ faults' = 0 => faults = 0
  <2>1. CASE PrepareFails
    <3>1. Hosts(sc.target) \subseteq Nodes
      BY <1>1, RequestTypes, RingTypes
    <3>2. faults = 0 /\ Possible => AllTargetsUp
      BY <2>1, <3>1 DEF PrepareFails, BatchInvariant, HostFits, PossibleFits, AllTargetsUp
    <3>3. /\ job' = [job EXCEPT !.pc = "failed"]
          /\ faults' = 0 => faults = 0 /\ ~AllTargetsUp
      BY <1>1, <2>1 DEF PrepareFails, FaultUnless
    <3> QED BY <3>2, <3>3
  <2>2. CASE Confirm
    <3>1. CASE job.loader
      BY <2>2, <3>1 DEF Confirm
    <3>2. CASE ~job.loader
      BY <2>2, <3>2 DEF Confirm
    <3> QED BY <3>1, <3>2
  <2>3. CASE Cancel
    BY <2>3 DEF Cancel
  <2>4. CASE RestoreSchema
    <3>1. \A i \in Indices : Requested(i) => rows'[i] = {}
      BY <2>4 DEF RestoreSchema, DropTables, Requested
    <3>2. /\ job.pc = "schema" /\ sc.mode = "seed" /\ job' = [job EXCEPT !.pc = "restore"]
          /\ faults' = faults
      BY <2>4 DEF RestoreSchema
    <3> QED BY <1>1, <3>1, <3>2 DEF PhaseFits
  <2>5. CASE RestoreSchemaFails
    <3>1. /\ job.pc = "schema" /\ job' = [job EXCEPT !.pc = "failed"]
          /\ faults' = 0 => faults = 0 /\ sc.mode # "seed"
      BY <1>1, <2>5 DEF RestoreSchemaFails, FaultUnless
    <3>2. sc.mode \in {"seed", "list"}
      BY <1>1, <3>1, RequestTypes DEF JobFits, InPod
    <3>3. sc.mode = "list" => ~Possible
      BY <1>1, <3>1 DEF PhaseFits, MapFits, Possible
    <3> QED BY <3>1, <3>2, <3>3
  <2> QED BY <2>1, <2>2, <2>3, <2>4, <2>5
<1>6. pc \in JobSteps
  BY DEF JobSteps, JobEnds, Phases
<1>7. JobKept /\ job'.pc = pc /\ job'.next = 1 /\ ~job'.wait
  BY <1>1, <1>3, <1>5, <1>6, PhaseKept
<1>8. MapFits'
  BY <1>1, <1>4, <1>7, MapKept DEF JobKept
<1>9. PhaseFits'
  <2>1. Possible' = Possible /\ \A i : Requested(i)' = Requested(i)
    BY <1>4, <1>7, MapSame DEF JobKept
  <2> QED BY <1>4, <1>5, <1>7, <2>1 DEF PhaseFits, JobKept
<1>10. ASSUME NEW t \in Nodes PROVE HostFits(t)'
  BY <1>3, <1>4, <1>5, <1>7, UnlaunchedFits DEF JobKept
<1> QED BY <1>8, <1>9, <1>10 DEF BatchInvariant

\* The batch has ended: no command runs.
LEMMA BatchEnded ==
  ASSUME BatchInvariant, ~InPod, \A t \in TargetHosts : proc[t].pc \in {"ok", "error"},
         NEW t \in Nodes
  PROVE  proc[t].pc \notin Running /\ proc[t].pc # "start"
<1>1. TargetFits(t)
  BY DEF BatchInvariant, HostFits
<1> QED BY <1>1 DEF TargetFits, NoProc, Running, NodeSteps

LEMMA JoinFits ==
  ASSUME BatchInvariant, RestoreInvariant', JoinBatch
  PROVE  BatchInvariant'
<1>1. /\ job \in JobStates /\ JobFits /\ PhaseFits /\ MapFits
  BY DEF BatchInvariant, RestoreInvariant, TypeOK
<1>2. job.pc \in Phases /\ job.wait /\ UNCHANGED <<sc, nodeVars, runs, faults>>
  BY DEF JoinBatch
<1>3. ~InPod
  BY <1>1, <1>2 DEF JobFits, Phases
<1>4. \A t \in TargetHosts : proc[t].pc \in {"ok", "error"}
  <2>1. \A k \in DOMAIN job.map : proc[job.map[k].target].pc \in {"ok", "error"}
    BY <1>1, BatchIsAll DEF JoinBatch
  <2> QED BY <2>1 DEF TargetHosts, Targets
<1>5. /\ JobKept /\ job'.next = 1 /\ ~job'.wait
      /\ job'.pc = IF job.pc = "stop" THEN "restore"
                   ELSE IF ~AllSucceeded THEN "failed"
                   ELSE IF sc.verify THEN "verify" ELSE "done"
  BY <1>1, BatchIsAll, JoinedKept
<1>6. MapFits'
  BY <1>1, <1>2, <1>5, MapKept DEF JobKept
<1>7. /\ TargetHosts' = TargetHosts /\ InPod' = InPod /\ Possible' = Possible
      /\ \A t : SourceOf(t)' = SourceOf(t) /\ SeedsFor(t)' = SeedsFor(t)
      /\ \A s : Stored(s)' = Stored(s)
      /\ \A i : Requested(i)' = Requested(i)
  BY <1>2, <1>5, MapSame DEF JobKept
<1>8. /\ job'.loader = job.loader /\ job'.keep = job.keep /\ job'.seeds = job.seeds
      /\ rows' = rows /\ faults' = faults /\ proc' = proc /\ cass' = cass
  BY <1>2, <1>5 DEF JobKept, nodeVars
<1>9. job.pc = "stop" \/ Working
  BY <1>2 DEF Working, Phases
<1>10. job.pc = "stop" => ~job.loader /\ job'.pc = "restore"
  BY <1>1, <1>5 DEF PhaseFits
<1>11. Working => job'.pc \in {"failed", "verify", "done"}
  BY <1>5 DEF Working
<1>12. Working /\ job'.pc = "failed" /\ faults = 0 => ~Possible
  <2> SUFFICES ASSUME Working, job'.pc = "failed", faults = 0, Possible PROVE FALSE
    OBVIOUS
  <2>1. PICK t \in TargetHosts : proc[t].pc # "ok"
    BY <1>5 DEF AllSucceeded, Working
  <2>2. t \in Nodes /\ proc[t].pc = "error"
    BY <1>1, <1>4, <2>1, MapEntries
  <2> QED BY <2>2 DEF BatchInvariant, HostFits, PossibleFits
<1>13. PhaseFits'
  BY <1>1, <1>2, <1>5, <1>7, <1>8, <1>9, <1>10, <1>11, <1>12 DEF PhaseFits, Working
<1>14. ASSUME NEW t \in Nodes PROVE HostFits(t)'
  <2>1. TargetFits(t) /\ QuietFits(t) /\ PossibleFits(t)
    BY DEF BatchInvariant, HostFits
  <2>2. \A s : NodeRestored(t, s)' = NodeRestored(t, s)
    BY <1>2, <1>8, NodeSame DEF nodeVars, diskVars
  <2>3. ~Working'
    BY <1>5 DEF Working
  <2>4. Counted' => Working /\ AllSucceeded
    BY <1>5, <1>9, <1>10 DEF Counted
  <2>5. TargetFits(t)'
    <3>1. CASE Counted'
      <4>1. t \in TargetHosts => proc[t].pc = "ok"
        BY <2>4, <3>1 DEF AllSucceeded
      <4>2. Working /\ job'.pc # "restore"
        BY <2>4, <3>1 DEF Counted
      <4> QED BY <1>3, <1>7, <1>8, <2>1, <2>2, <2>3, <4>1, <4>2 DEF TargetFits
    <3>2. CASE ~Counted'
      <4>1. job'.loader => job'.pc # "restore"
        BY <1>8, <1>9, <1>10, <1>11
      <4> QED BY <1>3, <1>7, <1>8, <2>1, <2>3, <3>2, <4>1 DEF TargetFits
    <3> QED BY <3>1, <3>2
  <2>6. QuietFits(t)'
    <3> SUFFICES ASSUME faults = 0 PROVE QuietFits(t)'
      BY <1>8 DEF QuietFits
    <3>1. proc[t].pc \notin Running /\ proc[t].pc # "start"
      BY <1>3, <1>4, BatchEnded
    <3>2. t \in TargetHosts /\ job'.pc = "restore" => cass[t] = "down"
      <4> SUFFICES ASSUME t \in TargetHosts, job'.pc = "restore" PROVE cass[t] = "down"
        OBVIOUS
      <4>1. job.pc = "stop"
        BY <1>9, <1>11
      <4>2. proc[t].pc # "stop"
        BY <1>4
      <4> QED BY <1>2, <1>3, <2>1, <4>1, <4>2 DEF QuietFits
    <3>3. job'.pc # "stop"
      BY <1>9, <1>10, <1>11
    <3> QED BY <1>7, <1>8, <2>3, <3>1, <3>2, <3>3 DEF QuietFits
  <2>7. PossibleFits(t)'
    <3>1. job'.pc \notin {"idle", "prepare"}
      BY <1>9, <1>10, <1>11
    <3> QED BY <1>7, <1>8, <2>1, <2>3, <3>1 DEF PossibleFits
  <2> QED BY <2>5, <2>6, <2>7 DEF HostFits
<1> QED BY <1>6, <1>13, <1>14 DEF BatchInvariant

\* A target whose restore counts as a success in a restore that can succeed is up.
LEMMA CountedIsUp ==
  ASSUME BatchInvariant, ~InPod, Counted, faults = 0, Possible, NEW t \in TargetHosts
  PROVE  cass[t] # "down"
<1>1. job \in JobStates /\ MapFits /\ JobFits
  BY DEF BatchInvariant, RestoreInvariant, TypeOK
<1>2. t \in Nodes
  BY <1>1, MapEntries
<1>3. TargetFits(t) /\ PossibleFits(t)
  BY <1>2 DEF BatchInvariant, HostFits
<1>4. CASE job.loader
  BY <1>3, <1>4 DEF PossibleFits
<1>5. CASE ~job.loader
  <2>1. \A s \in SourceOf(t) : Stored(s) = "full" => NodeRestored(t, s) \/ cass[t] = "unseen"
    BY <1>3, <1>5 DEF TargetFits
  <2>2. PICK k \in DOMAIN job.map : job.map[k].target = t
    BY DEF TargetHosts, Targets
  <2>3. SourceOf(t) = job.map[k].sources /\ Single(job.map[k].sources)
    BY <1>1, <1>5, <2>2, EntryOf DEF JobFits
  <2>4. PICK s \in SourceOf(t) : TRUE
    BY <2>3 DEF Single
  <2>5. Stored(s) = "full"
    BY <1>1, <2>4, SourcesStored DEF Possible
  <2> QED BY <2>1, <2>4, <2>5 DEF NodeRestored
<1> QED BY <1>4, <1>5

LEMMA VerifyFits ==
  ASSUME BatchInvariant, RestoreInvariant', Verify
  PROVE  BatchInvariant'
<1>1. /\ job \in JobStates /\ JobFits /\ PhaseFits /\ MapFits /\ faults \in 0 .. MaxFaults
      /\ job.next = 1
  BY DEF BatchInvariant, RestoreInvariant, TypeOK, MapFits
<1>2. job.pc = "verify" /\ UNCHANGED <<sc, nodeVars, runs>>
  BY DEF Verify
<1>3. ~InPod /\ Counted
  BY <1>1, <1>2 DEF JobFits, Counted
<1>4. PICK pc \in {"done", "failed"} :
         /\ job' = [job EXCEPT !.pc = pc] /\ (faults' = 0 => faults = 0)
         /\ pc = "failed" /\ faults' = 0 => \E t \in TargetHosts : cass[t] = "down"
  <2>1. CASE job' = [job EXCEPT !.pc = "done"] /\ UNCHANGED faults
    BY <2>1
  <2>2. CASE FaultUnless(\E t \in TargetHosts : cass[t] = "down") /\ job' = [job EXCEPT !.pc = "failed"]
    BY <1>1, <2>2 DEF FaultUnless
  <2> QED BY <2>1, <2>2 DEF Verify
<1>5. pc \in JobSteps
  BY DEF JobSteps, JobEnds
<1>6. JobKept /\ job'.pc = pc /\ job'.next = 1
  BY <1>1, <1>4, <1>5, PhaseKept
<1>7. MapFits'
  BY <1>1, <1>2, <1>6, MapKept DEF JobKept
<1>8. /\ TargetHosts' = TargetHosts /\ InPod' = InPod /\ Possible' = Possible
      /\ \A t : SourceOf(t)' = SourceOf(t) /\ SeedsFor(t)' = SeedsFor(t)
      /\ \A s : Stored(s)' = Stored(s)
      /\ \A i : Requested(i)' = Requested(i)
  BY <1>2, <1>6, MapSame DEF JobKept
<1>9. /\ job'.loader = job.loader /\ job'.keep = job.keep /\ job'.seeds = job.seeds
      /\ rows' = rows /\ proc' = proc /\ cass' = cass
  BY <1>2, <1>6 DEF JobKept, nodeVars
<1>10. pc = "failed" /\ faults' = 0 => ~Possible
  <2>1. \A t \in TargetHosts : faults = 0 /\ Possible => cass[t] # "down"
    BY <1>3, CountedIsUp
  <2> QED BY <1>4, <2>1
<1>11. PhaseFits'
  BY <1>1, <1>2, <1>6, <1>8, <1>9, <1>10 DEF PhaseFits
<1>12. ASSUME NEW t \in Nodes PROVE HostFits(t)'
  <2>1. TargetFits(t) /\ QuietFits(t) /\ PossibleFits(t)
    BY DEF BatchInvariant, HostFits
  <2>2. \A s : NodeRestored(t, s)' = NodeRestored(t, s)
    BY <1>2, <1>9, NodeSame DEF nodeVars, diskVars
  <2>3. ~Working' /\ job'.pc \notin {"idle", "prepare", "stop", "restore"}
    BY <1>6 DEF Working
  <2>4. TargetFits(t)'
    BY <1>3, <1>8, <1>9, <2>1, <2>2, <2>3 DEF TargetFits
  <2>5. proc[t].pc \notin Running
    <3>1. \A u \in TargetHosts : proc[u].pc \in {"ok", "error"}
      <4> SUFFICES ASSUME NEW u \in TargetHosts PROVE proc[u].pc = "ok"
        OBVIOUS
      <4>1. u \in Nodes
        BY <1>1, MapEntries
      <4> QED BY <1>3, <4>1 DEF BatchInvariant, HostFits, TargetFits
    <3> QED BY <1>3, <3>1, BatchEnded
  <2>6. QuietFits(t)'
    BY <1>9, <2>3, <2>5 DEF QuietFits
  <2>7. PossibleFits(t)'
    BY <1>4, <1>8, <1>9, <2>1, <2>3 DEF PossibleFits
  <2> QED BY <2>4, <2>6, <2>7 DEF HostFits
<1> QED BY <1>7, <1>11, <1>12 DEF BatchInvariant

\* After a fault that ends the run nothing but the mapping is asked for.
LEMMA BrokenFits ==
  ASSUME BatchInvariant, RestoreInvariant', JobKept, sc' = sc, job'.next = job.next,
         job'.pc \in {"failed", "killed"}, faults' # 0,
         \A t \in Nodes : t \notin TargetHosts => proc'[t] = proc[t]
  PROVE  BatchInvariant'
<1>1. MapFits /\ PhaseFits /\ job.next = 1
  BY DEF BatchInvariant, MapFits
<1>2. MapFits'
  BY <1>1, MapKept DEF JobKept
<1>3. PhaseFits'
  BY DEF PhaseFits
<1>4. TargetHosts' = TargetHosts /\ InPod' = InPod
  BY MapSame DEF JobKept
<1>5. ASSUME NEW t \in Nodes PROVE HostFits(t)'
  <2>1. TargetFits(t)
    BY DEF BatchInvariant, HostFits
  <2>2. TargetFits(t)'
    BY <1>4, <2>1 DEF TargetFits, Working, Counted
  <2>3. QuietFits(t)' /\ PossibleFits(t)'
    BY DEF QuietFits, PossibleFits
  <2> QED BY <2>2, <2>3 DEF HostFits
<1> QED BY <1>2, <1>3, <1>5 DEF BatchInvariant

LEMMA KillFits ==
  ASSUME BatchInvariant, RestoreInvariant', Kill \/ JoinRaises
  PROVE  BatchInvariant'
<1>1. job \in JobStates /\ faults \in 0 .. MaxFaults
  BY DEF BatchInvariant, RestoreInvariant, TypeOK
<1>2. PICK pc \in {"killed", "failed"} : job' = [job EXCEPT !.pc = pc, !.wait = FALSE]
  BY DEF Kill, JoinRaises
<1>3. UNCHANGED <<sc, nodeVars>> /\ faults' # 0 /\ pc \in JobSteps
  BY <1>1 DEF Kill, JoinRaises, Fault, JobSteps, JobEnds
<1>4. JobKept /\ job'.pc = pc /\ job'.next = job.next
  BY <1>1, <1>2, <1>3, JobAbandoned
<1> QED BY <1>2, <1>3, <1>4, BrokenFits DEF nodeVars

\* The command that a target gets is its own.
LEMMA LaunchedOn ==
  ASSUME BatchInvariant, Launch(Batch), NEW t \in Nodes
  PROVE  /\ t \notin TargetHosts => proc'[t] = proc[t]
         /\ t \in TargetHosts =>
               IF job.pc = "stop" THEN proc'[t] = [NoProc EXCEPT !.pc = "stop"]
               ELSE proc'[t] = [pc |-> IF job.loader THEN "load" ELSE "lookup", i |-> 1,
                                src |-> SourceOf(t), seeds |-> SeedsFor(t)]
<1>1. job \in JobStates /\ MapFits
  BY DEF BatchInvariant, RestoreInvariant, TypeOK
<1>2. Batch = DOMAIN job.map /\ \A k \in DOMAIN job.map : HostVariables(k) = job.map[k]
  BY <1>1, BatchIsAll
<1>3. proc'[t] = IF \E k \in Batch : job.map[k].target = t
                 THEN Launched(CHOOSE k \in Batch : job.map[k].target = t) ELSE proc[t]
  BY DEF Launch
<1>4. CASE t \notin TargetHosts
  BY <1>2, <1>3, <1>4 DEF TargetHosts, Targets
<1>5. CASE t \in TargetHosts
  <2>1. \E k \in Batch : job.map[k].target = t
    BY <1>2, <1>5 DEF TargetHosts, Targets
  <2>2. PICK k \in DOMAIN job.map : job.map[k].target = t /\ proc'[t] = Launched(k)
    BY <1>2, <1>3, <2>1
  <2>3. SourceOf(t) = job.map[k].sources /\ HostVariables(k) = job.map[k]
    BY <1>1, <1>2, <2>2, EntryOf
  <2> QED BY <1>5, <2>2, <2>3 DEF Launched
<1> QED BY <1>4, <1>5

LEMMA RunBatchFits ==
  ASSUME BatchInvariant, RestoreInvariant', RunBatch
  PROVE  BatchInvariant'
<1>1. /\ job \in JobStates /\ JobFits /\ PhaseFits /\ MapFits /\ job.next = 1
  BY DEF BatchInvariant, RestoreInvariant, TypeOK, MapFits
<1>2. /\ job.pc \in Phases /\ ~job.wait /\ Launch(Batch)
      /\ UNCHANGED <<sc, cass, diskVars, owns, rows, keyed, runs, faults>>
  BY DEF RunBatch
<1>3. ~InPod
  BY <1>1, <1>2 DEF JobFits, Phases
<1>4. JobKept /\ job'.pc = job.pc /\ job'.next = 1 /\ job'.wait
  <2>1. job' = [job EXCEPT !.wait = TRUE]
    BY DEF RunBatch
  <2>2. job' = [pc |-> job.pc, map |-> job.map, seeds |-> job.seeds, inPlace |-> job.inPlace,
                keep |-> job.keep, loader |-> job.loader, next |-> job.next, wait |-> TRUE]
    BY <1>1, <2>1, JobWaits, Zenon
  <2> QED BY <1>1, <2>2, JobFields, JobGoesOn DEF JobKept
<1>5. MapFits'
  BY <1>1, <1>2, <1>4, MapKept DEF JobKept
<1>6. /\ TargetHosts' = TargetHosts /\ InPod' = InPod /\ Possible' = Possible
      /\ \A t : SourceOf(t)' = SourceOf(t) /\ SeedsFor(t)' = SeedsFor(t)
      /\ \A s : Stored(s)' = Stored(s)
      /\ \A i : Requested(i)' = Requested(i)
  BY <1>2, <1>4, MapSame DEF JobKept
<1>7. /\ job'.loader = job.loader /\ job'.seeds = job.seeds /\ rows' = rows /\ faults' = faults
      /\ cass' = cass
  BY <1>2, <1>4 DEF JobKept
<1>8. PhaseFits'
  BY <1>1, <1>2, <1>4, <1>6, <1>7 DEF PhaseFits, Phases
<1>9. ASSUME NEW t \in Nodes PROVE HostFits(t)'
  <2>1. TargetFits(t) /\ QuietFits(t) /\ PossibleFits(t)
    BY DEF BatchInvariant, HostFits
  <2>2. ~Counted' /\ (Working' <=> job.pc = "restore")
    BY <1>2, <1>4 DEF Counted, Working, Phases
  <2>3. CASE t \notin TargetHosts
    <3>1. proc'[t] = NoProc /\ NoProc.pc \notin Running /\ NoProc.pc # "error"
      BY <1>2, <1>3, <2>1, <2>3, LaunchedOn DEF TargetFits, NoProc, Running, NodeSteps
    <3>2. TargetFits(t)' /\ QuietFits(t)'
      BY <1>6, <2>3, <3>1 DEF TargetFits, QuietFits
    <3>3. PossibleFits(t)'
      BY <1>4, <1>6, <1>7, <2>1, <3>1 DEF PossibleFits
    <3> QED BY <3>2, <3>3 DEF HostFits
  <2>4. CASE t \in TargetHosts /\ job.pc = "stop"
    <3>1. proc'[t] = [NoProc EXCEPT !.pc = "stop"]
      BY <1>2, <2>4, LaunchedOn
    <3>2. proc'[t].pc = "stop"
      BY <3>1 DEF NoProc
    <3>3. TargetFits(t)'
      BY <1>4, <1>6, <2>2, <2>4 DEF TargetFits
    <3>4. QuietFits(t)'
      BY <1>2, <1>4, <1>6, <2>2, <2>4, <3>2 DEF QuietFits
    <3>5. PossibleFits(t)'
      BY <1>4, <1>6, <1>7, <2>1, <2>2, <2>4 DEF PossibleFits
    <3> QED BY <3>3, <3>4, <3>5 DEF HostFits
  <2>5. CASE t \in TargetHosts /\ job.pc # "stop"
    <3> DEFINE step == IF job.loader THEN "load" ELSE "lookup"
    <3>1. proc'[t] = [pc |-> step, i |-> 1, src |-> SourceOf(t), seeds |-> SeedsFor(t)]
      BY <1>2, <2>5, LaunchedOn
    <3>2. step \in {"load", "lookup"} /\ (job.loader => step = "load") /\ (~job.loader => step = "lookup")
      OBVIOUS
    <3> HIDE DEF step
    <3>3. proc'[t].pc = step /\ proc'[t].src = SourceOf(t) /\ proc'[t].seeds = SeedsFor(t)
      BY <3>1
    <3>4. job.pc = "restore" /\ Working'
      BY <1>2, <2>2, <2>5 DEF Phases
    <3>5. "lookup" \in NodeSteps
      BY DEF NodeSteps
    <3>6. TargetFits(t)'
      <4>1. CASE job.loader
        <5>1. \A i \in Indices : SourceOf(t) \ proc'[t].src \subseteq rows'[i]
          BY <3>3
        <5>2. proc'[t].pc = "load" /\ proc'[t].src = SourceOf(t)'
          BY <1>6, <3>2, <3>3, <4>1
        <5> QED BY <1>4, <1>6, <1>7, <2>2, <2>5, <3>4, <4>1, <5>1, <5>2 DEF TargetFits
      <4>2. CASE ~job.loader
        <5>1. /\ proc'[t].pc = "lookup" /\ proc'[t].src = SourceOf(t)'
              /\ proc'[t].seeds = SeedsFor(t)'
          BY <1>6, <3>2, <3>3, <4>2
        <5> QED BY <1>6, <1>7, <2>2, <2>5, <3>5, <4>2, <5>1 DEF TargetFits
      <4> QED BY <1>1, <4>1, <4>2
    <3>7. QuietFits(t)'
      <4>1. faults = 0 /\ ~job.loader => cass[t] = "down"
        BY <1>2, <1>3, <2>1, <2>5, <3>4 DEF QuietFits
      <4> QED BY <1>2, <1>4, <1>6, <1>7, <3>2, <3>3, <3>4, <4>1 DEF QuietFits
    <3>8. PossibleFits(t)'
      BY <1>4, <1>6, <1>7, <2>1, <3>2, <3>3, <3>4 DEF PossibleFits
    <3> QED BY <3>6, <3>7, <3>8 DEF HostFits
  <2> QED BY <2>3, <2>4, <2>5
<1> QED BY <1>5, <1>8, <1>9 DEF BatchInvariant

LEMMA RunBatchRaisesFits ==
  ASSUME BatchInvariant, RestoreInvariant', RunBatchRaises
  PROVE  BatchInvariant'
<1>1. job \in JobStates /\ faults \in 0 .. MaxFaults
  BY DEF BatchInvariant, RestoreInvariant, TypeOK
<1>2. sc' = sc /\ faults' # 0 /\ JobFailed
  BY <1>1 DEF RunBatchRaises, Fault, JobFailed
<1>3. PICK places \in SUBSET Batch : Launch(places)
  BY DEF RunBatchRaises
<1>4. ASSUME NEW t \in Nodes, t \notin TargetHosts PROVE proc'[t] = proc[t]
  <2>1. ~\E k \in places : job.map[k].target = t
    BY <1>4 DEF Batch, TargetHosts, Targets
  <2> QED BY <1>3, <2>1 DEF Launch
<1>5. JobKept /\ job'.pc = "failed" /\ job'.next = job.next
  BY <1>1, <1>2, FailedKept
<1> QED BY <1>2, <1>4, <1>5, BrokenFits

LEMMA BatchStep ==
  ASSUME OneBatch, PeersAreSystem, BatchInvariant, [Next]_vars
  PROVE  BatchInvariant'
<1>1. RestoreInvariant'
  BY RestoreStep DEF BatchInvariant
<1>2. CASE UNCHANGED vars
  <2>1. /\ TargetHosts' = TargetHosts /\ InPod' = InPod /\ Possible' = Possible
        /\ \A t : SourceOf(t)' = SourceOf(t) /\ SeedsFor(t)' = SeedsFor(t)
        /\ \A s : Stored(s)' = Stored(s)
        /\ \A i : Requested(i)' = Requested(i)
    BY <1>2, MapSame DEF vars
  <2>2. MapFits'
    BY <1>2, MapKept DEF vars, BatchInvariant, MapFits
  <2>3. PhaseFits'
    BY <1>2, <2>1 DEF vars, nodeVars, BatchInvariant, PhaseFits
  <2>4. ASSUME NEW t \in Nodes PROVE HostFits(t)'
    <3>1. \A s : NodeRestored(t, s)' = NodeRestored(t, s)
      BY <1>2, NodeSame DEF vars, nodeVars, diskVars
    <3>2. Working' = Working /\ Counted' = Counted
      BY <1>2 DEF vars, Working, Counted
    <3>3. TargetFits(t) /\ QuietFits(t) /\ PossibleFits(t)
      BY DEF BatchInvariant, HostFits
    <3>4. job' = job /\ proc' = proc /\ cass' = cass /\ rows' = rows /\ faults' = faults
      BY <1>2 DEF vars, nodeVars
    <3>5. TargetFits(t)' /\ QuietFits(t)' /\ PossibleFits(t)'
      BY <2>1, <3>1, <3>2, <3>3, <3>4 DEF TargetFits, QuietFits, PossibleFits
    <3> QED BY <3>5 DEF HostFits
  <2> QED BY <1>1, <2>2, <2>3, <2>4 DEF BatchInvariant
<1>3. CASE Begin
  BY <1>1, <1>3, BeginFits
<1>4. CASE JobStep \/ JoinRaises \/ Kill
  BY <1>1, <1>4, PrepareFits, EarlyFits, RunBatchFits, RunBatchRaisesFits, JoinFits, VerifyFits,
     KillFits DEF JobStep
<1>5. ASSUME NEW t \in Nodes, HostStep(t) PROVE BatchInvariant'
  <2>1. CASE InPod
    BY <1>1, <1>5, <2>1, PodsFit
  <2>2. CASE ~InPod
    BY <1>1, <1>5, <2>2, StopCommandFits, NodeStepsFit, LoadFits DEF HostStep
  <2> QED BY <2>1, <2>2
<1>6. ASSUME NEW t \in Nodes, PodStep(t) PROVE BatchInvariant'
  BY <1>1, <1>6, PodsFit
<1> QED BY <1>2, <1>3, <1>4, <1>5, <1>6 DEF Next

\* When the targets are one batch, commands, mapping and files fit the run at every
\* step, whatever fails and is repeated.
THEOREM BatchInvariantHolds ==
  ASSUME OneBatch, PeersAreSystem PROVE Spec => []BatchInvariant
<1>1. Init => BatchInvariant
  BY BatchInit
<1>2. BatchInvariant /\ [Next]_vars => BatchInvariant'
  BY BatchStep
<1> QED BY <1>1, <1>2, PTL DEF Spec

\* Two faults, of a stop command and of the check after it, come before Cassandra runs
\* on a host that restore-node takes for stopped.
THEOREM UnseenNeedsTwoFaults ==
  ASSUME OneBatch, PeersAreSystem PROVE Spec => []UnseenFits
<1>1. Init => UnseenFits
  BY DEF Init, UnseenFits
<1>2. ASSUME BatchInvariant, UnseenFits, [Next]_vars PROVE UnseenFits'
  <2>1. /\ cass \in [Nodes -> {"up", "down", "unseen"}] /\ faults \in 0 .. MaxFaults
        /\ RestoreInvariant
    BY <1>2 DEF BatchInvariant, RestoreInvariant, TypeOK
  <2>2. CASE \E t \in Nodes : WaitForDown(t) /\ cass[t] # "down" /\ cass' # cass
    <3>1. PICK t \in Nodes : WaitForDown(t) /\ cass[t] # "down" /\ cass' # cass
      BY <2>2
    <3>2. proc[t].pc = "waitdown" /\ proc[t].pc \in NodeSteps /\ proc[t].pc \in Running
      BY <3>1 DEF WaitForDown, At, Running, NodeSteps
    <3>3. ~InPod
      BY <2>1, <3>1, <3>2 DEF RestoreInvariant, NodeFits, DownFor
    <3>4. faults # 0
      <4> SUFFICES ASSUME faults = 0 PROVE FALSE
        OBVIOUS
      <4>1. Working /\ ~job.loader
        BY <1>2, <3>2, <3>3, RunningFacts DEF Working, Phases
      <4> QED BY <1>2, <3>1, <3>2, <3>3, <4>1, RunningFacts
    <3>5. faults' = faults + 1
      BY <3>1 DEF WaitForDown, Fault
    <3> QED BY <2>1, <3>4, <3>5 DEF UnseenFits
  <2>3. CASE ~\E t \in Nodes : WaitForDown(t) /\ cass[t] # "down" /\ cass' # cass
    <3>1. \A t \in Nodes : cass'[t] = "unseen" => cass[t] = "unseen"
      BY <1>2, <2>1, <2>3
         DEF Next, vars, nodeVars, Begin, JobStep, PrepareRing, PrepareList, PrepareFails, Confirm,
         Cancel, RestoreSchema, RestoreSchemaFails, RunBatch, RunBatchRaises, JoinBatch, Verify,
         JoinRaises, Kill, HostStep, StopCommand, Lookup, Download, Shutdown, WaitForDown,
         CleanCommitLog, MoveSection, WaitForSeeds, GiveUpOnSeeds, StartCassandra, NodeFails,
         LoadSource, LoadFails, PodStep, PodRecreated, WriteKey, PodStarts, PodRestarts,
         CassandraStarts
    <3>2. faults' = faults \/ faults' = faults + 1
      <4>1. CASE UNCHANGED vars \/ Begin \/ JobStep \/ JoinRaises \/ Kill
        BY <4>1 DEF vars, Begin, JobStep, PrepareRing, PrepareList, PrepareFails, Confirm, Cancel,
           RestoreSchema, RestoreSchemaFails, RunBatch, RunBatchRaises, JoinBatch, Verify,
           JoinRaises, Kill, Fault, FaultUnless
      <4>2. ASSUME NEW t \in Nodes, HostStep(t) PROVE faults' = faults \/ faults' = faults + 1
        BY <4>2 DEF HostStep, StopCommand, Lookup, Download, Shutdown, WaitForDown,
           CleanCommitLog, MoveSection, WaitForSeeds, GiveUpOnSeeds, StartCassandra, NodeFails,
           LoadSource, LoadFails, Fault, FaultUnless
      <4>3. ASSUME NEW t \in Nodes, PodStep(t) PROVE faults' = faults \/ faults' = faults + 1
        BY <4>3 DEF PodStep, PodRecreated, WriteKey, PodStarts, PodRestarts, FaultUnless
      <4> QED BY <1>2, <4>1, <4>2, <4>3 DEF Next
    <3> QED BY <1>2, <2>1, <3>1, <3>2 DEF UnseenFits
  <2> QED BY <2>2, <2>3
<1> QED BY <1>1, <1>2, BatchInvariantHolds, PTL DEF Spec

\* The files and the commit log of a host are replaced while Cassandra is down, unless
\* its stop and the check of it have both failed.
THEOREM TouchedOnlyWhenDown ==
  ASSUME OneBatch, PeersAreSystem PROVE Spec => WipedOnlyWhenDown
<1>1. ASSUME RestoreInvariant, UnseenFits, [Next]_vars
      PROVE  \A t \in Nodes : proc'[t] # proc[t] /\ (data'[t] # data[t] \/ log'[t] # log[t]) =>
                cass[t] = "down" \/ (cass[t] = "unseen" /\ faults > 1)
  BY <1>1, FilesStep DEF Kept, Replaced, Dropped, Starts, UnseenFits
<1> QED BY <1>1, RestoreInvariantHolds, UnseenNeedsTwoFaults, PTL DEF Spec, WipedOnlyWhenDown

\* A run that ends with success has restored every target, or loaded every source.
LEMMA DoneFits ==
  ASSUME LoadsAll, BatchInvariant, UnseenFits
  PROVE  DoneIsRestored
<1> SUFFICES ASSUME job.pc = "done" PROVE DoneIsRestored
  BY DEF DoneIsRestored
<1>1. job \in JobStates /\ sc \in Scenarios /\ MapFits /\ PhaseFits /\ JobFits
  BY DEF BatchInvariant, RestoreInvariant, TypeOK
<1>2. ~InPod /\ Counted
  BY <1>1 DEF JobFits, Counted
<1>3. \A t \in TargetHosts : t \in Nodes /\ TargetFits(t)
  BY <1>1, MapEntries DEF BatchInvariant, HostFits
<1>4. CASE ~job.loader
  <2>1. \A t \in TargetHosts : \A s \in SourceOf(t) :
           Stored(s) = "full" => NodeRestored(t, s) \/ (cass[t] = "unseen" /\ faults > 1)
    BY <1>2, <1>3, <1>4 DEF TargetFits, UnseenFits
  <2> QED BY <1>4, <2>1 DEF DoneIsRestored
<1>5. CASE job.loader
  <2>1. /\ sc.mode = "seed"
        /\ \A i \in Indices : Requested(i) => rows[i] \subseteq Hosts(sc.backup)
    BY <1>1, <1>5 DEF PhaseFits
  <2>2. UNION {job.map[k].sources : k \in DOMAIN job.map} = Hosts(sc.backup)
    BY <1>1, <1>5, <2>1 DEF MapFits
  <2>3. \A h \in Hosts(sc.backup) : Stored(h) # "empty"
    <3>1. \A h \in Hosts(sc.backup) : sc.stored[h] # "empty"
      BY <1>1, <1>5, <2>1 DEF LoadsAll, MapFits
    <3>2. Hosts(sc.backup) \subseteq DOMAIN sc.stored
      BY <1>1, RequestTypes
    <3> QED BY <3>1, <3>2 DEF Stored
  <2>4. ASSUME NEW t \in TargetHosts, NEW i \in Indices, Requested(i)
        PROVE  SourceOf(t) \subseteq rows[i]
    <3>1. /\ proc[t].src \subseteq SourceOf(t)
          /\ SourceOf(t) \ proc[t].src \subseteq rows[i]
          /\ proc[t].src = {} \/ \E s \in proc[t].src : Stored(s) = "empty"
      BY <1>2, <1>3, <1>5, <2>4 DEF TargetFits
    <3>2. SourceOf(t) \subseteq Hosts(sc.backup)
      BY <2>2 DEF SourceOf, Sources
    <3> QED BY <2>3, <3>1, <3>2
  <2>5. ASSUME NEW i \in Indices, Requested(i) PROVE Hosts(sc.backup) \subseteq rows[i]
    <3> SUFFICES ASSUME NEW h \in Hosts(sc.backup) PROVE h \in rows[i]
      OBVIOUS
    <3>1. PICK k \in DOMAIN job.map : h \in job.map[k].sources
      BY <2>2
    <3> QED BY <1>1, <2>4, <2>5, <3>1, EntryOf
  <2> QED BY <1>5, <2>1, <2>5 DEF DoneIsRestored
<1> QED BY <1>4, <1>5

\* 'Successfully restored the cluster' is true of every ring, mapping and request of
\* one batch in which no node that goes through sstableloader has an empty backup.
THEOREM DoneRestoresTargets ==
  ASSUME OneBatch, LoadsAll, PeersAreSystem PROVE Spec => []DoneIsRestored
<1>1. BatchInvariant /\ UnseenFits => DoneIsRestored
  BY DoneFits
<1> QED BY <1>1, BatchInvariantHolds, UnseenNeedsTwoFaults, PTL

\* A restore of one batch that can succeed fails only when something goes wrong.
THEOREM FailuresHaveReasons ==
  ASSUME OneBatch, PeersAreSystem PROVE Spec => []FailsForAReason
<1>1. BatchInvariant => FailsForAReason
  <2> SUFFICES ASSUME BatchInvariant, job.pc = "failed", Possible PROVE faults > 0
    BY DEF FailsForAReason
  <2>1. faults \in 0 .. MaxFaults /\ PhaseFits
    BY DEF BatchInvariant, RestoreInvariant, TypeOK
  <2> QED BY <2>1 DEF PhaseFits
<1> QED BY <1>1, BatchInvariantHolds, PTL

\* As long as nothing fails, a target of a batch that is not a seed starts after a
\* seed that runs on its restored files.
THEOREM SeedsComeFirst ==
  ASSUME OneBatch, PeersAreSystem PROVE Spec => SeedsFirst
<1>1. ASSUME BatchInvariant, UnseenFits, [Next]_vars,
             NEW t \in TargetHosts \ job.seeds, ~InPod, faults = 0, job.seeds # {},
             cass[t] = "down", cass'[t] = "up"
      PROVE  \E u \in job.seeds : \A s \in SourceOf(u) : NodeRestored(u, s)
  <2>1. /\ RestoreInvariant /\ job \in JobStates /\ MapFits /\ JobFits /\ PhaseFits
    BY <1>1 DEF BatchInvariant, RestoreInvariant, TypeOK
  <2>2. t \in Nodes
    BY <2>1, MapEntries
  <2>3. StartCassandra(t)
    <3>1. Starts(t)
      BY <1>1, <2>1, <2>2, FilesStep DEF Kept, Replaced, Dropped
    <3> QED BY <1>1, <2>1, <3>1 DEF Starts, PodStarts, JobFits
  <2>4. proc[t].pc = "start" /\ proc[t].pc \in Running
    BY <2>3 DEF StartCassandra, At, Running, NodeSteps
  <2>5. Working /\ ~job.loader
    BY <1>1, <2>2, <2>4, RunningFacts DEF Working, Phases
  <2>6. PICK u \in job.seeds : cass[u] # "down"
    BY <1>1, <2>2, <2>4, <2>5 DEF BatchInvariant, HostFits, QuietFits
  <2>7. u \in TargetHosts /\ u \in Nodes
    BY <1>1, <2>1, <2>5, JobFields DEF MapFits
  <2>8. proc[u].pc = "ok" /\ \A s \in SourceOf(u) : Stored(s) = "full"
    BY <1>1, <2>5, <2>6, <2>7 DEF BatchInvariant, HostFits, QuietFits
  <2>9. \A s \in SourceOf(u) : NodeRestored(u, s)
    <3>1. cass[u] # "unseen"
      BY <1>1, <2>7 DEF UnseenFits
    <3> QED BY <1>1, <2>5, <2>7, <2>8, <3>1 DEF BatchInvariant, HostFits, TargetFits
  <2> QED BY <2>9
<1>2. BatchInvariant /\ UnseenFits /\ [Next]_vars =>
        [\A t \in TargetHosts \ job.seeds :
          ~InPod /\ faults = 0 /\ job.seeds # {} /\ cass[t] = "down" /\ cass'[t] = "up" =>
              \E u \in job.seeds : \A s \in SourceOf(u) : NodeRestored(u, s)]_vars
  BY <1>1
<1> QED BY <1>2, BatchInvariantHolds, UnseenNeedsTwoFaults, PTL DEF Spec, SeedsFirst
=============================================================================
