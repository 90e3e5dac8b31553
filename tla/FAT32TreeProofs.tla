--------------------------- MODULE FAT32TreeProofs ---------------------------
(***************************************************************************)
(* What the operators of FAT32.tla on chains of clusters and on the tree of    *)
(* directories compute, for every size of disk, of table and of cluster, and     *)
(* how one write to the disk changes it.                                       *)
(***************************************************************************)
EXTENDS FAT32, SetLemmas, FiniteSetTheorems, SequenceTheorems, TLAPS

\* The clusters, by kind.
LEMMA ClusterFacts ==
    /\ CLUSTER_MAP_SIZE \in Nat /\ CLUSTER_MAP_SIZE > 3
    /\ DataClusters \subseteq Clusters /\ Clusters \subseteq Nat
    /\ {0, 1, 2} \subseteq Clusters /\ \A c \in DataClusters : c \notin {0, 1, 2}
    /\ FAT32_FAT_END_OF_FILE \notin Clusters /\ CLUSTER_0_VALUE \notin Clusters
    /\ 0 \in Indices /\ 1 \in Indices /\ Indices \subseteq Nat /\ TABLE_SIZE \notin Indices
    /\ TABLE_SIZE \in Nat
    /\ IsFiniteSet(Clusters) /\ Cardinality(Clusters) = CLUSTER_MAP_SIZE
    /\ Clusters \subseteq FatValues /\ FatValues \subseteq Nat
<1>1. 0 \in Int /\ CLUSTER_MAP_SIZE - 1 \in Int /\ ~ (0 > CLUSTER_MAP_SIZE - 1)
  BY FAT32Assumption
<1>2. IsFiniteSet(Clusters) /\ Cardinality(Clusters) = (CLUSTER_MAP_SIZE - 1) - 0 + 1
  BY <1>1, FS_Interval DEF Clusters
<1>3. (CLUSTER_MAP_SIZE - 1) - 0 + 1 = CLUSTER_MAP_SIZE
  BY FAT32Assumption
<1>4. Clusters \subseteq FatValues /\ FatValues \subseteq Nat
  BY DEF FatValues, Clusters, CLUSTER_0_VALUE, FAT32_FAT_END_OF_FILE
<1> QED
  BY <1>2, <1>3, <1>4, FAT32Assumption
  DEF Clusters, DataClusters, Indices, FAT32_FAT_END_OF_FILE, CLUSTER_0_VALUE

-----------------------------------------------------------------------------
(***************************************************************************)
(* Chains.                                                                  *)
(***************************************************************************)

\* One turn of the walk along a chain.
WalkStep(m, n, before) ==
    LET last == before[Len(before)]
    IN  IF last \in Clusters /\ m[last] # FAT32_FAT_END_OF_FILE /\ Len(before) = n
        THEN Append(before, m[last]) ELSE before

IsWalk(w, m, c, N) == w = [n \in 0 .. N |-> IF n = 0 THEN <<c>> ELSE WalkStep(m, n, w[n - 1])]

\* The walk exists: it is built turn by turn.
LEMMA WalkExists ==
    ASSUME NEW m, NEW c, NEW N \in Nat
    PROVE  \E w : IsWalk(w, m, c, N)
<1> DEFINE Base == <<c>>
           Has(k) == \E w : w = [n \in 0 .. k |-> IF n = 0 THEN Base ELSE WalkStep(m, n, w[n - 1])]
           S == {k \in Nat : Has(k)}
<1>1. 0 \in S
  <2> DEFINE w == [n \in 0 .. 0 |-> Base]
  <2>1. w = [n \in 0 .. 0 |-> IF n = 0 THEN Base ELSE WalkStep(m, n, w[n - 1])]
    <3> HIDE DEF Base
    <3> QED OBVIOUS
  <2> QED
    BY <2>1
<1>2. ASSUME NEW k \in Nat, Has(k) PROVE Has(k + 1)
  <2> HIDE DEF Base
  <2>1. PICK w : w = [n \in 0 .. k |-> IF n = 0 THEN Base ELSE WalkStep(m, n, w[n - 1])]
    BY <1>2
  <2> DEFINE v == [n \in 0 .. k + 1 |-> IF n <= k THEN w[n] ELSE WalkStep(m, n, w[n - 1])]
  <2>2. ASSUME NEW n \in 0 .. k + 1
        PROVE  v[n] = IF n = 0 THEN Base ELSE WalkStep(m, n, v[n - 1])
    <3>1. CASE n = 0
      <4>1. 0 \in 0 .. k /\ 0 \in 0 .. k + 1 /\ 0 <= k
        OBVIOUS
      <4>2. w[0] = Base
        BY <2>1, <4>1
      <4>3. v[0] = w[0]
        BY <4>1
      <4> QED
        BY <3>1, <4>2, <4>3
    <3>2. CASE n # 0
      <4>1. n - 1 \in 0 .. k /\ n - 1 \in 0 .. k + 1 /\ n - 1 <= k
        BY <3>2
      <4>2. v[n - 1] = w[n - 1]
        BY <4>1
      <4>3. CASE n <= k
        <5>1. v[n] = w[n] /\ n \in 0 .. k
          BY <4>3
        <5> HIDE DEF v
        <5>2. w[n] = WalkStep(m, n, w[n - 1])
          BY <2>1, <3>2, <5>1
        <5> QED
          BY <3>2, <4>2, <5>1, <5>2
      <4>4. CASE ~ (n <= k)
        <5>1. v[n] = WalkStep(m, n, w[n - 1])
          BY <4>4
        <5> HIDE DEF v
        <5> QED
          BY <3>2, <4>2, <5>1
      <4> QED
        BY <4>3, <4>4
    <3> QED
      BY <3>1, <3>2
  <2>3. v = [n \in 0 .. k + 1 |-> IF n = 0 THEN Base ELSE WalkStep(m, n, v[n - 1])]
    <3>1. v = [n \in 0 .. k + 1 |-> v[n]]
      OBVIOUS
    <3> HIDE DEF v
    <3> QED
      BY <2>2, <3>1
  <2> HIDE DEF v
  <2> QED
    BY <2>3
<1> HIDE DEF Has
<1>3. N \in S
  <2>1. \A k \in Nat : k \in S => k + 1 \in S
    BY <1>2
  <2> HIDE DEF S
  <2> QED
    BY <1>1, <2>1, SetInduction
<1> QED
  BY <1>3 DEF Has, IsWalk

\* Chain follows that walk.
LEMMA ChainWalk ==
    ASSUME NEW m, NEW c
    PROVE  \E w : IsWalk(w, m, c, CLUSTER_MAP_SIZE) /\ Chain(m, c) = w[CLUSTER_MAP_SIZE]
<1> DEFINE w == CHOOSE f : IsWalk(f, m, c, CLUSTER_MAP_SIZE)
<1>1. \E f : IsWalk(f, m, c, CLUSTER_MAP_SIZE)
  BY ClusterFacts, WalkExists
<1>2. IsWalk(w, m, c, CLUSTER_MAP_SIZE)
  BY <1>1, Zenon
<1>3. Chain(m, c) = w[CLUSTER_MAP_SIZE]
  BY DEF Chain, WalkStep, IsWalk
<1> HIDE DEF w
<1> QED
  BY <1>2, <1>3

(***************************************************************************)
(* A sound chain: data clusters, none twice, each linked to the next and the last   *)
(* to the end of file mark.                                                    *)
(***************************************************************************)
IsChain(m, s) ==
    /\ s \in Seq(DataClusters) /\ Len(s) \in 1 .. CLUSTER_MAP_SIZE
    /\ \A i, j \in 1 .. Len(s) : s[i] = s[j] => i = j
    /\ \A i \in 1 .. Len(s) - 1 : m[s[i]] = s[i + 1]
    /\ m[s[Len(s)]] = FAT32_FAT_END_OF_FILE

\* The chain from c is sound.
Good(m, c) == IsChain(m, Chain(m, c)) /\ Chain(m, c)[1] = c

\* A sound chain is what the walk from its first cluster finds.
LEMMA ChainIs ==
    ASSUME NEW m, NEW s, IsChain(m, s)
    PROVE  Chain(m, s[1]) = s /\ Good(m, s[1])
<1> DEFINE L == Len(s)
           Upto(n) == IF n + 1 < L THEN n + 1 ELSE L
<1>1. PICK w : /\ w = [n \in 0 .. CLUSTER_MAP_SIZE |->
                         IF n = 0 THEN <<s[1]>> ELSE WalkStep(m, n, w[n - 1])]
               /\ Chain(m, s[1]) = w[CLUSTER_MAP_SIZE]
  BY ChainWalk DEF IsWalk
<1>2. /\ s \in Seq(DataClusters) /\ L \in 1 .. CLUSTER_MAP_SIZE /\ CLUSTER_MAP_SIZE \in Nat
      /\ s = [i \in 1 .. L |-> s[i]] /\ \A i \in 1 .. L : s[i] \in DataClusters
  BY ClusterFacts DEF IsChain
<1> DEFINE Done == {n \in Nat : n <= CLUSTER_MAP_SIZE => w[n] = SubSeq(s, 1, Upto(n))}
<1>3. 0 \in Done
  <2>1. w[0] = <<s[1]>>
    BY <1>1, <1>2
  <2>2. Upto(0) = 1
    BY <1>2
  <2>3. SubSeq(s, 1, 1) = <<s[1]>>
    <3> DEFINE one == SubSeq(s, 1, 1)
    <3>1. one = [i \in 1 .. 1 |-> s[i]]
      BY <1>2
    <3>2. one \in Seq(DataClusters) /\ Len(one) = 1 /\ one[1] = s[1]
      BY <1>2, <3>1
    <3>3. <<s[1]>> \in Seq(DataClusters) /\ Len(<<s[1]>>) = 1 /\ <<s[1]>>[1] = s[1]
      BY <1>2
    <3> HIDE DEF one
    <3>4. one = <<s[1]>>
      BY <3>2, <3>3, SeqEqual
    <3> QED
      BY <3>4 DEF one
  <2> QED
    BY <2>1, <2>2, <2>3
<1>4. ASSUME NEW n \in Nat, n \in Done PROVE n + 1 \in Done
  <2> SUFFICES ASSUME n + 1 <= CLUSTER_MAP_SIZE PROVE w[n + 1] = SubSeq(s, 1, Upto(n + 1))
    OBVIOUS
  <2> DEFINE before == w[n]
  <2>1. before = SubSeq(s, 1, Upto(n)) /\ Upto(n) \in 1 .. L
    BY <1>2, <1>4
  <2>2. w[n + 1] = WalkStep(m, n + 1, before)
    <3>1. n + 1 \in 0 .. CLUSTER_MAP_SIZE /\ n + 1 # 0 /\ (n + 1) - 1 = n
      BY <1>2
    <3> QED
      BY <1>1, <3>1
  <2>3. /\ before \in Seq(DataClusters) /\ Len(before) = Upto(n)
        /\ \A i \in 1 .. Upto(n) : before[i] = s[i]
    <3> HIDE DEF Upto, before
    <3> QED
      BY <1>2, <2>1
  <2> HIDE DEF before
  <2>4. before[Len(before)] = s[Upto(n)] /\ s[Upto(n)] \in Clusters
    BY <1>2, <2>1, <2>3, ClusterFacts
  <2>5. CASE n + 1 < L
    <3>1. Upto(n) = n + 1 /\ Upto(n + 1) = n + 2 /\ n + 1 \in 1 .. L - 1 /\ n + 2 \in 1 .. L
      BY <1>2, <2>5
    <3>2. m[s[n + 1]] = s[n + 2]
      BY <3>1 DEF IsChain
    <3>3. s[n + 2] # FAT32_FAT_END_OF_FILE
      BY <1>2, <3>1, ClusterFacts
    <3>4. WalkStep(m, n + 1, before) = Append(before, s[n + 2])
      BY <2>3, <2>4, <3>1, <3>2, <3>3 DEF WalkStep
    <3>5. Append(before, s[n + 2]) = SubSeq(s, 1, n + 2)
      <4> HIDE DEF Upto
      <4>1. before \in Seq(DataClusters) /\ Len(before) = n + 1 /\ \A i \in 1 .. n + 1 : before[i] = s[i]
        BY <2>3, <3>1
      <4>2. n + 2 \in 1 .. L /\ s[n + 2] \in DataClusters
        BY <1>2, <3>1
      <4> QED
        BY <1>2, <4>1, <4>2
    <3> QED
      BY <2>2, <3>1, <3>4, <3>5
  <2>6. CASE ~ (n + 1 < L)
    <3>1. Upto(n) = L /\ Upto(n + 1) = L
      BY <1>2, <2>6
    <3>2. m[s[Upto(n)]] = FAT32_FAT_END_OF_FILE
      BY <3>1 DEF IsChain
    <3>3. WalkStep(m, n + 1, before) = before
      BY <2>4, <3>2 DEF WalkStep
    <3> QED
      BY <2>1, <2>2, <3>1, <3>3
  <2> QED
    BY <2>5, <2>6
<1>5. CLUSTER_MAP_SIZE \in Done
  <2> HIDE DEF Done
  <2> QED
    BY <1>2, <1>3, <1>4, SetInduction
<1>6. w[CLUSTER_MAP_SIZE] = SubSeq(s, 1, L)
  <2>1. Upto(CLUSTER_MAP_SIZE) = L
    BY <1>2
  <2> HIDE DEF Upto, L
  <2> QED
    BY <1>2, <1>5, <2>1
<1>7. SubSeq(s, 1, L) = s
  BY <1>2
<1>8. Chain(m, s[1]) = s
  BY <1>1, <1>6, <1>7
<1> QED
  BY <1>8 DEF Good

\* The clusters of a sound chain: data clusters, and none of them counts as empty.
LEMMA GoodFacts ==
    ASSUME NEW m, NEW c, Good(m, c)
    PROVE  /\ c \in ChainSet(m, c) /\ c \in DataClusters
           /\ ChainSet(m, c) \subseteq DataClusters
           /\ \A x \in ChainSet(m, c) : m[x] # FAT32_FAT_EMPTY_ENTRY
           /\ m[Chain(m, c)[Len(Chain(m, c))]] = FAT32_FAT_END_OF_FILE
           /\ Len(Chain(m, c)) \in 1 .. CLUSTER_MAP_SIZE
<1> DEFINE s == Chain(m, c)
           L == Len(s)
<1>1. /\ s \in Seq(DataClusters) /\ L \in 1 .. CLUSTER_MAP_SIZE /\ s[1] = c
      /\ \A i \in 1 .. L - 1 : m[s[i]] = s[i + 1]
      /\ m[s[L]] = FAT32_FAT_END_OF_FILE
  BY DEF Good, IsChain
<1>2. ChainSet(m, c) = {s[i] : i \in 1 .. L}
  BY DEF ChainSet
<1> HIDE DEF s
<1>3. \A i \in 1 .. L : s[i] \in DataClusters
  BY <1>1
<1>4. ASSUME NEW i \in 1 .. L PROVE m[s[i]] # FAT32_FAT_EMPTY_ENTRY
  <2>1. CASE i = L
    BY <1>1, <2>1 DEF FAT32_FAT_EMPTY_ENTRY, FAT32_FAT_END_OF_FILE
  <2>2. CASE i # L
    <3>1. i \in 1 .. L - 1 /\ i + 1 \in 1 .. L
      BY <1>1, <2>2
    <3>2. m[s[i]] = s[i + 1] /\ s[i + 1] \in DataClusters
      BY <1>1, <1>3, <3>1
    <3> QED
      BY <3>2, ClusterFacts DEF FAT32_FAT_EMPTY_ENTRY
  <2> QED
    BY <2>1, <2>2
<1>5. 1 \in 1 .. L
  BY <1>1
<1> QED
  BY <1>1, <1>2, <1>3, <1>4, <1>5 DEF s

\* A table that is the same on the clusters of a sound chain holds the same chain.
LEMMA GoodFrame ==
    ASSUME NEW m, NEW m2, NEW c, Good(m, c), \A x \in ChainSet(m, c) : m2[x] = m[x]
    PROVE  Good(m2, c) /\ Chain(m2, c) = Chain(m, c) /\ ChainSet(m2, c) = ChainSet(m, c)
<1> DEFINE s == Chain(m, c)
<1>1. IsChain(m, s) /\ s[1] = c
  BY DEF Good
<1>2. \A i \in 1 .. Len(s) : m2[s[i]] = m[s[i]]
  BY DEF ChainSet
<1> HIDE DEF s
<1>3. IsChain(m2, s)
  BY <1>1, <1>2 DEF IsChain
<1>4. Chain(m2, c) = s /\ Good(m2, c)
  BY <1>1, <1>3, ChainIs
<1> QED
  BY <1>4 DEF s, ChainSet

\* The chain from the next cluster on.
LEMMA GoodTail ==
    ASSUME NEW m, NEW c, Good(m, c), m[c] # FAT32_FAT_END_OF_FILE
    PROVE  /\ m[c] \in DataClusters /\ Good(m, m[c])
           /\ ChainSet(m, c) = {c} \cup ChainSet(m, m[c]) /\ c \notin ChainSet(m, m[c])
<1> DEFINE s == Chain(m, c)
           L == Len(s)
           t == [i \in 1 .. L - 1 |-> s[i + 1]]
<1>1. /\ s \in Seq(DataClusters) /\ L \in 1 .. CLUSTER_MAP_SIZE /\ s[1] = c
      /\ \A i, j \in 1 .. L : s[i] = s[j] => i = j
      /\ \A i \in 1 .. L - 1 : m[s[i]] = s[i + 1]
      /\ m[s[L]] = FAT32_FAT_END_OF_FILE
  BY DEF Good, IsChain
<1>2. ChainSet(m, c) = {s[i] : i \in 1 .. L}
  BY DEF ChainSet
<1> HIDE DEF s
<1>3. L > 1 /\ L \in Nat /\ CLUSTER_MAP_SIZE \in Nat
  BY <1>1, ClusterFacts
<1>4. /\ t \in Seq(DataClusters) /\ Len(t) = L - 1
      /\ \A i \in 1 .. L - 1 : t[i] = s[i + 1] /\ i + 1 \in 1 .. L
  <2>1. \A i \in 1 .. L - 1 : s[i + 1] \in DataClusters /\ i + 1 \in 1 .. L
    BY <1>1, <1>3
  <2>2. t \in [1 .. L - 1 -> DataClusters] /\ L - 1 \in Nat
    BY <1>3, <2>1
  <2> QED
    BY <2>1, <2>2
<1> HIDE DEF t
<1>5. t[1] = m[c] /\ t[1] \in DataClusters
  BY <1>1, <1>3, <1>4
<1>6. IsChain(m, t)
  <2>1. \A i, j \in 1 .. Len(t) : t[i] = t[j] => i = j
    BY <1>1, <1>3, <1>4
  <2>2. ASSUME NEW i \in 1 .. Len(t) - 1 PROVE m[t[i]] = t[i + 1]
    <3>1. i \in 1 .. L - 1 /\ i + 1 \in 1 .. L - 1
      BY <1>3, <1>4
    <3>2. t[i] = s[i + 1] /\ t[i + 1] = s[(i + 1) + 1]
      BY <1>4, <3>1
    <3> QED
      BY <1>1, <3>1, <3>2
  <2>3. m[t[Len(t)]] = FAT32_FAT_END_OF_FILE
    <3>1. t[L - 1] = s[(L - 1) + 1] /\ (L - 1) + 1 = L
      BY <1>3, <1>4
    <3> QED
      BY <1>1, <1>4, <3>1
  <2>4. Len(t) \in 1 .. CLUSTER_MAP_SIZE
    BY <1>1, <1>3, <1>4
  <2> QED
    BY <1>4, <2>1, <2>2, <2>3, <2>4 DEF IsChain
<1>7. Chain(m, m[c]) = t /\ Good(m, m[c])
  BY <1>5, <1>6, ChainIs
<1>8. ChainSet(m, m[c]) = {t[i] : i \in 1 .. L - 1}
  BY <1>4, <1>7 DEF ChainSet
<1>9. ChainSet(m, c) = {c} \cup ChainSet(m, m[c])
  <2>1. ASSUME NEW i \in 1 .. L PROVE s[i] \in {c} \cup ChainSet(m, m[c])
    <3>1. CASE i = 1
      BY <1>1, <3>1
    <3>2. CASE i # 1
      <4>1. i - 1 \in 1 .. L - 1 /\ (i - 1) + 1 = i
        BY <1>3, <3>2
      <4>2. t[i - 1] = s[i]
        BY <1>4, <4>1
      <4> QED
        BY <1>8, <4>1, <4>2
    <3> QED
      BY <3>1, <3>2
  <2>2. {c} \cup ChainSet(m, m[c]) \subseteq ChainSet(m, c)
    BY <1>1, <1>2, <1>3, <1>4, <1>8
  <2> QED
    BY <1>2, <2>1, <2>2
<1>10. c \notin ChainSet(m, m[c])
  BY <1>1, <1>3, <1>4, <1>8
<1> QED
  BY <1>5, <1>7, <1>9, <1>10

\* The chain of one cluster.
LEMMA GoodLast ==
    ASSUME NEW m, NEW c, Good(m, c), m[c] = FAT32_FAT_END_OF_FILE
    PROVE  ChainSet(m, c) = {c}
<1> DEFINE s == Chain(m, c)
           L == Len(s)
<1>1. /\ s \in Seq(DataClusters) /\ L \in 1 .. CLUSTER_MAP_SIZE /\ s[1] = c
      /\ \A i \in 1 .. L - 1 : m[s[i]] = s[i + 1]
  BY DEF Good, IsChain
<1>2. ChainSet(m, c) = {s[i] : i \in 1 .. L}
  BY DEF ChainSet
<1> HIDE DEF s
<1>3. L = 1
  <2>0. L \in Nat /\ L >= 1
    BY <1>1, ClusterFacts
  <2>1. ASSUME L > 1 PROVE FALSE
    <3>1. 1 \in 1 .. L - 1 /\ 2 \in 1 .. L
      BY <2>0, <2>1
    <3>2. m[c] = s[2] /\ s[2] \in DataClusters
      BY <1>1, <3>1
    <3> QED
      BY <3>2, ClusterFacts
  <2>2. ~ (L > 1)
    BY <2>1
  <2> HIDE DEF L
  <2> QED
    BY <2>0, <2>2
<1> QED
  BY <1>1, <1>2, <1>3

-----------------------------------------------------------------------------
(***************************************************************************)
(* Disks.                                                                   *)
(***************************************************************************)
Tables    == [Indices -> Entry]
Maps      == [Clusters -> FatValues]
Content   == Contents \cup {Table(t) : t \in Tables} \cup {FatBlock(m) : m \in Maps}
Disks     == [Clusters -> Content]

\* What is read from a cluster of a disk has the form it is taken for.
LEMMA DiskFacts ==
    ASSUME NEW d \in Disks
    PROVE  /\ \A c \in Clusters : TableAt(d, c) \in Tables
           /\ FatOf(d) \in Maps
           /\ EmptyTable \in Tables /\ EmptyFat \in Maps /\ EmptyEntry \in Entry
           /\ \A c \in Clusters : d[c].kind = "table" => d[c] = Table(d[c].table) /\ d[c].table \in Tables
<1>1. EmptyEntry \in Entry
  BY ClusterFacts DEF EmptyEntry, Entry
<1>2. EmptyTable \in Tables /\ EmptyFat \in Maps
  BY <1>1, ClusterFacts DEF EmptyTable, Tables, EmptyFat, Maps, FAT32_FAT_EMPTY_ENTRY
<1>3. ASSUME NEW c \in Clusters, d[c].kind = "table"
      PROVE  d[c] = Table(d[c].table) /\ d[c].table \in Tables
  <2>1. d[c] \in Content
    BY DEF Disks
  <2>2. d[c] \notin Contents
    BY <1>3 DEF Contents, Zero, Signature
  <2>3. \A m \in Maps : d[c] # FatBlock(m)
    BY <1>3 DEF FatBlock
  <2>4. PICK t \in Tables : d[c] = Table(t)
    BY <2>1, <2>2, <2>3 DEF Content
  <2> QED
    BY <2>4 DEF Table
<1>4. ASSUME NEW c \in Clusters, d[c].kind = "fat" PROVE d[c].map \in Maps
  <2>1. d[c] \in Content
    BY DEF Disks
  <2>2. d[c] \notin Contents
    BY <1>4 DEF Contents, Zero, Signature
  <2>3. \A t \in Tables : d[c] # Table(t)
    BY <1>4 DEF Table
  <2>4. PICK m \in Maps : d[c] = FatBlock(m)
    BY <2>1, <2>2, <2>3 DEF Content
  <2> QED
    BY <2>4 DEF FatBlock
<1>5. FatOf(d) \in Maps
  BY <1>2, <1>4, ClusterFacts DEF FatOf, FAT_CLUSTER_NUMBER
<1>6. \A c \in Clusters : TableAt(d, c) \in Tables
  BY <1>2, <1>3 DEF TableAt
<1> QED
  BY <1>1, <1>2, <1>3, <1>5, <1>6

Written(d, d2, c, x) == d2 = [d EXCEPT ![c] = x]

\* What a write to one cluster does to the tables, and what it leaves alone.
LEMMA WriteFacts ==
    ASSUME NEW d \in Disks, NEW d2, NEW c \in Clusters, NEW x \in Content, Written(d, d2, c, x)
    PROVE  /\ d2 \in Disks /\ d2[c] = x /\ \A b \in Clusters : b # c => d2[b] = d[b]
           /\ c # FAT_CLUSTER_NUMBER => FatOf(d2) = FatOf(d)
           /\ \A b \in Clusters : b # c => TableAt(d2, b) = TableAt(d, b)
           /\ \A t \in Tables : x = Table(t) => TableAt(d2, c) = t
           /\ \A m \in Maps : (x = FatBlock(m) /\ c = FAT_CLUSTER_NUMBER) => FatOf(d2) = m
<1>1. d2 \in Disks /\ d2[c] = x /\ \A b \in Clusters : b # c => d2[b] = d[b]
  BY DEF Disks, Written
<1>2. c # FAT_CLUSTER_NUMBER => FatOf(d2) = FatOf(d)
  BY <1>1, ClusterFacts DEF FatOf, FAT_CLUSTER_NUMBER
<1>3. \A b \in Clusters : b # c => TableAt(d2, b) = TableAt(d, b)
  BY <1>1 DEF TableAt
<1>4. \A t \in Tables : x = Table(t) => TableAt(d2, c) = t
  BY <1>1 DEF TableAt, Table
<1>5. \A m \in Maps : (x = FatBlock(m) /\ c = FAT_CLUSTER_NUMBER) => FatOf(d2) = m
  BY <1>1 DEF FatOf, FatBlock
<1> QED
  BY <1>1, <1>2, <1>3, <1>4, <1>5

-----------------------------------------------------------------------------
(***************************************************************************)
(* The directories of the tree: the least set that holds the root and with each     *)
(* directory the folders in it.                                                *)
(***************************************************************************)
Folders(d, c) == {TableAt(d, c)[i].cluster : i \in {i \in Entries(d, c) : TableAt(d, c)[i].folder}}
ReachStep(d, near) == near \cup UNION {Folders(d, c) : c \in near}
IsReach(r, d, N) == r = [n \in 0 .. N |-> IF n = 0 THEN {ROOT_CLUSTER_NUMBER} ELSE ReachStep(d, r[n - 1])]

\* The sets of directories within n steps of the root exist.
LEMMA ReachExists ==
    ASSUME NEW d, NEW N \in Nat
    PROVE  \E r : IsReach(r, d, N)
<1> DEFINE Base == {ROOT_CLUSTER_NUMBER}
           Has(k) == \E w : w = [n \in 0 .. k |-> IF n = 0 THEN Base ELSE ReachStep(d, w[n - 1])]
           S == {k \in Nat : Has(k)}
<1>1. 0 \in S
  <2> DEFINE w == [n \in 0 .. 0 |-> Base]
  <2>1. w = [n \in 0 .. 0 |-> IF n = 0 THEN Base ELSE ReachStep(d, w[n - 1])]
    <3> HIDE DEF Base
    <3> QED OBVIOUS
  <2> QED
    BY <2>1
<1>2. ASSUME NEW k \in Nat, Has(k) PROVE Has(k + 1)
  <2> HIDE DEF Base
  <2>1. PICK w : w = [n \in 0 .. k |-> IF n = 0 THEN Base ELSE ReachStep(d, w[n - 1])]
    BY <1>2
  <2> DEFINE v == [n \in 0 .. k + 1 |-> IF n <= k THEN w[n] ELSE ReachStep(d, w[n - 1])]
  <2>2. ASSUME NEW n \in 0 .. k + 1
        PROVE  v[n] = IF n = 0 THEN Base ELSE ReachStep(d, v[n - 1])
    <3>1. CASE n = 0
      <4>1. 0 \in 0 .. k /\ 0 \in 0 .. k + 1 /\ 0 <= k
        OBVIOUS
      <4>2. w[0] = Base
        BY <2>1, <4>1
      <4>3. v[0] = w[0]
        BY <4>1
      <4> QED
        BY <3>1, <4>2, <4>3
    <3>2. CASE n # 0
      <4>1. n - 1 \in 0 .. k /\ n - 1 \in 0 .. k + 1 /\ n - 1 <= k
        BY <3>2
      <4>2. v[n - 1] = w[n - 1]
        BY <4>1
      <4>3. CASE n <= k
        <5>1. v[n] = w[n] /\ n \in 0 .. k
          BY <4>3
        <5> HIDE DEF v
        <5>2. w[n] = ReachStep(d, w[n - 1])
          BY <2>1, <3>2, <5>1
        <5> QED
          BY <3>2, <4>2, <5>1, <5>2
      <4>4. CASE ~ (n <= k)
        <5>1. v[n] = ReachStep(d, w[n - 1])
          BY <4>4
        <5> HIDE DEF v
        <5> QED
          BY <3>2, <4>2, <5>1
      <4> QED
        BY <4>3, <4>4
    <3> QED
      BY <3>1, <3>2
  <2>3. v = [n \in 0 .. k + 1 |-> IF n = 0 THEN Base ELSE ReachStep(d, v[n - 1])]
    <3>1. v = [n \in 0 .. k + 1 |-> v[n]]
      OBVIOUS
    <3> HIDE DEF v
    <3> QED
      BY <2>2, <3>1
  <2> HIDE DEF v
  <2> QED
    BY <2>3
<1> HIDE DEF Has
<1>3. N \in S
  <2>1. \A k \in Nat : k \in S => k + 1 \in S
    BY <1>2
  <2> HIDE DEF S
  <2> QED
    BY <1>1, <2>1, SetInduction
<1> QED
  BY <1>3 DEF Has, IsReach

\* LiveDirs is the last of them.
LEMMA LiveReach ==
    ASSUME NEW d
    PROVE  \E r : /\ r[0] = {ROOT_CLUSTER_NUMBER}
                  /\ \A n \in 0 .. CLUSTER_MAP_SIZE - 1 : r[n + 1] = ReachStep(d, r[n])
                  /\ LiveDirs(d) = IF Formatted(d) THEN r[CLUSTER_MAP_SIZE] ELSE {}
<1> DEFINE r == CHOOSE f : IsReach(f, d, CLUSTER_MAP_SIZE)
<1>1. \E f : IsReach(f, d, CLUSTER_MAP_SIZE)
  BY ClusterFacts, ReachExists
<1>2. IsReach(r, d, CLUSTER_MAP_SIZE)
  BY <1>1, Zenon
<1>3. LiveDirs(d) = IF Formatted(d) THEN r[CLUSTER_MAP_SIZE] ELSE {}
  BY DEF LiveDirs, ReachStep, IsReach, Folders
<1> HIDE DEF r
<1>4. r[0] = {ROOT_CLUSTER_NUMBER}
  BY <1>2, ClusterFacts DEF IsReach
<1>5. ASSUME NEW n \in 0 .. CLUSTER_MAP_SIZE - 1 PROVE r[n + 1] = ReachStep(d, r[n])
  <2>1. n + 1 \in 0 .. CLUSTER_MAP_SIZE /\ n + 1 # 0 /\ (n + 1) - 1 = n
    BY ClusterFacts
  <2> QED
    BY <1>2, <2>1 DEF IsReach
<1> QED
  BY <1>3, <1>4, <1>5

\* The root is in the tree, and the tree is no larger than any closed set with the root.
LEMMA LiveLeast ==
    ASSUME NEW d, Formatted(d)
    PROVE  /\ ROOT_CLUSTER_NUMBER \in LiveDirs(d)
           /\ \A X : (ROOT_CLUSTER_NUMBER \in X /\ \A c \in X : Folders(d, c) \subseteq X)
                        => LiveDirs(d) \subseteq X
<1>1. PICK r : /\ r[0] = {ROOT_CLUSTER_NUMBER}
               /\ \A n \in 0 .. CLUSTER_MAP_SIZE - 1 : r[n + 1] = ReachStep(d, r[n])
               /\ LiveDirs(d) = r[CLUSTER_MAP_SIZE]
  BY LiveReach
<1>2. ROOT_CLUSTER_NUMBER \in LiveDirs(d)
  <2> DEFINE S == {n \in Nat : n <= CLUSTER_MAP_SIZE => ROOT_CLUSTER_NUMBER \in r[n]}
  <2>1. 0 \in S
    BY <1>1
  <2>2. ASSUME NEW n \in Nat, n \in S PROVE n + 1 \in S
    <3> SUFFICES ASSUME n + 1 <= CLUSTER_MAP_SIZE PROVE ROOT_CLUSTER_NUMBER \in r[n + 1]
      OBVIOUS
    <3>1. n \in 0 .. CLUSTER_MAP_SIZE - 1 /\ n <= CLUSTER_MAP_SIZE
      BY ClusterFacts
    <3> QED
      BY <1>1, <2>2, <3>1 DEF ReachStep
  <2>3. CLUSTER_MAP_SIZE \in S
    <3> HIDE DEF S
    <3> QED
      BY <2>1, <2>2, ClusterFacts, SetInduction
  <2> QED
    BY <1>1, <2>3, ClusterFacts
<1>3. ASSUME NEW X, ROOT_CLUSTER_NUMBER \in X, \A c \in X : Folders(d, c) \subseteq X
      PROVE  LiveDirs(d) \subseteq X
  <2> DEFINE S == {n \in Nat : n <= CLUSTER_MAP_SIZE => r[n] \subseteq X}
  <2>1. 0 \in S
    BY <1>1, <1>3
  <2>2. ASSUME NEW n \in Nat, n \in S PROVE n + 1 \in S
    <3> SUFFICES ASSUME n + 1 <= CLUSTER_MAP_SIZE PROVE r[n + 1] \subseteq X
      OBVIOUS
    <3>1. n \in 0 .. CLUSTER_MAP_SIZE - 1 /\ n <= CLUSTER_MAP_SIZE
      BY ClusterFacts
    <3>2. r[n + 1] = ReachStep(d, r[n]) /\ r[n] \subseteq X
      BY <1>1, <2>2, <3>1
    <3> QED
      BY <1>3, <3>2 DEF ReachStep
  <2>3. CLUSTER_MAP_SIZE \in S
    <3> HIDE DEF S
    <3> QED
      BY <2>1, <2>2, ClusterFacts, SetInduction
  <2> QED
    BY <1>1, <2>3, ClusterFacts
<1> QED
  BY <1>2, <1>3

\* The folders in a directory of a disk are clusters.
LEMMA FoldersFacts ==
    ASSUME NEW d \in Disks, NEW c \in Clusters
    PROVE  Folders(d, c) \subseteq Clusters
<1>1. TableAt(d, c) \in Tables
  BY DiskFacts
<1> QED
  BY <1>1 DEF Folders, Entries, Tables, Entry

(***************************************************************************)
(* The tree is closed: as many steps as there are clusters reach every directory,   *)
(* for each step but the last finds a new one.                                  *)
(***************************************************************************)
LEMMA LiveClosed ==
    ASSUME NEW d \in Disks
    PROVE  /\ LiveDirs(d) \subseteq Clusters
           /\ \A c \in LiveDirs(d) : Folders(d, c) \subseteq LiveDirs(d)
<1>1. PICK r : /\ r[0] = {ROOT_CLUSTER_NUMBER}
               /\ \A n \in 0 .. CLUSTER_MAP_SIZE - 1 : r[n + 1] = ReachStep(d, r[n])
               /\ LiveDirs(d) = IF Formatted(d) THEN r[CLUSTER_MAP_SIZE] ELSE {}
  BY LiveReach
<1> DEFINE Closed(X) == ReachStep(d, X) = X
           Fine(n) == /\ r[n] \in SUBSET Clusters
                      /\ Closed(r[n]) \/ Cardinality(r[n]) > n
           S == {n \in Nat : n <= CLUSTER_MAP_SIZE => Fine(n)}
<1>2. 0 \in S
  <2>1. r[0] \in SUBSET Clusters
    BY <1>1, ClusterFacts DEF ROOT_CLUSTER_NUMBER
  <2>2. Cardinality({ROOT_CLUSTER_NUMBER}) = 1
    BY FS_Singleton
  <2>3. Cardinality(r[0]) > 0
    BY <1>1, <2>2
  <2> QED
    BY <2>1, <2>3
<1>3. ASSUME NEW n \in Nat, n \in S PROVE n + 1 \in S
  <2> SUFFICES ASSUME n + 1 <= CLUSTER_MAP_SIZE PROVE Fine(n + 1)
    OBVIOUS
  <2>1. n \in 0 .. CLUSTER_MAP_SIZE - 1 /\ n <= CLUSTER_MAP_SIZE
    BY ClusterFacts
  <2>2. r[n + 1] = ReachStep(d, r[n]) /\ Fine(n)
    BY <1>1, <1>3, <2>1
  <2>3. r[n + 1] \in SUBSET Clusters /\ r[n] \in SUBSET r[n + 1]
    <3>1. \A c \in r[n] : Folders(d, c) \subseteq Clusters
      BY <2>2, FoldersFacts
    <3> QED
      BY <2>2, <3>1 DEF ReachStep
  <2>4. CASE Closed(r[n])
    <3>1. r[n + 1] = r[n]
      BY <2>2, <2>4
    <3> QED
      BY <2>3, <2>4, <3>1
  <2>5. CASE ~ Closed(r[n])
    <3>1. IsFiniteSet(r[n + 1])
      BY <2>3, ClusterFacts, FS_Subset
    <3>2. /\ IsFiniteSet(r[n]) /\ Cardinality(r[n]) <= Cardinality(r[n + 1])
          /\ Cardinality(r[n + 1]) # Cardinality(r[n])
      BY <2>2, <2>3, <2>5, <3>1, FS_Subset
    <3>3. Cardinality(r[n]) \in Nat /\ Cardinality(r[n + 1]) \in Nat
      BY <3>1, <3>2, FS_CardinalityType
    <3>4. Cardinality(r[n]) > n
      BY <2>2, <2>5
    <3>5. Cardinality(r[n + 1]) > n + 1
      BY <3>2, <3>3, <3>4
    <3> QED
      BY <2>3, <3>5
  <2> QED
    BY <2>4, <2>5
<1>4. CLUSTER_MAP_SIZE \in S
  <2> HIDE DEF S
  <2> QED
    BY <1>2, <1>3, ClusterFacts, SetInduction
<1>5. Fine(CLUSTER_MAP_SIZE)
  <2> HIDE DEF Fine
  <2> QED
    BY <1>4, ClusterFacts
<1>6. Closed(r[CLUSTER_MAP_SIZE])
  <2>1. IsFiniteSet(r[CLUSTER_MAP_SIZE]) /\ Cardinality(r[CLUSTER_MAP_SIZE]) <= CLUSTER_MAP_SIZE
    BY <1>5, ClusterFacts, FS_Subset
  <2>2. Cardinality(r[CLUSTER_MAP_SIZE]) \in Nat /\ CLUSTER_MAP_SIZE \in Nat
    BY <2>1, ClusterFacts, FS_CardinalityType
  <2> QED
    BY <1>5, <2>1, <2>2
<1>7. \A c \in r[CLUSTER_MAP_SIZE] : Folders(d, c) \subseteq r[CLUSTER_MAP_SIZE]
  BY <1>6 DEF ReachStep
<1> QED
  BY <1>1, <1>5, <1>7

-----------------------------------------------------------------------------
(***************************************************************************)
(* The sound tree.                                                          *)
(***************************************************************************)

\* The cluster belongs to a file or folder of the tree.
InTree(d, c) == \E p \in LivePlaces(d) : c \in ChainSet(FatOf(d), EntryAt(d, p).cluster)

\* A directory: its two links are there, and an entry that is not used is blank.
DirOK(d, c) ==
    /\ d[c].kind = "table"
    /\ \A i \in {0, 1} : TableAt(d, c)[i].used /\ TableAt(d, c)[i].folder
    /\ \A i \in Indices : ~ TableAt(d, c)[i].used => TableAt(d, c)[i] = EmptyEntry

\* A file or a folder: its chain, and for a folder the links of its own table.
PlaceOK(d, p) ==
    LET e == EntryAt(d, p) IN
    /\ Good(FatOf(d), e.cluster)
    /\ Len(Chain(FatOf(d), e.cluster)) = ClustersOf(e.filesize)
    /\ e.folder <=> e.filesize = 0
    /\ e.folder => /\ TableAt(d, e.cluster)[0].cluster = e.cluster
                   /\ TableAt(d, e.cluster)[0].name = e.name
                   /\ TableAt(d, e.cluster)[1].cluster = p[1]

TreeOK(d) ==
    /\ d[BOOT_SECTOR] = Signature
    /\ FatOf(d)[0] # FAT32_FAT_EMPTY_ENTRY /\ FatOf(d)[1] # FAT32_FAT_EMPTY_ENTRY
    /\ FatOf(d)[ROOT_CLUSTER_NUMBER] = FAT32_FAT_END_OF_FILE
    /\ TableAt(d, ROOT_CLUSTER_NUMBER)[0].used
    /\ \A c \in LiveDirs(d) : DirOK(d, c)
    /\ \A p \in LivePlaces(d) : PlaceOK(d, p)
    /\ \A p, q \in LivePlaces(d) :
         p # q => ChainSet(FatOf(d), EntryAt(d, p).cluster)
                    \cap ChainSet(FatOf(d), EntryAt(d, q).cluster) = {}

\* A place is a used entry, past the links, of a directory of the tree.
LEMMA PlaceFacts ==
    ASSUME NEW d \in Disks
    PROVE  /\ \A c, i : <<c, i>> \in LivePlaces(d) <=> c \in LiveDirs(d) /\ i \in Entries(d, c)
           /\ \A c, i : EntryAt(d, <<c, i>>) = TableAt(d, c)[i]
           /\ \A p \in LivePlaces(d) :
                /\ p = <<p[1], p[2]>> /\ p[1] \in LiveDirs(d) /\ p[2] \in Entries(d, p[1])
                /\ p[1] \in Clusters /\ p[2] \in Indices
                /\ EntryAt(d, p) = TableAt(d, p[1])[p[2]] /\ EntryAt(d, p) \in Entry
                /\ EntryAt(d, p).folder => EntryAt(d, p).cluster \in LiveDirs(d)
<1>1. \A c, i : <<c, i>> \in LivePlaces(d) <=> c \in LiveDirs(d) /\ i \in Entries(d, c)
  BY DEF LivePlaces
<1>2. \A c, i : EntryAt(d, <<c, i>>) = TableAt(d, c)[i]
  BY DEF EntryAt
<1>3. ASSUME NEW p \in LivePlaces(d)
      PROVE  /\ p = <<p[1], p[2]>> /\ p[1] \in LiveDirs(d) /\ p[2] \in Entries(d, p[1])
             /\ p[1] \in Clusters /\ p[2] \in Indices
             /\ EntryAt(d, p) = TableAt(d, p[1])[p[2]] /\ EntryAt(d, p) \in Entry
             /\ EntryAt(d, p).folder => EntryAt(d, p).cluster \in LiveDirs(d)
  <2>1. PICK c \in LiveDirs(d) : p \in {<<c, i>> : i \in Entries(d, c)}
    BY DEF LivePlaces
  <2>2. PICK i \in Entries(d, c) : p = <<c, i>>
    BY <2>1
  <2>3. c \in Clusters /\ i \in Indices
    BY LiveClosed DEF Entries
  <2>4. TableAt(d, c)[i] \in Entry
    BY <2>3, DiskFacts DEF Tables
  <2>5. TableAt(d, c)[i].folder => TableAt(d, c)[i].cluster \in LiveDirs(d)
    BY LiveClosed DEF Folders
  <2> QED
    BY <2>2, <2>3, <2>4, <2>5 DEF EntryAt
<1> QED
  BY <1>1, <1>2, <1>3

\* Every directory but the root is the cluster of a folder of the tree.
LEMMA DirsHavePlaces ==
    ASSUME NEW d \in Disks, Formatted(d)
    PROVE  \A c \in LiveDirs(d) :
              \/ c = ROOT_CLUSTER_NUMBER
              \/ \E p \in LivePlaces(d) : EntryAt(d, p).folder /\ EntryAt(d, p).cluster = c
<1> DEFINE X == {c \in LiveDirs(d) :
                    \/ c = ROOT_CLUSTER_NUMBER
                    \/ \E p \in LivePlaces(d) : EntryAt(d, p).folder /\ EntryAt(d, p).cluster = c}
<1>1. ROOT_CLUSTER_NUMBER \in X
  BY LiveLeast
<1>2. ASSUME NEW c \in X, NEW x \in Folders(d, c) PROVE x \in X
  <2>1. x \in LiveDirs(d)
    BY <1>2, LiveClosed
  <2>2. PICK i \in Entries(d, c) : TableAt(d, c)[i].folder /\ TableAt(d, c)[i].cluster = x
    BY <1>2 DEF Folders
  <2>3. <<c, i>> \in LivePlaces(d) /\ EntryAt(d, <<c, i>>) = TableAt(d, c)[i]
    BY PlaceFacts
  <2> QED
    BY <2>1, <2>2, <2>3
<1>3. LiveDirs(d) \subseteq X
  <2> HIDE DEF X
  <2> QED
    BY <1>1, <1>2, LiveLeast
<1> QED
  BY <1>3

\* The tree of one disk lies within that of another and some folders more.
LEMMA DirsWithin ==
    ASSUME NEW a \in Disks, NEW b \in Disks, Formatted(a), Formatted(b), NEW N,
           \A c \in LiveDirs(a) \cap LiveDirs(b) : Folders(a, c) \subseteq Folders(b, c) \cup N,
           \A c \in N : Folders(a, c) \subseteq LiveDirs(b) \cup N
    PROVE  LiveDirs(a) \subseteq LiveDirs(b) \cup N
<1> DEFINE X == LiveDirs(a) \cap (LiveDirs(b) \cup N)
<1>1. ROOT_CLUSTER_NUMBER \in X
  BY LiveLeast
<1>2. ASSUME NEW c \in X PROVE Folders(a, c) \subseteq X
  <2>1. Folders(a, c) \subseteq LiveDirs(a)
    BY LiveClosed
  <2>2. CASE c \in LiveDirs(b)
    <3>1. Folders(b, c) \subseteq LiveDirs(b)
      BY <2>2, LiveClosed
    <3> QED
      BY <2>1, <2>2, <3>1
  <2>3. CASE c \in N
    BY <2>1, <2>3
  <2> QED
    BY <2>2, <2>3
<1>3. LiveDirs(a) \subseteq X
  <2> HIDE DEF X
  <2> QED
    BY <1>1, <1>2, LiveLeast
<1> QED
  BY <1>3

\* The directories of a sound tree and the clusters they are in.
LEMMA TreeFacts ==
    ASSUME NEW d \in Disks, TreeOK(d)
    PROVE  /\ Formatted(d)
           /\ \A c \in LiveDirs(d) : c = ROOT_CLUSTER_NUMBER \/ (c \in DataClusters /\ InTree(d, c))
           /\ \A c : InTree(d, c) => c \in DataClusters /\ FatOf(d)[c] # FAT32_FAT_EMPTY_ENTRY
           /\ \A p \in LivePlaces(d) :
                /\ EntryAt(d, p).cluster \in DataClusters
                /\ \A c \in ChainSet(FatOf(d), EntryAt(d, p).cluster) : InTree(d, c)
<1>1. Formatted(d)
  BY DEF TreeOK, Formatted
<1>2. ASSUME NEW p \in LivePlaces(d)
      PROVE  /\ EntryAt(d, p).cluster \in DataClusters /\ InTree(d, EntryAt(d, p).cluster)
             /\ \A c \in ChainSet(FatOf(d), EntryAt(d, p).cluster) :
                  InTree(d, c) /\ c \in DataClusters /\ FatOf(d)[c] # FAT32_FAT_EMPTY_ENTRY
  <2>1. Good(FatOf(d), EntryAt(d, p).cluster)
    BY DEF TreeOK, PlaceOK
  <2> QED
    BY <2>1, GoodFacts DEF InTree
<1>3. \A c : InTree(d, c) => c \in DataClusters /\ FatOf(d)[c] # FAT32_FAT_EMPTY_ENTRY
  BY <1>2 DEF InTree
<1>4. \A c \in LiveDirs(d) : c = ROOT_CLUSTER_NUMBER \/ (c \in DataClusters /\ InTree(d, c))
  BY <1>1, <1>2, DirsHavePlaces
<1> QED
  BY <1>1, <1>2, <1>3, <1>4

\* What keeps a file or a folder as it is.
LEMMA PlaceKept ==
    ASSUME NEW d, NEW d2, NEW p, PlaceOK(d, p), EntryAt(d2, p) = EntryAt(d, p),
           \A c \in ChainSet(FatOf(d), EntryAt(d, p).cluster) : FatOf(d2)[c] = FatOf(d)[c],
           EntryAt(d, p).folder =>
              \A i \in {0, 1} : TableAt(d2, EntryAt(d, p).cluster)[i] = TableAt(d, EntryAt(d, p).cluster)[i]
    PROVE  /\ PlaceOK(d2, p)
           /\ Chain(FatOf(d2), EntryAt(d2, p).cluster) = Chain(FatOf(d), EntryAt(d, p).cluster)
           /\ ChainSet(FatOf(d2), EntryAt(d2, p).cluster) = ChainSet(FatOf(d), EntryAt(d, p).cluster)
<1> DEFINE e == EntryAt(d, p)
           m == FatOf(d)
           m2 == FatOf(d2)
<1>1. Good(m, e.cluster)
  BY DEF PlaceOK
<1>2. Good(m2, e.cluster) /\ Chain(m2, e.cluster) = Chain(m, e.cluster)
        /\ ChainSet(m2, e.cluster) = ChainSet(m, e.cluster)
  BY <1>1, GoodFrame
<1>3. PlaceOK(d2, p)
  BY <1>2 DEF PlaceOK
<1> QED
  BY <1>2, <1>3

(***************************************************************************)
(* A change outside the tree: the boot sector, the root, the first entries of the    *)
(* allocation table, and the clusters of the tree with their entries, are as they    *)
(* were.                                                                    *)
(***************************************************************************)
Spares(d, d2) ==
    /\ d2[BOOT_SECTOR] = d[BOOT_SECTOR] /\ d2[ROOT_CLUSTER_NUMBER] = d[ROOT_CLUSTER_NUMBER]
    /\ \A c \in {0, 1, 2} : FatOf(d2)[c] = FatOf(d)[c]
    /\ \A c \in DataClusters : InTree(d, c) => d2[c] = d[c] /\ FatOf(d2)[c] = FatOf(d)[c]

\* Such a change leaves the tree and every chain of it as they are.
LEMMA TreeKept ==
    ASSUME NEW d \in Disks, NEW d2 \in Disks, TreeOK(d), Spares(d, d2)
    PROVE  /\ TreeOK(d2)
           /\ LiveDirs(d2) = LiveDirs(d) /\ LivePlaces(d2) = LivePlaces(d)
           /\ \A c \in LiveDirs(d) : d2[c] = d[c] /\ TableAt(d2, c) = TableAt(d, c)
           /\ \A p \in LivePlaces(d) :
                /\ EntryAt(d2, p) = EntryAt(d, p)
                /\ Chain(FatOf(d2), EntryAt(d2, p).cluster) = Chain(FatOf(d), EntryAt(d, p).cluster)
           /\ \A c : InTree(d2, c) <=> InTree(d, c)
<1>1. Formatted(d) /\ \A c \in LiveDirs(d) : c = ROOT_CLUSTER_NUMBER \/ (c \in DataClusters /\ InTree(d, c))
  BY TreeFacts
<1>2. \A c \in LiveDirs(d) : d2[c] = d[c] /\ TableAt(d2, c) = TableAt(d, c)
  BY <1>1 DEF Spares, TableAt
<1>3. \A c \in LiveDirs(d) : Entries(d2, c) = Entries(d, c) /\ Folders(d2, c) = Folders(d, c)
  BY <1>2 DEF Entries, Folders
<1>4. Formatted(d2)
  <2>1. ROOT_CLUSTER_NUMBER \in LiveDirs(d)
    BY <1>1, LiveLeast
  <2>2. TableAt(d2, ROOT_CLUSTER_NUMBER) = TableAt(d, ROOT_CLUSTER_NUMBER)
    BY <1>2, <2>1
  <2> QED
    BY <2>2 DEF TreeOK, Spares, Formatted, ROOT_CLUSTER_NUMBER
<1>5. LiveDirs(d2) = LiveDirs(d)
  <2>1. LiveDirs(d2) \subseteq LiveDirs(d) \cup {}
    BY <1>1, <1>3, <1>4, DirsWithin
  <2>2. LiveDirs(d) \subseteq LiveDirs(d2) \cup {}
    BY <1>1, <1>3, <1>4, DirsWithin
  <2> QED
    BY <2>1, <2>2
<1>6. LivePlaces(d2) = LivePlaces(d)
  BY <1>3, <1>5 DEF LivePlaces
<1>7. ASSUME NEW p \in LivePlaces(d)
      PROVE  /\ EntryAt(d2, p) = EntryAt(d, p) /\ PlaceOK(d2, p)
             /\ Chain(FatOf(d2), EntryAt(d2, p).cluster) = Chain(FatOf(d), EntryAt(d, p).cluster)
             /\ ChainSet(FatOf(d2), EntryAt(d2, p).cluster) = ChainSet(FatOf(d), EntryAt(d, p).cluster)
  <2>1. PlaceOK(d, p)
    BY DEF TreeOK
  <2>2. p[1] \in LiveDirs(d) /\ (EntryAt(d, p).folder => EntryAt(d, p).cluster \in LiveDirs(d))
    BY PlaceFacts
  <2>3. EntryAt(d2, p) = EntryAt(d, p)
    BY <1>2, <2>2 DEF EntryAt
  <2>4. \A c \in ChainSet(FatOf(d), EntryAt(d, p).cluster) : FatOf(d2)[c] = FatOf(d)[c]
    BY TreeFacts DEF Spares
  <2>5. EntryAt(d, p).folder =>
          \A i \in {0, 1} : TableAt(d2, EntryAt(d, p).cluster)[i] = TableAt(d, EntryAt(d, p).cluster)[i]
    BY <1>2, <2>2
  <2> QED
    BY <2>1, <2>3, <2>4, <2>5, PlaceKept
<1>8. \A c : InTree(d2, c) <=> InTree(d, c)
  BY <1>6, <1>7 DEF InTree
<1>9. TreeOK(d2)
  <2>1. \A c \in LiveDirs(d2) : DirOK(d2, c)
    BY <1>2, <1>5 DEF TreeOK, DirOK
  <2>2. \A p, q \in LivePlaces(d2) :
          p # q => ChainSet(FatOf(d2), EntryAt(d2, p).cluster)
                    \cap ChainSet(FatOf(d2), EntryAt(d2, q).cluster) = {}
    BY <1>6, <1>7 DEF TreeOK
  <2>3. FatOf(d2)[0] # FAT32_FAT_EMPTY_ENTRY /\ FatOf(d2)[1] # FAT32_FAT_EMPTY_ENTRY
    BY DEF TreeOK, Spares
  <2> QED
    BY <1>4, <1>6, <1>7, <2>1, <2>2, <2>3 DEF TreeOK, Formatted
<1> QED
  BY <1>2, <1>5, <1>6, <1>7, <1>8, <1>9

\* A chain that takes no cluster of the tree, for an entry that is not yet in it.
FreshEntry(d, parent, e) ==
    /\ e \in Entry /\ e.used
    /\ Good(FatOf(d), e.cluster)
    /\ \A c \in ChainSet(FatOf(d), e.cluster) : ~ InTree(d, c)
    /\ Len(Chain(FatOf(d), e.cluster)) = ClustersOf(e.filesize)
    /\ e.folder <=> e.filesize = 0
    /\ e.folder =>
         /\ d[e.cluster].kind = "table"
         /\ TableAt(d, e.cluster)[0] = FolderEntry(e.name, e.cluster)
         /\ TableAt(d, e.cluster)[1].used /\ TableAt(d, e.cluster)[1].folder
         /\ TableAt(d, e.cluster)[1].cluster = parent
         /\ \A i \in Indices \ {0, 1} : TableAt(d, e.cluster)[i] = EmptyEntry

\* What a write of a directory's table changes.
LEMMA ParentWritten ==
    ASSUME NEW d \in Disks, TreeOK(d), NEW parent \in LiveDirs(d), NEW t \in Tables, NEW d2,
           Written(d, d2, parent, Table(t))
    PROVE  /\ d2 \in Disks /\ parent \in Clusters
           /\ \A c \in Clusters : c # parent => d2[c] = d[c] /\ TableAt(d2, c) = TableAt(d, c)
           /\ d2[parent].kind = "table" /\ TableAt(d2, parent) = t
           /\ FatOf(d2) = FatOf(d) /\ d2[BOOT_SECTOR] = d[BOOT_SECTOR]
<1>1. parent \in Clusters /\ parent # BOOT_SECTOR /\ parent # FAT_CLUSTER_NUMBER
  BY TreeFacts, ClusterFacts, LiveClosed DEF BOOT_SECTOR, FAT_CLUSTER_NUMBER, ROOT_CLUSTER_NUMBER
<1>2. Table(t) \in Content
  BY DEF Content
<1>3. BOOT_SECTOR \in Clusters
  BY ClusterFacts DEF BOOT_SECTOR
<1>4. Table(t).kind = "table"
  BY DEF Table
<1> QED
  BY <1>1, <1>2, <1>3, <1>4, WriteFacts

WithEntry(t, i, e) == [t EXCEPT ![i] = e]

Adds(d, d2, parent, i, e) ==
    /\ parent \in LiveDirs(d) /\ i \in Indices /\ ~ TableAt(d, parent)[i].used
    /\ FreshEntry(d, parent, e)
    /\ Written(d, d2, parent, Table(WithEntry(TableAt(d, parent), i, e)))

Drops(d, d2, parent, i, e) ==
    /\ parent \in LiveDirs(d) /\ i \in Entries(d, parent) /\ e = TableAt(d, parent)[i]
    /\ e.folder => Entries(d, e.cluster) = {}
    /\ Written(d, d2, parent, Table(WithEntry(TableAt(d, parent), i, EmptyEntry)))

\* The entry of a file or folder is added to a directory.
LEMMA PlaceAdded ==
    ASSUME NEW d \in Disks, TreeOK(d), NEW d2, NEW parent, NEW i, NEW e, Adds(d, d2, parent, i, e)
    PROVE  /\ d2 \in Disks /\ TreeOK(d2) /\ FatOf(d2) = FatOf(d)
           /\ LivePlaces(d2) = LivePlaces(d) \cup {<<parent, i>>}
           /\ \A p \in LivePlaces(d) : EntryAt(d2, p) = EntryAt(d, p)
           /\ EntryAt(d2, <<parent, i>>) = e
           /\ \A c : InTree(d2, c) <=> InTree(d, c) \/ c \in ChainSet(FatOf(d), e.cluster)
<1> DEFINE t == TableAt(d, parent)
           t2 == WithEntry(t, i, e)
           m == FatOf(d)
           N == IF e.folder THEN {e.cluster} ELSE {}
<1>0. /\ parent \in LiveDirs(d) /\ i \in Indices /\ ~ TableAt(d, parent)[i].used
      /\ FreshEntry(d, parent, e)
      /\ Written(d, d2, parent, Table(WithEntry(TableAt(d, parent), i, e)))
  BY DEF Adds
<1> USE <1>0
<1>1. parent \in Clusters /\ t \in Tables /\ Formatted(d) /\ e \in Entry /\ e.used
  BY LiveClosed, DiskFacts, TreeFacts DEF FreshEntry
<1>2. i \notin {0, 1}
  BY DEF TreeOK, DirOK
<1>3. /\ t2 \in Tables /\ t2[i] = e /\ \A k \in Indices : k # i => t2[k] = t[k]
  BY <1>1 DEF Tables, WithEntry
<1>4. /\ d2 \in Disks
      /\ \A c \in Clusters : c # parent => d2[c] = d[c] /\ TableAt(d2, c) = TableAt(d, c)
      /\ d2[parent].kind = "table" /\ TableAt(d2, parent) = t2
      /\ FatOf(d2) = m /\ d2[BOOT_SECTOR] = d[BOOT_SECTOR]
  <2>1. Written(d, d2, parent, Table(t2))
    OBVIOUS
  <2> HIDE DEF t2
  <2> QED
    BY <1>3, <2>1, ParentWritten
<1> HIDE DEF t2
<1>5. /\ e.cluster \in DataClusters /\ e.cluster \in Clusters /\ e.cluster # parent
      /\ e.cluster \notin LiveDirs(d) /\ e.cluster # ROOT_CLUSTER_NUMBER
  <2>1. e.cluster \in DataClusters /\ ~ InTree(d, e.cluster)
    BY GoodFacts DEF FreshEntry
  <2> QED
    BY <2>1, TreeFacts, ClusterFacts DEF ROOT_CLUSTER_NUMBER
<1>6. \A c \in LiveDirs(d) : c # parent =>
         TableAt(d2, c) = TableAt(d, c) /\ Entries(d2, c) = Entries(d, c) /\ Folders(d2, c) = Folders(d, c)
  BY <1>4, LiveClosed DEF Entries, Folders
<1>7. Entries(d2, parent) = Entries(d, parent) \cup {i}
  BY <1>1, <1>2, <1>3, <1>4 DEF Entries
<1>8. Folders(d2, parent) = Folders(d, parent) \cup N
  <2>1. \A k \in Entries(d, parent) : k \in Indices /\ k # i /\ t2[k] = t[k]
    BY <1>3 DEF Entries
  <2>2. ASSUME NEW x \in Folders(d2, parent) PROVE x \in Folders(d, parent) \cup N
    <3>1. PICK k \in Entries(d2, parent) : t2[k].folder /\ t2[k].cluster = x
      BY <1>4 DEF Folders
    <3>2. CASE k = i
      BY <1>3, <3>1, <3>2
    <3>3. CASE k # i
      <4>1. k \in Entries(d, parent) /\ t2[k] = t[k]
        BY <1>7, <2>1, <3>3
      <4> QED
        BY <3>1, <4>1 DEF Folders
    <3> QED
      BY <3>2, <3>3
  <2>3. ASSUME NEW x \in Folders(d, parent) PROVE x \in Folders(d2, parent)
    <3>1. PICK k \in Entries(d, parent) : t[k].folder /\ t[k].cluster = x
      BY DEF Folders
    <3> QED
      BY <1>4, <1>7, <2>1, <3>1 DEF Folders
  <2>4. N \subseteq Folders(d2, parent)
    BY <1>3, <1>4, <1>7 DEF Folders
  <2> QED
    BY <2>2, <2>3, <2>4
<1>9. ASSUME e.folder
      PROVE  /\ d2[e.cluster] = d[e.cluster] /\ TableAt(d2, e.cluster) = TableAt(d, e.cluster)
             /\ Entries(d2, e.cluster) = {} /\ Folders(d2, e.cluster) = {}
  <2>1. d2[e.cluster] = d[e.cluster] /\ TableAt(d2, e.cluster) = TableAt(d, e.cluster)
    BY <1>4, <1>5
  <2>2. \A k \in Indices \ {0, 1} : ~ TableAt(d, e.cluster)[k].used
    BY <1>9 DEF FreshEntry, EmptyEntry
  <2>3. Entries(d2, e.cluster) = {}
    BY <2>1, <2>2 DEF Entries
  <2> QED
    BY <2>1, <2>3 DEF Folders
<1>10. Formatted(d2)
  <2>1. TableAt(d2, ROOT_CLUSTER_NUMBER)[0] = TableAt(d, ROOT_CLUSTER_NUMBER)[0]
    BY <1>2, <1>3, <1>4, ClusterFacts DEF ROOT_CLUSTER_NUMBER
  <2> QED
    BY <1>1, <1>4, <2>1 DEF Formatted
<1>11. LiveDirs(d2) = LiveDirs(d) \cup N
  <2>1. \A c \in N : Folders(d2, c) = {}
    BY <1>9
  <2>2. \A c \in LiveDirs(d) : Folders(d2, c) \subseteq Folders(d, c) \cup N /\ Folders(d, c) \subseteq Folders(d2, c)
    BY <1>6, <1>8
  <2> HIDE DEF N
  <2>3. LiveDirs(d2) \subseteq LiveDirs(d) \cup N
    <3>1. \A c \in LiveDirs(d2) \cap LiveDirs(d) : Folders(d2, c) \subseteq Folders(d, c) \cup N
      BY <2>2
    <3>2. \A c \in N : Folders(d2, c) \subseteq LiveDirs(d) \cup N
      BY <2>1
    <3>3. d2 \in Disks
      BY <1>4
    <3> QED
      BY <1>1, <1>10, <3>1, <3>2, <3>3, DirsWithin
  <2>4. LiveDirs(d) \subseteq LiveDirs(d2) \cup {}
    BY <1>1, <1>4, <1>10, <2>2, DirsWithin
  <2>5. N \subseteq LiveDirs(d2)
    BY <1>4, <1>8, <2>4, LiveClosed
  <2> QED
    BY <2>3, <2>4, <2>5
<1>12. LivePlaces(d2) = LivePlaces(d) \cup {<<parent, i>>}
  <2>1. ASSUME NEW p \in LivePlaces(d2) PROVE p \in LivePlaces(d) \cup {<<parent, i>>}
    <3>1. p = <<p[1], p[2]>> /\ p[1] \in LiveDirs(d2) /\ p[2] \in Entries(d2, p[1])
      BY <1>4, PlaceFacts
    <3>2. p[1] \notin N
      BY <1>9, <3>1
    <3>3. p[1] \in LiveDirs(d)
      BY <1>11, <3>1, <3>2
    <3>4. CASE p = <<parent, i>>
      BY <3>4
    <3>5. CASE p # <<parent, i>>
      <4>1. p[2] \in Entries(d, p[1])
        BY <1>6, <1>7, <3>1, <3>3, <3>5
      <4>2. <<p[1], p[2]>> \in LivePlaces(d)
        BY <3>3, <4>1, PlaceFacts
      <4> QED
        BY <3>1, <4>2
    <3> QED
      BY <3>4, <3>5
  <2>2. ASSUME NEW p \in LivePlaces(d) PROVE p \in LivePlaces(d2)
    <3>1. p = <<p[1], p[2]>> /\ p[1] \in LiveDirs(d) /\ p[2] \in Entries(d, p[1])
      BY PlaceFacts
    <3>2. p[1] \in LiveDirs(d2) /\ p[2] \in Entries(d2, p[1])
      BY <1>6, <1>7, <1>11, <3>1
    <3> QED
      BY <1>4, <3>1, <3>2, PlaceFacts
  <2>3. <<parent, i>> \in LivePlaces(d2)
    BY <1>4, <1>7, <1>11, PlaceFacts
  <2> QED
    BY <2>1, <2>2, <2>3
<1>13. EntryAt(d2, <<parent, i>>) = e
  BY <1>3, <1>4 DEF EntryAt
<1>14. ASSUME NEW p \in LivePlaces(d)
       PROVE  /\ EntryAt(d2, p) = EntryAt(d, p) /\ PlaceOK(d2, p) /\ p # <<parent, i>>
              /\ ChainSet(FatOf(d2), EntryAt(d2, p).cluster) = ChainSet(m, EntryAt(d, p).cluster)
  <2>1. PlaceOK(d, p)
    BY DEF TreeOK
  <2>2. /\ p = <<p[1], p[2]>> /\ p[1] \in LiveDirs(d) /\ p[2] \in Entries(d, p[1])
        /\ p[1] \in Clusters /\ p[2] \in Indices
        /\ (EntryAt(d, p).folder => EntryAt(d, p).cluster \in LiveDirs(d))
    BY PlaceFacts
  <2>3. p # <<parent, i>>
    BY <2>2 DEF Entries
  <2>4. EntryAt(d2, p) = EntryAt(d, p)
    <3>1. CASE p[1] = parent
      BY <1>3, <1>4, <2>2, <2>3, <3>1 DEF EntryAt
    <3>2. CASE p[1] # parent
      BY <1>4, <2>2, <3>2 DEF EntryAt
    <3> QED
      BY <3>1, <3>2
  <2>5. EntryAt(d, p).folder =>
          \A k \in {0, 1} : TableAt(d2, EntryAt(d, p).cluster)[k] = TableAt(d, EntryAt(d, p).cluster)[k]
    <3>1. \A c \in LiveDirs(d) : \A k \in {0, 1} : TableAt(d2, c)[k] = TableAt(d, c)[k]
      BY <1>2, <1>3, <1>4, <1>6, ClusterFacts
    <3> QED
      BY <2>2, <3>1
  <2> QED
    BY <1>4, <2>1, <2>3, <2>4, <2>5, PlaceKept
<1>15. PlaceOK(d2, <<parent, i>>)
  <2>1. e.folder => TableAt(d2, e.cluster) = TableAt(d, e.cluster)
    BY <1>9
  <2>2. e.folder => /\ TableAt(d, e.cluster)[0].cluster = e.cluster
                    /\ TableAt(d, e.cluster)[0].name = e.name
                    /\ TableAt(d, e.cluster)[1].cluster = parent
    BY DEF FreshEntry, FolderEntry
  <2> QED
    BY <1>4, <1>13, <2>1, <2>2 DEF PlaceOK, FreshEntry
<1>16. \A c : InTree(d2, c) <=> InTree(d, c) \/ c \in ChainSet(m, e.cluster)
  BY <1>4, <1>12, <1>13, <1>14 DEF InTree
<1>17. \A p \in LivePlaces(d) : ChainSet(m, EntryAt(d, p).cluster) \cap ChainSet(m, e.cluster) = {}
  BY TreeFacts DEF FreshEntry
<1>18. TreeOK(d2)
  <2>1. ASSUME NEW c \in LiveDirs(d2) PROVE DirOK(d2, c)
    <3>1. CASE c \in LiveDirs(d) /\ c # parent
      <4>1. d2[c] = d[c] /\ TableAt(d2, c) = TableAt(d, c) /\ DirOK(d, c)
        BY <1>4, <3>1, LiveClosed DEF TreeOK
      <4> QED
        BY <4>1 DEF DirOK
    <3>2. CASE c = parent
      <4>1. DirOK(d, parent)
        BY DEF TreeOK
      <4>2. \A k \in {0, 1} : t2[k] = t[k] /\ t[k].used /\ t[k].folder
        BY <1>2, <1>3, <4>1, ClusterFacts DEF DirOK
      <4>3. \A k \in Indices : ~ t2[k].used => t2[k] = EmptyEntry
        BY <1>1, <1>3, <4>1 DEF DirOK
      <4> HIDE DEF t
      <4> QED
        BY <1>4, <3>2, <4>2, <4>3 DEF DirOK
    <3>3. CASE c \notin LiveDirs(d)
      <4>1. e.folder /\ c = e.cluster
        BY <1>11, <3>3
      <4>2. d2[c] = d[c] /\ TableAt(d2, c) = TableAt(d, c)
        BY <1>9, <4>1
      <4>3. TableAt(d, c)[0].used /\ TableAt(d, c)[0].folder
        BY <4>1 DEF FreshEntry, FolderEntry
      <4> QED
        BY <4>1, <4>2, <4>3 DEF DirOK, FreshEntry
    <3> QED
      BY <3>1, <3>2, <3>3
  <2>2. \A p \in LivePlaces(d2) : PlaceOK(d2, p)
    BY <1>12, <1>14, <1>15
  <2>3. ASSUME NEW p \in LivePlaces(d2), NEW q \in LivePlaces(d2), p # q
        PROVE  ChainSet(FatOf(d2), EntryAt(d2, p).cluster)
                 \cap ChainSet(FatOf(d2), EntryAt(d2, q).cluster) = {}
    <3>1. CASE p \in LivePlaces(d) /\ q \in LivePlaces(d)
      BY <1>14, <2>3, <3>1 DEF TreeOK
    <3>2. CASE p \in LivePlaces(d) /\ q = <<parent, i>>
      BY <1>4, <1>13, <1>14, <1>17, <3>2
    <3>3. CASE p = <<parent, i>> /\ q \in LivePlaces(d)
      BY <1>4, <1>13, <1>14, <1>17, <3>3
    <3> QED
      BY <1>12, <2>3, <3>1, <3>2, <3>3
  <2> QED
    BY <1>4, <1>10, <2>1, <2>2, <2>3 DEF TreeOK, Formatted
<1> QED
  BY <1>4, <1>12, <1>13, <1>14, <1>16, <1>18

(***************************************************************************)
(* The entry of a file, or of a folder with no used entry, is taken out of its       *)
(* directory.                                                               *)
(***************************************************************************)
LEMMA PlaceDropped ==
    ASSUME NEW d \in Disks, TreeOK(d), NEW d2, NEW parent, NEW i, NEW e, Drops(d, d2, parent, i, e)
    PROVE  /\ d2 \in Disks /\ TreeOK(d2) /\ FatOf(d2) = FatOf(d)
           /\ LivePlaces(d2) = LivePlaces(d) \ {<<parent, i>>}
           /\ \A p \in LivePlaces(d2) : EntryAt(d2, p) = EntryAt(d, p)
           /\ Good(FatOf(d), e.cluster)
           /\ \A c : InTree(d2, c) <=> InTree(d, c) /\ c \notin ChainSet(FatOf(d), e.cluster)
<1> DEFINE t == TableAt(d, parent)
           t2 == WithEntry(t, i, EmptyEntry)
           m == FatOf(d)
           N == IF e.folder THEN {e.cluster} ELSE {}
           gone == <<parent, i>>
<1>0. /\ parent \in LiveDirs(d) /\ i \in Entries(d, parent) /\ e = TableAt(d, parent)[i]
      /\ (e.folder => Entries(d, e.cluster) = {})
      /\ Written(d, d2, parent, Table(WithEntry(TableAt(d, parent), i, EmptyEntry)))
  BY DEF Drops
<1> USE <1>0
<1>1. parent \in Clusters /\ t \in Tables /\ Formatted(d) /\ i \in Indices /\ i \notin {0, 1} /\ e.used
  BY LiveClosed, DiskFacts, TreeFacts DEF Entries
<1>2. gone \in LivePlaces(d) /\ EntryAt(d, gone) = e
  BY PlaceFacts
<1>3. /\ t2 \in Tables /\ t2[i] = EmptyEntry /\ \A k \in Indices : k # i => t2[k] = t[k]
  BY <1>1, DiskFacts DEF Tables, WithEntry
<1>4. /\ d2 \in Disks
      /\ \A c \in Clusters : c # parent => d2[c] = d[c] /\ TableAt(d2, c) = TableAt(d, c)
      /\ d2[parent].kind = "table" /\ TableAt(d2, parent) = t2
      /\ FatOf(d2) = m /\ d2[BOOT_SECTOR] = d[BOOT_SECTOR]
  <2>1. Written(d, d2, parent, Table(t2))
    OBVIOUS
  <2> HIDE DEF t2
  <2> QED
    BY <1>3, <2>1, ParentWritten
<1> HIDE DEF t2
<1>5. /\ Good(m, e.cluster) /\ e.cluster \in ChainSet(m, e.cluster)
      /\ e.cluster # ROOT_CLUSTER_NUMBER /\ e.cluster \in Clusters
  <2>1. Good(m, e.cluster)
    BY <1>2 DEF TreeOK, PlaceOK
  <2> QED
    BY <2>1, GoodFacts, ClusterFacts DEF ROOT_CLUSTER_NUMBER
<1>6. e.folder => e.cluster # parent
  OBVIOUS
<1>7. \A c \in LiveDirs(d) : c # parent =>
         TableAt(d2, c) = TableAt(d, c) /\ Entries(d2, c) = Entries(d, c) /\ Folders(d2, c) = Folders(d, c)
  BY <1>4, LiveClosed DEF Entries, Folders
<1>8. Entries(d2, parent) = Entries(d, parent) \ {i}
  BY <1>1, <1>3, <1>4 DEF Entries, EmptyEntry
<1>9. Folders(d2, parent) \subseteq Folders(d, parent) /\ Folders(d, parent) \subseteq Folders(d2, parent) \cup N
  <2>1. \A k \in Entries(d2, parent) : k \in Entries(d, parent) /\ k # i /\ t2[k] = t[k]
    BY <1>3, <1>8 DEF Entries
  <2>2. ASSUME NEW x \in Folders(d2, parent) PROVE x \in Folders(d, parent)
    <3>1. PICK k \in Entries(d2, parent) : t2[k].folder /\ t2[k].cluster = x
      BY <1>4 DEF Folders
    <3> QED
      BY <2>1, <3>1 DEF Folders
  <2>3. ASSUME NEW x \in Folders(d, parent) PROVE x \in Folders(d2, parent) \cup N
    <3>1. PICK k \in Entries(d, parent) : t[k].folder /\ t[k].cluster = x
      BY DEF Folders
    <3>2. CASE k = i
      BY <3>1, <3>2
    <3>3. CASE k # i
      <4>1. k \in Entries(d2, parent) /\ t2[k] = t[k]
        BY <1>8, <2>1, <3>3
      <4> QED
        BY <1>4, <3>1, <4>1 DEF Folders
    <3> QED
      BY <3>2, <3>3
  <2> QED
    BY <2>2, <2>3
<1>10. Formatted(d2)
  <2>1. TableAt(d2, ROOT_CLUSTER_NUMBER)[0] = TableAt(d, ROOT_CLUSTER_NUMBER)[0]
    BY <1>1, <1>3, <1>4, ClusterFacts DEF ROOT_CLUSTER_NUMBER
  <2> QED
    BY <1>1, <1>4, <2>1 DEF Formatted
<1>11. LiveDirs(d2) \subseteq LiveDirs(d) /\ LiveDirs(d) \subseteq LiveDirs(d2) \cup N
  <2>1. \A c \in LiveDirs(d) : Folders(d2, c) \subseteq Folders(d, c) /\ Folders(d, c) \subseteq Folders(d2, c) \cup N
    BY <1>7, <1>9
  <2>2. \A c \in N : Folders(d, c) = {}
    BY DEF Folders
  <2> HIDE DEF N
  <2>3. d2 \in Disks
    BY <1>4
  <2>4. LiveDirs(d2) \subseteq LiveDirs(d) \cup {}
    BY <1>1, <1>10, <2>1, <2>3, DirsWithin
  <2>5. LiveDirs(d) \subseteq LiveDirs(d2) \cup N
    <3>1. \A c \in LiveDirs(d) \cap LiveDirs(d2) : Folders(d, c) \subseteq Folders(d2, c) \cup N
      BY <2>1
    <3>2. \A c \in N : Folders(d, c) \subseteq LiveDirs(d2) \cup N
      BY <2>2
    <3> QED
      BY <1>1, <1>10, <2>3, <3>1, <3>2, DirsWithin
  <2> QED
    BY <2>4, <2>5
<1>12. LivePlaces(d2) = LivePlaces(d) \ {gone}
  <2>1. ASSUME NEW p \in LivePlaces(d2) PROVE p \in LivePlaces(d) /\ p # gone
    <3>1. p = <<p[1], p[2]>> /\ p[1] \in LiveDirs(d2) /\ p[2] \in Entries(d2, p[1])
      BY <1>4, PlaceFacts
    <3>2. p[1] \in LiveDirs(d)
      BY <1>11, <3>1
    <3>3. p[2] \in Entries(d, p[1]) /\ (p[1] = parent => p[2] # i)
      BY <1>7, <1>8, <3>1, <3>2
    <3>4. <<p[1], p[2]>> \in LivePlaces(d)
      BY <3>2, <3>3, PlaceFacts
    <3> QED
      BY <3>1, <3>3, <3>4
  <2>2. ASSUME NEW p \in LivePlaces(d), p # gone PROVE p \in LivePlaces(d2)
    <3>1. p = <<p[1], p[2]>> /\ p[1] \in LiveDirs(d) /\ p[2] \in Entries(d, p[1])
      BY PlaceFacts
    <3>2. p[1] \notin N
      BY <3>1
    <3>3. p[1] \in LiveDirs(d2)
      BY <1>11, <3>1, <3>2
    <3>4. p[2] \in Entries(d2, p[1])
      BY <1>7, <1>8, <2>2, <3>1
    <3>5. <<p[1], p[2]>> \in LivePlaces(d2)
      BY <1>4, <3>3, <3>4, PlaceFacts
    <3> QED
      BY <3>1, <3>5
  <2> QED
    BY <2>1, <2>2
<1>13. ASSUME NEW p \in LivePlaces(d2) PROVE EntryAt(d2, p) = EntryAt(d, p)
  <2>1. p \in LivePlaces(d) /\ p # gone
    BY <1>12
  <2>2. p = <<p[1], p[2]>> /\ p[1] \in Clusters /\ p[2] \in Indices
    BY <2>1, PlaceFacts
  <2>3. CASE p[1] = parent
    BY <1>3, <1>4, <2>1, <2>2, <2>3 DEF EntryAt
  <2>4. CASE p[1] # parent
    BY <1>4, <2>2, <2>4 DEF EntryAt
  <2> QED
    BY <2>3, <2>4
<1>14. ASSUME NEW p \in LivePlaces(d2)
       PROVE  /\ PlaceOK(d2, p) /\ p \in LivePlaces(d)
              /\ ChainSet(FatOf(d2), EntryAt(d2, p).cluster) = ChainSet(m, EntryAt(d, p).cluster)
              /\ ChainSet(m, EntryAt(d, p).cluster) \cap ChainSet(m, e.cluster) = {}
  <2>1. p \in LivePlaces(d) /\ p # gone
    BY <1>12
  <2>2. PlaceOK(d, p)
    BY <2>1 DEF TreeOK
  <2>3. EntryAt(d, p).folder =>
          \A k \in {0, 1} : TableAt(d2, EntryAt(d, p).cluster)[k] = TableAt(d, EntryAt(d, p).cluster)[k]
    <3>1. \A c \in LiveDirs(d) : \A k \in {0, 1} : TableAt(d2, c)[k] = TableAt(d, c)[k]
      BY <1>1, <1>3, <1>4, <1>7, ClusterFacts
    <3>2. EntryAt(d, p).folder => EntryAt(d, p).cluster \in LiveDirs(d)
      BY <2>1, PlaceFacts
    <3> QED
      BY <3>1, <3>2
  <2>4. EntryAt(d2, p) = EntryAt(d, p) /\ \A c \in ChainSet(FatOf(d), EntryAt(d, p).cluster) : FatOf(d2)[c] = FatOf(d)[c]
    BY <1>4, <1>13
  <2>5. ChainSet(m, EntryAt(d, p).cluster) \cap ChainSet(m, EntryAt(d, gone).cluster) = {}
    BY <1>2, <2>1 DEF TreeOK
  <2> QED
    BY <1>2, <2>1, <2>2, <2>3, <2>4, <2>5, PlaceKept
<1>15. ASSUME NEW c PROVE InTree(d2, c) <=> InTree(d, c) /\ c \notin ChainSet(m, e.cluster)
  <2>1. ASSUME InTree(d2, c) PROVE InTree(d, c) /\ c \notin ChainSet(m, e.cluster)
    <3>1. PICK p \in LivePlaces(d2) : c \in ChainSet(FatOf(d2), EntryAt(d2, p).cluster)
      BY <2>1 DEF InTree
    <3> QED
      BY <1>14, <3>1 DEF InTree
  <2>2. ASSUME InTree(d, c), c \notin ChainSet(m, e.cluster) PROVE InTree(d2, c)
    <3>1. PICK p \in LivePlaces(d) : c \in ChainSet(m, EntryAt(d, p).cluster)
      BY <2>2 DEF InTree
    <3>2. p \in LivePlaces(d2)
      BY <1>2, <1>12, <2>2, <3>1
    <3> QED
      BY <1>14, <3>1, <3>2 DEF InTree
  <2> QED
    BY <2>1, <2>2
<1>16. TreeOK(d2)
  <2>1. ASSUME NEW c \in LiveDirs(d2) PROVE DirOK(d2, c)
    <3>1. c \in LiveDirs(d) /\ DirOK(d, c)
      BY <1>11 DEF TreeOK
    <3>2. CASE c # parent
      <4>1. d2[c] = d[c] /\ TableAt(d2, c) = TableAt(d, c)
        BY <1>4, <3>1, <3>2, LiveClosed
      <4> QED
        BY <3>1, <4>1 DEF DirOK
    <3>3. CASE c = parent
      <4>1. \A k \in {0, 1} : t2[k] = t[k] /\ t[k].used /\ t[k].folder
        BY <1>1, <1>3, <3>1, <3>3, ClusterFacts DEF DirOK
      <4>2. \A k \in Indices : ~ t2[k].used => t2[k] = EmptyEntry
        BY <1>1, <1>3, <3>1, <3>3 DEF DirOK
      <4> HIDE DEF t
      <4> QED
        BY <1>4, <3>3, <4>1, <4>2 DEF DirOK
    <3> QED
      BY <3>2, <3>3
  <2>2. \A p \in LivePlaces(d2) : PlaceOK(d2, p)
    BY <1>14
  <2>3. \A p, q \in LivePlaces(d2) :
          p # q => ChainSet(FatOf(d2), EntryAt(d2, p).cluster)
                    \cap ChainSet(FatOf(d2), EntryAt(d2, q).cluster) = {}
    BY <1>14 DEF TreeOK
  <2>4. FatOf(d2)[0] # FAT32_FAT_EMPTY_ENTRY /\ FatOf(d2)[1] # FAT32_FAT_EMPTY_ENTRY
    BY <1>4 DEF TreeOK
  <2> QED
    BY <1>10, <2>1, <2>2, <2>3, <2>4 DEF TreeOK, Formatted
<1> QED
  BY <1>4, <1>5, <1>12, <1>13, <1>15, <1>16

-----------------------------------------------------------------------------
(***************************************************************************)
(* The search for empty slots finds as many as are asked for, if there are that     *)
(* many: distinct ones, each empty in the cached table.                        *)
(***************************************************************************)
LEMMA SlotsFound ==
    ASSUME NEW n \in Nat
    PROVE  LET slots == count_empty_fat_slots(n) IN
           /\ slots \in Seq(EmptyFatSlots)
           /\ Len(slots) <= n /\ Len(slots) \in 0 .. CLUSTER_MAP_SIZE
           /\ \A j, k \in 1 .. Len(slots) : slots[j] = slots[k] => j = k
<1> DEFINE E == EmptyFatSlots
           Upto(c) == {b \in E : b <= c}
           rank(c) == Cardinality(Upto(c))
           N == Min({n, Cardinality(E)})
           slots == count_empty_fat_slots(n)
<1>1. E \in SUBSET Clusters /\ IsFiniteSet(E) /\ Cardinality(E) \in 0 .. CLUSTER_MAP_SIZE
  <2>1. E \in SUBSET Clusters
    BY DEF EmptyFatSlots
  <2>2. IsFiniteSet(E) /\ Cardinality(E) <= CLUSTER_MAP_SIZE
    BY <2>1, ClusterFacts, FS_Subset
  <2>3. Cardinality(E) \in Nat
    BY <2>2, FS_CardinalityType
  <2> QED
    BY <2>1, <2>2, <2>3, ClusterFacts
<1>2. N \in 0 .. CLUSTER_MAP_SIZE /\ N <= n /\ N <= Cardinality(E)
  <2>1. {n, Cardinality(E)} \in SUBSET Nat /\ {n, Cardinality(E)} # {}
    BY <1>1
  <2>2. N \in {n, Cardinality(E)} /\ \A y \in {n, Cardinality(E)} : N <= y
    BY <2>1, MinElement
  <2> HIDE DEF N
  <2> QED
    BY <1>1, <2>2, ClusterFacts
<1>3. slots = [j \in 1 .. N |-> CHOOSE c \in E : rank(c) = j]
  BY DEF count_empty_fat_slots
<1> HIDE DEF E, N, slots
<1>4. ASSUME NEW X \in SUBSET E PROVE IsFiniteSet(X) /\ Cardinality(X) \in Nat
  BY <1>1, FS_Subset, FS_CardinalityType
<1>e. \A b \in E : b \in Nat /\ b <= CLUSTER_MAP_SIZE - 1
  BY <1>1, ClusterFacts DEF Clusters
<1>c. \A k \in Clusters : k \in Nat /\ k <= CLUSTER_MAP_SIZE - 1
  BY ClusterFacts DEF Clusters
<1>5. ASSUME NEW j \in 1 .. N PROVE \E c \in E : rank(c) = j
  <2> DEFINE S == {k \in Clusters : rank(k) >= j}
             top == CLUSTER_MAP_SIZE - 1
             k0 == Min(S)
             before == {b \in E : b < k0}
  <2>1. Upto(top) = E
    BY <1>e
  <2>2. top \in S
    <3>1. top \in Clusters
      BY ClusterFacts DEF Clusters
    <3>2. rank(top) = Cardinality(E)
      BY <2>1
    <3>3. Cardinality(E) >= j
      BY <1>1, <1>2
    <3> HIDE DEF rank, top
    <3> QED
      BY <3>1, <3>2, <3>3
  <2>3. k0 \in S /\ \A y \in S : k0 <= y
    <3>1. S \in SUBSET Nat /\ S # {}
      BY <2>2, ClusterFacts
    <3> HIDE DEF S
    <3> QED
      BY <3>1, MinElement
  <2> HIDE DEF k0
  <2>k. k0 \in Nat /\ k0 \in Clusters
    BY <1>c, <2>3
  <2>4. Cardinality(before) < j /\ Cardinality(before) \in Nat
    <3>1. CASE k0 = 0
      <4>1. before = {}
        BY <1>e, <3>1
      <4> QED
        BY <4>1, FS_EmptySet
    <3>2. CASE k0 # 0
      <4>1. k0 - 1 \in Clusters /\ k0 - 1 \notin S
        BY <2>3, <3>2, ClusterFacts DEF Clusters
      <4>2. before = Upto(k0 - 1)
        BY <1>e, <2>k
      <4>3. rank(k0 - 1) \in Nat
        BY <1>4
      <4>4. ~ (rank(k0 - 1) >= j)
        BY <4>1
      <4> HIDE DEF before, rank
      <4>5. rank(k0 - 1) < j
        BY <4>3, <4>4
      <4> QED
        BY <4>2, <4>3, <4>5 DEF rank
    <3> QED
      BY <3>1, <3>2
  <2>5. k0 \in E
    <3> SUFFICES ASSUME k0 \notin E PROVE FALSE
      OBVIOUS
    <3>1. Upto(k0) = before
      BY <1>e, <2>k
    <3>2. rank(k0) >= j
      BY <2>3
    <3> QED
      BY <2>4, <3>1, <3>2
  <2>6. rank(k0) = Cardinality(before) + 1
    <3>1. Upto(k0) = before \cup {k0} /\ k0 \notin before
      <4>1. \A b \in E : b <= k0 <=> b < k0 \/ b = k0
        BY <1>e, <2>k
      <4>2. ~ (k0 < k0)
        BY <2>k
      <4> QED
        BY <2>5, <4>1, <4>2, Zenon
    <3>2. IsFiniteSet(before)
      BY <1>4
    <3> QED
      BY <3>1, <3>2, FS_AddElement
  <2>7. rank(k0) >= j
    BY <2>3
  <2> HIDE DEF rank, before
  <2>8. rank(k0) = j
    BY <2>4, <2>6, <2>7
  <2> QED
    BY <2>5, <2>8
<1> HIDE DEF rank
<1>6. ASSUME NEW j \in 1 .. N PROVE slots[j] \in E /\ rank(slots[j]) = j
  BY <1>3, <1>5
<1>7. slots \in [1 .. N -> E]
  BY <1>3, <1>6
<1>8. slots \in Seq(E) /\ Len(slots) = N
  BY <1>2, <1>7
<1>9. \A j, k \in 1 .. Len(slots) : slots[j] = slots[k] => j = k
  BY <1>6, <1>8
<1> QED
  BY <1>2, <1>8, <1>9 DEF E, slots
=============================================================================
