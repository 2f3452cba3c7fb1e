--------------------------- MODULE Overlay_proofs ---------------------------
(***************************************************************************)
(* Machine-checked proofs about Overlay, for every set of nodes, every      *)
(* topology.dat, and any number of processes, packets and stops.            *)
(***************************************************************************)
EXTENDS Overlay, FiniteSetTheorems, WellFoundedInduction, TLAPS

\* A set of numbers that is not empty has a least one.
LEMMA LeastExists ==
    ASSUME NEW T \in SUBSET Nat, T # {}
    PROVE  \E n \in T : \A m \in T : n <= m
<1> DEFINE Heads == {1..n : n \in T}
<1>1. Heads \subseteq FiniteSubsetsOf(Nat)
  <2>1. \A n \in T : IsFiniteSet(1..n) /\ 1..n \subseteq Nat
    BY FS_Interval
  <2> QED
    BY <2>1 DEF FiniteSubsetsOf
<1>2. PICK x \in Heads : \A y \in Heads : ~(<<y, x>> \in StrictSubsetOrdering(Nat))
  <2>1. Heads # {}
    OBVIOUS
  <2> QED
    BY <1>1, <2>1, WFMin, FS_StrictSubsetOrderingWellFounded
<1>3. PICK n \in T : x = 1..n
  OBVIOUS
<1>4. ASSUME NEW m \in T PROVE n <= m
  <2>1. ~(<<1..m, 1..n>> \in StrictSubsetOrdering(Nat))
    BY <1>2, <1>3
  <2>2. m < n => (1..m) \subseteq (1..n) /\ n \in 1..n /\ n \notin 1..m
    OBVIOUS
  <2> QED
    BY <2>1, <2>2 DEF StrictSubsetOrdering
<1> QED
  BY <1>4

-----------------------------------------------------------------------------
(* What a loop keeps of a sequence.                                         *)

\* After n rounds: the elements at the positions, in their order.
KeptOf(S, s, C, n, k) ==
    /\ k \in Seq(S)
    /\ \E at \in [1..Len(k) -> C \cap (1..n)] :
          /\ \A i \in 1..Len(k) : k[i] = s[at[i]]
          /\ \A i, j \in 1..Len(k) : i < j => at[i] < at[j]
          /\ \A x \in C \cap (1..n) : \E i \in 1..Len(k) : at[i] = x

KeptRun(s, C, n, kept) ==
    kept = [i \in 0..n |->
               IF i = 0 THEN << >>
               ELSE IF i \in C THEN Append(kept[i - 1], s[i]) ELSE kept[i - 1]]

\* The function that Kept() defines by recursion exists.
LEMMA KeptRuns ==
    ASSUME NEW s, NEW C, NEW N \in Nat
    PROVE  \E kept : KeptRun(s, C, N, kept)
<1> DEFINE Bad == {n \in Nat : ~ \E kept : KeptRun(s, C, n, kept)}
<1> SUFFICES ASSUME Bad # {} PROVE FALSE
  OBVIOUS
<1>1. PICK n \in Bad : \A m \in Bad : n <= m
  <2>1. Bad \subseteq Nat
    OBVIOUS
  <2> HIDE DEF Bad
  <2> QED
    BY <2>1, LeastExists
<1>2. n # 0
  <2>1. KeptRun(s, C, 0, [i \in 0..0 |-> << >>])
    BY DEF KeptRun
  <2> QED
    BY <2>1
<1>3. n - 1 \in Nat /\ n - 1 \notin Bad
  BY <1>1, <1>2
<1>4. PICK k : KeptRun(s, C, n - 1, k)
  BY <1>3
<1> DEFINE more == [i \in 0..n |->
                       IF i < n THEN k[i]
                       ELSE IF i \in C THEN Append(k[i - 1], s[i]) ELSE k[i - 1]]
<1>5. KeptRun(s, C, n, more)
  <2>1. ASSUME NEW i \in 0..n
        PROVE  more[i] = IF i = 0 THEN << >>
                         ELSE IF i \in C THEN Append(more[i - 1], s[i]) ELSE more[i - 1]
    <3>1. CASE i < n
      <4>1. n \in Nat /\ i \in 0..(n - 1) /\ (i # 0 => i - 1 \in 0..(n - 1))
        BY <3>1
      <4>2. k[i] = IF i = 0 THEN << >>
                   ELSE IF i \in C THEN Append(k[i - 1], s[i]) ELSE k[i - 1]
        BY <1>4, <4>1 DEF KeptRun
      <4>3. more[i] = k[i] /\ (i # 0 => more[i - 1] = k[i - 1])
        BY <3>1, <4>1
      <4> HIDE DEF more
      <4> QED
        BY <4>2, <4>3
    <3>2. CASE i = n
      BY <1>2, <3>2
    <3> QED
      BY <3>1, <3>2
  <2> QED
    BY <2>1 DEF KeptRun
<1> QED
  BY <1>5

LEMMA KeptStep ==
    ASSUME NEW S, NEW s \in Seq(S), NEW C, NEW n \in Nat, n + 1 \in 1..Len(s),
           NEW k, KeptOf(S, s, C, n, k)
    PROVE  KeptOf(S, s, C, n + 1, IF n + 1 \in C THEN Append(k, s[n + 1]) ELSE k)
<1>0. k \in Seq(S) /\ s[n + 1] \in S
  BY DEF KeptOf
<1>1. PICK at \in [1..Len(k) -> C \cap (1..n)] :
          /\ \A i \in 1..Len(k) : k[i] = s[at[i]]
          /\ \A i, j \in 1..Len(k) : i < j => at[i] < at[j]
          /\ \A x \in C \cap (1..n) : \E i \in 1..Len(k) : at[i] = x
  BY DEF KeptOf
<1>2. CASE n + 1 \notin C
  <2>1. C \cap (1..(n + 1)) = C \cap (1..n)
    BY <1>2
  <2> QED
    BY <1>0, <1>1, <1>2, <2>1 DEF KeptOf
<1>3. CASE n + 1 \in C
  <2> DEFINE new == Append(k, s[n + 1])
             to == [i \in 1..Len(new) |-> IF i <= Len(k) THEN at[i] ELSE n + 1]
  <2>1. /\ new \in Seq(S) /\ Len(new) = Len(k) + 1 /\ new[Len(k) + 1] = s[n + 1]
        /\ \A i \in 1..Len(k) : new[i] = k[i]
        /\ Len(k) \in Nat
    BY <1>0
  <2> HIDE DEF new
  <2>2. to \in [1..Len(new) -> C \cap (1..(n + 1))]
    BY <1>1, <1>3, <2>1
  <2>3. \A i \in 1..Len(new) : new[i] = s[to[i]]
    BY <1>1, <2>1
  <2>4. ASSUME NEW i \in 1..Len(new), NEW j \in 1..Len(new), i < j PROVE to[i] < to[j]
    <3>1. i \in 1..Len(k)
      BY <2>1, <2>4
    <3>2. at[i] \in 1..n
      BY <1>1, <3>1
    <3> QED
      BY <1>1, <2>1, <2>4, <3>1, <3>2
  <2>5. ASSUME NEW x \in C \cap (1..(n + 1)) PROVE \E i \in 1..Len(new) : to[i] = x
    <3>1. CASE x = n + 1
      <4>1. Len(new) \in 1..Len(new) /\ to[Len(new)] = x
        BY <2>1, <3>1
      <4> QED
        BY <4>1
    <3>2. CASE x \in C \cap (1..n)
      <4>1. PICK i \in 1..Len(k) : at[i] = x
        BY <1>1, <3>2
      <4>2. i \in 1..Len(new) /\ to[i] = x
        BY <2>1, <4>1
      <4> QED
        BY <4>2
    <3> QED
      BY <3>1, <3>2
  <2> HIDE DEF to
  <2>6. KeptOf(S, s, C, n + 1, new)
    BY <2>1, <2>2, <2>3, <2>4, <2>5 DEF KeptOf
  <2> QED
    BY <1>3, <2>6 DEF new
<1> QED
  BY <1>2, <1>3

LEMMA KeptFacts ==
    ASSUME NEW S, NEW s \in Seq(S), NEW C
    PROVE  KeptOf(S, s, C, Len(s), Kept(s, C))
<1>0. Len(s) \in Nat
  OBVIOUS
<1>1. \E kept : KeptRun(s, C, Len(s), kept)
  BY <1>0, KeptRuns
<1>2. PICK kept : KeptRun(s, C, Len(s), kept) /\ Kept(s, C) = kept[Len(s)]
  BY <1>1 DEF KeptRun, Kept
<1> DEFINE Bad == {n \in 0..Len(s) : ~KeptOf(S, s, C, n, kept[n])}
<1>3. Bad = {}
  <2> SUFFICES ASSUME Bad # {} PROVE FALSE
    OBVIOUS
  <2>1. PICK n \in Bad : \A m \in Bad : n <= m
    <3>1. Bad \subseteq Nat
      BY <1>0
    <3> HIDE DEF Bad
    <3> QED
      BY <3>1, LeastExists
  <2>2. n # 0
    <3>1. kept[0] = << >>
      BY <1>0, <1>2 DEF KeptRun
    <3>2. KeptOf(S, s, C, 0, << >>)
      <4> DEFINE at == [i \in 1..0 |-> 0]
      <4>1. at \in [1..Len(<< >>) -> C \cap (1..0)]
        OBVIOUS
      <4>2. << >> \in Seq(S) /\ Len(<< >>) = 0 /\ 1..0 = {}
        OBVIOUS
      <4> HIDE DEF at
      <4> QED
        BY <4>1, <4>2 DEF KeptOf
    <3> QED
      BY <3>1, <3>2
  <2>3. n - 1 \in Nat /\ n - 1 \notin Bad /\ n \in 1..Len(s)
    BY <1>0, <2>1, <2>2
  <2>4. KeptOf(S, s, C, n - 1, kept[n - 1])
    BY <1>0, <2>3
  <2>5. kept[n] = IF n \in C THEN Append(kept[n - 1], s[n]) ELSE kept[n - 1]
    <3>1. n \in 0..Len(s)
      BY <1>0, <2>3
    <3> QED
      BY <1>2, <2>2, <3>1 DEF KeptRun
  <2>6. KeptOf(S, s, C, (n - 1) + 1, IF (n - 1) + 1 \in C THEN Append(kept[n - 1], s[(n - 1) + 1])
                                     ELSE kept[n - 1])
    BY <2>3, <2>4, KeptStep
  <2> QED
    BY <1>0, <2>3, <2>5, <2>6
<1> QED
  BY <1>0, <1>2, <1>3

LEMMA IntervalCount ==
    ASSUME NEW n \in Nat
    PROVE  IsFiniteSet(1..n) /\ Cardinality(1..n) = n
<1>1. n \in Int /\ 1 \in Int
  OBVIOUS
<1>3. \A b \in Int : Cardinality(1..b) = IF 1 > b THEN 0 ELSE b - 1 + 1
  BY Zenon, <1>1, FS_Interval
<1>2. IsFiniteSet(1..n)
  BY FS_Interval
<1> QED
  BY <1>2, <1>3

\* It keeps as many as there are positions.
LEMMA KeptCount ==
    ASSUME NEW S, NEW s \in Seq(S), NEW C \in SUBSET (1..Len(s))
    PROVE  IsFiniteSet(C) /\ Len(Kept(s, C)) = Cardinality(C)
<1> DEFINE k == Kept(s, C)
<1>0. Len(s) \in Nat /\ k \in Seq(S) /\ C \cap (1..Len(s)) = C
  BY KeptFacts DEF KeptOf
<1>1. PICK at \in [1..Len(k) -> C] :
          /\ \A i, j \in 1..Len(k) : i < j => at[i] < at[j]
          /\ \A x \in C : \E i \in 1..Len(k) : at[i] = x
  BY <1>0, KeptFacts DEF KeptOf
<1> HIDE DEF k
<1>2. Len(k) \in Nat
  BY <1>0
<1>3. at \in Injection(1..Len(k), C)
  <2>1. ASSUME NEW i \in 1..Len(k), NEW j \in 1..Len(k), at[i] = at[j] PROVE i = j
    <3>1. at[i] \in Nat /\ at[j] \in Nat
      BY <1>0, <1>1
    <3> QED
      BY <1>1, <1>2, <2>1, <3>1
  <2> QED
    BY <2>1 DEF Injection, IsInjective
<1>4. at \in Bijection(1..Len(k), C)
  BY <1>1, <1>3 DEF Bijection, Surjection
<1>5. ExistsBijection(1..Len(k), C)
  BY <1>4 DEF ExistsBijection
<1>6. IsFiniteSet(1..Len(k)) /\ Cardinality(1..Len(k)) = Len(k)
  BY <1>2, IntervalCount
<1> QED
  BY <1>5, <1>6, FS_Bijection DEF k

-----------------------------------------------------------------------------
(* The neighbor table and the queries of the topology.                      *)

LEMMA FunctionIsSeq ==
    ASSUME NEW E, NEW n \in Nat, NEW f \in [1..n -> E]
    PROVE  f \in Seq(E) /\ Len(f) = n
OBVIOUS

LEMMA SeqElements ==
    ASSUME NEW E, NEW s \in Seq(E)
    PROVE  Len(s) \in Nat /\ DOMAIN s = 1..Len(s) /\ \A i \in 1..Len(s) : s[i] \in E
OBVIOUS

LEMMA FileFacts ==
    ASSUME NEW file \in Files
    PROVE  /\ file \in Seq(Nodes \X Nodes \X Nat) /\ Len(file) \in 0..LineBound
           /\ \A i \in 1..Len(file) : /\ file[i] \in Nodes \X Nodes \X Nat
                                      /\ file[i][1] \in Nodes /\ file[i][2] \in Nodes
                                      /\ file[i][3] \in Nat
<1>1. file \in Seq(Nodes \X Nodes \X Nat) /\ Len(file) <= LineBound
  BY OverlayConstants
<1>2. \A i \in 1..Len(file) : file[i] \in Nodes \X Nodes \X Nat
  BY <1>1
<1>3. Len(file) \in Nat
  BY <1>1
<1> QED
  BY <1>1, <1>2, <1>3, OverlayConstants

\* at[i] is the line of entry i.
TableAt(file, n, at) ==
    LET table == nt_create(file, n)
    IN  /\ at \in [1..Len(table) -> LinesOf(file, n)]
        /\ \A i \in 1..Len(table) :
              table[i].nodeID = OtherNode(file[at[i]], n) /\ table[i].conn = NoConn
        /\ \A i, j \in 1..Len(table) : at[i] = at[j] => i = j
        /\ \A x \in LinesOf(file, n) : \E i \in 1..Len(table) : at[i] = x

LEMMA TableFacts ==
    ASSUME NEW file \in Files, NEW n \in Nodes
    PROVE  /\ \E at : TableAt(file, n, at)
           /\ nt_create(file, n) \in Seq([nodeID : Nodes, conn : {NoConn}])
           /\ Len(nt_create(file, n)) = Cardinality(LinesOf(file, n))
           /\ IsFiniteSet(LinesOf(file, n))
           /\ Len(nt_create(file, n)) \in 0..Len(file)
           /\ Len(topology_getNbrArray(file, n)) = Len(nt_create(file, n))
           /\ topology_getNbrArray(file, n) =
                 [i \in 1..Len(nt_create(file, n)) |-> nt_create(file, n)[i].nodeID]
<1> DEFINE Line == Nodes \X Nodes \X Nat
           C == LinesOf(file, n)
           k == Kept(file, C)
           table == nt_create(file, n)
<1>0. file \in Seq(Line) /\ Len(file) \in Nat /\ C \in SUBSET (1..Len(file)) /\ C \cap (1..Len(file)) = C
  BY FileFacts DEF LinesOf
<1>1. k \in Seq(Line) /\ Len(k) = Cardinality(C) /\ IsFiniteSet(C) /\ Len(k) \in Nat
  BY <1>0, KeptFacts, KeptCount DEF KeptOf
<1>2. PICK at \in [1..Len(k) -> C] :
          /\ \A i \in 1..Len(k) : k[i] = file[at[i]]
          /\ \A i, j \in 1..Len(k) : i < j => at[i] < at[j]
          /\ \A x \in C : \E i \in 1..Len(k) : at[i] = x
  <2>1. KeptOf(Line, file, C, Len(file), k)
    BY <1>0, KeptFacts
  <2> HIDE DEF k, C, table
  <2> QED
    BY <1>0, <2>1 DEF KeptOf
<1>3. table = [i \in 1..Len(k) |-> [nodeID |-> OtherNode(k[i], n), conn |-> NoConn]]
  BY DEF nt_create
<1>4. topology_getNbrArray(file, n) = [i \in 1..Len(k) |-> OtherNode(k[i], n)]
  BY DEF topology_getNbrArray
<1> HIDE DEF k, table
<1>5. \A i \in 1..Len(k) : OtherNode(k[i], n) \in Nodes
  <2>1. \A i \in 1..Len(k) : k[i] \in Line
    BY <1>1
  <2> QED
    BY <2>1 DEF OtherNode
<1>6. table \in Seq([nodeID : Nodes, conn : {NoConn}]) /\ Len(table) = Len(k)
  <2>1. \A i \in 1..Len(k) : [nodeID |-> OtherNode(k[i], n), conn |-> NoConn] \in [nodeID : Nodes, conn : {NoConn}]
    BY <1>5
  <2> QED
    <3> DEFINE E == [nodeID : Nodes, conn : {NoConn}]
    <3>1. table \in [1..Len(k) -> E]
      BY <1>3, <2>1
    <3> HIDE DEF E
    <3>2. table \in Seq(E) /\ Len(table) = Len(k)
      BY <1>1, <3>1, FunctionIsSeq
    <3> QED
      BY <3>2 DEF E
<1>7. ASSUME NEW i \in 1..Len(table)
      PROVE  table[i].nodeID = OtherNode(file[at[i]], n) /\ table[i].conn = NoConn
  <2>1. i \in 1..Len(k) /\ k[i] = file[at[i]]
    BY <1>2, <1>6
  <2>2. table[i] = [nodeID |-> OtherNode(k[i], n), conn |-> NoConn]
    BY <1>3, <2>1
  <2> QED
    BY <2>1, <2>2
<1>8. ASSUME NEW i \in 1..Len(table), NEW j \in 1..Len(table), at[i] = at[j] PROVE i = j
  <2>1. at[i] \in Nat /\ at[j] \in Nat
    <3>1. at[i] \in C /\ at[j] \in C
      BY <1>2, <1>6
    <3> HIDE DEF C
    <3> QED
      BY <1>0, <3>1
  <2>2. ~(at[i] < at[j]) /\ ~(at[j] < at[i])
    BY <1>8, <2>1
  <2>3. i \in 1..Len(k) /\ j \in 1..Len(k)
    BY <1>6
  <2>4. ~(i < j) /\ ~(j < i)
    BY <1>2, <2>2, <2>3
  <2> QED
    BY <1>1, <2>3, <2>4
<1>9. TableAt(file, n, at)
  BY <1>2, <1>6, <1>7, <1>8 DEF TableAt, table
<1>10. Len(k) <= Len(file)
  <2>1. IsFiniteSet(1..Len(file)) /\ Cardinality(1..Len(file)) = Len(file)
    BY <1>0, IntervalCount
  <2> QED
    BY <1>0, <1>1, <2>1, FS_Subset
<1>11. Len(topology_getNbrArray(file, n)) = Len(k)
  BY <1>1, <1>4
<1>12. topology_getNbrArray(file, n) = [i \in 1..Len(table) |-> table[i].nodeID]
  BY <1>3, <1>4, <1>6
<1> QED
  BY <1>0, <1>1, <1>6, <1>9, <1>10, <1>11, <1>12 DEF table

\* The lines that join two nodes, and how often one finds the other.
LinesTo(file, n, m) == {i \in LinesOf(file, n) : OtherNode(file[i], n) = m}

Lists(at, N, C) ==
    /\ N \in Nat /\ at \in [1..N -> C]
    /\ \A i, j \in 1..N : at[i] = at[j] => i = j
    /\ \A x \in C : \E i \in 1..N : at[i] = x

LEMMA IndexCount ==
    ASSUME NEW N, NEW C, NEW at, Lists(at, N, C), NEW D, D \subseteq C,
           NEW I, I = {i \in 1..N : at[i] \in D}
    PROVE  Cardinality(I) = Cardinality(D) /\ IsFiniteSet(D)
<1> USE DEF Lists
<1> DEFINE f == [i \in I |-> at[i]]
<1>1. f \in Injection(I, D)
  BY DEF Injection, IsInjective
<1>2. f \in Surjection(I, D)
  <2>1. ASSUME NEW x \in D PROVE \E i \in I : f[i] = x
    <3>1. PICK i \in 1..N : at[i] = x
      OBVIOUS
    <3> QED
      BY <3>1
  <2>2. f \in [I -> D]
    OBVIOUS
  <2> QED
    BY <2>1, <2>2 DEF Surjection
<1>3. ExistsBijection(I, D)
  BY <1>1, <1>2 DEF ExistsBijection, Bijection
<1>4. IsFiniteSet(I)
  BY IntervalCount, FS_Subset
<1> QED
  BY <1>3, <1>4, FS_Bijection

LEMMA TimesCount ==
    ASSUME NEW file \in Files, NEW n \in Nodes, NEW m \in Nodes
    PROVE  Times(topology_getNbrArray(file, n), m) = Cardinality(LinesTo(file, n, m))
<1> DEFINE table == nt_create(file, n)
           mine == topology_getNbrArray(file, n)
<1>1. PICK at : TableAt(file, n, at)
  BY TableFacts
<1>2. /\ Len(table) \in Nat /\ Len(mine) = Len(table)
      /\ mine = [i \in 1..Len(table) |-> table[i].nodeID]
  BY TableFacts
<1>3. /\ at \in [1..Len(table) -> LinesOf(file, n)]
      /\ \A i \in 1..Len(table) : table[i].nodeID = OtherNode(file[at[i]], n)
      /\ \A i, j \in 1..Len(table) : at[i] = at[j] => i = j
      /\ \A x \in LinesOf(file, n) : \E i \in 1..Len(table) : at[i] = x
  BY <1>1 DEF TableAt
<1> HIDE DEF table, mine
<1>4. {i \in 1..Len(mine) : mine[i] = m} = {i \in 1..Len(table) : at[i] \in LinesTo(file, n, m)}
  BY <1>2, <1>3 DEF LinesTo
<1>5. LinesTo(file, n, m) \in SUBSET LinesOf(file, n)
  BY DEF LinesTo
<1>6. Cardinality({i \in 1..Len(table) : at[i] \in LinesTo(file, n, m)}) = Cardinality(LinesTo(file, n, m))
  <2> DEFINE N == Len(table)
             C == LinesOf(file, n)
             D == LinesTo(file, n, m)
  <2>1. Lists(at, N, C) /\ D \subseteq C
    BY <1>2, <1>3, <1>5 DEF Lists
  <2> DEFINE I == {i \in 1..N : at[i] \in D}
  <2>2. I = {i \in 1..N : at[i] \in D}
    OBVIOUS
  <2> HIDE DEF N, C, D, I
  <2>3. Cardinality(I) = Cardinality(D)
    BY <2>1, <2>2, IndexCount
  <2> QED
    BY <2>3 DEF N, D, I
<1> QED
  BY <1>4, <1>6 DEF Times, mine

LEMMA LinesBothWays ==
    ASSUME NEW file \in Files, NEW n \in Nodes, NEW m \in Nodes
    PROVE  /\ LinesTo(file, n, m) = LinesTo(file, m, n)
           /\ n # m => LinesTo(file, n, m) = {i \in 1..Len(file) : Joins(file[i], n, m)}
<1>1. \A i \in 1..Len(file) : file[i][1] \in Nodes /\ file[i][2] \in Nodes
  BY FileFacts
<1>2. \A i \in 1..Len(file) : Joins(file[i], n, m) <=>
          \/ file[i][1] = n /\ file[i][2] = m
          \/ file[i][1] = m /\ file[i][2] = n
  BY DEF Joins
<1>3. CASE n = m
  BY <1>3
<1>4. CASE n # m
  <2>1. \A i \in 1..Len(file) : i \in LinesTo(file, n, m) <=> Joins(file[i], n, m)
    BY <1>2, <1>4 DEF LinesTo, LinesOf, OtherNode
  <2>2. \A i \in 1..Len(file) : i \in LinesTo(file, m, n) <=> Joins(file[i], n, m)
    BY <1>2, <1>4 DEF LinesTo, LinesOf, OtherNode
  <2>3. LinesTo(file, n, m) \subseteq 1..Len(file) /\ LinesTo(file, m, n) \subseteq 1..Len(file)
    BY DEF LinesTo, LinesOf
  <2> QED
    BY <2>1, <2>2, <2>3
<1> QED
  BY <1>3, <1>4

-----------------------------------------------------------------------------
(* The start of the overlay processes: the invariant.                       *)

Up(n) == main[n] \notin {"off", "down"}

WireShape ==
    /\ links \in Files
    /\ DOMAIN wire = ConnsOf(links)
    /\ \A c \in ConnsOf(links) : DOMAIN wire[c] = EndsOf(links, c)

StartTypes ==
    /\ main \in [Nodes -> {"off", "connect", "join", "serve", "down"}]
    /\ waitNbrs \in [Nodes -> {"off", "bind", "listen", "done"}]
    /\ idx \in [Nodes -> Nat] /\ counter \in [Nodes -> 0..LineBound]
    /\ nt \in [Nodes -> Seq([nodeID : Nodes, conn : ConnsOf(links) \cup {NoConn}])]
    /\ backlog \in [Nodes -> Seq(ConnsOf(links))]

\* How far a process is, and what its table then is.
Life(n) ==
    /\ main[n] = "off" <=> waitNbrs[n] = "off"
    /\ main[n] \in {"serve", "down"} => waitNbrs[n] = "done"
    /\ waitNbrs[n] = "listen" => counter[n] > 0
    /\ waitNbrs[n] = "done" => counter[n] = 0
    /\ ~Up(n) => nt[n] = << >> /\ backlog[n] = << >> /\ idx[n] = 0
    /\ Up(n) =>
          /\ Len(nt[n]) = Len(nt_create(links, n))
          /\ \A i \in Entries(n) : nt[n][i].nodeID = nt_create(links, n)[i].nodeID
          /\ idx[n] \in 1..(Len(nt[n]) + 1)

\* A connection in a table joins its node and the one the entry names, and only
\* the first entry for a node has one.
TableConns(n) ==
    \A i \in Entries(n) : nt[n][i].conn # NoConn =>
        /\ EndsOf(links, nt[n][i].conn) = {n, nt[n][i].nodeID} /\ nt[n][i].nodeID # n
        /\ \A j \in 1..(i - 1) : nt[n][j].nodeID # nt[n][i].nodeID

\* A connection not accepted yet was asked for by another node, which is past
\* its entry; those of one node are in the order of its entries.
Asked(m) ==
    \A j \in 1..Len(backlog[m]) :
        LET c == backlog[m][j]
        IN  /\ m \in EndsOf(links, c) /\ c[1] # m
            /\ main[c[1]] # "down" => c[2] < idx[c[1]]
            /\ \A k \in 1..(j - 1) : backlog[m][k][1] = c[1] => backlog[m][k][2] < c[2]

\* The connections that m may still accept are no more than it waits for.
Coming(m) ==
    {c \in ConnsOf(links) :
        /\ m \in EndsOf(links, c) /\ c[1] # m
        /\ \/ \E j \in 1..Len(backlog[m]) : backlog[m][j] = c
           \/ main[c[1]] # "down" /\ idx[c[1]] <= c[2]}
Expected(m) == Up(m) => IsFiniteSet(Coming(m)) /\ Cardinality(Coming(m)) <= counter[m]

\* The entries for m before entry i of a table, and the entries of which n asked
\* for the connections of a backlog.
Made(table, i, m) == {e \in 1..(i - 1) : e \in 1..Len(table) /\ table[e].nodeID = m}
Waiting(q, n) == {q[j][2] : j \in {k \in 1..Len(q) : q[k][1] = n}}

\* A table has, for the node o, the last of the connections <<n, i>>, i in S.
HasLast(table, o, n, S) ==
    /\ \A e \in 1..Len(table) : table[e].nodeID = o /\ table[e].conn # NoConn =>
          \E i \in S : table[e].conn = <<n, i>> /\ \A x \in S : x <= i
    /\ S # {} => \E e \in 1..Len(table) : table[e].nodeID = o /\ table[e].conn # NoConn

LastConns(n, m) ==
    LET made == Made(nt[n], idx[n], m)
        waiting == Waiting(backlog[m], n)
    IN  main[n] # "down" /\ m < n =>
            /\ HasLast(nt[n], m, n, made)
            /\ main[m] # "down" =>
                  /\ waiting \subseteq made
                  /\ \A x \in waiting, y \in made \ waiting : y < x
                  /\ HasLast(nt[m], n, n, made \ waiting)

StartInv ==
    /\ StartTypes
    /\ \A n \in Nodes : Life(n) /\ TableConns(n) /\ Asked(n) /\ Expected(n)
    /\ \A n, m \in Nodes : LastConns(n, m)

-----------------------------------------------------------------------------
(* The start of the overlay processes: the steps.                           *)

LEMMA ConnFacts ==
    ASSUME NEW file \in Files, NEW c \in ConnsOf(file)
    PROVE  LET id == nt_create(file, c[1])[c[2]].nodeID
           IN  /\ c = <<c[1], c[2]>> /\ c[1] \in Nodes /\ c[1] \in Nat \ {0}
               /\ c[2] \in 1..Len(nt_create(file, c[1])) /\ c[2] \in Nat \ {0}
               /\ EndsOf(file, c) = {c[1], id} /\ id \in Nodes /\ id \in Nat \ {0} /\ id < c[1]
               /\ c # NoConn
<1>1. /\ c \in Nodes \X (1..Len(file)) /\ c[2] <= Len(nt_create(file, c[1]))
      /\ nt_create(file, c[1])[c[2]].nodeID < c[1]
  BY DEF ConnsOf
<1>2. c[1] \in Nodes /\ c[2] \in 1..Len(file) /\ c = <<c[1], c[2]>>
  BY <1>1
<1>3. c[2] \in 1..Len(nt_create(file, c[1])) /\ c[2] \in Nat \ {0}
  BY <1>1, <1>2, FileFacts
<1>4. nt_create(file, c[1])[c[2]].nodeID \in Nodes
  <2>1. nt_create(file, c[1]) \in Seq([nodeID : Nodes, conn : {NoConn}])
    BY <1>2, TableFacts
  <2>2. nt_create(file, c[1])[c[2]] \in [nodeID : Nodes, conn : {NoConn}]
    BY <1>3, <2>1, SeqElements
  <2> QED
    BY <2>2
<1>5. Nodes \subseteq Nat \ {0}
  BY OverlayConstants
<1>6. c # NoConn
  BY <1>2, <1>5 DEF NoConn
<1> QED
  BY <1>1, <1>2, <1>3, <1>4, <1>5, <1>6 DEF EndsOf

\* A conn of a table is set in the first entry for the node.
FirstSet(table, id, c, new) ==
    /\ Len(new) = Len(table)
    /\ \A i \in 1..Len(table) : new[i].nodeID = table[i].nodeID
    /\ \/ new = table /\ \A i \in 1..Len(table) : table[i].nodeID # id
       \/ \E f \in 1..Len(table) :
             /\ table[f].nodeID = id /\ new[f].conn = c
             /\ \A i \in 1..(f - 1) : table[i].nodeID # id
             /\ \A i \in 1..Len(table) : i # f => new[i] = table[i]

LEMMA AddConn ==
    ASSUME NEW X, NEW table \in Seq([nodeID : Nodes, conn : X]), NEW id, NEW c \in X
    PROVE  /\ nt_addconn(table, id, c) \in Seq([nodeID : Nodes, conn : X])
           /\ FirstSet(table, id, c, nt_addconn(table, id, c))
<1> DEFINE E == [nodeID : Nodes, conn : X]
           found == {i \in 1..Len(table) : table[i].nodeID = id}
           f == Min(found)
           new == [table EXCEPT ![f].conn = c]
<1>1. CASE found = {}
  BY <1>1 DEF nt_addconn, FirstSet
<1>2. CASE found # {}
  <2>0. Len(table) \in Nat /\ \A i \in 1..Len(table) : table[i] \in E
    BY SeqElements
  <2>1. \E n \in found : \A m \in found : n <= m
    <3>1. found \in SUBSET Nat
      BY <2>0
    <3> HIDE DEF found
    <3> QED
      BY <1>2, <3>1, LeastExists
  <2>2. f \in found /\ \A m \in found : f <= m
    BY <2>1 DEF Min
  <2> HIDE DEF f
  <2>3. f \in 1..Len(table) /\ table[f].nodeID = id
    BY <2>2
  <2>4. \A i \in 1..(f - 1) : table[i].nodeID # id
    BY <2>0, <2>2, <2>3
  <2>5. /\ new \in Seq(E) /\ Len(new) = Len(table)
        /\ \A i \in 1..Len(table) : i # f => new[i] = table[i]
        /\ new[f] = [table[f] EXCEPT !.conn = c]
    BY <2>0, <2>3
  <2>6. new[f].conn = c /\ new[f].nodeID = table[f].nodeID
    BY <2>0, <2>3, <2>5
  <2> HIDE DEF new
  <2>7. \A i \in 1..Len(table) : new[i].nodeID = table[i].nodeID
    BY <2>3, <2>5, <2>6
  <2>8. FirstSet(table, id, c, new)
    BY <2>3, <2>4, <2>5, <2>6, <2>7 DEF FirstSet
  <2>9. nt_addconn(table, id, c) = new
    BY <1>2 DEF nt_addconn, f, new
  <2> QED
    BY <2>5, <2>8, <2>9
<1> QED
  BY <1>1, <1>2

\* A step of the start, and what it is to all the others.
StartStep(n) ==
    \/ Start(n) \/ Listen(n) \/ AcceptNbr(n) \/ ConnectMade(n) \/ ConnectRefused(n)
    \/ ConnectNext(n) \/ StartListeners(n) \/ OverlayEnds(n)

LEMMA StartKinds ==
    ASSUME [Next]_vars
    PROVE  links' = links /\ (UNCHANGED startVars \/ \E n \in Nodes : StartStep(n))
<1> DEFINE Goal == links' = links /\ (UNCHANGED startVars \/ \E n \in Nodes : StartStep(n))
<1> SUFFICES Goal
  OBVIOUS
<1>1. CASE UNCHANGED vars
  BY <1>1 DEF vars, startVars
<1>2. ASSUME NEW n \in Nodes, mainThread(n) PROVE Goal
  <2>1. CASE Start(n)
    BY <2>1, Zenon DEF Start, StartStep
  <2>2. CASE connectNbrs(n)
    BY <2>2, Zenon DEF connectNbrs, ConnectMade, ConnectRefused, ConnectNext, StartStep
  <2>3. CASE StartListeners(n)
    BY <2>3, Zenon DEF StartListeners, StartStep
  <2>4. CASE AcceptNetwork(n) \/ getpktToSend(n) \/ sendpkt(n) \/ CloseNetwork(n)
    BY <2>4, Zenon DEF AcceptNetwork, getpktToSend, sendpkt, CloseNetwork
  <2>5. CASE sendpkt_Killed(n)
    BY <2>5, Zenon DEF sendpkt_Killed, KilledBySend, StartStep, OverlayEnds
  <2> QED
    BY <1>2, <2>1, <2>2, <2>3, <2>4, <2>5 DEF mainThread, waitNetwork
<1>3. ASSUME NEW n \in Nodes, waitNbrsThread(n) PROVE Goal
  BY <1>3 DEF waitNbrsThread, Listen, AcceptNbr, StartStep
<1>4. ASSUME NEW n \in Nodes, NEW i \in 1..LineBound, listen_to_neighbor(n, i) PROVE Goal
  <2>1. CASE recvpkt(n, i) \/ recvpkt_Fails(n, i) \/ ForwardLost(n, i)
    BY <2>1 DEF recvpkt, recvpkt_Fails, ForwardLost
  <2>2. CASE forwardpktToMNP(n, i)
    <3>1. CASE KilledBySend(n)
      BY <3>1, Zenon DEF KilledBySend, StartStep, OverlayEnds
    <3>2. CASE ~KilledBySend(n)
      BY <2>2, <3>2, Zenon DEF forwardpktToMNP
    <3> QED
      BY <3>1, <3>2
  <2> QED
    BY <1>4, <2>1, <2>2 DEF listen_to_neighbor
<1>5. ASSUME NEW n \in Nodes, connectToOverlay(n) \/ routeupdate_daemon(n) \/ waitTransport(n) \/ pkthandler(n)
      PROVE  Goal
  BY <1>5, Zenon DEF connectToOverlay, routeupdate_daemon, waitTransport, overlay_sendpkt, pkthandler,
              overlay_recvpkt, LosesOverlay
<1>6. ASSUME NEW n \in Nodes,
             overlay_stop(n) \/ network_stop(n) \/ overlay_sendpkt_Killed(n) \/ MainReturns(n)
      PROVE  Goal
  BY <1>6, Zenon DEF overlay_stop, network_stop, overlay_sendpkt_Killed, MainReturns, ProcessEnds, OverlayEnds,
              StartStep
<1> QED
  BY <1>1, <1>2, <1>3, <1>4, <1>5, <1>6 DEF Next

LEMMA ShapeKept ==
    ASSUME WireShape, [Next]_vars
    PROVE  WireShape'
<1>0. links' = links
  BY StartKinds
<1> DEFINE Same == DOMAIN wire' = DOMAIN wire /\ \A c \in DOMAIN wire : DOMAIN wire'[c] = DOMAIN wire[c]
<1>1. SUFFICES Same
  BY <1>0, <1>1 DEF WireShape
<1>2. CASE UNCHANGED wire
  BY <1>2
<1>3. ASSUME NEW n \in Nodes, OverlayEnds(n) PROVE Same
  <2>1. DOMAIN wire' = Conns /\ \A c \in Conns : DOMAIN wire'[c] = Ends(c)
    <3>1. PICK reset \in BOOLEAN :
              wire' = [c \in Conns |-> [m \in Ends(c) |->
                          IF n \notin Ends(c) THEN wire[c][m]
                          ELSE IF m = n THEN << >>
                          ELSE Cut(wire[c][n], wire[c][m], reset)]]
      BY <1>3, Zenon DEF OverlayEnds
    <3> QED
      BY <3>1
  <2> QED
    BY <2>1 DEF Conns, Ends
<1>4. ASSUME NEW c, NEW n, NEW q, wire' = [wire EXCEPT ![c][n] = q] PROVE Same
  <2>1. DOMAIN wire' = DOMAIN wire
    BY <1>4
  <2>2. ASSUME NEW d \in DOMAIN wire PROVE DOMAIN wire'[d] = DOMAIN wire[d]
    BY <1>4
  <2> QED
    BY <2>1, <2>2
<1> HIDE DEF Same
<1>5. ASSUME NEW n \in Nodes, mainThread(n) PROVE Same
  <2>1. CASE Start(n) \/ connectNbrs(n) \/ StartListeners(n) \/ AcceptNetwork(n) \/ getpktToSend(n) \/ CloseNetwork(n)
    BY <1>2, <2>1, Zenon DEF Start, connectNbrs, ConnectMade, ConnectRefused, ConnectNext, StartListeners,
                      AcceptNetwork, getpktToSend, CloseNetwork, linkVars
  <2>2. CASE sendpkt(n)
    BY <1>2, <1>4, <2>2 DEF sendpkt
  <2>3. CASE sendpkt_Killed(n)
    BY <1>3, <2>3 DEF sendpkt_Killed, KilledBySend
  <2> QED
    BY <1>5, <2>1, <2>2, <2>3 DEF mainThread, waitNetwork
<1>6. ASSUME NEW n \in Nodes, waitNbrsThread(n) PROVE Same
  BY <1>2, <1>6 DEF waitNbrsThread, Listen, AcceptNbr, linkVars
<1>7. ASSUME NEW n \in Nodes, NEW i \in 1..LineBound, listen_to_neighbor(n, i) PROVE Same
  <2>1. CASE recvpkt(n, i)
    BY <1>4, <2>1 DEF recvpkt
  <2>2. CASE recvpkt_Fails(n, i) \/ ForwardLost(n, i)
    BY <1>2, <2>2 DEF recvpkt_Fails, ForwardLost, linkVars
  <2>3. CASE forwardpktToMNP(n, i)
    BY <1>2, <1>3, <2>3, Zenon DEF forwardpktToMNP, KilledBySend, linkVars
  <2> QED
    BY <1>7, <2>1, <2>2, <2>3 DEF listen_to_neighbor
<1>8. ASSUME NEW n \in Nodes, connectToOverlay(n) \/ routeupdate_daemon(n) \/ waitTransport(n) \/ pkthandler(n)
      PROVE  Same
  BY <1>2, <1>8, Zenon DEF connectToOverlay, routeupdate_daemon, waitTransport, overlay_sendpkt, pkthandler,
              overlay_recvpkt, LosesOverlay, linkVars
<1>9. ASSUME NEW n \in Nodes,
             overlay_stop(n) \/ network_stop(n) \/ overlay_sendpkt_Killed(n) \/ MainReturns(n)
      PROVE  Same
  BY <1>2, <1>3, <1>9, Zenon DEF overlay_stop, network_stop, overlay_sendpkt_Killed, MainReturns, ProcessEnds,
              linkVars
<1>10. CASE UNCHANGED vars
  BY <1>2, <1>10 DEF vars, linkVars
<1> QED
  BY <1>5, <1>6, <1>7, <1>8, <1>9, <1>10 DEF Next

LEMMA IncomingBound ==
    ASSUME links \in Files, NEW n \in Nodes
    PROVE  Incoming(n) \in 0..LineBound
<1> DEFINE N == topology_getNbrNum(links, n)
           I == {i \in 1..N : n < topology_getNbrArray(links, n)[i]}
<1>1. N \in 0..Len(links) /\ Len(links) \in 0..LineBound
  BY TableFacts, FileFacts DEF topology_getNbrNum
<1>2. I \in SUBSET (1..N)
  OBVIOUS
<1> HIDE DEF N, I
<1>3. N \in Nat /\ LineBound \in Nat /\ N <= LineBound
  BY <1>1, OverlayConstants
<1>4. IsFiniteSet(1..N) /\ Cardinality(1..N) = N
  BY <1>3, IntervalCount
<1>5. IsFiniteSet(I) /\ Cardinality(I) <= N
  BY <1>2, <1>4, FS_Subset
<1>6. Cardinality(I) \in Nat
  BY <1>5, FS_CardinalityType
<1>7. Incoming(n) = Cardinality(I)
  BY DEF Incoming, N, I
<1> QED
  BY <1>3, <1>5, <1>6, <1>7


LEMMA StartTypesStep ==
    ASSUME links \in Files, StartTypes, \A n \in Nodes : Life(n), links' = links,
           NEW n \in Nodes, StartStep(n)
    PROVE  StartTypes'
<1> DEFINE C == ConnsOf(links)
           E == [nodeID : Nodes, conn : C \cup {NoConn}]
           M == {"off", "connect", "join", "serve", "down"}
           W == {"off", "bind", "listen", "done"}
<1>1. /\ main \in [Nodes -> M] /\ waitNbrs \in [Nodes -> W]
      /\ idx \in [Nodes -> Nat] /\ counter \in [Nodes -> 0..LineBound]
      /\ nt \in [Nodes -> Seq(E)] /\ backlog \in [Nodes -> Seq(C)]
  BY DEF StartTypes
<1>2. SUFFICES /\ main' \in [Nodes -> M] /\ waitNbrs' \in [Nodes -> W]
               /\ idx' \in [Nodes -> Nat] /\ counter' \in [Nodes -> 0..LineBound]
               /\ nt' \in [Nodes -> Seq(E)] /\ backlog' \in [Nodes -> Seq(C)]
  BY <1>2 DEF StartTypes
<1> HIDE DEF C
<1>0. LineBound \in Nat
  BY OverlayConstants
<1>3. CASE Start(n)
  <2>1. nt_create(links, n) \in Seq(E)
    <3>1. nt_create(links, n) \in Seq([nodeID : Nodes, conn : {NoConn}])
      BY TableFacts
    <3>2. \A i \in 1..Len(nt_create(links, n)) : nt_create(links, n)[i] \in E
      <4> DEFINE F == [nodeID : Nodes, conn : {NoConn}]
      <4>1. F \subseteq E
        OBVIOUS
      <4> HIDE DEF E, F
      <4>2. \A i \in 1..Len(nt_create(links, n)) : nt_create(links, n)[i] \in F
        BY <3>1, SeqElements DEF F
      <4> QED
        BY <4>1, <4>2
    <3> HIDE DEF E
    <3>3. nt_create(links, n) \in [1..Len(nt_create(links, n)) -> E] /\ Len(nt_create(links, n)) \in Nat
      BY <3>1, <3>2
    <3> QED
      BY <3>3, FunctionIsSeq
  <2>2. Incoming(n) \in 0..LineBound
    BY IncomingBound
  <2> HIDE DEF E
  <2> QED
    BY <1>1, <1>3, <2>1, <2>2 DEF Start
<1>4. CASE Listen(n)
  BY <1>1, <1>4 DEF Listen
<1>5. CASE AcceptNbr(n)
  <2>1. backlog[n] \in Seq(C) /\ backlog[n] # << >> /\ nt[n] \in Seq(E)
    BY <1>1, <1>5 DEF AcceptNbr
  <2>2. Head(backlog[n]) \in C /\ Tail(backlog[n]) \in Seq(C)
    BY <2>1
  <2>3. nt_addconn(nt[n], Head(backlog[n])[1], Head(backlog[n])) \in Seq(E)
    BY <2>1, <2>2, AddConn
  <2>4. counter[n] - 1 \in 0..LineBound
    <3>1. counter[n] \in 0..LineBound /\ counter[n] > 0
      BY <1>1, <1>5 DEF AcceptNbr, Life
    <3> QED
      BY <1>0, <3>1
  <2> HIDE DEF E
  <2> QED
    BY <1>1, <1>5, <2>2, <2>3, <2>4 DEF AcceptNbr
<1>6. CASE ConnectMade(n)
  <2> DEFINE m == nt[n][idx[n]].nodeID
             c == <<n, idx[n]>>
  <2>1. Connecting(n) /\ idx[n] \in 1..Len(nt[n]) /\ m < n /\ m \in Nodes
    <3>1. Connecting(n)
      BY <1>6 DEF ConnectMade
    <3>2. idx[n] \in 1..Len(nt[n])
      BY <1>1, <3>1 DEF Connecting, Life, Up
    <3>3. nt[n] \in Seq(E)
      BY <1>1
    <3>4. nt[n][idx[n]] \in E
      <4> HIDE DEF E
      <4> QED
        BY <3>2, <3>3, SeqElements
    <3> QED
      BY <3>1, <3>2, <3>4 DEF Connecting
  <2>2. c \in C
    <3>1. /\ Len(nt[n]) = Len(nt_create(links, n))
          /\ m = nt_create(links, n)[idx[n]].nodeID
      BY <2>1 DEF Life, Connecting, Up, Entries
    <3>2. Len(nt_create(links, n)) \in 0..Len(links) /\ Len(links) \in Nat
      BY TableFacts, FileFacts
    <3> QED
      BY <2>1, <3>1, <3>2 DEF C, ConnsOf
  <2>3. Added(n, c) \in Seq(E)
    BY <1>1, <2>2, AddConn DEF Added
  <2>4. Append(backlog[m], c) \in Seq(C)
    BY <1>1, <2>1, <2>2
  <2>5. /\ backlog' = [backlog EXCEPT ![m] = Append(@, c)] /\ nt' = [nt EXCEPT ![n] = Added(n, c)]
        /\ idx' = [idx EXCEPT ![n] = @ + 1] /\ UNCHANGED <<main, waitNbrs, counter>>
    BY <1>6 DEF ConnectMade
  <2> HIDE DEF E, m, c
  <2> QED
    BY <1>1, <2>1, <2>3, <2>4, <2>5
<1>7. CASE ConnectRefused(n)
  BY <1>1, <1>7 DEF ConnectRefused
<1>8. CASE ConnectNext(n)
  <2>1. UNCHANGED <<waitNbrs, counter, nt, backlog>>
    BY <1>8 DEF ConnectNext
  <2>2. \/ idx' = [idx EXCEPT ![n] = @ + 1] /\ main' = main
        \/ main' = [main EXCEPT ![n] = "join"] /\ idx' = idx
    BY <1>8 DEF ConnectNext
  <2>3. idx[n] + 1 \in Nat
    BY <1>1
  <2>4. idx' \in [Nodes -> Nat] /\ main' \in [Nodes -> M]
    BY <1>1, <2>2, <2>3
  <2> HIDE DEF E
  <2> QED
    BY <1>1, <2>1, <2>4
<1>9. CASE StartListeners(n)
  BY <1>1, <1>9 DEF StartListeners
<1>10. CASE OverlayEnds(n)
  <2>1. << >> \in Seq(E) /\ << >> \in Seq(C)
    OBVIOUS
  <2> HIDE DEF E
  <2>2. /\ main' = [main EXCEPT ![n] = "down"] /\ waitNbrs' = [waitNbrs EXCEPT ![n] = "done"]
        /\ idx' = [idx EXCEPT ![n] = 0] /\ counter' = [counter EXCEPT ![n] = 0]
        /\ nt' = [nt EXCEPT ![n] = << >>] /\ backlog' = [backlog EXCEPT ![n] = << >>]
    BY <1>10, Zenon DEF OverlayEnds
  <2> QED
    BY <1>0, <1>1, <2>1, <2>2
<1> QED
  BY <1>3, <1>4, <1>5, <1>6, <1>7, <1>8, <1>9, <1>10 DEF StartStep

\* What the steps of the start do, element by element.
OnlyNode(n) ==
    \A m \in Nodes \ {n} : /\ main'[m] = main[m] /\ waitNbrs'[m] = waitNbrs[m] /\ idx'[m] = idx[m]
                           /\ counter'[m] = counter[m] /\ nt'[m] = nt[m]
Begins(n) ==
    /\ OnlyNode(n) /\ backlog' = backlog
    /\ main[n] = "off" /\ main'[n] = "connect" /\ idx'[n] = 1 /\ waitNbrs'[n] = "bind"
    /\ nt'[n] = nt_create(links, n) /\ counter'[n] = Incoming(n)
Accepts(n, c) ==
    /\ OnlyNode(n) /\ \A m \in Nodes \ {n} : backlog'[m] = backlog[m]
    /\ waitNbrs[n] = "listen" /\ backlog[n] # << >> /\ c = Head(backlog[n]) /\ backlog'[n] = Tail(backlog[n])
    /\ main'[n] = main[n] /\ idx'[n] = idx[n] /\ counter'[n] = counter[n] - 1
    /\ waitNbrs'[n] = IF counter[n] > 1 THEN "listen" ELSE "done"
    /\ FirstSet(nt[n], c[1], c, nt'[n])
Asks(n, m) ==
    /\ OnlyNode(n) /\ \A k \in Nodes \ {m} : backlog'[k] = backlog[k]
    /\ main[n] = "connect" /\ idx[n] \in Entries(n) /\ m = nt[n][idx[n]].nodeID /\ m < n
    /\ waitNbrs[m] = "listen" /\ backlog'[m] = Append(backlog[m], <<n, idx[n]>>)
    /\ main'[n] = main[n] /\ waitNbrs'[n] = waitNbrs[n] /\ counter'[n] = counter[n] /\ idx'[n] = idx[n] + 1
    /\ FirstSet(nt[n], m, <<n, idx[n]>>, nt'[n])
Proceeds(n) ==
    /\ OnlyNode(n) /\ backlog' = backlog
    /\ Up(n) /\ Up(n)' /\ nt'[n] = nt[n] /\ counter'[n] = counter[n]
    /\ main'[n] = "serve" => waitNbrs'[n] = "done"
    /\ \/ /\ idx'[n] = idx[n]
          /\ \/ waitNbrs'[n] = waitNbrs[n]
             \/ waitNbrs'[n] = "listen" /\ counter[n] > 0
             \/ waitNbrs'[n] = "done" /\ counter[n] = 0
       \/ /\ idx'[n] = idx[n] + 1 /\ waitNbrs'[n] = waitNbrs[n]
          /\ idx[n] \in Entries(n) /\ nt[n][idx[n]].nodeID >= n
Stops(n) ==
    /\ OnlyNode(n) /\ \A m \in Nodes \ {n} : backlog'[m] = backlog[m]
    /\ main'[n] = "down" /\ waitNbrs'[n] = "done" /\ idx'[n] = 0 /\ counter'[n] = 0
    /\ nt'[n] = << >> /\ backlog'[n] = << >>

LEMMA StartEffects ==
    ASSUME links \in Files, StartTypes, \A n \in Nodes : Life(n),
           NEW n \in Nodes, StartStep(n)
    PROVE  \/ Begins(n) \/ \E c \in ConnsOf(links) : Accepts(n, c)
           \/ \E m \in Nodes : Asks(n, m)
           \/ Proceeds(n) \/ Stops(n)
<1> DEFINE C == ConnsOf(links)
           E == [nodeID : Nodes, conn : C \cup {NoConn}]
           M == {"off", "connect", "join", "serve", "down"}
           W == {"off", "bind", "listen", "done"}
<1>1. /\ main \in [Nodes -> M] /\ waitNbrs \in [Nodes -> W]
      /\ idx \in [Nodes -> Nat] /\ counter \in [Nodes -> 0..LineBound]
      /\ nt \in [Nodes -> Seq(E)] /\ backlog \in [Nodes -> Seq(C)]
  BY DEF StartTypes
<1>2. counter[n] \in Nat
  BY <1>1, OverlayConstants
<1> HIDE DEF C, E
<1>3. CASE Start(n)
  BY <1>1, <1>3 DEF Start, Begins, OnlyNode
<1>4. CASE Listen(n)
  <2>1. Up(n) /\ main' = main /\ main[n] # "serve"
    BY <1>1, <1>4 DEF Listen, Life, Up
  <2> QED
    BY <1>1, <1>2, <1>4, <2>1 DEF Listen, Proceeds, OnlyNode, Up
<1>5. CASE AcceptNbr(n)
  <2> DEFINE c == Head(backlog[n])
  <2>1. c \in C /\ nt[n] \in Seq(E) /\ backlog[n] # << >>
    BY <1>1, <1>5 DEF AcceptNbr
  <2>2. FirstSet(nt[n], c[1], c, nt_addconn(nt[n], c[1], c))
    BY <2>1, AddConn DEF E
  <2>3. /\ nt' = [nt EXCEPT ![n] = nt_addconn(nt[n], c[1], c)]
        /\ backlog' = [backlog EXCEPT ![n] = Tail(backlog[n])]
        /\ counter' = [counter EXCEPT ![n] = counter[n] - 1]
        /\ waitNbrs[n] = "listen" /\ UNCHANGED <<main, idx>>
        /\ waitNbrs' = [waitNbrs EXCEPT ![n] = IF counter[n] - 1 > 0 THEN waitNbrs[n] ELSE "done"]
    BY <1>5 DEF AcceptNbr, Awaited
  <2>4. counter[n] - 1 > 0 <=> counter[n] > 1
    BY <1>2
  <2> HIDE DEF c
  <2>5. Accepts(n, c)
    BY <1>1, <2>1, <2>2, <2>3, <2>4 DEF Accepts, OnlyNode, c
  <2> QED
    BY <2>1, <2>5 DEF C
<1>6. CASE ConnectMade(n)
  <2> DEFINE m == nt[n][idx[n]].nodeID
             c == <<n, idx[n]>>
  <2>1. Connecting(n) /\ idx[n] \in Entries(n) /\ m < n /\ m \in Nodes /\ nt[n] \in Seq(E)
    <3>1. Connecting(n)
      BY <1>6 DEF ConnectMade
    <3>2. idx[n] \in 1..Len(nt[n])
      BY <1>1, <3>1 DEF Connecting, Life, Up
    <3>3. nt[n] \in Seq(E)
      BY <1>1
    <3>4. nt[n][idx[n]] \in E
      BY <3>2, <3>3, SeqElements
    <3> QED
      BY <3>1, <3>2, <3>3, <3>4 DEF Connecting, E, Entries
  <2>2. c \in C
    <3>1. /\ Len(nt[n]) = Len(nt_create(links, n))
          /\ m = nt_create(links, n)[idx[n]].nodeID
      BY <2>1 DEF Life, Connecting, Up, Entries
    <3>2. Len(nt_create(links, n)) \in 0..Len(links) /\ Len(links) \in Nat
      BY TableFacts, FileFacts
    <3> QED
      BY <2>1, <3>1, <3>2 DEF C, ConnsOf, Entries
  <2>3. FirstSet(nt[n], m, c, nt_addconn(nt[n], m, c))
    BY <2>1, <2>2, AddConn DEF E
  <2>4. /\ backlog' = [backlog EXCEPT ![m] = Append(backlog[m], c)]
        /\ nt' = [nt EXCEPT ![n] = nt_addconn(nt[n], m, c)]
        /\ idx' = [idx EXCEPT ![n] = idx[n] + 1] /\ UNCHANGED <<main, waitNbrs, counter>>
        /\ waitNbrs[m] = "listen" /\ main[n] = "connect"
    BY <1>6, <2>1 DEF ConnectMade, Added, Listening, Connecting
  <2> HIDE DEF m
  <2>5. Asks(n, m)
    BY <1>1, <2>1, <2>3, <2>4, Zenon DEF Asks, OnlyNode, m
  <2> QED
    BY <2>1, <2>5
<1>7. CASE ConnectRefused(n)
  BY <1>1, <1>7 DEF ConnectRefused, Connecting, Proceeds, OnlyNode, Up
<1>8. CASE ConnectNext(n)
  <2>1. main[n] = "connect" /\ UNCHANGED <<waitNbrs, counter, nt, backlog>>
    BY <1>8 DEF ConnectNext
  <2>2. CASE idx[n] <= Len(nt[n])
    <3>1. idx' = [idx EXCEPT ![n] = idx[n] + 1] /\ main' = main /\ ~(nt[n][idx[n]].nodeID < n)
      BY <1>8, <2>1, <2>2 DEF ConnectNext, Connecting
    <3>2. idx[n] \in Entries(n)
      BY <1>1, <2>1, <2>2 DEF Entries, Life, Up
    <3>3. nt[n][idx[n]] \in E
      BY <1>1, <3>2, SeqElements DEF Entries
    <3>4. nt[n][idx[n]].nodeID >= n
      <4>1. n \in Nat /\ nt[n][idx[n]].nodeID \in Nat
        BY <3>3, OverlayConstants DEF E
      <4> QED
        BY <3>1, <4>1
    <3> QED
      BY <1>1, <2>1, <3>1, <3>2, <3>4 DEF Proceeds, OnlyNode, Up
  <2>3. CASE ~(idx[n] <= Len(nt[n]))
    <3>1. idx' = idx /\ main' = [main EXCEPT ![n] = "join"]
      BY <1>8, <2>3 DEF ConnectNext
    <3> QED
      BY <1>1, <2>1, <3>1 DEF Proceeds, OnlyNode, Up
  <2> QED
    BY <2>2, <2>3
<1>9. CASE StartListeners(n)
  BY <1>1, <1>9 DEF StartListeners, Proceeds, OnlyNode, Up
<1>10. CASE OverlayEnds(n)
  <2>2. /\ main' = [main EXCEPT ![n] = "down"] /\ waitNbrs' = [waitNbrs EXCEPT ![n] = "done"]
        /\ idx' = [idx EXCEPT ![n] = 0] /\ counter' = [counter EXCEPT ![n] = 0]
        /\ nt' = [nt EXCEPT ![n] = << >>] /\ backlog' = [backlog EXCEPT ![n] = << >>]
    BY <1>10, Zenon DEF OverlayEnds
  <2> QED
    BY <1>1, <2>2 DEF Stops, OnlyNode
<1> QED
  BY <1>3, <1>4, <1>5, <1>6, <1>7, <1>8, <1>9, <1>10 DEF StartStep

Effect(n) ==
    \/ Begins(n) \/ \E c \in ConnsOf(links) : Accepts(n, c)
    \/ \E m \in Nodes : Asks(n, m)
    \/ Proceeds(n) \/ Stops(n)

\* FirstSet leaves the ids alone.
LEMMA LifeStep ==
    ASSUME links \in Files, StartTypes, \A n \in Nodes : Life(n), links' = links,
           NEW n \in Nodes, Effect(n), NEW k \in Nodes
    PROVE  Life(k)'
<1> DEFINE table == nt_create(links, k)
<1>0. /\ main[k] \in {"off", "connect", "join", "serve", "down"} /\ idx[k] \in Nat /\ counter[k] \in Nat
      /\ waitNbrs[k] \in {"off", "bind", "listen", "done"} /\ Len(nt[k]) \in Nat
      /\ main[n] \in {"off", "connect", "join", "serve", "down"}
  <2>1. nt[k] \in Seq([nodeID : Nodes, conn : ConnsOf(links) \cup {NoConn}])
    BY DEF StartTypes
  <2>2. Len(nt[k]) \in Nat
    BY <2>1, SeqElements
  <2> QED
    BY <2>2, OverlayConstants, SMTT(20) DEF StartTypes
<1>1. (table = nt_create(links, k))' /\ Life(k)
  OBVIOUS
<1> HIDE DEF table
<1>2. ASSUME k # n, OnlyNode(n), backlog'[k] = backlog[k] PROVE Life(k)'
  BY <1>1, <1>2 DEF OnlyNode, Life, Up, Entries, table
<1>3. CASE Begins(n)
  <2>1. CASE k = n
    <3>1. Len(table) \in Nat
      <4>1. Len(table) \in 0..Len(links) /\ Len(links) \in Nat
        BY TableFacts, FileFacts DEF table
      <4> QED
        BY <4>1
    <3>2. 1 \in 1..(Len(table) + 1)
      BY <3>1
    <3> QED
      BY <1>3, <2>1, <3>2 DEF Begins, Life, Up, Entries, table
  <2> QED
    BY <1>2, <1>3, <2>1 DEF Begins
<1>4. ASSUME NEW c \in ConnsOf(links), Accepts(n, c) PROVE Life(k)'
  <2>1. CASE k = n
    <3>1. Up(k) /\ Up(k)'
      BY <1>0, <1>1, <1>4, <2>1 DEF Accepts, Life, Up
    <3>2. Len(nt'[k]) = Len(nt[k]) /\ \A i \in 1..Len(nt[k]) : nt'[k][i].nodeID = nt[k][i].nodeID
      BY <1>4, <2>1 DEF Accepts, FirstSet
    <3>3. /\ waitNbrs'[k] \in {"listen", "done"} /\ idx'[k] = idx[k] /\ main'[k] = main[k]
          /\ waitNbrs'[k] = "listen" => counter'[k] > 0
          /\ waitNbrs'[k] = "done" => counter'[k] = 0
          /\ main'[k] # "serve"
      BY <1>0, <1>1, <1>4, <2>1 DEF Accepts, Life
    <3> QED
      BY <1>0, <1>1, <3>1, <3>2, <3>3 DEF Life, Up, Entries, table
  <2> QED
    BY <1>2, <1>4, <2>1 DEF Accepts
<1>5. ASSUME NEW m \in Nodes, Asks(n, m) PROVE Life(k)'
  <2>1. CASE k = n
    <3>1. Len(nt'[k]) = Len(nt[k]) /\ \A i \in 1..Len(nt[k]) : nt'[k][i].nodeID = nt[k][i].nodeID
      BY <1>5, <2>1, Zenon DEF Asks, FirstSet
    <3>2. /\ waitNbrs'[k] = waitNbrs[k] /\ idx'[k] = idx[k] + 1 /\ main'[k] = main[k]
          /\ counter'[k] = counter[k] /\ main[k] = "connect" /\ idx[k] \in 1..Len(nt[k])
      BY <1>5, <2>1, Zenon DEF Asks, Entries
    <3>3. idx[k] + 1 \in 1..(Len(nt[k]) + 1)
      BY <1>0, <3>2
    <3> QED
      BY <1>0, <1>1, <3>1, <3>2, <3>3 DEF Life, Up, Entries, table
  <2>2. CASE k # n /\ k = m
    <3>1. Up(k) /\ Up(k)' /\ waitNbrs[k] = "listen"
      BY <1>0, <1>1, <1>5, <2>2, Zenon DEF Asks, Life, Up, OnlyNode
    <3>2. /\ main'[k] = main[k] /\ waitNbrs'[k] = waitNbrs[k] /\ idx'[k] = idx[k]
          /\ counter'[k] = counter[k] /\ nt'[k] = nt[k]
      BY <1>5, <2>2, Zenon DEF Asks, OnlyNode
    <3> QED
      BY <1>1, <3>1, <3>2 DEF Life, Up, Entries, table
  <2> QED
    BY <1>2, <1>5, <2>1, <2>2, Zenon DEF Asks
<1>6. CASE Proceeds(n)
  <2>1. CASE k = n
    <3>1. CASE idx'[k] = idx[k]
      BY <1>0, <1>1, <1>6, <2>1, <3>1 DEF Proceeds, Life, Up, Entries, table
    <3>2. CASE idx'[k] = idx[k] + 1 /\ idx[k] \in Entries(k)
      <4>1. idx[k] + 1 \in 1..(Len(nt[k]) + 1) /\ idx'[k] # idx[k]
        BY <1>0, <3>2 DEF Entries
      <4> QED
        BY <1>0, <1>1, <1>6, <2>1, <3>2, <4>1 DEF Proceeds, Life, Up, Entries, table
    <3> QED
      BY <1>6, <2>1, <3>1, <3>2 DEF Proceeds
  <2> QED
    BY <1>2, <1>6, <2>1 DEF Proceeds
<1>7. CASE Stops(n)
  <2>1. CASE k = n
    BY <1>7, <2>1 DEF Stops, Life, Up
  <2> QED
    BY <1>2, <1>7, <2>1 DEF Stops
<1> QED
  BY <1>3, <1>4, <1>5, <1>6, <1>7 DEF Effect

\* Setting the first entry keeps to it.
LEMMA TableConnsSet ==
    ASSUME NEW n \in Nodes, NEW m \in Nodes, m # n, NEW c, c # NoConn,
           EndsOf(links, c) = {n, m}, links' = links, Len(nt[n]) \in Nat,
           TableConns(n), FirstSet(nt[n], m, c, nt'[n])
    PROVE  TableConns(n)'
<1>1. Len(nt'[n]) = Len(nt[n]) /\ \A i \in 1..Len(nt[n]) : nt'[n][i].nodeID = nt[n][i].nodeID
  BY DEF FirstSet
<1>2. CASE nt'[n] = nt[n]
  BY <1>2 DEF TableConns, Entries
<1>3. ASSUME NEW f \in 1..Len(nt[n]), nt[n][f].nodeID = m, nt'[n][f].conn = c,
             \A i \in 1..(f - 1) : nt[n][i].nodeID # m,
             \A i \in 1..Len(nt[n]) : i # f => nt'[n][i] = nt[n][i]
      PROVE  TableConns(n)'
  <2> SUFFICES ASSUME NEW i \in 1..Len(nt[n]), nt'[n][i].conn # NoConn
               PROVE  /\ EndsOf(links, nt'[n][i].conn) = {n, nt'[n][i].nodeID} /\ nt'[n][i].nodeID # n
                      /\ \A j \in 1..(i - 1) : nt'[n][j].nodeID # nt'[n][i].nodeID
    BY <1>1 DEF TableConns, Entries
  <2>1. \A j \in 1..(i - 1) : j \in 1..Len(nt[n])
    OBVIOUS
  <2>2. CASE i = f
    BY <1>1, <1>3, <2>1, <2>2
  <2>3. CASE i # f
    BY <1>1, <1>3, <2>1, <2>3 DEF TableConns, Entries
  <2> QED
    BY <2>2, <2>3
<1> QED
  BY <1>2, <1>3 DEF FirstSet

LEMMA TableConnsStep ==
    ASSUME links \in Files, StartTypes, \A n \in Nodes : Life(n) /\ TableConns(n) /\ Asked(n),
           links' = links, NEW n \in Nodes, Effect(n), NEW k \in Nodes
    PROVE  TableConns(k)'
<1>0. Len(nt[n]) \in Nat
  <2>1. nt[n] \in Seq([nodeID : Nodes, conn : ConnsOf(links) \cup {NoConn}])
    BY DEF StartTypes
  <2> QED
    BY <2>1, SeqElements
<1>1. ASSUME nt'[k] = nt[k] PROVE TableConns(k)'
  BY <1>1 DEF TableConns, Entries
<1>2. CASE k # n
  <2>1. nt'[k] = nt[k]
    BY <1>2 DEF Effect, Begins, Accepts, Asks, Proceeds, Stops, OnlyNode
  <2> QED
    BY <1>1, <2>1
<1>3. CASE k = n
  <2>1. CASE Begins(n)
    <3>1. PICK at : TableAt(links, n, at)
      BY TableFacts
    <3>2. \A i \in 1..Len(nt'[n]) : nt'[n][i].conn = NoConn
      BY <2>1, <3>1 DEF Begins, TableAt
    <3> QED
      BY <1>3, <3>2 DEF TableConns, Entries
  <2>2. ASSUME NEW c \in ConnsOf(links), Accepts(n, c) PROVE TableConns(n)'
    <3>1. backlog[n] \in Seq(ConnsOf(links)) /\ backlog[n] # << >> /\ c = Head(backlog[n])
      BY <2>2 DEF Accepts, StartTypes
    <3>2. 1 \in 1..Len(backlog[n]) /\ backlog[n][1] = c
      BY <3>1
    <3>3. n \in EndsOf(links, c) /\ c[1] # n
      BY <3>2 DEF Asked
    <3>4. EndsOf(links, c) = {n, c[1]} /\ c[1] \in Nodes /\ c # NoConn
      BY <3>3, ConnFacts
    <3> QED
      BY <1>0, <2>2, <3>3, <3>4, TableConnsSet DEF Accepts
  <2>3. ASSUME NEW m \in Nodes, Asks(n, m) PROVE TableConns(n)'
    <3>1. <<n, idx[n]>> \in ConnsOf(links) /\ nt_create(links, n)[idx[n]].nodeID = m
      <4>1. /\ Len(nt[n]) = Len(nt_create(links, n)) /\ idx[n] \in 1..Len(nt[n])
            /\ m = nt_create(links, n)[idx[n]].nodeID /\ m < n
        BY <2>3, Zenon DEF Asks, Life, Up, Entries
      <4>2. Len(nt_create(links, n)) \in 0..Len(links) /\ Len(links) \in Nat
        BY TableFacts, FileFacts
      <4> QED
        BY <4>1, <4>2 DEF ConnsOf
    <3>2. EndsOf(links, <<n, idx[n]>>) = {n, m} /\ <<n, idx[n]>> # NoConn
      BY <3>1, ConnFacts DEF EndsOf
    <3>3. m # n
      <4>1. m < n /\ n \in Nat /\ m \in Nat
        BY <2>3, OverlayConstants, Zenon DEF Asks
      <4> QED
        BY <4>1
    <3> QED
      BY <1>0, <2>3, <3>2, <3>3, TableConnsSet, Zenon DEF Asks
  <2>4. CASE Proceeds(n)
    BY <1>1, <1>3, <2>4 DEF Proceeds
  <2>5. CASE Stops(n)
    BY <1>3, <2>5 DEF Stops, TableConns, Entries
  <2> QED
    BY <1>3, <2>1, <2>2, <2>3, <2>4, <2>5 DEF Effect
<1> QED
  BY <1>2, <1>3

LEMMA BacklogFacts ==
    ASSUME links \in Files, StartTypes, NEW k \in Nodes
    PROVE  /\ backlog[k] \in Seq(ConnsOf(links)) /\ Len(backlog[k]) \in Nat
           /\ \A j \in 1..Len(backlog[k]) :
                 /\ backlog[k][j] \in ConnsOf(links) /\ backlog[k][j][1] \in Nodes
                 /\ backlog[k][j][2] \in Nat /\ backlog[k][j] = <<backlog[k][j][1], backlog[k][j][2]>>
<1>1. backlog[k] \in Seq(ConnsOf(links))
  BY DEF StartTypes
<1>2. Len(backlog[k]) \in Nat /\ \A j \in 1..Len(backlog[k]) : backlog[k][j] \in ConnsOf(links)
  BY <1>1, SeqElements
<1>3. \A j \in 1..Len(backlog[k]) :
         /\ backlog[k][j][1] \in Nodes /\ backlog[k][j][2] \in Nat
         /\ backlog[k][j] = <<backlog[k][j][1], backlog[k][j][2]>>
  BY <1>2, ConnFacts
<1> QED
  BY <1>1, <1>2, <1>3

LEMMA MovesOn ==
    ASSUME links \in Files, StartTypes, \A n \in Nodes : Life(n),
           NEW n \in Nodes, Effect(n), NEW k \in Nodes, main'[k] # "down"
    PROVE  main[k] # "down" /\ idx[k] \in Nat /\ idx'[k] \in Nat /\ idx[k] <= idx'[k]
<1>1. idx[k] \in Nat
  BY DEF StartTypes
<1>2. CASE k # n
  <2>1. main'[k] = main[k] /\ idx'[k] = idx[k]
    BY <1>2 DEF Effect, Begins, Accepts, Asks, Proceeds, Stops, OnlyNode
  <2> QED
    BY <1>1, <2>1
<1>3. CASE k = n
  <2>1. CASE Begins(n)
    BY <1>1, <1>3, <2>1 DEF Begins, Life, Up
  <2>2. CASE \E c \in ConnsOf(links) : Accepts(n, c)
    BY <1>1, <1>3, <2>2 DEF Accepts
  <2>3. CASE \E m \in Nodes : Asks(n, m)
    <3>1. main[k] = "connect" /\ idx'[k] = idx[k] + 1
      BY <1>3, <2>3, Zenon DEF Asks
    <3> QED
      BY <1>1, <3>1
  <2>4. CASE Proceeds(n)
    BY <1>1, <1>3, <2>4 DEF Proceeds, Up
  <2>5. CASE Stops(n)
    BY <1>3, <2>5 DEF Stops
  <2> QED
    BY <2>1, <2>2, <2>3, <2>4, <2>5 DEF Effect
<1> QED
  BY <1>2, <1>3

\* What becomes of a backlog.
LEMMA BacklogSteps ==
    ASSUME NEW n \in Nodes, Effect(n), NEW k \in Nodes
    PROVE  \/ backlog'[k] = backlog[k]
           \/ k = n /\ \E c \in ConnsOf(links) : Accepts(n, c)
           \/ Asks(n, k)
           \/ k = n /\ Stops(n)
BY DEF Effect, Begins, Accepts, Asks, Proceeds, Stops

\* The connection that is asked for.
LEMMA AsksFacts ==
    ASSUME links \in Files, StartTypes, NEW n \in Nodes, Life(n), NEW m \in Nodes, Asks(n, m)
    PROVE  /\ <<n, idx[n]>> \in ConnsOf(links) /\ EndsOf(links, <<n, idx[n]>>) = {n, m}
           /\ m # n /\ idx[n] \in Nat /\ idx[n] \in 1..Len(nt[n]) /\ m < n
<1>1. /\ Len(nt[n]) = Len(nt_create(links, n)) /\ idx[n] \in 1..Len(nt[n])
      /\ m = nt_create(links, n)[idx[n]].nodeID /\ m < n
  BY Zenon DEF Asks, Life, Up, Entries
<1>2. Len(nt_create(links, n)) \in 0..Len(links) /\ Len(links) \in Nat
  BY TableFacts, FileFacts
<1>3. <<n, idx[n]>> \in ConnsOf(links)
  BY <1>1, <1>2 DEF ConnsOf
<1>4. EndsOf(links, <<n, idx[n]>>) = {n, m}
  BY <1>1 DEF EndsOf
<1>5. m # n /\ idx[n] \in Nat
  <2>1. n \in Nat /\ m \in Nat /\ idx[n] \in Nat
    BY OverlayConstants DEF StartTypes
  <2> QED
    BY <1>1, <2>1
<1> QED
  BY <1>1, <1>3, <1>4, <1>5

LEMMA AskedStep ==
    ASSUME links \in Files, StartTypes, \A n \in Nodes : Life(n) /\ Asked(n),
           links' = links, NEW n \in Nodes, Effect(n), NEW k \in Nodes
    PROVE  Asked(k)'
<1> DEFINE Good(q, j) ==
               LET c == q[j]
               IN  /\ k \in EndsOf(links, c) /\ c[1] # k
                   /\ main'[c[1]] # "down" => c[2] < idx'[c[1]]
                   /\ \A i \in 1..(j - 1) : q[i][1] = c[1] => q[i][2] < c[2]
<1>1. SUFFICES \A j \in 1..Len(backlog'[k]) : Good(backlog'[k], j)
  BY <1>1 DEF Asked
<1>2. ASSUME NEW j \in 1..Len(backlog[k]) PROVE Good(backlog[k], j)
  <2>1. backlog[k][j][1] \in Nodes /\ backlog[k][j][2] \in Nat
    BY BacklogFacts
  <2>2. /\ k \in EndsOf(links, backlog[k][j]) /\ backlog[k][j][1] # k
        /\ main[backlog[k][j][1]] # "down" => backlog[k][j][2] < idx[backlog[k][j][1]]
        /\ \A i \in 1..(j - 1) : backlog[k][i][1] = backlog[k][j][1] => backlog[k][i][2] < backlog[k][j][2]
    BY DEF Asked
  <2>3. ASSUME main'[backlog[k][j][1]] # "down" PROVE backlog[k][j][2] < idx'[backlog[k][j][1]]
    <3>1. /\ main[backlog[k][j][1]] # "down" /\ idx[backlog[k][j][1]] \in Nat /\ idx'[backlog[k][j][1]] \in Nat
          /\ idx[backlog[k][j][1]] <= idx'[backlog[k][j][1]]
      BY <2>1, <2>3, MovesOn
    <3> QED
      BY <2>1, <2>2, <3>1
  <2> QED
    BY <2>2, <2>3
<1>3. backlog[k] \in Seq(ConnsOf(links)) /\ Len(backlog[k]) \in Nat
  BY BacklogFacts
<1>4. CASE backlog'[k] = backlog[k]
  BY <1>2, <1>4
<1>5. ASSUME NEW c \in ConnsOf(links), Accepts(n, c), k = n
      PROVE  \A j \in 1..Len(backlog'[k]) : Good(backlog'[k], j)
  <2>1. backlog[k] # << >> /\ backlog'[k] = Tail(backlog[k])
    BY <1>5 DEF Accepts
  <2>2. /\ Len(backlog'[k]) = Len(backlog[k]) - 1
        /\ \A j \in 1..Len(backlog'[k]) : backlog'[k][j] = backlog[k][j + 1] /\ j + 1 \in 1..Len(backlog[k])
    BY <1>3, <2>1
  <2>3. ASSUME NEW j \in 1..Len(backlog'[k]) PROVE Good(backlog'[k], j)
    <3>1. Good(backlog[k], j + 1) /\ backlog'[k][j] = backlog[k][j + 1]
      BY <1>2, <2>2
    <3>2. ASSUME NEW i \in 1..(j - 1) PROVE backlog'[k][i] = backlog[k][i + 1] /\ i + 1 \in 1..((j + 1) - 1)
      BY <1>3, <2>2
    <3> QED
      BY <3>1, <3>2
  <2> QED
    BY <2>3
<1>6. CASE Asks(n, k)
  <2> DEFINE c == <<n, idx[n]>>
  <2>1. c \in ConnsOf(links) /\ EndsOf(links, c) = {n, k} /\ k # n /\ idx[n] \in Nat
    BY <1>6, AsksFacts
  <2>2. backlog'[k] = Append(backlog[k], c) /\ idx'[n] = idx[n] + 1 /\ main[n] = "connect" /\ main'[n] = "connect"
    BY <1>6, Zenon DEF Asks
  <2>3. /\ Len(backlog'[k]) = Len(backlog[k]) + 1 /\ backlog'[k][Len(backlog[k]) + 1] = c
        /\ \A j \in 1..Len(backlog[k]) : backlog'[k][j] = backlog[k][j]
    BY <1>3, <2>1, <2>2
  <2>4. ASSUME NEW j \in 1..Len(backlog[k]) PROVE Good(backlog'[k], j)
    <3>1. \A i \in 1..(j - 1) : i \in 1..Len(backlog[k])
      BY <1>3
    <3> QED
      BY <1>2, <2>3, <3>1
  <2>5. Good(backlog'[k], Len(backlog[k]) + 1)
    <3>1. ASSUME NEW i \in 1..Len(backlog[k]), backlog[k][i][1] = n PROVE backlog[k][i][2] < idx[n]
      BY <2>2, <3>1 DEF Asked
    <3>2. (Len(backlog[k]) + 1) - 1 = Len(backlog[k])
      BY <1>3
    <3> QED
      BY <2>1, <2>2, <2>3, <3>1, <3>2
  <2> HIDE DEF Good
  <2> QED
    BY <1>3, <2>3, <2>4, <2>5
<1>7. CASE k = n /\ Stops(n)
  BY <1>7 DEF Stops
<1> HIDE DEF Good
<1> QED
  BY <1>4, <1>5, <1>6, <1>7, BacklogSteps

\* The connections that may be asked of a node: as many as waitNbrs() counts.
LEMMA AskedOfCount ==
    ASSUME links \in Files, NEW m \in Nodes,
           NEW D, D = {c \in ConnsOf(links) : m \in EndsOf(links, c) /\ c[1] # m}
    PROVE  IsFiniteSet(D) /\ Cardinality(D) <= Incoming(m)
<1> DEFINE L == {l \in LinesOf(links, m) : m < OtherNode(links[l], m)}
           at(n) == CHOOSE a : TableAt(links, n, a)
           f == [c \in D |-> at(c[1])[c[2]]]
           table == nt_create(links, m)
           ids == topology_getNbrArray(links, m)
           N == topology_getNbrNum(links, m)
           I == {i \in 1..N : m < ids[i]}
<1>1. ASSUME NEW n \in Nodes PROVE TableAt(links, n, at(n))
  BY TableFacts
<1> HIDE DEF at
<1>2. Cardinality(I) = Cardinality(L) /\ IsFiniteSet(L)
  <2>1. /\ N = Len(table) /\ Len(table) \in Nat
        /\ \A i \in 1..N : ids[i] = table[i].nodeID
    <3>1. /\ Len(table) = Cardinality(LinesOf(links, m)) /\ Len(table) \in 0..Len(links)
          /\ ids = [i \in 1..Len(table) |-> table[i].nodeID] /\ Len(links) \in Nat
      BY TableFacts, FileFacts
    <3> HIDE DEF table, ids
    <3> QED
      BY <3>1 DEF topology_getNbrNum
  <2>2. TableAt(links, m, at(m))
    BY <1>1
  <2>3. /\ Lists(at(m), N, LinesOf(links, m))
        /\ \A i \in 1..N : ids[i] = OtherNode(links[at(m)[i]], m) /\ at(m)[i] \in LinesOf(links, m)
    <3> HIDE DEF ids
    <3> QED
      BY <2>1, <2>2 DEF TableAt, Lists
  <2>4. L \subseteq LinesOf(links, m) /\ I = {i \in 1..N : at(m)[i] \in L}
    <3> HIDE DEF ids, N
    <3> QED
      BY <2>3
  <2> HIDE DEF L, I, N
  <2> QED
    BY <2>3, <2>4, IndexCount
<1>3. Incoming(m) = Cardinality(I)
  BY DEF Incoming
<1> HIDE DEF I, N, ids, table
<1>4. ASSUME NEW c \in D
      PROVE  /\ f[c] \in LinesOf(links, m) /\ OtherNode(links[f[c]], m) = c[1] /\ m < c[1]
             /\ c[1] \in Nodes /\ c[2] \in 1..Len(nt_create(links, c[1])) /\ c = <<c[1], c[2]>>
  <2> DEFINE id == nt_create(links, c[1])[c[2]].nodeID
  <2>1. c \in ConnsOf(links) /\ m \in EndsOf(links, c) /\ c[1] # m
    OBVIOUS
  <2>2. /\ c = <<c[1], c[2]>> /\ c[1] \in Nodes /\ c[2] \in 1..Len(nt_create(links, c[1]))
        /\ EndsOf(links, c) = {c[1], id} /\ id < c[1]
    BY <2>1, ConnFacts
  <2>3. id = m
    BY <2>1, <2>2
  <2>4. /\ at(c[1])[c[2]] \in LinesOf(links, c[1])
        /\ OtherNode(links[at(c[1])[c[2]]], c[1]) = id
    BY <1>1, <2>2 DEF TableAt
  <2>5. f[c] = at(c[1])[c[2]]
    OBVIOUS
  <2> HIDE DEF f, id
  <2>6. f[c] \in LinesTo(links, c[1], m)
    BY <2>3, <2>4, <2>5 DEF LinesTo
  <2>7. f[c] \in LinesTo(links, m, c[1])
    BY <2>2, <2>6, LinesBothWays
  <2> QED
    BY <2>2, <2>3, <2>7 DEF LinesTo
<1>5. f \in Injection(D, L)
  <2>1. f \in [D -> L]
    <3>1. \A c \in D : f[c] \in L
      <4> HIDE DEF f
      <4> QED
        BY <1>4
    <3> QED
      BY <3>1
  <2>2. ASSUME NEW c \in D, NEW d \in D, f[c] = f[d] PROVE c = d
    <3>1. c[1] = d[1]
      <4> HIDE DEF f
      <4> QED
        BY <1>4, <2>2
    <3>2. f[c] = at(c[1])[c[2]] /\ f[d] = at(d[1])[d[2]]
      OBVIOUS
    <3> HIDE DEF f
    <3>3. /\ c[1] \in Nodes /\ c[2] \in 1..Len(nt_create(links, c[1])) /\ d[2] \in 1..Len(nt_create(links, c[1]))
          /\ c = <<c[1], c[2]>> /\ d = <<d[1], d[2]>>
      BY <1>4, <3>1
    <3>4. c[2] = d[2]
      <4>1. at(c[1])[c[2]] = at(c[1])[d[2]]
        BY <2>2, <3>1, <3>2
      <4>2. TableAt(links, c[1], at(c[1]))
        BY <1>1, <3>3
      <4>3. \A i, j \in 1..Len(nt_create(links, c[1])) : at(c[1])[i] = at(c[1])[j] => i = j
        BY <4>2 DEF TableAt
      <4> QED
        BY <3>3, <4>1, <4>3
    <3> QED
      BY <3>1, <3>3, <3>4
  <2> HIDE DEF f
  <2> QED
    BY <2>1, <2>2 DEF Injection, IsInjective
<1> HIDE DEF f, L
<1>6. IsFiniteSet(D) /\ Cardinality(D) <= Cardinality(L)
  BY <1>2, <1>5, FS_Injection
<1> QED
  BY <1>2, <1>3, <1>6

\* No step but an accept makes fewer to come, and none but the begin more.
LEMMA ComingStep ==
    ASSUME links \in Files, StartTypes, \A n \in Nodes : Life(n) /\ Asked(n),
           links' = links, NEW n \in Nodes, Effect(n), NEW k \in Nodes, ~Begins(k)
    PROVE  Coming(k)' \subseteq Coming(k)
<1>1. SUFFICES ASSUME NEW c \in ConnsOf(links), k \in EndsOf(links, c), c[1] # k,
                      \/ \E j \in 1..Len(backlog'[k]) : backlog'[k][j] = c
                      \/ main'[c[1]] # "down" /\ idx'[c[1]] <= c[2]
               PROVE  c \in Coming(k)
  BY <1>1 DEF Coming
<1>2. backlog[k] \in Seq(ConnsOf(links)) /\ Len(backlog[k]) \in Nat
  BY BacklogFacts
<1>3. c[1] \in Nodes /\ c[2] \in Nat
  BY ConnFacts
<1>4. CASE main'[c[1]] # "down" /\ idx'[c[1]] <= c[2]
  <2>1. main[c[1]] # "down" /\ idx[c[1]] \in Nat /\ idx'[c[1]] \in Nat /\ idx[c[1]] <= idx'[c[1]]
    BY <1>3, <1>4, MovesOn
  <2>2. idx[c[1]] <= c[2]
    BY <1>3, <1>4, <2>1
  <2> QED
    BY <1>1, <2>1, <2>2 DEF Coming
<1>5. ASSUME NEW j \in 1..Len(backlog'[k]), backlog'[k][j] = c
      PROVE  c \in Coming(k)
  <2>1. ASSUME NEW i \in 1..Len(backlog[k]), backlog[k][i] = c PROVE c \in Coming(k)
    BY <1>1, <2>1 DEF Coming
  <2>2. CASE backlog'[k] = backlog[k]
    BY <1>5, <2>1, <2>2
  <2>3. CASE k = n /\ \E d \in ConnsOf(links) : Accepts(n, d)
    <3>1. backlog[k] # << >> /\ backlog'[k] = Tail(backlog[k])
      BY <2>3 DEF Accepts
    <3>2. backlog'[k][j] = backlog[k][j + 1] /\ j + 1 \in 1..Len(backlog[k])
      BY <1>2, <3>1
    <3> QED
      BY <1>5, <2>1, <3>2
  <2>4. CASE Asks(n, k)
    <3>1. /\ backlog'[k] = Append(backlog[k], <<n, idx[n]>>) /\ main[n] = "connect"
          /\ <<n, idx[n]>> \in ConnsOf(links) /\ idx[n] \in Nat
      BY <2>4, AsksFacts, Zenon DEF Asks
    <3>2. CASE j \in 1..Len(backlog[k])
      <4>1. backlog'[k][j] = backlog[k][j]
        BY <1>2, <3>1, <3>2
      <4> QED
        BY <1>5, <2>1, <3>2, <4>1
    <3>3. CASE j \notin 1..Len(backlog[k])
      <4>1. backlog'[k][j] = <<n, idx[n]>>
        BY <1>2, <3>1, <3>3
      <4>2. c[1] = n /\ c[2] = idx[n]
        BY <1>5, <4>1
      <4> QED
        BY <1>1, <3>1, <4>2 DEF Coming
    <3> QED
      BY <3>2, <3>3
  <2>5. CASE k = n /\ Stops(n)
    BY <1>5, <2>5 DEF Stops
  <2> QED
    BY <2>2, <2>3, <2>4, <2>5, BacklogSteps
<1> QED
  BY <1>1, <1>4, <1>5

LEMMA ExpectedStep ==
    ASSUME links \in Files, StartTypes, \A n \in Nodes : Life(n) /\ Asked(n),
           links' = links, NEW n \in Nodes, Effect(n), NEW k \in Nodes, Expected(k)
    PROVE  Expected(k)'
<1> SUFFICES ASSUME Up(k)' PROVE IsFiniteSet(Coming(k)') /\ Cardinality(Coming(k)') <= counter'[k]
  BY DEF Expected
<1>0. counter[k] \in Nat
  BY OverlayConstants DEF StartTypes
<1>1. CASE Begins(k)
  <2> DEFINE D == {c \in ConnsOf(links) : k \in EndsOf(links, c) /\ c[1] # k}
  <2>1. IsFiniteSet(D) /\ Cardinality(D) <= Incoming(k)
    BY AskedOfCount
  <2>2. Coming(k)' \in SUBSET D
    BY DEF Coming
  <2>3. counter'[k] = Incoming(k) /\ Incoming(k) \in Nat
    BY <1>1, IncomingBound DEF Begins
  <2> HIDE DEF D
  <2>4. IsFiniteSet(Coming(k)') /\ Cardinality(Coming(k)') <= Cardinality(D)
    BY <2>1, <2>2, FS_Subset
  <2>5. Cardinality(Coming(k)') \in Nat /\ Cardinality(D) \in Nat
    BY <2>1, <2>4, FS_CardinalityType
  <2> QED
    BY <2>1, <2>3, <2>4, <2>5
<1>2. CASE ~Begins(k)
  <2>1. Up(k)
    BY <1>2 DEF Effect, Begins, Accepts, Asks, Proceeds, Stops, OnlyNode, Up
  <2>2. IsFiniteSet(Coming(k)) /\ Cardinality(Coming(k)) <= counter[k]
    BY <2>1 DEF Expected
  <2>3. Coming(k)' \in SUBSET Coming(k)
    BY <1>2, ComingStep
  <2>4. IsFiniteSet(Coming(k)') /\ Cardinality(Coming(k)') <= Cardinality(Coming(k))
    BY <2>2, <2>3, FS_Subset
  <2>5. Cardinality(Coming(k)') \in Nat /\ Cardinality(Coming(k)) \in Nat
    BY <2>2, <2>4, FS_CardinalityType
  <2>6. ASSUME NEW c \in ConnsOf(links), k = n, Accepts(n, c)
        PROVE  Cardinality(Coming(k)') <= counter'[k]
    <3>1. /\ backlog[k] \in Seq(ConnsOf(links)) /\ Len(backlog[k]) \in Nat /\ backlog[k] # << >>
          /\ c = Head(backlog[k]) /\ backlog'[k] = Tail(backlog[k]) /\ counter'[k] = counter[k] - 1
          /\ main'[k] = main[k] /\ idx'[k] = idx[k]
      BY <2>6, BacklogFacts DEF Accepts
    <3>2. 1 \in 1..Len(backlog[k]) /\ backlog[k][1] = c
      BY <3>1
    <3>3. k \in EndsOf(links, c) /\ c[1] # k /\ (main[c[1]] # "down" => c[2] < idx[c[1]])
      BY <3>2 DEF Asked
    <3>4. c \in Coming(k)
      BY <3>2, <3>3 DEF Coming
    <3>5. c \notin Coming(k)'
      <4>1. c[1] \in Nodes /\ c[2] \in Nat /\ idx[c[1]] \in Nat
        BY ConnFacts DEF StartTypes
      <4>2. main'[c[1]] = main[c[1]] /\ idx'[c[1]] = idx[c[1]]
        BY <2>6, <4>1 DEF Accepts, OnlyNode
      <4>3. ASSUME NEW j \in 1..Len(backlog'[k]) PROVE backlog'[k][j] # c
        <5>1. /\ backlog'[k][j] = backlog[k][j + 1] /\ j + 1 \in 1..Len(backlog[k])
              /\ 1 \in 1..((j + 1) - 1)
          BY <3>1
        <5>2. /\ backlog[k][1][1] = backlog[k][j + 1][1] => backlog[k][1][2] < backlog[k][j + 1][2]
          BY <5>1 DEF Asked
        <5> QED
          BY <3>2, <4>1, <5>1, <5>2
      <4> QED
        BY <3>3, <4>1, <4>2, <4>3 DEF Coming
    <3>6. Coming(k)' \in SUBSET (Coming(k) \ {c})
      BY <2>3, <3>5
    <3>7. IsFiniteSet(Coming(k) \ {c}) /\ Cardinality(Coming(k) \ {c}) = Cardinality(Coming(k)) - 1
      BY <2>2, <3>4, FS_RemoveElement
    <3>8. Cardinality(Coming(k)') <= Cardinality(Coming(k) \ {c})
      BY <3>6, <3>7, FS_Subset
    <3> QED
      BY <1>0, <2>2, <2>5, <3>1, <3>7, <3>8
  <2>7. ASSUME ~(k = n /\ \E c \in ConnsOf(links) : Accepts(n, c)) PROVE counter'[k] = counter[k]
    <3>1. CASE k # n
      BY <3>1 DEF Effect, Begins, Accepts, Asks, Proceeds, Stops, OnlyNode
    <3>2. CASE k = n
      BY <1>2, <2>7, <3>2 DEF Effect, Asks, Proceeds, Stops, Up
    <3> QED
      BY <3>1, <3>2
  <2>8. Cardinality(Coming(k)') <= counter'[k]
    <3>1. CASE k = n /\ \E c \in ConnsOf(links) : Accepts(n, c)
      BY <2>6, <3>1
    <3>2. CASE ~(k = n /\ \E c \in ConnsOf(links) : Accepts(n, c))
      BY <1>0, <2>2, <2>4, <2>5, <2>7, <3>2
    <3> QED
      BY <3>1, <3>2
  <2> QED
    BY <2>4, <2>8
<1> QED
  BY <1>1, <1>2

-----------------------------------------------------------------------------
(* The connections two tables have.                                         *)

OneEach(table) ==
    \A e \in 1..Len(table) : table[e].conn # NoConn =>
        \A j \in 1..(e - 1) : table[j].nodeID # table[e].nodeID

LEMMA SetLast ==
    ASSUME NEW table, NEW new, NEW o, NEW n, n # 0, NEW i \in Nat, NEW S, Len(table) \in Nat,
           FirstSet(table, o, <<n, i>>, new), HasLast(table, o, n, S), OneEach(table),
           \A x \in S : x <= i, \E e \in 1..Len(table) : table[e].nodeID = o
    PROVE  HasLast(new, o, n, S \cup {i})
<1>1. PICK f \in 1..Len(table) :
          /\ table[f].nodeID = o /\ new[f].conn = <<n, i>>
          /\ \A e \in 1..(f - 1) : table[e].nodeID # o
          /\ \A e \in 1..Len(table) : e # f => new[e] = table[e]
  BY DEF FirstSet
<1>2. Len(new) = Len(table) /\ \A e \in 1..Len(table) : new[e].nodeID = table[e].nodeID
  BY DEF FirstSet
<1>3. <<n, i>> # NoConn
  BY DEF NoConn
<1>4. ASSUME NEW e \in 1..Len(table), new[e].nodeID = o, new[e].conn # NoConn PROVE e = f
  <2> SUFFICES ASSUME e # f PROVE FALSE
    OBVIOUS
  <2>1. new[e] = table[e]
    BY <1>1
  <2>2. ~(f < e)
    <3>1. f < e => f \in 1..(e - 1)
      OBVIOUS
    <3> QED
      BY <1>1, <1>4, <2>1, <3>1 DEF OneEach
  <2>3. ~(e < f)
    <3>1. e < f => e \in 1..(f - 1)
      OBVIOUS
    <3> QED
      BY <1>1, <1>4, <2>1, <3>1
  <2> QED
    BY <2>2, <2>3
<1>5. i \in S \cup {i} /\ \A x \in S \cup {i} : x <= i
  OBVIOUS
<1>6. new[f].nodeID = o /\ new[f].conn # NoConn
  BY <1>1, <1>2, <1>3
<1> QED
  BY <1>1, <1>2, <1>4, <1>5, <1>6 DEF HasLast

LEMMA OtherLast ==
    ASSUME NEW table, NEW new, NEW o, NEW p, p # o, NEW c, NEW n, NEW S,
           FirstSet(table, p, c, new), HasLast(table, o, n, S)
    PROVE  HasLast(new, o, n, S)
<1>1. Len(new) = Len(table) /\ \A e \in 1..Len(table) : new[e].nodeID = table[e].nodeID
  BY DEF FirstSet
<1>2. ASSUME NEW e \in 1..Len(table), table[e].nodeID = o PROVE new[e] = table[e]
  BY <1>2 DEF FirstSet
<1> QED
  BY <1>1, <1>2 DEF HasLast

LEMMA NoneMade ==
    ASSUME links \in Files, NEW n \in Nodes, NEW o, NEW m
    PROVE  HasLast(nt_create(links, n), o, m, {})
<1>1. PICK at : TableAt(links, n, at)
  BY TableFacts
<1>2. \A i \in 1..Len(nt_create(links, n)) : nt_create(links, n)[i].conn = NoConn
  BY <1>1 DEF TableAt
<1> QED
  BY <1>2 DEF HasLast

\* The node that is asked has an entry for the one that asks.
LEMMA FoundBack ==
    ASSUME links \in Files, NEW b \in Nodes, Life(b), Up(b),
           NEW c \in ConnsOf(links), b \in EndsOf(links, c), c[1] # b
    PROVE  \E e \in 1..Len(nt[b]) : nt[b][e].nodeID = c[1]
<1>1. /\ c[1] \in Nodes /\ c[2] \in 1..Len(nt_create(links, c[1]))
      /\ nt_create(links, c[1])[c[2]].nodeID = b
  BY ConnFacts
<1>2. PICK at : TableAt(links, c[1], at)
  BY <1>1, TableFacts
<1>3. at[c[2]] \in LinesTo(links, c[1], b)
  BY <1>1, <1>2 DEF TableAt, LinesTo
<1>4. at[c[2]] \in LinesTo(links, b, c[1])
  BY <1>1, <1>3, LinesBothWays
<1>5. PICK to : TableAt(links, b, to)
  BY TableFacts
<1>6. PICK e \in 1..Len(nt_create(links, b)) : to[e] = at[c[2]]
  BY <1>4, <1>5 DEF TableAt, LinesTo
<1>7. nt_create(links, b)[e].nodeID = c[1]
  BY <1>4, <1>5, <1>6 DEF TableAt, LinesTo
<1> QED
  BY <1>6, <1>7 DEF Life, Entries

LEMMA WaitingOf ==
    ASSUME NEW q, NEW n, NEW x
    PROVE  x \in Waiting(q, n) <=> \E j \in 1..Len(q) : q[j][1] = n /\ q[j][2] = x
BY DEF Waiting

LEMMA WaitingAppend ==
    ASSUME NEW C, NEW q \in Seq(C), NEW c \in C, NEW n
    PROVE  Waiting(Append(q, c), n) = Waiting(q, n) \cup (IF c[1] = n THEN {c[2]} ELSE {})
<1> DEFINE new == Append(q, c)
<1>1. /\ Len(q) \in Nat /\ Len(new) = Len(q) + 1 /\ new[Len(q) + 1] = c
      /\ \A j \in 1..Len(q) : new[j] = q[j]
  OBVIOUS
<1> HIDE DEF new
<1>2. ASSUME NEW x, x \in Waiting(new, n)
      PROVE  x \in Waiting(q, n) \/ (c[1] = n /\ x = c[2])
  <2>1. PICK j \in 1..Len(new) : new[j][1] = n /\ new[j][2] = x
    BY <1>2, WaitingOf
  <2>2. CASE j \in 1..Len(q)
    BY <1>1, <2>1, <2>2, WaitingOf
  <2>3. CASE j = Len(q) + 1
    BY <1>1, <2>1, <2>3
  <2> QED
    BY <1>1, <2>2, <2>3
<1>3. ASSUME NEW x, x \in Waiting(q, n) PROVE x \in Waiting(new, n)
  <2>1. PICK j \in 1..Len(q) : q[j][1] = n /\ q[j][2] = x
    BY <1>3, WaitingOf
  <2>2. j \in 1..Len(new) /\ new[j] = q[j]
    BY <1>1
  <2> QED
    BY <2>1, <2>2, WaitingOf
<1>4. c[1] = n => c[2] \in Waiting(new, n)
  <2>1. Len(q) + 1 \in 1..Len(new)
    BY <1>1
  <2> QED
    BY <1>1, <2>1, WaitingOf
<1> QED
  BY <1>2, <1>3, <1>4 DEF new

LEMMA WaitingTail ==
    ASSUME NEW C, NEW q \in Seq(C), q # << >>, NEW n
    PROVE  /\ Head(q)[1] # n => Waiting(Tail(q), n) = Waiting(q, n)
           /\ Waiting(q, n) = Waiting(Tail(q), n) \cup (IF Head(q)[1] = n THEN {Head(q)[2]} ELSE {})
           /\ \A x \in Waiting(Tail(q), n) : \E j \in 2..Len(q) : q[j][1] = n /\ q[j][2] = x
<1> DEFINE new == Tail(q)
           c == Head(q)
<1>1. /\ Len(q) \in Nat \ {0} /\ Len(new) = Len(q) - 1 /\ q[1] = c
      /\ \A j \in 1..Len(new) : new[j] = q[j + 1]
  OBVIOUS
<1> HIDE DEF new, c
<1>2. ASSUME NEW x, x \in Waiting(new, n) PROVE \E j \in 2..Len(q) : q[j][1] = n /\ q[j][2] = x
  <2>1. PICK j \in 1..Len(new) : new[j][1] = n /\ new[j][2] = x
    BY <1>2, WaitingOf
  <2>2. j + 1 \in 2..Len(q) /\ new[j] = q[j + 1]
    BY <1>1
  <2> QED
    BY <2>1, <2>2
<1>3. ASSUME NEW x, x \in Waiting(q, n) PROVE x \in Waiting(new, n) \/ (c[1] = n /\ x = c[2])
  <2>1. PICK j \in 1..Len(q) : q[j][1] = n /\ q[j][2] = x
    BY <1>3, WaitingOf
  <2>2. CASE j = 1
    BY <1>1, <2>1, <2>2
  <2>3. CASE j # 1
    <3>1. j - 1 \in 1..Len(new) /\ (j - 1) + 1 = j
      BY <1>1, <2>3
    <3>2. new[j - 1] = q[j]
      BY <1>1, <3>1
    <3> QED
      BY <2>1, <3>1, <3>2, WaitingOf
  <2> QED
    BY <2>2, <2>3
<1>4. Waiting(new, n) \subseteq Waiting(q, n)
  <2>1. ASSUME NEW x, x \in Waiting(new, n) PROVE x \in Waiting(q, n)
    <3>1. PICK j \in 2..Len(q) : q[j][1] = n /\ q[j][2] = x
      BY <1>2, <2>1
    <3>2. j \in 1..Len(q)
      OBVIOUS
    <3> QED
      BY <3>1, <3>2, WaitingOf
  <2> QED
    BY <2>1
<1>5. c[1] = n => c[2] \in Waiting(q, n)
  <2>1. 1 \in 1..Len(q)
    BY <1>1
  <2> QED
    BY <1>1, <2>1, WaitingOf
<1> QED
  BY <1>2, <1>3, <1>4, <1>5 DEF new, c

LEMMA MadeNext ==
    ASSUME NEW table, Len(table) \in Nat, NEW i \in 1..Len(table), NEW m
    PROVE  /\ Made(table, i + 1, m) = Made(table, i, m) \cup (IF table[i].nodeID = m THEN {i} ELSE {})
           /\ i \notin Made(table, i, m) /\ \A x \in Made(table, i, m) : x \in Nat /\ x < i
<1>1. (i + 1) - 1 = i /\ i \in Nat /\ 1..i = (1..(i - 1)) \cup {i}
  OBVIOUS
<1> QED
  BY <1>1 DEF Made

LEMMA MadeIds ==
    ASSUME NEW table, NEW new, NEW i, NEW m, Len(new) = Len(table),
           \A e \in 1..Len(table) : new[e].nodeID = table[e].nodeID
    PROVE  Made(new, i, m) = Made(table, i, m)
BY DEF Made

\* The parts of LastConns.
Found(tb, made, waiting, a) ==
    /\ waiting \subseteq made
    /\ \A x \in waiting, y \in made \ waiting : y < x
    /\ HasLast(tb, a, a, made \ waiting)

LEMMA LastParts ==
    ASSUME NEW a \in Nodes, NEW b \in Nodes
    PROVE  LastConns(a, b) <=>
               (main[a] # "down" /\ b < a =>
                   /\ HasLast(nt[a], b, a, Made(nt[a], idx[a], b))
                   /\ main[b] # "down" =>
                        Found(nt[b], Made(nt[a], idx[a], b), Waiting(backlog[b], a), a))
BY DEF LastConns, Found

\* The one that asks takes a step.
LEMMA LastConnsAsker ==
    ASSUME links \in Files, StartTypes, \A n \in Nodes : Life(n) /\ TableConns(n) /\ Asked(n),
           links' = links, NEW a \in Nodes, Effect(a), NEW b \in Nodes, b < a, main'[a] # "down",
           HasLast(nt[a], b, a, Made(nt[a], idx[a], b)),
           main[b] # "down" => Found(nt[b], Made(nt[a], idx[a], b), Waiting(backlog[b], a), a)
    PROVE  /\ HasLast(nt'[a], b, a, Made(nt'[a], idx'[a], b))
           /\ main'[b] # "down" => Found(nt'[b], Made(nt'[a], idx'[a], b), Waiting(backlog'[b], a), a)
<1> DEFINE M == Made(nt[a], idx[a], b)
           MM == Made(nt'[a], idx'[a], b)
           W == Waiting(backlog[b], a)
           WW == Waiting(backlog'[b], a)
<1>0. /\ a \in Nat \ {0} /\ b \in Nat \ {0} /\ a # b /\ Len(nt[a]) \in Nat /\ idx[a] \in Nat
      /\ main'[b] = main[b] /\ nt'[b] = nt[b]
  <2>1. nt[a] \in Seq([nodeID : Nodes, conn : ConnsOf(links) \cup {NoConn}])
    BY DEF StartTypes
  <2>2. Len(nt[a]) \in Nat
    BY <2>1, SeqElements
  <2>3. a \in Nat \ {0} /\ b \in Nat \ {0} /\ a # b
    BY OverlayConstants
  <2> QED
    BY <2>2, <2>3 DEF StartTypes, Effect, Begins, Accepts, Asks, Proceeds, Stops, OnlyNode
<1>1. CASE Begins(a)
  <2>1. nt[a] = << >> /\ backlog'[b] = backlog[b] /\ nt'[a] = nt_create(links, a) /\ idx'[a] = 1
    BY <1>1 DEF Begins, Life, Up
  <2>2. M = {} /\ MM = {}
    BY <2>1 DEF Made
  <2>3. WW = W
    BY <2>1
  <2>4. HasLast(nt'[a], b, a, {})
    BY <2>1, NoneMade
  <2> HIDE DEF M, MM, W, WW
  <2> QED
    BY <1>0, <2>2, <2>3, <2>4 DEF M, MM, W, WW
<1>2. ASSUME NEW c \in ConnsOf(links), Accepts(a, c)
      PROVE  HasLast(nt'[a], b, a, MM) /\ (main'[b] # "down" => Found(nt'[b], MM, WW, a))
  <2>1. backlog[a] \in Seq(ConnsOf(links)) /\ backlog[a] # << >> /\ c = Head(backlog[a])
    BY <1>2, BacklogFacts DEF Accepts
  <2>2. 1 \in 1..Len(backlog[a]) /\ backlog[a][1] = c
    BY <2>1
  <2>3. a \in EndsOf(links, c) /\ c[1] # a
    BY <2>2 DEF Asked
  <2>4. c[1] # b
    BY <1>0, <2>3, ConnFacts
  <2>5. FirstSet(nt[a], c[1], c, nt'[a]) /\ idx'[a] = idx[a] /\ backlog'[b] = backlog[b]
    BY <1>0, <1>2 DEF Accepts
  <2>6. Len(nt'[a]) = Len(nt[a]) /\ \A e \in 1..Len(nt[a]) : nt'[a][e].nodeID = nt[a][e].nodeID
    BY <2>5 DEF FirstSet
  <2>7. MM = M /\ WW = W
    BY <2>5, <2>6, MadeIds
  <2> HIDE DEF M, MM, W, WW
  <2>8. HasLast(nt'[a], b, a, M)
    BY <2>4, <2>5, OtherLast DEF M
  <2> QED
    BY <1>0, <2>7, <2>8 DEF M, W
<1>3. ASSUME NEW m \in Nodes, Asks(a, m)
      PROVE  HasLast(nt'[a], b, a, MM) /\ (main'[b] # "down" => Found(nt'[b], MM, WW, a))
  <2> DEFINE i == idx[a]
  <2>1. /\ i \in 1..Len(nt[a]) /\ m = nt[a][i].nodeID /\ idx'[a] = i + 1
        /\ FirstSet(nt[a], m, <<a, i>>, nt'[a])
        /\ backlog'[m] = Append(backlog[m], <<a, i>>)
        /\ \A k \in Nodes \ {m} : backlog'[k] = backlog[k]
    BY <1>3, Zenon DEF Asks, Entries
  <2> HIDE DEF i
  <2>2. Len(nt'[a]) = Len(nt[a]) /\ \A e \in 1..Len(nt[a]) : nt'[a][e].nodeID = nt[a][e].nodeID
    BY <2>1, Zenon DEF FirstSet
  <2>3. /\ MM = M \cup (IF nt[a][i].nodeID = b THEN {i} ELSE {})
        /\ i \notin M /\ \A x \in M : x \in Nat /\ x < i
    <3>1. MM = Made(nt[a], i + 1, b)
      <4>1. Made(nt'[a], idx'[a], b) = Made(nt[a], idx'[a], b)
        BY <2>2, MadeIds
      <4> QED
        BY <2>1, <4>1, Zenon
    <3>2. M = Made(nt[a], i, b)
      BY DEF i
    <3>3. /\ Made(nt[a], i + 1, b) = Made(nt[a], i, b) \cup (IF nt[a][i].nodeID = b THEN {i} ELSE {})
          /\ i \notin Made(nt[a], i, b) /\ \A x \in Made(nt[a], i, b) : x \in Nat /\ x < i
      BY <1>0, <2>1, MadeNext, Zenon
    <3> HIDE DEF M, MM
    <3> QED
      BY <3>1, <3>2, <3>3
  <2>4. backlog[m] \in Seq(ConnsOf(links)) /\ <<a, i>> \in ConnsOf(links)
    BY <1>3, BacklogFacts, AsksFacts DEF i
  <2>5. CASE m = b
    <3>1. WW = W \cup {i}
      <4> DEFINE c == <<a, i>>
      <4>1. c[1] = a /\ c[2] = i
        OBVIOUS
      <4> HIDE DEF c
      <4>2. backlog'[b] = Append(backlog[b], c) /\ backlog[b] \in Seq(ConnsOf(links)) /\ c \in ConnsOf(links)
        BY <2>1, <2>4, <2>5 DEF c
      <4>3. Waiting(Append(backlog[b], c), a) = Waiting(backlog[b], a) \cup (IF c[1] = a THEN {c[2]} ELSE {})
        BY <4>2, WaitingAppend
      <4> QED
        BY <4>1, <4>2, <4>3
    <3>2. MM = M \cup {i}
      BY <2>1, <2>3, <2>5
    <3>3. OneEach(nt[a])
      BY DEF TableConns, OneEach, Entries
    <3> HIDE DEF M, MM, W, WW
    <3>4. HasLast(nt[a], b, a, M) /\ \A x \in M : x <= i
      <4>1. HasLast(nt[a], b, a, M)
        BY DEF M
      <4>2. i \in Nat
        BY <1>0 DEF i
      <4> QED
        BY <2>3, <4>1, <4>2
    <3>5. HasLast(nt'[a], b, a, M \cup {i})
      <4>1. i \in Nat /\ \E e \in 1..Len(nt[a]) : nt[a][e].nodeID = b
        BY <1>0, <2>1, <2>5 DEF i
      <4>2. FirstSet(nt[a], b, <<a, i>>, nt'[a])
        BY <2>1, <2>5
      <4> QED
        BY <1>0, <3>3, <3>4, <4>1, <4>2, SetLast
    <3>6. ASSUME main[b] # "down" PROVE Found(nt[b], MM, WW, a)
      <4>1. /\ W \subseteq M /\ \A x \in W, y \in M \ W : y < x
            /\ HasLast(nt[b], a, a, M \ W)
        BY <3>6 DEF Found, M, W
      <4>2. MM \ WW = M \ W
        BY <2>3, <3>1, <3>2, <4>1
      <4>3. WW \subseteq MM /\ \A x \in WW, y \in M \ W : y < x
        BY <2>3, <3>1, <3>2, <4>1
      <4> QED
        BY <4>1, <4>2, <4>3 DEF Found
    <3> QED
      BY <1>0, <3>2, <3>5, <3>6
  <2>6. CASE m # b
    <3>1. MM = M /\ WW = W
      BY <2>1, <2>3, <2>6, Zenon
    <3> HIDE DEF M, MM, W, WW
    <3>2. HasLast(nt'[a], b, a, M)
      BY <2>1, <2>6, OtherLast, Zenon DEF M
    <3> QED
      BY <1>0, <3>1, <3>2 DEF M, W
  <2> QED
    BY <2>5, <2>6
<1>4. CASE Proceeds(a)
  <2>1. nt'[a] = nt[a] /\ backlog'[b] = backlog[b]
    BY <1>4 DEF Proceeds
  <2>2. MM = M
    <3>1. CASE idx'[a] = idx[a]
      BY <2>1, <3>1
    <3>2. CASE idx'[a] = idx[a] + 1 /\ idx[a] \in 1..Len(nt[a]) /\ nt[a][idx[a]].nodeID >= a
      <4>1. nt[a][idx[a]].nodeID # b
        BY <1>0, <3>2
      <4>2. Made(nt[a], idx[a] + 1, b) =
                Made(nt[a], idx[a], b) \cup (IF nt[a][idx[a]].nodeID = b THEN {idx[a]} ELSE {})
        BY <1>0, <3>2, MadeNext
      <4> QED
        BY <2>1, <3>2, <4>1, <4>2
    <3> QED
      BY <1>4, <3>1, <3>2 DEF Proceeds, Entries
  <2> HIDE DEF M, MM
  <2> QED
    BY <1>0, <2>1, <2>2 DEF M, MM
<1>5. CASE Stops(a)
  BY <1>5 DEF Stops
<1> QED
  BY <1>1, <1>2, <1>3, <1>4, <1>5 DEF Effect

\* The one that is asked takes a step.
LEMMA LastConnsAsked ==
    ASSUME links \in Files, StartTypes, \A n \in Nodes : Life(n) /\ TableConns(n) /\ Asked(n),
           links' = links, NEW a \in Nodes, NEW b \in Nodes, Effect(b), b < a,
           main[b] # "down" => Found(nt[b], Made(nt[a], idx[a], b), Waiting(backlog[b], a), a)
    PROVE  main'[b] # "down" => Found(nt'[b], Made(nt[a], idx[a], b), Waiting(backlog'[b], a), a)
<1> DEFINE M == Made(nt[a], idx[a], b)
           W == Waiting(backlog[b], a)
           WW == Waiting(backlog'[b], a)
<1>0. /\ a \in Nat \ {0} /\ b \in Nat \ {0} /\ a # b /\ Len(nt[b]) \in Nat
  <2>1. nt[b] \in Seq([nodeID : Nodes, conn : ConnsOf(links) \cup {NoConn}])
    BY DEF StartTypes
  <2>2. Len(nt[b]) \in Nat
    BY <2>1, SeqElements
  <2>3. a \in Nat \ {0} /\ b \in Nat \ {0} /\ a # b
    BY OverlayConstants
  <2> QED
    BY <2>2, <2>3
<1> SUFFICES ASSUME main'[b] # "down" PROVE Found(nt'[b], M, WW, a)
  OBVIOUS
<1>1. /\ W \subseteq M /\ \A x \in W, y \in M \ W : y < x
      /\ HasLast(nt[b], a, a, M \ W)
  BY MovesOn DEF Found
<1>2. M \subseteq Nat
  BY DEF Made
<1> HIDE DEF M
<1>3. CASE Begins(b)
  <2>1. nt[b] = << >> /\ backlog'[b] = backlog[b] /\ nt'[b] = nt_create(links, b)
    BY <1>3 DEF Begins, Life, Up
  <2>2. M \ W = {}
    BY <1>1, <2>1 DEF HasLast
  <2>3. HasLast(nt'[b], a, a, {})
    BY <2>1, NoneMade
  <2>4. WW = W
    BY <2>1
  <2> HIDE DEF W, WW
  <2> QED
    BY <1>1, <2>2, <2>3, <2>4 DEF Found
<1>4. ASSUME NEW c \in ConnsOf(links), Accepts(b, c) PROVE Found(nt'[b], M, WW, a)
  <2>1. /\ backlog[b] \in Seq(ConnsOf(links)) /\ backlog[b] # << >> /\ c = Head(backlog[b])
        /\ backlog'[b] = Tail(backlog[b]) /\ Len(backlog[b]) \in Nat
    BY <1>4, BacklogFacts DEF Accepts
  <2>2. 1 \in 1..Len(backlog[b]) /\ backlog[b][1] = c
    BY <2>1
  <2>3. b \in EndsOf(links, c) /\ c[1] # b
    BY <2>2 DEF Asked
  <2>4. c = <<c[1], c[2]>> /\ c[1] \in Nodes /\ c[2] \in Nat
    BY ConnFacts
  <2>5. FirstSet(nt[b], c[1], c, nt'[b]) /\ waitNbrs[b] = "listen"
    BY <1>4 DEF Accepts
  <2>6. Up(b)
    BY <2>5 DEF Life, Up
  <2>7. CASE c[1] = a
    <3> DEFINE i == c[2]
    <3>1. W = WW \cup {i}
      BY <2>1, <2>7, WaitingTail
    <3>2. ASSUME NEW x \in WW PROVE i < x
      <4>1. PICK j \in 2..Len(backlog[b]) : backlog[b][j][1] = a /\ backlog[b][j][2] = x
        BY <2>1, WaitingTail
      <4>2. j \in 1..Len(backlog[b]) /\ 1 \in 1..(j - 1)
        BY <2>1
      <4>3. backlog[b][1][1] = backlog[b][j][1] => backlog[b][1][2] < backlog[b][j][2]
        BY <4>2 DEF Asked
      <4> QED
        BY <2>2, <2>7, <4>1, <4>3
    <3> HIDE DEF W, WW
    <3>3. i \in W /\ i \in M /\ i \notin WW /\ i \in Nat
      BY <1>1, <1>2, <2>4, <3>1, <3>2
    <3>4. M \ WW = (M \ W) \cup {i}
      BY <3>1, <3>3
    <3>5. \A x \in M \ W : x <= i
      BY <1>1, <1>2, <3>3
    <3>6. OneEach(nt[b])
      BY DEF TableConns, OneEach, Entries
    <3>7. \E e \in 1..Len(nt[b]) : nt[b][e].nodeID = a
      BY <2>3, <2>6, <2>7, FoundBack
    <3>8. FirstSet(nt[b], a, <<a, i>>, nt'[b])
      BY <2>4, <2>5, <2>7
    <3>9. HasLast(nt'[b], a, a, (M \ W) \cup {i})
      BY <1>0, <1>1, <3>3, <3>5, <3>6, <3>7, <3>8, SetLast
    <3>10. \A x \in WW, y \in M \ WW : y < x
      BY <1>1, <1>2, <3>1, <3>2, <3>4
    <3>11. WW \subseteq M
      BY <1>1, <3>1
    <3> QED
      BY <3>4, <3>9, <3>10, <3>11 DEF Found
  <2>8. CASE c[1] # a
    <3>1. WW = W
      BY <2>1, <2>8, WaitingTail
    <3> HIDE DEF W, WW
    <3>2. HasLast(nt'[b], a, a, M \ W)
      BY <1>1, <2>5, <2>8, OtherLast
    <3> QED
      BY <1>1, <3>1, <3>2 DEF Found
  <2> QED
    BY <2>7, <2>8
<1>5. ASSUME NEW m \in Nodes, Asks(b, m) PROVE Found(nt'[b], M, WW, a)
  <2>1. m # b /\ m # a
    <3>1. m \in Nat /\ m < b
      BY <1>5, OverlayConstants, Zenon DEF Asks
    <3> QED
      BY <1>0, <3>1
  <2>2. FirstSet(nt[b], m, <<b, idx[b]>>, nt'[b]) /\ backlog'[b] = backlog[b]
    BY <1>5, <2>1, Zenon DEF Asks
  <2>3. WW = W
    BY <2>2
  <2> HIDE DEF W, WW
  <2>4. HasLast(nt'[b], a, a, M \ W)
    BY <1>1, <2>1, <2>2, OtherLast
  <2> QED
    BY <1>1, <2>3, <2>4 DEF Found
<1>6. CASE Proceeds(b)
  <2>1. nt'[b] = nt[b] /\ WW = W
    BY <1>6 DEF Proceeds
  <2> HIDE DEF W, WW
  <2> QED
    BY <1>1, <2>1 DEF Found
<1>7. CASE Stops(b)
  BY <1>7 DEF Stops
<1> QED
  BY <1>3, <1>4, <1>5, <1>6, <1>7 DEF Effect

LEMMA LastConnsStep ==
    ASSUME links \in Files, StartTypes, \A n \in Nodes : Life(n) /\ TableConns(n) /\ Asked(n),
           links' = links, NEW n \in Nodes, Effect(n), NEW a \in Nodes, NEW b \in Nodes, LastConns(a, b)
    PROVE  LastConns(a, b)'
<1> SUFFICES ASSUME main'[a] # "down", b < a
             PROVE  /\ HasLast(nt'[a], b, a, Made(nt'[a], idx'[a], b))
                    /\ main'[b] # "down" =>
                         Found(nt'[b], Made(nt'[a], idx'[a], b), Waiting(backlog'[b], a), a)
  BY DEF LastConns, Found
<1>1. /\ HasLast(nt[a], b, a, Made(nt[a], idx[a], b))
      /\ main[b] # "down" => Found(nt[b], Made(nt[a], idx[a], b), Waiting(backlog[b], a), a)
  BY MovesOn, LastParts
<1>2. a # b
  BY OverlayConstants
<1>3. \A k \in Nodes \ {n} : main'[k] = main[k] /\ nt'[k] = nt[k] /\ idx'[k] = idx[k]
  BY DEF Effect, Begins, Accepts, Asks, Proceeds, Stops, OnlyNode
<1>4. CASE n = a
  BY <1>1, <1>4, LastConnsAsker
<1>5. CASE n = b
  BY <1>1, <1>2, <1>3, <1>5, LastConnsAsked
<1>6. CASE n # a /\ n # b
  <2>1. Waiting(backlog'[b], a) = Waiting(backlog[b], a)
    <3>1. CASE backlog'[b] = backlog[b]
      BY <3>1
    <3>2. CASE Asks(n, b)
      <4>1. <<n, idx[n]>> \in ConnsOf(links) /\ backlog[b] \in Seq(ConnsOf(links))
        BY <3>2, AsksFacts, BacklogFacts
      <4>2. backlog'[b] = Append(backlog[b], <<n, idx[n]>>) /\ <<n, idx[n]>>[1] # a
        BY <1>6, <3>2, Zenon DEF Asks
      <4> DEFINE c == <<n, idx[n]>>
      <4> HIDE DEF c
      <4>3. Waiting(Append(backlog[b], c), a) = Waiting(backlog[b], a) \cup (IF c[1] = a THEN {c[2]} ELSE {})
        BY <4>1, WaitingAppend DEF c
      <4> QED
        BY <4>2, <4>3, Zenon DEF c
    <3> QED
      BY <1>6, <3>1, <3>2, BacklogSteps
  <2> QED
    BY <1>1, <1>3, <1>6, <2>1
<1> QED
  BY <1>4, <1>5, <1>6

-----------------------------------------------------------------------------
(* What follows from the invariant, and that it is one.                     *)

LEMMA StartStays ==
    ASSUME StartInv, links' = links, UNCHANGED startVars
    PROVE  StartInv'
<1> USE DEF startVars
<1>1. StartTypes'
  BY DEF StartInv, StartTypes
<1>2. ASSUME NEW n \in Nodes PROVE Life(n)' /\ TableConns(n)' /\ Asked(n)' /\ Expected(n)'
  <2>1. Life(n)'
    BY DEF StartInv, Life, Up, Entries
  <2>5. TableConns(n)'
    <3>1. TableConns(n) /\ nt'[n] = nt[n] /\ links' = links
      BY DEF StartInv
    <3> HIDE DEF startVars
    <3> QED
      BY <3>1, Zenon DEF Entries, TableConns
  <2>6. Asked(n)'
    <3>1. Asked(n) /\ links' = links /\ backlog' = backlog /\ main' = main /\ idx' = idx
      BY DEF StartInv
    <3> HIDE DEF startVars
    <3> QED
      BY <3>1 DEF Asked
  <2>2. Coming(n)' = Coming(n)
    BY DEF Coming
  <2>3. Expected(n) /\ counter'[n] = counter[n] /\ (Up(n)' <=> Up(n))
    BY DEF StartInv, Up
  <2> HIDE DEF startVars
  <2>4. Expected(n)'
    BY <2>2, <2>3 DEF Expected
  <2> QED
    BY <2>1, <2>4, <2>5, <2>6
<1>3. ASSUME NEW n \in Nodes, NEW m \in Nodes PROVE LastConns(n, m)'
  <2>1. LastConns(n, m)
    BY DEF StartInv
  <2> QED
    BY <2>1 DEF LastConns
<1> QED
  BY <1>1, <1>2, <1>3 DEF StartInv

LEMMA StartInvStep ==
    ASSUME WireShape, StartInv, [Next]_vars
    PROVE  WireShape' /\ StartInv'
<1>1. WireShape' /\ links' = links /\ links \in Files
  BY ShapeKept, StartKinds DEF WireShape
<1>2. CASE UNCHANGED startVars
  BY <1>1, <1>2, StartStays
<1>3. ASSUME NEW n \in Nodes, StartStep(n) PROVE StartInv'
  <2>1. StartTypes /\ \A k \in Nodes : Life(k) /\ TableConns(k) /\ Asked(k) /\ Expected(k)
    BY DEF StartInv
  <2>2. Effect(n)
    BY <1>1, <1>3, <2>1, StartEffects DEF Effect
  <2>3. StartTypes'
    BY <1>1, <1>3, <2>1, StartTypesStep
  <2>4. ASSUME NEW k \in Nodes PROVE Life(k)' /\ TableConns(k)' /\ Asked(k)' /\ Expected(k)'
    BY <1>1, <2>1, <2>2, LifeStep, TableConnsStep, AskedStep, ExpectedStep
  <2>5. ASSUME NEW a \in Nodes, NEW b \in Nodes PROVE LastConns(a, b)'
    <3>1. LastConns(a, b)
      BY DEF StartInv
    <3> QED
      BY <1>1, <2>1, <2>2, <3>1, LastConnsStep
  <2> QED
    BY <2>3, <2>4, <2>5 DEF StartInv
<1> QED
  BY <1>1, <1>2, <1>3, StartKinds

LEMMA StartInvInit ==
    ASSUME OverlayInit
    PROVE  WireShape /\ StartInv
<1>1. WireShape
  BY DEF OverlayInit, WireShape
<1>2. \A n \in Nodes : /\ main[n] = "off" /\ waitNbrs[n] = "off" /\ idx[n] = 0 /\ counter[n] = 0
                       /\ nt[n] = << >> /\ backlog[n] = << >>
  BY DEF OverlayInit
<1>3. StartTypes
  <2>1. 0 \in 0..LineBound
    BY OverlayConstants
  <2> DEFINE E == [nodeID : Nodes, conn : ConnsOf(links) \cup {NoConn}]
  <2>2. << >> \in Seq(E) /\ << >> \in Seq(ConnsOf(links))
    OBVIOUS
  <2>3. nt \in [Nodes -> Seq(E)] /\ backlog \in [Nodes -> Seq(ConnsOf(links))]
    <3> HIDE DEF E
    <3> QED
      BY <2>2 DEF OverlayInit
  <2>4. /\ main \in [Nodes -> {"off", "connect", "join", "serve", "down"}]
        /\ waitNbrs \in [Nodes -> {"off", "bind", "listen", "done"}]
        /\ idx \in [Nodes -> Nat] /\ counter \in [Nodes -> 0..LineBound]
    BY <2>1 DEF OverlayInit
  <2> QED
    BY <2>3, <2>4 DEF StartTypes
<1>4. ASSUME NEW n \in Nodes PROVE Life(n) /\ TableConns(n) /\ Asked(n) /\ Expected(n)
  BY <1>2 DEF Life, Up, TableConns, Entries, Asked, Expected
<1>5. ASSUME NEW n \in Nodes, NEW m \in Nodes PROVE LastConns(n, m)
  <2>1. nt[n] = << >> /\ nt[m] = << >> /\ backlog[m] = << >>
    BY <1>2
  <2>2. Made(nt[n], idx[n], m) = {} /\ Waiting(backlog[m], n) = {}
    BY <2>1 DEF Made, Waiting
  <2> QED
    BY <2>1, <2>2 DEF LastConns, HasLast
<1> QED
  BY <1>1, <1>3, <1>4, <1>5 DEF StartInv

\* Whatever the order in which the nodes start, connect and accept, a process
\* counts at least the connections that are still to come, and the last
\* connection two neighbours make is the one both find in their tables
\* (waitNbrs() and connectNbrs() in overlay.c, nt_addconn() in neighbortable.c).
THEOREM StartCorrect == Spec => [](WireShape /\ StartInv)
<1>1. OverlayInit => WireShape /\ StartInv
  BY StartInvInit
<1>2. (WireShape /\ StartInv) /\ [Next]_vars => (WireShape /\ StartInv)'
  BY StartInvStep
<1> QED
  BY <1>1, <1>2, PTL DEF Spec

\* A node that stopped listening has nothing still to come.
LEMMA NothingComes ==
    ASSUME StartInv, NEW m \in Nodes, waitNbrs[m] = "done", main[m] # "down"
    PROVE  Coming(m) = {}
<1>1. Up(m) /\ counter[m] = 0
  BY DEF StartInv, Life, Up
<1>2. IsFiniteSet(Coming(m)) /\ Cardinality(Coming(m)) <= 0
  BY <1>1 DEF StartInv, Expected
<1>3. Cardinality(Coming(m)) \in Nat
  BY <1>2, FS_CardinalityType
<1>4. Cardinality(Coming(m)) = 0
  BY <1>2, <1>3
<1> QED
  BY <1>2, <1>4, FS_EmptySet

\* A connection is refused only by a node that does not listen yet, or has
\* ended (waitNbrs() and connectNbrs() in overlay.c).
THEOREM RefusedOnlyEarlyCorrect == Spec => RefusedOnlyEarly
<1> DEFINE Early == \A n \in Nodes : ConnectRefused(n) =>
                        LET m == nt[n][idx[n]].nodeID
                        IN  waitNbrs[m] \in {"off", "bind"} \/ main[m] = "down"
<1>1. WireShape /\ StartInv => Early
  <2> SUFFICES ASSUME WireShape, StartInv, NEW n \in Nodes, ConnectRefused(n)
               PROVE  LET m == nt[n][idx[n]].nodeID
                      IN  waitNbrs[m] \in {"off", "bind"} \/ main[m] = "down"
    OBVIOUS
  <2> DEFINE m == nt[n][idx[n]].nodeID
  <2>1. main[n] = "connect" /\ idx[n] <= Len(nt[n]) /\ m < n /\ waitNbrs[m] # "listen"
    BY DEF ConnectRefused, Connecting, Listening
  <2>2. /\ Len(nt[n]) = Len(nt_create(links, n)) /\ idx[n] \in 1..Len(nt_create(links, n))
        /\ m = nt_create(links, n)[idx[n]].nodeID
    <3>1. Life(n) /\ Up(n)
      BY <2>1 DEF StartInv, Up
    <3>2. /\ Len(nt[n]) = Len(nt_create(links, n)) /\ idx[n] \in 1..(Len(nt[n]) + 1)
          /\ \A i \in 1..Len(nt[n]) : nt[n][i].nodeID = nt_create(links, n)[i].nodeID
      BY <3>1 DEF Life, Entries
    <3>3. Len(nt_create(links, n)) \in Nat
      BY TableFacts, FileFacts DEF WireShape
    <3>4. idx[n] \in 1..Len(nt[n])
      BY <2>1, <3>2, <3>3
    <3> QED
      BY <3>2, <3>4
  <2>3. <<n, idx[n]>> \in ConnsOf(links)
    <3>1. Len(nt_create(links, n)) \in 0..Len(links) /\ Len(links) \in Nat
      BY TableFacts, FileFacts DEF WireShape
    <3> HIDE DEF m
    <3> QED
      BY <2>1, <2>2, <3>1 DEF ConnsOf
  <2>4. m \in Nodes /\ m \in EndsOf(links, <<n, idx[n]>>) /\ n # m
    <3>1. links \in Files
      BY DEF WireShape
    <3> QED
      BY <2>2, <2>3, <3>1, ConnFacts DEF EndsOf
  <2> HIDE DEF m
  <2>5. <<n, idx[n]>> \in Coming(m)
    <3> DEFINE c == <<n, idx[n]>>
    <3>1. c[1] = n /\ c[2] = idx[n] /\ idx[n] \in Nat
      BY DEF StartInv, StartTypes
    <3> HIDE DEF c
    <3>2. c \in ConnsOf(links) /\ m \in EndsOf(links, c)
      BY <2>3, <2>4 DEF c
    <3>3. c \in Coming(m)
      BY <2>1, <2>4, <3>1, <3>2 DEF Coming
    <3> QED
      BY <3>3 DEF c
  <2>6. waitNbrs[m] = "done" => main[m] = "down"
    BY <2>4, <2>5, NothingComes
  <2> QED
    BY <2>1, <2>4, <2>6 DEF StartInv, StartTypes, m
<1>2. Spec => [](WireShape /\ StartInv)
  BY StartCorrect
<1>3. WireShape /\ StartInv => [Early]_vars
  BY <1>1
<1> QED
  BY <1>2, <1>3, PTL DEF RefusedOnlyEarly

LEMMA SameLast ==
    ASSUME NEW ta, NEW tb, NEW a, NEW b, NEW n, NEW S, S \subseteq Nat,
           HasLast(ta, b, n, S), HasLast(tb, a, n, S),
           NEW e \in 1..Len(ta), ta[e].nodeID = b, ta[e].conn # NoConn
    PROVE  \E f \in 1..Len(tb) : tb[f].nodeID = a /\ tb[f].conn = ta[e].conn
<1>1. PICK i \in S : ta[e].conn = <<n, i>> /\ \A x \in S : x <= i
  BY DEF HasLast
<1>2. PICK f \in 1..Len(tb) : tb[f].nodeID = a /\ tb[f].conn # NoConn
  BY <1>1 DEF HasLast
<1>3. PICK j \in S : tb[f].conn = <<n, j>> /\ \A x \in S : x <= j
  BY <1>2 DEF HasLast
<1>4. i = j
  BY <1>1, <1>3
<1> QED
  BY <1>1, <1>2, <1>3, <1>4

LEMMA BothServe ==
    ASSUME WireShape, StartInv, NEW a \in Nodes, NEW b \in Nodes, b < a,
           main[a] = "serve", main[b] = "serve"
    PROVE  ConnsTo(a, b) = ConnsTo(b, a)
<1> DEFINE M == Made(nt[a], idx[a], b)
<1>1. links \in Files /\ StartTypes /\ Asked(b) /\ LastConns(a, b) /\ waitNbrs[b] = "done"
  BY DEF WireShape, StartInv, Life
<1>2. Coming(b) = {}
  BY <1>1, NothingComes
<1>3. Waiting(backlog[b], a) = {}
  <2> SUFFICES ASSUME NEW j \in 1..Len(backlog[b]) PROVE FALSE
    BY DEF Waiting
  <2>1. backlog[b][j] \in ConnsOf(links) /\ b \in EndsOf(links, backlog[b][j]) /\ backlog[b][j][1] # b
    BY <1>1, BacklogFacts DEF Asked
  <2>2. backlog[b][j] \in Coming(b)
    BY <2>1 DEF Coming
  <2> QED
    BY <1>2, <2>2
<1>4. M \subseteq Nat
  BY DEF Made
<1>5. HasLast(nt[a], b, a, M) /\ HasLast(nt[b], a, a, M)
  <2>1. M \ {} = M
    OBVIOUS
  <2> HIDE DEF M
  <2> QED
    BY <1>1, <1>3, <2>1 DEF LastConns, M
<1> HIDE DEF M
<1>6. ConnsTo(a, b) \subseteq ConnsTo(b, a)
  BY <1>4, <1>5, SameLast DEF ConnsTo, Entries
<1>7. ConnsTo(b, a) \subseteq ConnsTo(a, b)
  <2> SUFFICES ASSUME NEW e \in 1..Len(nt[b]), nt[b][e].nodeID = a, nt[b][e].conn # NoConn
               PROVE  \E f \in 1..Len(nt[a]) : nt[a][f].nodeID = b /\ nt[a][f].conn = nt[b][e].conn
    BY DEF ConnsTo, Entries
  <2> QED
    BY <1>4, <1>5, SameLast
<1> QED
  BY <1>6, <1>7

\* Two neighbours that have finished their start use the same connection, and an
\* entry only holds one to the node it names (nt_addconn() in neighbortable.c,
\* under waitNbrs() and connectNbrs()).
THEOREM SameConnectionCorrect == Spec => []SameConnection
<1>1. WireShape /\ StartInv => SameConnection
  <2> SUFFICES ASSUME WireShape, StartInv, NEW n \in Nodes, NEW m \in Nodes
               PROVE  /\ \A c \in ConnsTo(n, m) : Ends(c) = {n, m}
                      /\ main[n] = "serve" /\ main[m] = "serve" => ConnsTo(n, m) = ConnsTo(m, n)
    BY DEF SameConnection
  <2>1. ASSUME NEW c \in ConnsTo(n, m) PROVE Ends(c) = {n, m}
    <3>1. PICK i \in 1..Len(nt[n]) : nt[n][i].nodeID = m /\ nt[n][i].conn = c /\ c # NoConn
      BY DEF ConnsTo, Entries
    <3>2. EndsOf(links, c) = {n, m}
      BY <3>1 DEF StartInv, TableConns, Entries
    <3>3. c \in ConnsOf(links)
      <4>1. nt[n] \in Seq([nodeID : Nodes, conn : ConnsOf(links) \cup {NoConn}])
        BY DEF StartInv, StartTypes
      <4>2. nt[n][i] \in [nodeID : Nodes, conn : ConnsOf(links) \cup {NoConn}]
        BY <3>1, <4>1, SeqElements
      <4> QED
        BY <3>1, <4>2
    <3> QED
      BY <3>2, <3>3 DEF WireShape, Ends
  <2>2. ASSUME main[n] = "serve", main[m] = "serve" PROVE ConnsTo(n, m) = ConnsTo(m, n)
    <3>1. n = m \/ n < m \/ m < n
      BY OverlayConstants
    <3> QED
      BY <2>2, <3>1, BothServe
  <2> QED
    BY <2>1, <2>2
<1> QED
  BY <1>1, StartCorrect, PTL

\* The costs of a file are below the cost of nodes without a link.
CostsFinite == \A file \in Files : \A i \in 1..Len(file) : file[i][3] # INFINITE_COST

\* In a file with such costs the two nodes of a link find each other, and the
\* queries of topology.c agree with each other and with the neighbor table.
THEOREM NbrsAgreeCorrect == CostsFinite => (Spec => []NbrsAgree)
<1>1. ASSUME CostsFinite, WireShape PROVE NbrsAgree
  <2> SUFFICES ASSUME NEW n \in Nodes, NEW m \in Nodes
               PROVE  LET mine == topology_getNbrArray(links, n)
                      IN  /\ Times(mine, m) = Times(topology_getNbrArray(links, m), n)
                          /\ Len(mine) = topology_getNbrNum(links, n)
                          /\ mine = [i \in 1..Len(mine) |-> nt_create(links, n)[i].nodeID]
                          /\ topology_getCost(links, n, m) = topology_getCost(links, m, n)
                          /\ n # m => (topology_getCost(links, n, m) = INFINITE_COST <=> Times(mine, m) = 0)
    BY DEF NbrsAgree
  <2> DEFINE mine == topology_getNbrArray(links, n)
             lines == {i \in 1..Len(links) : Joins(links[i], n, m)}
  <2>1. links \in Files
    BY <1>1 DEF WireShape
  <2>2. /\ Times(mine, m) = Cardinality(LinesTo(links, n, m))
        /\ Times(topology_getNbrArray(links, m), n) = Cardinality(LinesTo(links, m, n))
        /\ LinesTo(links, n, m) = LinesTo(links, m, n)
    BY <2>1, TimesCount, LinesBothWays
  <2>3. /\ Len(mine) = topology_getNbrNum(links, n)
        /\ mine = [i \in 1..Len(mine) |-> nt_create(links, n)[i].nodeID]
    BY <2>1, TableFacts DEF topology_getNbrNum
  <2>4. \A i \in 1..Len(links) : Joins(links[i], n, m) <=> Joins(links[i], m, n)
    BY DEF Joins
  <2>5. lines = {i \in 1..Len(links) : Joins(links[i], m, n)}
    BY <2>4
  <2> HIDE DEF lines, mine
  <2>6. topology_getCost(links, n, m) =
            IF n = m THEN 0 ELSE IF lines = {} THEN INFINITE_COST ELSE links[Min(lines)][3]
    BY DEF topology_getCost, lines
  <2>7. topology_getCost(links, m, n) =
            IF m = n THEN 0 ELSE IF lines = {} THEN INFINITE_COST ELSE links[Min(lines)][3]
    BY <2>5 DEF topology_getCost
  <2>8. ASSUME n # m PROVE topology_getCost(links, n, m) = INFINITE_COST <=> Times(mine, m) = 0
    <3>1. LinesTo(links, n, m) = lines
      BY <2>1, <2>8, LinesBothWays DEF lines
    <3>2. Len(links) \in Nat /\ lines \in SUBSET (1..Len(links))
      BY <2>1, FileFacts DEF lines
    <3>3. IsFiniteSet(lines)
      BY <3>2, IntervalCount, FS_Subset
    <3>4. Cardinality(lines) = 0 <=> lines = {}
      BY <3>3, FS_EmptySet
    <3>5. ASSUME lines # {} PROVE links[Min(lines)][3] # INFINITE_COST
      <4>1. \E i \in lines : \A j \in lines : i <= j
        <5>1. lines \in SUBSET Nat
          BY <3>2
        <5> QED
          BY <3>5, <5>1, LeastExists
      <4>2. Min(lines) \in lines
        BY <4>1 DEF Min
      <4>3. Min(lines) \in 1..Len(links)
        BY <3>2, <4>2
      <4> QED
        BY <1>1, <2>1, <4>3 DEF CostsFinite
    <3> QED
      BY <2>2, <2>6, <2>8, <3>1, <3>4, <3>5
  <2> QED
    BY <2>2, <2>3, <2>6, <2>7, <2>8 DEF mine
<1>2. Spec => [](WireShape /\ StartInv)
  BY StartCorrect
<1>3. CostsFinite /\ WireShape => NbrsAgree
  BY <1>1
<1>4. SUFFICES ASSUME CostsFinite PROVE Spec => []NbrsAgree
  OBVIOUS
<1>5. WireShape => NbrsAgree
  BY <1>3, <1>4
<1> QED
  BY <1>2, <1>5, PTL

-----------------------------------------------------------------------------
(* The packets: the invariant.                                              *)

ListenerType == [conn : ConnsOf(links) \cup {NoConn}, pkt : Packet, full : BOOLEAN]
NetType == [up : Seq(Packet), down : Seq(Packet), overlay : BOOLEAN, mnp : BOOLEAN]
SendingType == [pkt : Packet, to : Seq(ConnsOf(links))]

\* The variables of a node from its listeners on.
IsNodeFun(f) == f = [n \in Nodes |-> f[n]]
NodeFuns ==
    /\ IsNodeFun(listener) /\ IsNodeFun(network) /\ IsNodeFun(serving) /\ IsNodeFun(sending)
    /\ IsNodeFun(pending) /\ IsNodeFun(net) /\ IsNodeFun(process) /\ IsNodeFun(sent) /\ IsNodeFun(got)

NodeTypes(n) ==
    /\ listener[n] \in Seq(ListenerType) /\ net[n] \in Seq(NetType)
    /\ network[n] \in 0..Len(net[n]) /\ process[n] \in 0..Len(net[n])
    /\ serving[n] \in BOOLEAN /\ sending[n] \in SendingType
    /\ pending[n] \in Seq(1..Len(net[n]))
    /\ sent[n] \in 0..MaxPackets[n] /\ got[n] \in [Nodes -> Nat]

\* A connection is closed by the end of a process, which is for ever.
ClosedIs == closed = [c \in ConnsOf(links) |-> {n \in EndsOf(links, c) : main[n] = "down"}]

\* What a process that serves its MNP process goes by: the entries of its table.
ListenersServe(n) ==
    /\ listener[n] # << >> => main[n] = "serve" /\ Len(listener[n]) = Len(nt[n])
    /\ \A i \in 1..Len(listener[n]) :
          /\ listener[n][i].conn = nt[n][i].conn
          /\ listener[n][i].pkt.src \in Nodes =>
                nt[n][i].conn # NoConn /\ listener[n][i].pkt.src = nt[n][i].nodeID
LoopServes(n) == serving[n] => main[n] = "serve" /\ network[n] # 0
SendsServe(n) ==
    /\ sending[n].to # << >> => main[n] = "serve" /\ sending[n].pkt.src = n
    /\ \A j \in 1..Len(sending[n].to) :
          /\ \E i \in Entries(n) : /\ nt[n][i].conn = sending[n].to[j]
                                   /\ sending[n].pkt.next \in {nt[n][i].nodeID, BROADCAST_NODEID}
          /\ \A k \in 1..Len(sending[n].to) : sending[n].to[j] = sending[n].to[k] => j = k
Serves(n) == ListenersServe(n) /\ LoopServes(n) /\ SendsServe(n)

OnWire(c, m) ==
    LET s == Peer(c, m)
    IN  /\ wire[c][m] \in Seq(Packet)
        /\ \A j \in 1..Len(wire[c][m]) : /\ wire[c][m][j].src = s
                                         /\ wire[c][m][j].next \in {m, BROADCAST_NODEID}
        /\ wire[c][m] # << >> /\ main[s] # "down" =>
              main[s] = "serve" /\ \E i \in Entries(s) : nt[s][i].conn = c

\* The connections of the MNP processes are served in the order they are made,
\* and what they send is numbered in that order.
Rising(q, s) ==
    \A i, j \in 1..Len(q) : i < j /\ q[i].src = s /\ q[j].src = s => q[i].no < q[j].no
InTurn(n) ==
    \A j \in 1..Len(pending[n]) :
        network[n] < pending[n][j] /\ \A i \in 1..(j - 1) : pending[n][i] < pending[n][j]
UpsRise(n) ==
    \A k \in 1..Len(net[n]) :
        /\ \A j \in 1..Len(net[n][k].up) : net[n][k].up[j].src = n /\ net[n][k].up[j].no <= sent[n]
        /\ Rising(net[n][k].up, n)
        /\ \A h \in 1..(k - 1) : \A i \in 1..Len(net[n][h].up), j \in 1..Len(net[n][k].up) :
              net[n][h].up[i].no < net[n][k].up[j].no
        /\ process[n] # 0 /\ process[n] < k => net[n][k].up = << >>
Queued(n) == InTurn(n) /\ UpsRise(n)

TrafficInv ==
    /\ NodeFuns /\ ClosedIs /\ stops \in 0..MaxStops
    /\ \A n \in Nodes : NodeTypes(n) /\ Serves(n) /\ Queued(n)
    /\ \A c \in ConnsOf(links) : \A m \in EndsOf(links, c) : OnWire(c, m)

\* The numbers of the packets of s that are at each place on their way to m; the
\* places are in descending order of the numbers, the last one received first.
Nos(q, s) == {x \in Nat : \E j \in 1..Len(q) : q[j].src = s /\ q[j].no = x}
GotNos(m, s) == {x \in Nat : x = got[m][s]}
DownNos(m, s) == Nos(Down(m), s)
HandNos(m, s) ==
    {x \in Nat : \E i \in 1..Len(listener[m]) :
        listener[m][i].full /\ listener[m][i].pkt.src = s /\ listener[m][i].pkt.no = x}
WireNos(m, s) ==
    {x \in Nat : \E c \in ConnsOf(links) : EndsOf(links, c) = {m, s} /\ x \in Nos(wire[c][m], s)}
SendNos(m, s) ==
    {x \in Nat : /\ x = sending[s].pkt.no
                 /\ \E j \in 1..Len(sending[s].to) : EndsOf(links, sending[s].to[j]) = {m, s}}
UpNos(s) ==
    {x \in Nat : \E k \in 1..Len(net[s]) : k >= network[s] /\ x \in Nos(net[s][k].up, s)}

Before(X, Y) == \A x \in X, y \in Y : x < y
InLine(G, D, H, W, S, U, top) ==
    /\ Before(G, D) /\ Before(G, H) /\ Before(G, W) /\ Before(G, S) /\ Before(G, U)
    /\ Before(D, H) /\ Before(D, W) /\ Before(D, S) /\ Before(D, U)
    /\ Before(H, W) /\ Before(H, S) /\ Before(H, U)
    /\ Before(W, S) /\ Before(W, U) /\ Before(S, U)
    /\ \A x \in G \cup D \cup H \cup W \cup S \cup U : x <= top
Line(m, s) ==
    InLine(GotNos(m, s), DownNos(m, s), HandNos(m, s), WireNos(m, s), SendNos(m, s), UpNos(s), sent[s])
DownRises(m, s) == Rising(Down(m), s)
WiresRise(m, s) == \A c \in ConnsOf(links) : EndsOf(links, c) = {m, s} => Rising(wire[c][m], s)
Way(m, s) ==
    main[m] # "down" /\ main[s] # "down" /\ m # s => Line(m, s) /\ DownRises(m, s) /\ WiresRise(m, s)

OrderInv == \A m, s \in Nodes : Way(m, s)

-----------------------------------------------------------------------------
(* The packets: what the steps do, element by element.                      *)

Node(n) == <<listener[n], network[n], serving[n], sending[n], pending[n], net[n],
             process[n], sent[n], got[n]>>
Others(n) == \A k \in Nodes \ {n} : Node(k)' = Node(k)
\* The process does not end, and once it serves keeps its loop and its table.
Steady(k) ==
    /\ main'[k] = "down" <=> main[k] = "down"
    /\ main[k] = "serve" => main'[k] = "serve" /\ nt'[k] = nt[k]

HandSet(n, i, p, full) ==
    /\ Len(listener'[n]) = Len(listener[n])
    /\ \A j \in 1..Len(listener[n]) :
          /\ listener'[n][j].conn = listener[n][j].conn
          /\ listener'[n][j].pkt = IF j = i THEN p ELSE listener[n][j].pkt
          /\ listener'[n][j].full = IF j = i THEN full ELSE listener[n][j].full
NetBut(n, k) ==
    Len(net'[n]) = Len(net[n]) /\ \A j \in 1..Len(net[n]) : j # k => net'[n][j] = net[n][j]
NetSet(n, k, up, down, overlay) ==
    /\ NetBut(n, k)
    /\ net'[n][k].up = up /\ net'[n][k].down = down /\ net'[n][k].overlay = overlay
WireBut(c, m) ==
    \A d \in ConnsOf(links) : \A k \in EndsOf(links, d) : d # c \/ k # m => wire'[d][k] = wire[d][k]
WireSame == \A d \in ConnsOf(links) : \A k \in EndsOf(links, d) : wire'[d][k] = wire[d][k]

LEMMA PacketFacts ==
    ASSUME NEW p \in Packet
    PROVE  /\ p.no \in Nat /\ p.src \in Nodes \cup {0} /\ 0 \notin Nodes
           /\ p.src \in Nodes => p.next \in Nodes \cup {BROADCAST_NODEID} /\ p.no > 0
BY OverlayConstants DEF Packet, Junk

LEMMA SetHand ==
    ASSUME IsNodeFun(listener), NEW n \in Nodes, listener[n] \in Seq(ListenerType),
           NEW i \in 1..Len(listener[n]), NEW p \in Packet, NEW full \in BOOLEAN,
           links' = links, SetListener(n, i, p, full)
    PROVE  /\ IsNodeFun(listener') /\ (listener[n] \in Seq(ListenerType))' /\ HandSet(n, i, p, full)
           /\ \A k \in Nodes \ {n} : listener'[k] = listener[k]
<1> DEFINE e == [listener[n] EXCEPT ![i].pkt = p, ![i].full = full]
           C == ConnsOf(links) \cup {NoConn}
           T == ListenerType
<1>0. \A r \in T : r \in [conn : C, pkt : Packet, full : BOOLEAN]
  BY DEF ListenerType
<1>1. listener' = [listener EXCEPT ![n] = e]
  BY DEF SetListener
<1>2. Len(listener[n]) \in Nat /\ DOMAIN listener[n] = 1..Len(listener[n])
      /\ \A j \in 1..Len(listener[n]) : listener[n][j] \in T
  BY SeqElements
<1> DEFINE r == [listener[n][i] EXCEPT !.pkt = p, !.full = full]
<1>6. r.conn = listener[n][i].conn /\ r.pkt = p /\ r.full = full /\ r \in T
  <2> DEFINE x == listener[n][i]
  <2>1. x \in [conn : C, pkt : Packet, full : BOOLEAN]
    BY <1>0, <1>2
  <2> HIDE DEF x, C
  <2>2. LET y == [x EXCEPT !.pkt = p, !.full = full]
        IN  y.conn = x.conn /\ y.pkt = p /\ y.full = full /\ y \in [conn : C, pkt : Packet, full : BOOLEAN]
    BY <2>1
  <2> QED
    BY <2>2 DEF x, C, ListenerType
<1>7. e = [listener[n] EXCEPT ![i] = r]
  BY <1>2
<1> HIDE DEF e, T, r
<1>8. e \in Seq(T) /\ Len(e) = Len(listener[n]) /\ e[i] = r
      /\ \A j \in 1..Len(listener[n]) : j # i => e[j] = listener[n][j]
  BY <1>2, <1>6, <1>7
<1>9. listener'[n] = e /\ IsNodeFun(listener') /\ \A k \in Nodes \ {n} : listener'[k] = listener[k]
  BY <1>1 DEF IsNodeFun
<1>10. T' = T
  BY DEF T, ListenerType
<1> QED
  BY <1>6, <1>8, <1>9, <1>10 DEF HandSet, T

LEMMA SetNet ==
    ASSUME IsNodeFun(net), NEW n \in Nodes, net[n] \in Seq(NetType), NEW k \in 1..Len(net[n]),
           NEW r \in NetType, net' = [net EXCEPT ![n] = [net[n] EXCEPT ![k] = r]]
    PROVE  /\ IsNodeFun(net') /\ net'[n] \in Seq(NetType) /\ NetBut(n, k) /\ net'[n][k] = r
           /\ \A m \in Nodes \ {n} : net'[m] = net[m]
<1> DEFINE e == [net[n] EXCEPT ![k] = r]
<1>1. e \in Seq(NetType) /\ Len(e) = Len(net[n]) /\ e[k] = r
      /\ \A j \in 1..Len(net[n]) : j # k => e[j] = net[n][j]
  <2> DEFINE T == NetType
  <2>1. r \in T /\ net[n] \in Seq(T)
    OBVIOUS
  <2> HIDE DEF T
  <2> QED
    BY <2>1
<1>2. net' = [net EXCEPT ![n] = e]
  OBVIOUS
<1> HIDE DEF e
<1>3. net'[n] = e /\ IsNodeFun(net') /\ \A m \in Nodes \ {n} : net'[m] = net[m]
  BY <1>2 DEF IsNodeFun
<1> QED
  BY <1>1, <1>3 DEF NetBut

\* The three fields that single packets and calls change.
LEMMA SetFields ==
    ASSUME IsNodeFun(net), NEW n \in Nodes, net[n] \in Seq(NetType), NEW k \in 1..Len(net[n]), NEW q
    PROVE  /\ q \in Seq(Packet) /\ net' = [net EXCEPT ![n][k].up = q] =>
                 /\ IsNodeFun(net') /\ net'[n] \in Seq(NetType) /\ \A m \in Nodes \ {n} : net'[m] = net[m]
                 /\ NetSet(n, k, q, net[n][k].down, net[n][k].overlay)
           /\ q \in Seq(Packet) /\ net' = [net EXCEPT ![n][k].down = q] =>
                 /\ IsNodeFun(net') /\ net'[n] \in Seq(NetType) /\ \A m \in Nodes \ {n} : net'[m] = net[m]
                 /\ NetSet(n, k, net[n][k].up, q, net[n][k].overlay)
           /\ q \in BOOLEAN /\ net' = [net EXCEPT ![n][k].overlay = q] =>
                 /\ IsNodeFun(net') /\ net'[n] \in Seq(NetType) /\ \A m \in Nodes \ {n} : net'[m] = net[m]
                 /\ NetSet(n, k, net[n][k].up, net[n][k].down, q)
<1> DEFINE r == net[n][k]
           P == Seq(Packet)
<1>1. r \in NetType
  BY SeqElements
<1>2. r \in [up : P, down : P, overlay : BOOLEAN, mnp : BOOLEAN]
  BY <1>1 DEF NetType
<1> HIDE DEF r, P
<1>3. ASSUME q \in P
      PROVE  LET x == [r EXCEPT !.up = q]
             IN  x \in [up : P, down : P, overlay : BOOLEAN, mnp : BOOLEAN]
                 /\ x.up = q /\ x.down = r.down /\ x.overlay = r.overlay
  BY <1>2, <1>3
<1>4. ASSUME q \in P
      PROVE  LET x == [r EXCEPT !.down = q]
             IN  x \in [up : P, down : P, overlay : BOOLEAN, mnp : BOOLEAN]
                 /\ x.up = r.up /\ x.down = q /\ x.overlay = r.overlay
  BY <1>2, <1>4
<1>5. ASSUME q \in BOOLEAN
      PROVE  LET x == [r EXCEPT !.overlay = q]
             IN  x \in [up : P, down : P, overlay : BOOLEAN, mnp : BOOLEAN]
                 /\ x.up = r.up /\ x.down = r.down /\ x.overlay = q
  BY <1>2, <1>5
<1>6. ASSUME q \in P, net' = [net EXCEPT ![n][k].up = q]
      PROVE  /\ IsNodeFun(net') /\ net'[n] \in Seq(NetType) /\ \A m \in Nodes \ {n} : net'[m] = net[m]
             /\ NetSet(n, k, q, net[n][k].down, net[n][k].overlay)
  <2> DEFINE x == [r EXCEPT !.up = q]
  <2>1. net' = [net EXCEPT ![n] = [net[n] EXCEPT ![k] = x]]
    BY <1>6 DEF r
  <2>2. x \in NetType /\ x.up = q /\ x.down = r.down /\ x.overlay = r.overlay
    BY <1>3, <1>6 DEF NetType, P
  <2> HIDE DEF x
  <2>3. /\ IsNodeFun(net') /\ net'[n] \in Seq(NetType) /\ NetBut(n, k) /\ net'[n][k] = x
        /\ \A m \in Nodes \ {n} : net'[m] = net[m]
    BY <2>1, <2>2, SetNet
  <2> QED
    BY <2>2, <2>3 DEF NetSet, r
<1>7. ASSUME q \in P, net' = [net EXCEPT ![n][k].down = q]
      PROVE  /\ IsNodeFun(net') /\ net'[n] \in Seq(NetType) /\ \A m \in Nodes \ {n} : net'[m] = net[m]
             /\ NetSet(n, k, net[n][k].up, q, net[n][k].overlay)
  <2> DEFINE x == [r EXCEPT !.down = q]
  <2>1. net' = [net EXCEPT ![n] = [net[n] EXCEPT ![k] = x]]
    BY <1>7 DEF r
  <2>2. x \in NetType /\ x.up = r.up /\ x.down = q /\ x.overlay = r.overlay
    BY <1>4, <1>7 DEF NetType, P
  <2> HIDE DEF x
  <2>3. /\ IsNodeFun(net') /\ net'[n] \in Seq(NetType) /\ NetBut(n, k) /\ net'[n][k] = x
        /\ \A m \in Nodes \ {n} : net'[m] = net[m]
    BY <2>1, <2>2, SetNet
  <2> QED
    BY <2>2, <2>3 DEF NetSet, r
<1>8. ASSUME q \in BOOLEAN, net' = [net EXCEPT ![n][k].overlay = q]
      PROVE  /\ IsNodeFun(net') /\ net'[n] \in Seq(NetType) /\ \A m \in Nodes \ {n} : net'[m] = net[m]
             /\ NetSet(n, k, net[n][k].up, net[n][k].down, q)
  <2> DEFINE x == [r EXCEPT !.overlay = q]
  <2>1. net' = [net EXCEPT ![n] = [net[n] EXCEPT ![k] = x]]
    BY <1>8 DEF r
  <2>2. x \in NetType /\ x.up = r.up /\ x.down = r.down /\ x.overlay = q
    BY <1>5, <1>8 DEF NetType, P
  <2> HIDE DEF x
  <2>3. /\ IsNodeFun(net') /\ net'[n] \in Seq(NetType) /\ NetBut(n, k) /\ net'[n][k] = x
        /\ \A m \in Nodes \ {n} : net'[m] = net[m]
    BY <2>1, <2>2, SetNet
  <2> QED
    BY <2>2, <2>3 DEF NetSet, r
<1> QED
  BY <1>6, <1>7, <1>8 DEF P

\* The two ends of a connection.
LEMMA PeerFacts ==
    ASSUME WireShape, NEW c \in ConnsOf(links), NEW m \in EndsOf(links, c)
    PROVE  LET s == Peer(c, m)
           IN  /\ s \in EndsOf(links, c) /\ s # m /\ EndsOf(links, c) = {m, s} /\ Peer(c, s) = m
               /\ s \in Nodes /\ m \in Nodes /\ Ends(c) = EndsOf(links, c)
<1>1. links \in Files /\ Ends(c) = EndsOf(links, c)
  BY DEF WireShape, Ends
<1>2. PICK a \in Nodes, b \in Nodes : EndsOf(links, c) = {a, b} /\ a # b
  <2> DEFINE id == nt_create(links, c[1])[c[2]].nodeID
  <2>1. c[1] \in Nodes /\ id \in Nodes /\ EndsOf(links, c) = {c[1], id} /\ id < c[1] /\ c[1] \in Nat /\ id \in Nat
    BY <1>1, ConnFacts
  <2> QED
    BY <2>1
<1>3. Peer(c, m) \in EndsOf(links, c) /\ Peer(c, m) # m
  BY <1>1, <1>2 DEF Peer
<1>4. Peer(c, Peer(c, m)) \in EndsOf(links, c) /\ Peer(c, Peer(c, m)) # Peer(c, m)
  BY <1>1, <1>2, <1>3 DEF Peer
<1> QED
  BY <1>1, <1>2, <1>3, <1>4

LEMMA KeepNode ==
    ASSUME links' = links, NEW k \in Nodes, Steady(k), Node(k)' = Node(k),
           NodeTypes(k), Serves(k), Queued(k)
    PROVE  NodeTypes(k)' /\ Serves(k)' /\ Queued(k)'
<1>1. /\ listener'[k] = listener[k] /\ network'[k] = network[k] /\ serving'[k] = serving[k]
      /\ sending'[k] = sending[k] /\ pending'[k] = pending[k] /\ net'[k] = net[k]
      /\ process'[k] = process[k] /\ sent'[k] = sent[k] /\ got'[k] = got[k]
  BY DEF Node
<1>2. NodeTypes(k)'
  BY <1>1 DEF NodeTypes, ListenerType, SendingType
<1>3. Queued(k)'
  BY <1>1 DEF Queued, InTurn, UpsRise, Rising
<1>4. Serves(k)'
  <2>1. CASE main[k] = "serve"
    <3>1. main'[k] = "serve" /\ nt'[k] = nt[k]
      BY <2>1 DEF Steady
    <3> QED
      BY <1>1, <3>1 DEF Serves, ListenersServe, LoopServes, SendsServe, Entries
  <2>2. CASE main[k] # "serve"
    <3>1. listener[k] = << >> /\ ~serving[k] /\ sending[k].to = << >>
      BY <2>2 DEF Serves, ListenersServe, LoopServes, SendsServe
    <3> QED
      BY <1>1, <3>1 DEF Serves, ListenersServe, LoopServes, SendsServe
  <2> QED
    BY <2>1, <2>2
<1> QED
  BY <1>2, <1>3, <1>4

\* A connection keeps a part of what it holds.
LEMMA KeepWire ==
    ASSUME WireShape, WireShape', links' = links, NEW c \in ConnsOf(links), NEW m \in EndsOf(links, c),
           main'[Peer(c, m)] = "down" \/ Steady(Peer(c, m)), OnWire(c, m), wire'[c][m] \in {wire[c][m], Tail(wire[c][m]), << >>}, wire[c][m] = << >> => wire'[c][m] = << >>
    PROVE  OnWire(c, m)'
<1>1. PICK s \in Nodes : s = Peer(c, m) /\ Peer(c, m)' = s
  <2>1. Ends(c)' = Ends(c)
    BY DEF WireShape, Ends
  <2>2. Peer(c, m)' = Peer(c, m)
    BY <2>1 DEF Peer
  <2>3. Peer(c, m) \in Nodes
    BY PeerFacts
  <2> QED
    BY <2>2, <2>3
<1>2. wire[c][m] \in Seq(Packet)
  BY DEF OnWire
<1>3. /\ wire'[c][m] \in Seq(Packet)
      /\ \A j \in 1..Len(wire'[c][m]) : \E i \in 1..Len(wire[c][m]) : wire'[c][m][j] = wire[c][m][i]
  <2> DEFINE q == wire[c][m]
             P == Packet
  <2>1. q \in Seq(P)
    BY <1>2
  <2> HIDE DEF q, P
  <2>2. q # << >> => /\ Tail(q) \in Seq(P)
                     /\ \A j \in 1..Len(Tail(q)) : \E i \in 1..Len(q) : Tail(q)[j] = q[i]
    <3>1. q # << >> => \A j \in 1..Len(Tail(q)) : j + 1 \in 1..Len(q) /\ Tail(q)[j] = q[j + 1]
      BY <2>1
    <3> QED
      BY <2>1, <3>1
  <2>3. << >> \in Seq(P) /\ 1..Len(<< >>) = {}
    OBVIOUS
  <2>4. wire'[c][m] \in {q, Tail(q), << >>} /\ (q = << >> => wire'[c][m] = << >>)
    BY DEF q
  <2>5. /\ wire'[c][m] \in Seq(P)
        /\ \A j \in 1..Len(wire'[c][m]) : \E i \in 1..Len(q) : wire'[c][m][j] = q[i]
    BY <2>1, <2>2, <2>3, <2>4
  <2> QED
    BY <2>5 DEF q, P
<1>4. s \in Nodes /\ wire[c][m] # << >> /\ main[s] # "down" =>
          main[s] = "serve" /\ \E i \in Entries(s) : nt[s][i].conn = c
  BY <1>1 DEF OnWire
<1>5. wire'[c][m] # << >> /\ main'[s] # "down" =>
          main'[s] = "serve" /\ \E i \in Entries(s)' : nt'[s][i].conn = c
  <2>1. wire'[c][m] # << >> => wire[c][m] # << >>
    OBVIOUS
  <2>2. \/ main'[s] = "down"
        \/ (main'[s] = "down" <=> main[s] = "down") /\ (main[s] = "serve" => main'[s] = "serve" /\ nt'[s] = nt[s])
    BY <1>1 DEF Steady
  <2> QED
    BY <1>1, <1>4, <2>1, <2>2 DEF Entries
<1>6. \A j \in 1..Len(wire'[c][m]) : /\ wire'[c][m][j].src = s
                                     /\ wire'[c][m][j].next \in {m, BROADCAST_NODEID}
  BY <1>1, <1>3 DEF OnWire
<1> QED
  BY <1>1, <1>3, <1>5, <1>6 DEF OnWire

NotHand(n) == <<network[n], serving[n], sending[n], pending[n], net[n], process[n], sent[n], got[n]>>
NotHandNet(n) == <<network[n], serving[n], sending[n], pending[n], process[n], sent[n], got[n]>>

Rests == WireSame /\ \A k \in Nodes : Node(k)' = Node(k)
Opens(n) ==
    /\ Others(n) /\ WireSame /\ NotHand(n)' = NotHand(n)
    /\ main[n] = "join" /\ main'[n] = "serve" /\ nt'[n] = nt[n] /\ Len(listener'[n]) = Len(nt[n])
    /\ \A i \in 1..Len(nt[n]) : /\ listener'[n][i].conn = nt[n][i].conn /\ listener'[n][i].pkt = Junk
                                /\ ~listener'[n][i].full
Departs(n) ==
    /\ Others(n) /\ WireSame
    /\ <<listener[n], network[n], serving[n], sending[n], pending[n], sent[n], got[n]>>' =
       <<listener[n], network[n], serving[n], sending[n], pending[n], sent[n], got[n]>>
    /\ process'[n] = 0 /\ Len(net'[n]) = Len(net[n])
    /\ \A k \in 1..Len(net[n]) : net'[n][k].up \in {net[n][k].up, << >>}
Takes(n, i, c) ==
    /\ Others(n) /\ NotHand(n)' = NotHand(n)
    /\ i \in 1..Len(listener[n]) /\ c = listener[n][i].conn /\ ~listener[n][i].full
    /\ n \in EndsOf(links, c) /\ wire[c][n] # << >>
    /\ HandSet(n, i, Head(wire[c][n]), TRUE)
    /\ wire'[c][n] = Tail(wire[c][n]) /\ WireBut(c, n)
Repeats(n, i) ==
    /\ Others(n) /\ WireSame /\ NotHand(n)' = NotHand(n)
    /\ i \in 1..Len(listener[n]) /\ HandSet(n, i, listener[n][i].pkt, TRUE)
    /\ LET c == listener[n][i].conn
       IN  c # NoConn => c \in ConnsOf(links) /\ n \in EndsOf(links, c) /\ Peer(c, n) \in closed[c]
Drops(n, i) ==
    /\ Others(n) /\ WireSame /\ NotHand(n)' = NotHand(n)
    /\ i \in 1..Len(listener[n]) /\ HandSet(n, i, listener[n][i].pkt, FALSE)
HandsOver(n, i) ==
    /\ Others(n) /\ WireSame /\ NotHandNet(n)' = NotHandNet(n)
    /\ i \in 1..Len(listener[n]) /\ listener[n][i].full /\ HandSet(n, i, listener[n][i].pkt, FALSE)
    /\ network[n] \in 1..Len(net[n])
    /\ LET r == net[n][network[n]]
       IN  NetSet(n, network[n], r.up, Append(r.down, listener[n][i].pkt), r.overlay)

LEMMA SetWire ==
    ASSUME WireShape, NEW c \in ConnsOf(links), NEW m \in EndsOf(links, c), NEW q,
           wire' = [wire EXCEPT ![c][m] = q]
    PROVE  wire'[c][m] = q /\ WireBut(c, m)
<1>1. DOMAIN wire = ConnsOf(links) /\ \A d \in ConnsOf(links) : DOMAIN wire[d] = EndsOf(links, d)
  BY DEF WireShape
<1>2. wire' = [wire EXCEPT ![c] = [wire[c] EXCEPT ![m] = q]]
  OBVIOUS
<1>3. wire'[c] = [wire[c] EXCEPT ![m] = q]
  BY <1>1, <1>2
<1>4. \A d \in ConnsOf(links) : d # c => wire'[d] = wire[d]
  BY <1>1, <1>2
<1>5. wire'[c][m] = q /\ \A k \in EndsOf(links, c) : k # m => wire'[c][k] = wire[c][k]
  BY <1>1, <1>3
<1> QED
  BY <1>4, <1>5 DEF WireBut

Invs == WireShape /\ StartInv /\ TrafficInv

\* The connection a listener reads from, or a loop sends on.
LEMMA EntryConn ==
    ASSUME Invs, NEW n \in Nodes, NEW i \in 1..Len(nt[n]), nt[n][i].conn # NoConn
    PROVE  LET c == nt[n][i].conn
           IN  /\ c \in ConnsOf(links) /\ n \in EndsOf(links, c) /\ Peer(c, n) = nt[n][i].nodeID
               /\ EndsOf(links, c) = {n, nt[n][i].nodeID} /\ nt[n][i].nodeID # n
               /\ \A j \in 1..Len(nt[n]) : nt[n][j].conn = c => j = i
<1> DEFINE c == nt[n][i].conn
<1>1. \A j \in 1..Len(nt[n]) : nt[n][j] \in [nodeID : Nodes, conn : ConnsOf(links) \cup {NoConn}]
  <2>1. nt[n] \in Seq([nodeID : Nodes, conn : ConnsOf(links) \cup {NoConn}])
    BY DEF Invs, StartInv, StartTypes
  <2> QED
    BY <2>1, SeqElements
<1>2. c \in ConnsOf(links)
  BY <1>1
<1>3. TableConns(n) /\ Len(nt[n]) \in Nat
  <2>1. nt[n] \in Seq([nodeID : Nodes, conn : ConnsOf(links) \cup {NoConn}])
    BY DEF Invs, StartInv, StartTypes
  <2> QED
    BY <2>1, SeqElements DEF Invs, StartInv
<1>4. EndsOf(links, c) = {n, nt[n][i].nodeID} /\ nt[n][i].nodeID # n
  BY <1>3 DEF TableConns, Entries
<1>5. Peer(c, n) = nt[n][i].nodeID
  <2>1. WireShape
    BY DEF Invs
  <2>2. Peer(c, n) \in EndsOf(links, c) /\ Peer(c, n) # n
    BY <1>2, <1>4, <2>1, PeerFacts
  <2> QED
    BY <1>4, <2>2
<1>6. ASSUME NEW j \in 1..Len(nt[n]), nt[n][j].conn = c PROVE j = i
  <2>1. nt[n][j].nodeID = nt[n][i].nodeID
    <3>1. EndsOf(links, c) = {n, nt[n][j].nodeID} /\ nt[n][j].nodeID # n
      BY <1>3, <1>6 DEF TableConns, Entries
    <3> QED
      BY <1>4, <3>1
  <2>2. ~(j < i)
    <3>1. j < i => j \in 1..(i - 1)
      OBVIOUS
    <3> QED
      BY <1>3, <2>1, <3>1 DEF TableConns, Entries
  <2>3. ~(i < j)
    <3>1. i < j => i \in 1..(j - 1)
      OBVIOUS
    <3>2. \A e \in 1..(j - 1) : nt[n][e].nodeID # nt[n][j].nodeID
      BY <1>3, <1>6 DEF TableConns, Entries
    <3> QED
      BY <2>1, <3>1, <3>2
  <2> QED
    BY <2>2, <2>3
<1> QED
  BY <1>2, <1>4, <1>5, <1>6

LEMMA OpensEffect ==
    ASSUME Invs, links' = links, NEW n \in Nodes, StartListeners(n)
    PROVE  Opens(n) /\ NodeFuns' /\ NodeTypes(n)'
<1> DEFINE e == [i \in Entries(n) |-> [conn |-> Entry(n, i).conn, pkt |-> Junk, full |-> FALSE]]
<1>0. listener' = [listener EXCEPT ![n] = e]
  BY DEF StartListeners
<1>1. nt[n] \in Seq([nodeID : Nodes, conn : ConnsOf(links) \cup {NoConn}]) /\ Len(nt[n]) \in Nat
      /\ \A i \in 1..Len(nt[n]) : nt[n][i] \in [nodeID : Nodes, conn : ConnsOf(links) \cup {NoConn}]
  <2>1. nt[n] \in Seq([nodeID : Nodes, conn : ConnsOf(links) \cup {NoConn}])
    BY DEF Invs, StartInv, StartTypes
  <2> QED
    BY <2>1, SeqElements
<1>2. e \in Seq(ListenerType) /\ Len(e) = Len(nt[n])
  <2>1. \A i \in 1..Len(nt[n]) : nt[n][i].conn \in ConnsOf(links) \cup {NoConn}
    BY <1>1
  <2>2. e \in [1..Len(nt[n]) -> ListenerType]
    BY <2>1 DEF Entries, Entry, ListenerType, Packet
  <2> HIDE DEF e
  <2> QED
    BY <1>1, <2>2, FunctionIsSeq
<1>3. \A i \in 1..Len(nt[n]) : e[i].conn = nt[n][i].conn /\ e[i].pkt = Junk /\ ~e[i].full
  BY DEF Entries, Entry
<1> HIDE DEF e
<1>4. listener'[n] = e /\ IsNodeFun(listener') /\ \A k \in Nodes \ {n} : listener'[k] = listener[k]
  BY <1>0 DEF Invs, TrafficInv, NodeFuns, IsNodeFun
<1>5. /\ main[n] = "join" /\ main'[n] = "serve" /\ nt' = nt
      /\ UNCHANGED <<wire, network, serving, sending, pending, net, process, sent, got>>
  <2>1. main \in [Nodes -> {"off", "connect", "join", "serve", "down"}]
    BY DEF Invs, StartInv, StartTypes
  <2> QED
    BY <2>1 DEF StartListeners, linkVars, networkVars, mnpVars, history
<1>6. Opens(n)
  BY <1>2, <1>3, <1>4, <1>5 DEF Opens, Others, Node, NotHand, WireSame
<1>7. NodeFuns'
  BY <1>4, <1>5 DEF Invs, TrafficInv, NodeFuns, IsNodeFun
<1>8. NodeTypes(n)'
  <2>1. NodeTypes(n)
    BY DEF Invs, TrafficInv
  <2>2. ListenerType' = ListenerType /\ SendingType' = SendingType
    BY DEF ListenerType, SendingType
  <2> QED
    BY <1>2, <1>4, <1>5, <2>1, <2>2 DEF NodeTypes
<1> QED
  BY <1>6, <1>7, <1>8

LEMMA HandEffects ==
    ASSUME Invs, links' = links, NEW n \in Nodes, NEW i \in DOMAIN listener[n],
           recvpkt(n, i) \/ recvpkt_Fails(n, i) \/ ForwardLost(n, i)
    PROVE  /\ (\E c \in ConnsOf(links) : Takes(n, i, c)) \/ Repeats(n, i) \/ Drops(n, i)
           /\ NodeFuns' /\ NodeTypes(n)'
<1> DEFINE c == listener[n][i].conn
<1>1. WireShape /\ NodeFuns /\ NodeTypes(n) /\ Serves(n)
  BY DEF Invs, TrafficInv
<1>2. /\ listener[n] \in Seq(ListenerType) /\ i \in 1..Len(listener[n]) /\ listener[n][i] \in ListenerType
      /\ IsNodeFun(listener)
  BY <1>1, SeqElements DEF NodeTypes, NodeFuns
<1>3. listener[n][i].pkt \in Packet /\ listener[n][i].full \in BOOLEAN /\ c \in ConnsOf(links) \cup {NoConn}
  BY <1>2 DEF ListenerType
<1>4. ASSUME c # NoConn PROVE c \in ConnsOf(links) /\ n \in EndsOf(links, c)
  <2>1. i \in 1..Len(nt[n]) /\ nt[n][i].conn = c
    BY <1>1, <1>2 DEF Serves, ListenersServe, LoopServes, SendsServe
  <2> HIDE DEF c
  <2> QED
    BY <1>4, <2>1, EntryConn
<1>5. ASSUME NEW p \in Packet, NEW full \in BOOLEAN, SetListener(n, i, p, full),
             UNCHANGED <<network, serving, sending, pending, net, process, sent, got>>
      PROVE  Others(n) /\ NotHand(n)' = NotHand(n) /\ HandSet(n, i, p, full) /\ NodeFuns' /\ NodeTypes(n)'
  <2>1. /\ IsNodeFun(listener') /\ (listener[n] \in Seq(ListenerType))' /\ HandSet(n, i, p, full)
        /\ \A k \in Nodes \ {n} : listener'[k] = listener[k]
    BY <1>2, <1>5, SetHand
  <2>2. Others(n) /\ NotHand(n)' = NotHand(n)
    BY <1>5, <2>1 DEF Others, Node, NotHand
  <2>3. NodeFuns'
    BY <1>1, <1>5, <2>1 DEF NodeFuns, IsNodeFun
  <2>4. SendingType' = SendingType
    BY DEF SendingType
  <2>5. NodeTypes(n)'
    BY <1>1, <1>5, <2>1, <2>4 DEF NodeTypes
  <2> QED
    BY <2>1, <2>2, <2>3, <2>5
<1>6. CASE recvpkt(n, i)
  <2>1. /\ ~listener[n][i].full /\ c # NoConn /\ wire[c][n] # << >>
        /\ SetListener(n, i, Head(wire[c][n]), TRUE) /\ wire' = [wire EXCEPT ![c][n] = Tail(wire[c][n])]
        /\ UNCHANGED <<network, serving, sending, pending, net, process, sent, got>>
    BY <1>6 DEF recvpkt, networkVars, mnpVars, history
  <2>2. c \in ConnsOf(links) /\ n \in EndsOf(links, c)
    BY <1>4, <2>1
  <2> HIDE DEF c
  <2>3. Head(wire[c][n]) \in Packet
    <3>1. wire[c][n] \in Seq(Packet)
      BY <2>2 DEF Invs, TrafficInv, OnWire
    <3> QED
      BY <2>1, <3>1
  <2>4. wire'[c][n] = Tail(wire[c][n]) /\ WireBut(c, n)
    BY <1>1, <2>1, <2>2, SetWire
  <2>5. /\ Others(n) /\ NotHand(n)' = NotHand(n) /\ HandSet(n, i, Head(wire[c][n]), TRUE)
        /\ NodeFuns' /\ NodeTypes(n)'
    BY <1>5, <2>1, <2>3, Zenon
  <2>6. Takes(n, i, c)
    BY <1>2, <2>1, <2>2, <2>4, <2>5, Zenon DEF Takes, c
  <2> QED
    BY <2>2, <2>5, <2>6, SMTT(20)
<1>7. CASE recvpkt_Fails(n, i)
  <2>1. /\ SetListener(n, i, listener[n][i].pkt, TRUE) /\ wire' = wire
        /\ c # NoConn => Peer(c, n) \in closed[c]
        /\ UNCHANGED <<network, serving, sending, pending, net, process, sent, got>>
    BY <1>7 DEF recvpkt_Fails, networkVars, mnpVars, history, linkVars
  <2>2. /\ Others(n) /\ NotHand(n)' = NotHand(n) /\ HandSet(n, i, listener[n][i].pkt, TRUE)
        /\ NodeFuns' /\ NodeTypes(n)'
    BY <1>3, <1>5, <2>1
  <2>3. Repeats(n, i)
    BY <1>2, <1>4, <2>1, <2>2 DEF Repeats, WireSame
  <2> QED
    BY <2>2, <2>3
<1>8. CASE ForwardLost(n, i)
  <2>1. /\ SetListener(n, i, listener[n][i].pkt, FALSE) /\ wire' = wire
        /\ UNCHANGED <<network, serving, sending, pending, net, process, sent, got>>
    BY <1>8 DEF ForwardLost, networkVars, mnpVars, history, linkVars
  <2>2. /\ Others(n) /\ NotHand(n)' = NotHand(n) /\ HandSet(n, i, listener[n][i].pkt, FALSE)
        /\ NodeFuns' /\ NodeTypes(n)'
    BY <1>3, <1>5, <2>1
  <2>3. Drops(n, i)
    BY <1>2, <2>1, <2>2 DEF Drops, WireSame
  <2> QED
    BY <2>2, <2>3
<1> QED
  BY <1>6, <1>7, <1>8

Attaches(n) ==
    /\ Others(n) /\ WireSame
    /\ <<listener[n], sending[n], net[n], process[n], sent[n], got[n]>>' =
       <<listener[n], sending[n], net[n], process[n], sent[n], got[n]>>
    /\ main[n] = "serve" /\ serving'[n] = TRUE /\ Len(pending[n]) > 0
    /\ network'[n] = pending[n][1] /\ pending'[n] = Tail(pending[n])
Fetches(n) ==
    /\ Others(n) /\ WireSame
    /\ <<listener[n], network[n], serving[n], pending[n], process[n], sent[n], got[n]>>' =
       <<listener[n], network[n], serving[n], pending[n], process[n], sent[n], got[n]>>
    /\ serving[n] /\ network[n] \in 1..Len(net[n]) /\ sending[n].to = << >>
    /\ LET r == net[n][network[n]]
       IN  /\ r.up # << >> /\ NetSet(n, network[n], Tail(r.up), r.down, r.overlay)
           /\ sending'[n].pkt = Head(r.up) /\ sending'[n].to = SendTo(n, Head(r.up).next)
\* One end of a connection between an overlay and an MNP process is closed.
Detaches(n) ==
    /\ Others(n) /\ WireSame
    /\ <<listener[n], network[n], sending[n], pending[n], process[n], sent[n], got[n]>>' =
       <<listener[n], network[n], sending[n], pending[n], process[n], sent[n], got[n]>>
    /\ serving'[n] \in {serving[n], FALSE}
    /\ \E k \in 1..Len(net[n]), overlay \in BOOLEAN : NetSet(n, k, net[n][k].up, net[n][k].down, overlay)
Puts(n, c) ==
    /\ Others(n)
    /\ <<listener[n], network[n], serving[n], pending[n], net[n], process[n], sent[n], got[n]>>' =
       <<listener[n], network[n], serving[n], pending[n], net[n], process[n], sent[n], got[n]>>
    /\ sending[n].to # << >> /\ c = Head(sending[n].to) /\ n \in EndsOf(links, c)
    /\ sending'[n].pkt = sending[n].pkt /\ sending'[n].to = Tail(sending[n].to)
    /\ LET m == Peer(c, n)
       IN  WireBut(c, m) /\ wire'[c][m] \in {wire[c][m], Append(wire[c][m], sending[n].pkt)}
Connects(n) ==
    /\ Others(n) /\ WireSame
    /\ <<listener[n], network[n], serving[n], sending[n], sent[n], got[n]>>' =
       <<listener[n], network[n], serving[n], sending[n], sent[n], got[n]>>
    /\ main[n] = "serve" /\ process[n] = 0 /\ process'[n] = Len(net[n]) + 1
    /\ Len(net'[n]) = Len(net[n]) + ConnectCalls[n] /\ Len(pending'[n]) = Len(pending[n]) + ConnectCalls[n]
    /\ \A k \in 1..Len(net[n]) : net'[n][k] = net[n][k]
    /\ \A k \in (Len(net[n]) + 1)..Len(net'[n]) : net'[n][k].up = << >> /\ net'[n][k].down = << >>
    /\ \A j \in 1..Len(pending[n]) : pending'[n][j] = pending[n][j]
    /\ \A j \in (Len(pending[n]) + 1)..Len(pending'[n]) : pending'[n][j] = Len(net[n]) + (j - Len(pending[n]))
Writes(n, next) ==
    /\ Others(n) /\ WireSame
    /\ <<listener[n], network[n], serving[n], sending[n], pending[n], process[n], got[n]>>' =
       <<listener[n], network[n], serving[n], sending[n], pending[n], process[n], got[n]>>
    /\ process[n] \in 1..Len(net[n]) /\ sent'[n] = sent[n] + 1
    /\ LET r == net[n][process[n]]
       IN  NetSet(n, process[n], Append(r.up, [src |-> n, no |-> sent[n] + 1, next |-> next]), r.down, r.overlay)
Reads(n) ==
    /\ Others(n) /\ WireSame
    /\ <<listener[n], network[n], serving[n], sending[n], pending[n], process[n], sent[n]>>' =
       <<listener[n], network[n], serving[n], sending[n], pending[n], process[n], sent[n]>>
    /\ process[n] \in 1..Len(net[n])
    /\ LET r == net[n][process[n]]
       IN  /\ r.down # << >> /\ NetSet(n, process[n], r.up, Tail(r.down), r.overlay)
           /\ \A m \in Nodes : got'[n][m] = IF m = Head(r.down).src THEN Head(r.down).no ELSE got[n][m]

LEMMA NodeFacts ==
    ASSUME Invs, NEW n \in Nodes
    PROVE  /\ WireShape /\ NodeFuns /\ NodeTypes(n) /\ Serves(n) /\ Queued(n)
           /\ Len(net[n]) \in Nat /\ Len(listener[n]) \in Nat /\ Len(pending[n]) \in Nat
           /\ Len(sending[n].to) \in Nat /\ Len(nt[n]) \in Nat
           /\ \A k \in 1..Len(net[n]) : /\ net[n][k] \in NetType /\ net[n][k].up \in Seq(Packet)
                                        /\ net[n][k].down \in Seq(Packet) /\ net[n][k].overlay \in BOOLEAN
           /\ sending[n].to \in Seq(ConnsOf(links)) /\ sending[n].pkt \in Packet
           /\ \A i \in 1..Len(listener[n]) : /\ listener[n][i].pkt \in Packet
                                             /\ listener[n][i].conn \in ConnsOf(links) \cup {NoConn}
<1>1. WireShape /\ NodeFuns /\ NodeTypes(n) /\ Serves(n) /\ Queued(n)
  BY DEF Invs, TrafficInv
<1>2. /\ net[n] \in Seq(NetType) /\ listener[n] \in Seq(ListenerType) /\ pending[n] \in Seq(1..Len(net[n]))
      /\ sending[n] \in SendingType
  BY <1>1 DEF NodeTypes
<1>3. sending[n].to \in Seq(ConnsOf(links)) /\ sending[n].pkt \in Packet
  BY <1>2 DEF SendingType
<1>4. nt[n] \in Seq([nodeID : Nodes, conn : ConnsOf(links) \cup {NoConn}])
  BY DEF Invs, StartInv, StartTypes
<1>5. \A k \in 1..Len(net[n]) : net[n][k] \in NetType
  BY <1>2, SeqElements
<1>6. \A i \in 1..Len(listener[n]) : listener[n][i] \in ListenerType
  BY <1>2, SeqElements
<1>7. /\ Len(net[n]) \in Nat /\ Len(listener[n]) \in Nat /\ Len(pending[n]) \in Nat
      /\ Len(sending[n].to) \in Nat /\ Len(nt[n]) \in Nat
  BY <1>2, <1>3, <1>4, SeqElements
<1> QED
  BY <1>1, <1>3, <1>5, <1>6, <1>7 DEF NetType, ListenerType

LEMMA SequenceSteps ==
    ASSUME NEW E, NEW q \in Seq(E), NEW x \in E
    PROVE  /\ Append(q, x) \in Seq(E) /\ Append(q, x) # << >> /\ Len(Append(q, x)) = Len(q) + 1
           /\ Append(q, x)[Len(q) + 1] = x /\ \A j \in 1..Len(q) : Append(q, x)[j] = q[j]
           /\ q # << >> => /\ Head(q) \in E /\ Tail(q) \in Seq(E) /\ Len(Tail(q)) = Len(q) - 1 /\ Len(q) > 0
                           /\ Head(q) = q[1] /\ \A j \in 1..(Len(q) - 1) : Tail(q)[j] = q[j + 1]
OBVIOUS

LEMMA HeadTail ==
    ASSUME NEW E, NEW q \in Seq(E), q # << >>
    PROVE  /\ Head(q) \in E /\ Tail(q) \in Seq(E) /\ Len(Tail(q)) = Len(q) - 1 /\ Len(q) > 0
           /\ Head(q) = q[1] /\ \A j \in 1..(Len(q) - 1) : Tail(q)[j] = q[j + 1]
OBVIOUS

LEMMA HandsOverEffect ==
    ASSUME Invs, links' = links, NEW n \in Nodes, NEW i \in DOMAIN listener[n],
           forwardpktToMNP(n, i), ~KilledBySend(n)
    PROVE  HandsOver(n, i) /\ NodeFuns' /\ NodeTypes(n)'
<1> DEFINE k == network[n]
           p == listener[n][i].pkt
<1>1. /\ listener[n][i].full /\ k # 0 /\ net' = [net EXCEPT ![n][k].down = Append(net[n][k].down, p)]
      /\ SetListener(n, i, p, FALSE)
      /\ UNCHANGED <<wire, network, serving, sending, pending, process, sent, got>>
  BY DEF forwardpktToMNP, Attached, linkVars, networkVars, history
<1>2. /\ NodeFuns /\ NodeTypes(n) /\ listener[n] \in Seq(ListenerType) /\ i \in 1..Len(listener[n])
      /\ k \in 1..Len(net[n]) /\ net[n][k].down \in Seq(Packet) /\ p \in Packet /\ net[n] \in Seq(NetType)
  <2>1. listener[n] \in Seq(ListenerType) /\ network[n] \in 0..Len(net[n]) /\ net[n] \in Seq(NetType)
    BY NodeFacts DEF NodeTypes
  <2>2. i \in 1..Len(listener[n])
    BY <2>1, SeqElements
  <2>3. k \in 1..Len(net[n])
    BY <1>1, <2>1, NodeFacts
  <2> HIDE DEF k
  <2> QED
    BY <2>1, <2>2, <2>3, NodeFacts
<1> HIDE DEF k, p
<1>3. /\ IsNodeFun(listener') /\ (listener[n] \in Seq(ListenerType))' /\ HandSet(n, i, p, FALSE)
      /\ \A m \in Nodes \ {n} : listener'[m] = listener[m]
  BY <1>1, <1>2, SetHand DEF NodeFuns
<1>4. Append(net[n][k].down, p) \in Seq(Packet)
  BY <1>2, SequenceSteps
<1>5. /\ IsNodeFun(net') /\ net'[n] \in Seq(NetType) /\ \A m \in Nodes \ {n} : net'[m] = net[m]
      /\ NetSet(n, k, net[n][k].up, Append(net[n][k].down, p), net[n][k].overlay)
  BY <1>1, <1>2, <1>4, SetFields DEF NodeFuns
<1>6. HandsOver(n, i)
  BY <1>1, <1>2, <1>3, <1>5 DEF HandsOver, Others, Node, WireSame, NotHandNet, k, p
<1>7. NodeFuns'
  BY <1>1, <1>2, <1>3, <1>5 DEF NodeFuns, IsNodeFun
<1>8. NodeTypes(n)'
  <2>1. SendingType' = SendingType /\ Len(net'[n]) = Len(net[n])
    BY <1>5 DEF SendingType, NetSet, NetBut
  <2> QED
    BY <1>1, <1>2, <1>3, <1>5, <2>1 DEF NodeTypes
<1> QED
  BY <1>6, <1>7, <1>8

LEMMA DepartsEffect ==
    ASSUME Invs, links' = links, NEW n \in Nodes, ProcessEnds(n)
    PROVE  Departs(n) /\ NodeFuns' /\ NodeTypes(n)'
<1>1. PICK reset \in BOOLEAN :
          net' = [net EXCEPT ![n] = [k \in DOMAIN net[n] |->
                     [net[n][k] EXCEPT !.mnp = FALSE, !.down = << >>,
                                       !.up = Cut(net[n][k].down, net[n][k].up, reset)]]]
  BY Zenon DEF ProcessEnds
<1> DEFINE r(k) == [net[n][k] EXCEPT !.mnp = FALSE, !.down = << >>,
                                     !.up = Cut(net[n][k].down, net[n][k].up, reset)]
           e == [k \in DOMAIN net[n] |-> r(k)]
<1>2. /\ process' = [process EXCEPT ![n] = 0] /\ net' = [net EXCEPT ![n] = e]
      /\ UNCHANGED <<wire, listener, network, serving, sending, pending, sent, got>>
  BY <1>1, Zenon DEF ProcessEnds, linkVars, networkVars
<1>3. NodeFuns /\ NodeTypes(n) /\ DOMAIN net[n] = 1..Len(net[n]) /\ Len(net[n]) \in Nat
  BY NodeFacts, SeqElements DEF NodeTypes
<1>4. ASSUME NEW k \in 1..Len(net[n])
      PROVE  r(k) \in NetType /\ r(k).up \in {net[n][k].up, << >>}
  <2> DEFINE u == Cut(net[n][k].down, net[n][k].up, reset)
             x == net[n][k]
             P == Seq(Packet)
  <2>1. x \in [up : P, down : P, overlay : BOOLEAN, mnp : BOOLEAN] /\ u \in P /\ u \in {net[n][k].up, << >>}
    BY NodeFacts DEF NetType, Cut
  <2>2. << >> \in P
    OBVIOUS
  <2> HIDE DEF u, x, P
  <2>3. LET y == [x EXCEPT !.mnp = FALSE, !.down = << >>, !.up = u]
        IN  y \in [up : P, down : P, overlay : BOOLEAN, mnp : BOOLEAN] /\ y.up = u
    BY <2>1, <2>2
  <2> QED
    BY <2>1, <2>3 DEF u, x, P, NetType
<1>5. e \in Seq(NetType) /\ Len(e) = Len(net[n])
  <2>1. e \in [1..Len(net[n]) -> NetType]
    <3> HIDE DEF r
    <3> QED
      BY <1>3, <1>4
  <2> HIDE DEF e
  <2> QED
    BY <1>3, <2>1, FunctionIsSeq
<1>6. \A k \in 1..Len(net[n]) : e[k].up \in {net[n][k].up, << >>}
  <2> HIDE DEF r
  <2> QED
    BY <1>3, <1>4
<1> HIDE DEF e, r
<1>7. /\ net'[n] = e /\ IsNodeFun(net') /\ \A m \in Nodes \ {n} : net'[m] = net[m]
      /\ process'[n] = 0 /\ IsNodeFun(process') /\ \A m \in Nodes \ {n} : process'[m] = process[m]
  BY <1>2, <1>3 DEF NodeFuns, IsNodeFun
<1>8. Departs(n)
  BY <1>2, <1>5, <1>6, <1>7 DEF Departs, Others, Node, WireSame
<1>9. NodeFuns'
  BY <1>2, <1>3, <1>7 DEF NodeFuns, IsNodeFun
<1>10. NodeTypes(n)'
  <2>1. SendingType' = SendingType /\ ListenerType' = ListenerType
    BY DEF SendingType, ListenerType
  <2> QED
    BY <1>2, <1>3, <1>5, <1>7, <2>1 DEF NodeTypes
<1> QED
  BY <1>8, <1>9, <1>10

\* The connections a packet is sent on: each once, of entries for its next hop.
LEMMA SendToFacts ==
    ASSUME Invs, NEW n \in Nodes, NEW next
    PROVE  LET to == SendTo(n, next)
           IN  /\ to \in Seq(ConnsOf(links)) /\ Len(to) \in Nat
               /\ \A j \in 1..Len(to) : \E i \in 1..Len(nt[n]) :
                     /\ nt[n][i].conn = to[j] /\ to[j] # NoConn
                     /\ next = BROADCAST_NODEID \/ nt[n][i].nodeID = next
               /\ \A j, k \in 1..Len(to) : to[j] = to[k] => j = k
<1> DEFINE E == [nodeID : Nodes, conn : ConnsOf(links) \cup {NoConn}]
           C == {i \in Entries(n) : Chosen(nt[n][i], next)}
           k == Kept(nt[n], C)
           to == SendTo(n, next)
<1>1. nt[n] \in Seq(E) /\ Len(nt[n]) \in Nat /\ C \subseteq 1..Len(nt[n])
  <2>1. nt[n] \in Seq(E)
    BY DEF Invs, StartInv, StartTypes
  <2>2. Len(nt[n]) \in Nat /\ C \subseteq 1..Len(nt[n])
    BY NodeFacts DEF Entries
  <2> QED
    BY <2>1, <2>2
<1>2. to = [j \in 1..Len(k) |-> k[j].conn]
  BY DEF SendTo
<1> HIDE DEF E, C, k, to
<1>3. KeptOf(E, nt[n], C, Len(nt[n]), k)
  BY <1>1, KeptFacts DEF k
<1>4. PICK at \in [1..Len(k) -> C \cap (1..Len(nt[n]))] :
          /\ \A i \in 1..Len(k) : k[i] = nt[n][at[i]]
          /\ \A i, j \in 1..Len(k) : i < j => at[i] < at[j]
  BY <1>3 DEF KeptOf
<1>5. k \in Seq(E) /\ Len(k) \in Nat
  BY <1>3, SeqElements DEF KeptOf
<1>6. ASSUME NEW j \in 1..Len(k)
      PROVE  /\ at[j] \in 1..Len(nt[n]) /\ k[j].conn = nt[n][at[j]].conn
             /\ nt[n][at[j]].conn # NoConn /\ nt[n][at[j]].conn \in ConnsOf(links)
             /\ next = BROADCAST_NODEID \/ nt[n][at[j]].nodeID = next
  <2>1. at[j] \in C /\ at[j] \in 1..Len(nt[n]) /\ k[j] = nt[n][at[j]]
    BY <1>4
  <2>2. Chosen(nt[n][at[j]], next)
    BY <2>1 DEF C
  <2> QED
    BY <2>1, <2>2, EntryConn DEF Chosen
<1>7. to \in Seq(ConnsOf(links)) /\ Len(to) = Len(k)
  <2>1. to \in [1..Len(k) -> ConnsOf(links)]
    BY <1>2, <1>6
  <2> QED
    BY <1>5, <2>1, FunctionIsSeq
<1>8. \A j \in 1..Len(to) : to[j] = nt[n][at[j]].conn
  BY <1>2, <1>6, <1>7
<1>9. ASSUME NEW i \in 1..Len(to), NEW j \in 1..Len(to), to[i] = to[j] PROVE i = j
  <2>1. at[i] = at[j] /\ at[i] \in Nat
    BY <1>6, <1>7, <1>8, <1>9, EntryConn
  <2> QED
    BY <1>4, <1>5, <1>7, <2>1
<1>10. \A j \in 1..Len(to) : \E i \in 1..Len(nt[n]) :
          /\ nt[n][i].conn = to[j] /\ to[j] # NoConn
          /\ next = BROADCAST_NODEID \/ nt[n][i].nodeID = next
  BY <1>6, <1>7, <1>8
<1> QED
  BY <1>5, <1>7, <1>9, <1>10 DEF to

LEMMA AttachesEffect ==
    ASSUME Invs, links' = links, NEW n \in Nodes, AcceptNetwork(n)
    PROVE  Attaches(n) /\ NodeFuns' /\ NodeTypes(n)'
<1>1. /\ main[n] = "serve" /\ pending[n] # << >>
      /\ network' = [network EXCEPT ![n] = Head(pending[n])]
      /\ pending' = [pending EXCEPT ![n] = Tail(pending[n])] /\ serving' = [serving EXCEPT ![n] = TRUE]
      /\ UNCHANGED <<wire, listener, sending, net, process, sent, got>>
  BY DEF AcceptNetwork, linkVars, mnpVars, history
<1>2. NodeFuns /\ NodeTypes(n) /\ pending[n] \in Seq(1..Len(net[n])) /\ Len(net[n]) \in Nat
  BY NodeFacts DEF NodeTypes
<1>3. /\ Head(pending[n]) \in 1..Len(net[n]) /\ Tail(pending[n]) \in Seq(1..Len(net[n]))
      /\ Len(pending[n]) > 0 /\ Head(pending[n]) = pending[n][1]
  <2> DEFINE E == 1..Len(net[n])
  <2>1. pending[n] \in Seq(E)
    BY <1>2
  <2> HIDE DEF E
  <2>2. Head(pending[n]) \in E /\ Tail(pending[n]) \in Seq(E)
        /\ Len(pending[n]) > 0 /\ Head(pending[n]) = pending[n][1]
    BY <1>1, <2>1, HeadTail
  <2> QED
    BY <2>2 DEF E
<1>4. /\ network'[n] = Head(pending[n]) /\ pending'[n] = Tail(pending[n]) /\ serving'[n] = TRUE
      /\ \A m \in Nodes \ {n} : network'[m] = network[m] /\ pending'[m] = pending[m] /\ serving'[m] = serving[m]
      /\ IsNodeFun(network') /\ IsNodeFun(pending') /\ IsNodeFun(serving')
  BY <1>1, <1>2 DEF NodeFuns, IsNodeFun
<1>5. Attaches(n)
  BY <1>1, <1>3, <1>4 DEF Attaches, Others, Node, WireSame
<1>6. NodeFuns'
  BY <1>1, <1>2, <1>4 DEF NodeFuns, IsNodeFun
<1>7. NodeTypes(n)'
  <2>1. SendingType' = SendingType /\ ListenerType' = ListenerType
    BY DEF SendingType, ListenerType
  <2> QED
    <3>1. network'[n] \in 0..Len(net'[n])
      BY <1>1, <1>2, <1>3, <1>4
    <3>2. pending'[n] \in Seq(1..Len(net'[n])) /\ serving'[n] \in BOOLEAN
      BY <1>1, <1>3, <1>4
    <3> QED
      BY <1>1, <1>2, <2>1, <3>1, <3>2 DEF NodeTypes
<1> QED
  BY <1>5, <1>6, <1>7

LEMMA FetchesEffect ==
    ASSUME Invs, links' = links, NEW n \in Nodes, getpktToSend(n)
    PROVE  Fetches(n) /\ NodeFuns' /\ NodeTypes(n)'
<1> DEFINE k == network[n]
           up == net[n][k].up
           new == [pkt |-> Head(up), to |-> SendTo(n, Head(up).next)]
<1>1. /\ serving[n] /\ sending[n].to = << >> /\ up # << >>
      /\ sending' = [sending EXCEPT ![n] = new] /\ net' = [net EXCEPT ![n][k].up = Tail(up)]
      /\ UNCHANGED <<wire, listener, network, serving, pending, process, sent, got>>
  BY DEF getpktToSend, linkVars, history
<1>2. /\ NodeFuns /\ NodeTypes(n) /\ Serves(n) /\ net[n] \in Seq(NetType)
      /\ k \in 1..Len(net[n]) /\ up \in Seq(Packet)
  <2>1. network[n] \in 0..Len(net[n]) /\ net[n] \in Seq(NetType) /\ network[n] # 0
    BY <1>1, NodeFacts DEF NodeTypes, Serves, ListenersServe, LoopServes, SendsServe
  <2>2. k \in 1..Len(net[n])
    BY <2>1, NodeFacts
  <2> HIDE DEF k
  <2> QED
    BY <2>1, <2>2, NodeFacts
<1>3. Head(up) \in Packet /\ Tail(up) \in Seq(Packet)
  BY <1>1, <1>2, SequenceSteps
<1>4. new \in SendingType /\ new.pkt = Head(up) /\ new.to = SendTo(n, Head(up).next)
  BY <1>3, SendToFacts DEF SendingType
<1> HIDE DEF new, k, up
<1>5. /\ sending'[n] = new /\ IsNodeFun(sending') /\ \A m \in Nodes \ {n} : sending'[m] = sending[m]
  BY <1>1, <1>2 DEF NodeFuns, IsNodeFun
<1>6. /\ IsNodeFun(net') /\ net'[n] \in Seq(NetType) /\ \A m \in Nodes \ {n} : net'[m] = net[m]
      /\ NetSet(n, k, Tail(up), net[n][k].down, net[n][k].overlay)
  BY <1>1, <1>2, <1>3, SetFields DEF NodeFuns
<1>7. Fetches(n)
  BY <1>1, <1>2, <1>4, <1>5, <1>6 DEF Fetches, Others, Node, WireSame, k, up
<1>8. NodeFuns'
  BY <1>1, <1>2, <1>5, <1>6 DEF NodeFuns, IsNodeFun
<1>9. NodeTypes(n)'
  <2>1. SendingType' = SendingType /\ ListenerType' = ListenerType /\ Len(net'[n]) = Len(net[n])
    BY <1>6 DEF SendingType, ListenerType, NetSet, NetBut
  <2> QED
    <3>1. sending'[n] \in SendingType'
      BY <1>4, <1>5, <2>1
    <3>2. UNCHANGED <<listener, network, serving, pending, process, sent, got>>
      BY <1>1
    <3> QED
      BY <1>2, <1>6, <2>1, <3>1, <3>2 DEF NodeTypes
<1> QED
  BY <1>7, <1>8, <1>9

LEMMA DetachesEffect ==
    ASSUME Invs, links' = links, NEW n \in Nodes, CloseNetwork(n)
    PROVE  Detaches(n) /\ NodeFuns' /\ NodeTypes(n)'
<1> DEFINE k == network[n]
<1>1. /\ serving[n] /\ net' = [net EXCEPT ![n][k].overlay = FALSE] /\ serving' = [serving EXCEPT ![n] = FALSE]
      /\ UNCHANGED <<wire, listener, network, sending, pending, process, sent, got>>
  BY DEF CloseNetwork, NetworkEof, linkVars, history
<1>2. /\ NodeFuns /\ NodeTypes(n) /\ net[n] \in Seq(NetType) /\ k \in 1..Len(net[n])
  <2>1. network[n] \in 0..Len(net[n]) /\ net[n] \in Seq(NetType) /\ network[n] # 0
    BY <1>1, NodeFacts DEF NodeTypes, Serves, ListenersServe, LoopServes, SendsServe
  <2> QED
    BY <2>1, NodeFacts
<1> HIDE DEF k
<1>3. serving'[n] = FALSE /\ IsNodeFun(serving') /\ \A m \in Nodes \ {n} : serving'[m] = serving[m]
  BY <1>1, <1>2 DEF NodeFuns, IsNodeFun
<1>4. /\ IsNodeFun(net') /\ net'[n] \in Seq(NetType) /\ \A m \in Nodes \ {n} : net'[m] = net[m]
      /\ NetSet(n, k, net[n][k].up, net[n][k].down, FALSE)
  <2>1. FALSE \in BOOLEAN
    OBVIOUS
  <2> QED
    BY <1>1, <1>2, <2>1, SetFields DEF NodeFuns
<1>5. Detaches(n)
  BY <1>1, <1>2, <1>3, <1>4 DEF Detaches, Others, Node, WireSame, k
<1>6. NodeFuns'
  BY <1>1, <1>2, <1>3, <1>4 DEF NodeFuns, IsNodeFun
<1>7. NodeTypes(n)'
  <2>1. SendingType' = SendingType /\ ListenerType' = ListenerType /\ Len(net'[n]) = Len(net[n])
    BY <1>4 DEF SendingType, ListenerType, NetSet, NetBut
  <2> QED
    BY <1>1, <1>2, <1>3, <1>4, <2>1 DEF NodeTypes
<1> QED
  BY <1>5, <1>6, <1>7

LEMMA LosesEffect ==
    ASSUME Invs, links' = links, NEW n \in Nodes, LosesOverlay(n)
    PROVE  Detaches(n) /\ NodeFuns' /\ NodeTypes(n)'
<1> DEFINE k == process[n]
           x == [net[n][k] EXCEPT !.mnp = FALSE]
<1>1. /\ k # 0 /\ net' = [net EXCEPT ![n] = [net[n] EXCEPT ![k] = x]]
      /\ UNCHANGED <<wire, listener, network, serving, sending, pending, process, sent, got>>
  BY DEF LosesOverlay, linkVars, networkVars, history
<1>2. /\ NodeFuns /\ NodeTypes(n) /\ net[n] \in Seq(NetType) /\ k \in 1..Len(net[n])
  <2>1. k \in 0..Len(net[n]) /\ Len(net[n]) \in Nat /\ net[n] \in Seq(NetType)
    BY NodeFacts DEF NodeTypes
  <2> HIDE DEF k
  <2> QED
    BY <1>1, <2>1, NodeFacts
<1>3. /\ x \in NetType /\ x.up = net[n][k].up /\ x.down = net[n][k].down /\ x.overlay = net[n][k].overlay
      /\ net[n][k].overlay \in BOOLEAN
  <2> DEFINE P == Seq(Packet)
             y == net[n][k]
  <2>1. y \in [up : P, down : P, overlay : BOOLEAN, mnp : BOOLEAN]
    BY <1>2, SeqElements DEF NetType
  <2> HIDE DEF P, y
  <2>2. LET z == [y EXCEPT !.mnp = FALSE]
        IN  /\ z \in [up : P, down : P, overlay : BOOLEAN, mnp : BOOLEAN] /\ y.overlay \in BOOLEAN
            /\ z.up = y.up /\ z.down = y.down /\ z.overlay = y.overlay
    BY <2>1
  <2> QED
    BY <2>2 DEF P, y, NetType
<1> HIDE DEF k, x
<1>4. /\ IsNodeFun(net') /\ net'[n] \in Seq(NetType) /\ \A m \in Nodes \ {n} : net'[m] = net[m]
      /\ NetSet(n, k, net[n][k].up, net[n][k].down, net[n][k].overlay)
  <2>1. /\ IsNodeFun(net') /\ net'[n] \in Seq(NetType) /\ NetBut(n, k) /\ net'[n][k] = x
        /\ \A m \in Nodes \ {n} : net'[m] = net[m]
    BY <1>1, <1>2, <1>3, SetNet DEF NodeFuns
  <2> QED
    BY <1>3, <2>1 DEF NetSet
<1>5. Detaches(n)
  BY <1>1, <1>2, <1>3, <1>4 DEF Detaches, Others, Node, WireSame
<1>6. NodeFuns'
  BY <1>1, <1>2, <1>4 DEF NodeFuns, IsNodeFun
<1>7. NodeTypes(n)'
  <2>1. SendingType' = SendingType /\ ListenerType' = ListenerType /\ Len(net'[n]) = Len(net[n])
    BY <1>4 DEF SendingType, ListenerType, NetSet, NetBut
  <2> QED
    BY <1>1, <1>2, <1>4, <2>1 DEF NodeTypes
<1> QED
  BY <1>5, <1>6, <1>7

LEMMA PutsEffect ==
    ASSUME Invs, links' = links, NEW n \in Nodes, sendpkt(n)
    PROVE  (\E c \in ConnsOf(links) : Puts(n, c)) /\ NodeFuns' /\ NodeTypes(n)'
<1> DEFINE c == Head(sending[n].to)
           m == Peer(c, n)
<1>1. /\ sending[n].to # << >> /\ sending' = [sending EXCEPT ![n].to = Tail(sending[n].to)]
      /\ wire' = [wire EXCEPT ![c][m] = Append(wire[c][m], sending[n].pkt)] \/ wire' = wire
      /\ UNCHANGED <<listener, network, serving, pending, net, process, sent, got>>
  BY DEF sendpkt, mnpVars, history
<1>2. NodeFuns /\ NodeTypes(n) /\ WireShape /\ sending[n] \in SendingType /\ Serves(n)
  BY NodeFacts DEF NodeTypes
<1>3. sending[n].to \in Seq(ConnsOf(links)) /\ sending[n].pkt \in Packet /\ Len(sending[n].to) \in Nat
  BY NodeFacts
<1>4. /\ c \in ConnsOf(links) /\ Tail(sending[n].to) \in Seq(ConnsOf(links))
      /\ Len(sending[n].to) > 0 /\ c = sending[n].to[1]
  BY <1>1, <1>3, SequenceSteps
<1>5. n \in EndsOf(links, c)
  <2>1. PICK i \in 1..Len(nt[n]) : nt[n][i].conn = c
    <3>1. 1 \in 1..Len(sending[n].to)
      BY <1>3, <1>4
    <3>2. \E i \in Entries(n) : nt[n][i].conn = sending[n].to[1]
      BY <1>2, <3>1 DEF Serves, ListenersServe, LoopServes, SendsServe
    <3> QED
      BY <1>4, <3>2 DEF Entries
  <2>2. c # NoConn
    BY <1>4, ConnFacts, <1>2 DEF WireShape
  <2> QED
    BY <2>1, <2>2, EntryConn
<1> HIDE DEF c
<1>6. m \in EndsOf(links, c)
  BY <1>2, <1>4, <1>5, PeerFacts
<1>7. WireBut(c, m) /\ wire'[c][m] \in {wire[c][m], Append(wire[c][m], sending[n].pkt)}
  <2> HIDE DEF m
  <2>1. CASE wire' = wire
    BY <2>1 DEF WireBut
  <2>2. CASE wire' = [wire EXCEPT ![c][m] = Append(wire[c][m], sending[n].pkt)]
    <3>1. PICK d \in ConnsOf(links) : d = c
      BY <1>4
    <3>2. PICK k \in EndsOf(links, d) : k = m
      BY <1>6, <3>1
    <3>3. PICK q : q = Append(wire[c][m], sending[n].pkt)
      OBVIOUS
    <3>4. wire' = [wire EXCEPT ![d][k] = q]
      BY <2>2, <3>1, <3>2, <3>3
    <3>5. wire'[d][k] = q /\ WireBut(d, k)
      BY <1>2, <3>4, SetWire
    <3> QED
      BY <3>1, <3>2, <3>3, <3>5
  <2> QED
    BY <1>1, <2>1, <2>2 DEF m
<1>8. /\ sending'[n].pkt = sending[n].pkt /\ sending'[n].to = Tail(sending[n].to) /\ IsNodeFun(sending')
      /\ \A k \in Nodes \ {n} : sending'[k] = sending[k]
      /\ sending'[n] \in SendingType
  <2> DEFINE x == sending[n]
             new == [x EXCEPT !.to = Tail(x.to)]
             S == Seq(ConnsOf(links))
  <2>1. x \in [pkt : Packet, to : S] /\ Tail(x.to) \in S
    BY <1>2, <1>4 DEF SendingType
  <2>2. sending' = [sending EXCEPT ![n] = new]
    BY <1>1
  <2> HIDE DEF x, S
  <2>3. new.pkt = x.pkt /\ new.to = Tail(x.to) /\ new \in [pkt : Packet, to : S]
    BY <2>1
  <2> HIDE DEF new
  <2>4. sending'[n] = new /\ IsNodeFun(sending') /\ \A k \in Nodes \ {n} : sending'[k] = sending[k]
    BY <1>2, <2>2 DEF NodeFuns, IsNodeFun
  <2> QED
    BY <2>3, <2>4 DEF SendingType, S, x
<1>9. Puts(n, c)
  BY <1>1, <1>5, <1>7, <1>8, Zenon DEF Puts, Others, Node, c
<1>10. NodeFuns'
  BY <1>1, <1>2, <1>8 DEF NodeFuns, IsNodeFun
<1>11. NodeTypes(n)'
  <2>1. SendingType' = SendingType /\ ListenerType' = ListenerType
    BY DEF SendingType, ListenerType
  <2> QED
    BY <1>1, <1>2, <1>8, <2>1 DEF NodeTypes
<1> QED
  BY <1>4, <1>9, <1>10, <1>11

LEMMA Concat ==
    ASSUME NEW E, NEW q \in Seq(E), NEW r \in Seq(E)
    PROVE  /\ q \o r \in Seq(E) /\ Len(q \o r) = Len(q) + Len(r)
           /\ \A j \in 1..Len(q) : (q \o r)[j] = q[j]
           /\ \A j \in 1..Len(r) : (q \o r)[Len(q) + j] = r[j]
OBVIOUS

LEMMA SeqOver ==
    ASSUME NEW E, NEW F, NEW q \in Seq(E), \A j \in 1..Len(q) : q[j] \in F
    PROVE  q \in Seq(F)
OBVIOUS

LEMMA ConnectsEffect ==
    ASSUME Invs, links' = links, NEW n \in Nodes, connectToOverlay(n)
    PROVE  Connects(n) /\ NodeFuns' /\ NodeTypes(n)'
<1> DEFINE K == ConnectCalls[n]
           r == [up |-> << >>, down |-> << >>, overlay |-> TRUE, mnp |-> TRUE]
           new == [j \in 1..K |-> r]
           nos == [j \in 1..K |-> Len(net[n]) + j]
           L == Len(net[n])
<1>1. /\ process[n] = 0 /\ main[n] = "serve" /\ net' = [net EXCEPT ![n] = net[n] \o new]
      /\ pending' = [pending EXCEPT ![n] = pending[n] \o nos] /\ process' = [process EXCEPT ![n] = L + 1]
      /\ UNCHANGED <<wire, listener, network, serving, sending, sent, got>>
  BY DEF connectToOverlay, linkVars, history
<1>2. /\ NodeFuns /\ NodeTypes(n) /\ net[n] \in Seq(NetType) /\ L \in Nat /\ pending[n] \in Seq(1..L)
      /\ Len(pending[n]) \in Nat /\ K \in {1, 2}
  BY NodeFacts, OverlayConstants DEF NodeTypes
<1>3. r \in NetType /\ r.up = << >> /\ r.down = << >>
  BY DEF NetType
<1> HIDE DEF r
<1>4. new \in [1..K -> NetType] /\ \A j \in 1..K : new[j] = r
  BY <1>3
<1>5. nos \in [1..K -> 1..(L + K)] /\ \A j \in 1..K : nos[j] = L + j
  BY <1>2
<1> HIDE DEF new, nos
<1>6. new \in Seq(NetType) /\ Len(new) = K
  BY <1>2, <1>4, FunctionIsSeq
<1>7. nos \in Seq(1..(L + K)) /\ Len(nos) = K
  <2> DEFINE E == 1..(L + K)
  <2>1. nos \in [1..K -> E] /\ K \in Nat
    BY <1>2, <1>5
  <2> HIDE DEF E
  <2> QED
    BY <2>1, FunctionIsSeq DEF E
<1>8. /\ net[n] \o new \in Seq(NetType) /\ Len(net[n] \o new) = L + K
      /\ \A j \in 1..L : (net[n] \o new)[j] = net[n][j]
      /\ \A j \in 1..K : (net[n] \o new)[L + j] = r
  <2> DEFINE E == NetType
  <2>1. net[n] \in Seq(E) /\ new \in Seq(E)
    BY <1>2, <1>6
  <2> HIDE DEF E
  <2>2. /\ net[n] \o new \in Seq(E) /\ Len(net[n] \o new) = Len(net[n]) + Len(new)
        /\ \A j \in 1..Len(net[n]) : (net[n] \o new)[j] = net[n][j]
        /\ \A j \in 1..Len(new) : (net[n] \o new)[Len(net[n]) + j] = new[j]
    BY <2>1, Concat
  <2> QED
    BY <1>4, <1>6, <2>2 DEF E
<1>9. pending[n] \in Seq(1..(L + K))
  <2> DEFINE E == 1..L
             F == 1..(L + K)
  <2>1. pending[n] \in Seq(E)
    BY <1>2
  <2>2. E \subseteq F
    BY <1>2
  <2> HIDE DEF E, F
  <2>3. \A j \in 1..Len(pending[n]) : pending[n][j] \in F
    BY <2>1, <2>2, SeqElements
  <2> QED
    BY <2>1, <2>3, SeqOver DEF F
<1>10. /\ pending[n] \o nos \in Seq(1..(L + K)) /\ Len(pending[n] \o nos) = Len(pending[n]) + K
       /\ \A j \in 1..Len(pending[n]) : (pending[n] \o nos)[j] = pending[n][j]
       /\ \A j \in 1..K : (pending[n] \o nos)[Len(pending[n]) + j] = L + j
  <2> DEFINE E == 1..(L + K)
             p == pending[n]
  <2>1. p \in Seq(E) /\ nos \in Seq(E)
    BY <1>7, <1>9
  <2> HIDE DEF E, p
  <2>2. /\ p \o nos \in Seq(E) /\ Len(p \o nos) = Len(p) + Len(nos)
        /\ \A j \in 1..Len(p) : (p \o nos)[j] = p[j]
        /\ \A j \in 1..Len(nos) : (p \o nos)[Len(p) + j] = nos[j]
    BY <2>1, Concat
  <2> QED
    BY <1>5, <1>7, <2>2 DEF E, p
<1>11. /\ net'[n] = net[n] \o new /\ pending'[n] = pending[n] \o nos /\ process'[n] = L + 1
       /\ \A m \in Nodes \ {n} : net'[m] = net[m] /\ pending'[m] = pending[m] /\ process'[m] = process[m]
       /\ IsNodeFun(net') /\ IsNodeFun(pending') /\ IsNodeFun(process')
  BY <1>1, <1>2 DEF NodeFuns, IsNodeFun
<1>12. /\ \A k \in (L + 1)..Len(net'[n]) : net'[n][k].up = << >> /\ net'[n][k].down = << >>
       /\ \A j \in (Len(pending[n]) + 1)..Len(pending'[n]) : pending'[n][j] = L + (j - Len(pending[n]))
  <2>1. ASSUME NEW k \in (L + 1)..Len(net'[n]) PROVE net'[n][k].up = << >> /\ net'[n][k].down = << >>
    <3>1. k - L \in 1..K /\ k = L + (k - L)
      BY <1>2, <1>8, <1>11
    <3>2. net'[n][k] = r
      BY <1>8, <1>11, <3>1
    <3> QED
      BY <1>3, <3>2
  <2>2. ASSUME NEW j \in (Len(pending[n]) + 1)..Len(pending'[n])
        PROVE  pending'[n][j] = L + (j - Len(pending[n]))
    <3>1. j - Len(pending[n]) \in 1..K /\ j = Len(pending[n]) + (j - Len(pending[n]))
      BY <1>2, <1>10, <1>11
    <3> QED
      BY <1>10, <1>11, <3>1
  <2> QED
    BY <2>1, <2>2
<1>13. Connects(n)
  BY <1>1, <1>8, <1>10, <1>11, <1>12 DEF Connects, Others, Node, WireSame
<1>14. NodeFuns'
  BY <1>1, <1>2, <1>11 DEF NodeFuns, IsNodeFun
<1>15. NodeTypes(n)'
  <2>1. SendingType' = SendingType /\ ListenerType' = ListenerType
    BY DEF SendingType, ListenerType
  <2>2. network'[n] \in 0..Len(net'[n]) /\ process'[n] \in 0..Len(net'[n])
    <3>1. network[n] \in 0..L
      BY <1>2 DEF NodeTypes
    <3>2. Len(net'[n]) = L + K /\ network'[n] = network[n] /\ process'[n] = L + 1
      BY <1>1, <1>8, <1>11
    <3> QED
      BY <1>2, <3>1, <3>2
  <2>3. net'[n] \in Seq(NetType) /\ pending'[n] \in Seq(1..Len(net'[n]))
    BY <1>8, <1>10, <1>11
  <2>4. UNCHANGED <<listener, serving, sending, sent, got>>
    BY <1>1
  <2> QED
    BY <1>2, <2>1, <2>2, <2>3, <2>4 DEF NodeTypes
<1> QED
  BY <1>13, <1>14, <1>15

LEMMA WritesEffect ==
    ASSUME Invs, links' = links, NEW n \in Nodes, NEW next \in Nodes \cup {BROADCAST_NODEID},
           overlay_sendpkt(n, next)
    PROVE  Writes(n, next) /\ NodeFuns' /\ NodeTypes(n)'
<1> DEFINE k == process[n]
           up == net[n][k].up
           p == [src |-> n, no |-> sent[n] + 1, next |-> next]
<1>1. /\ k # 0 /\ sent[n] < MaxPackets[n] /\ sent' = [sent EXCEPT ![n] = sent[n] + 1]
      /\ net' = [net EXCEPT ![n][k].up = Append(up, p)]
      /\ UNCHANGED <<wire, listener, network, serving, sending, pending, process, got>>
  BY DEF overlay_sendpkt, linkVars, networkVars
<1>2. /\ NodeFuns /\ NodeTypes(n) /\ net[n] \in Seq(NetType) /\ sent[n] \in 0..MaxPackets[n]
      /\ k \in 0..Len(net[n]) /\ Len(net[n]) \in Nat /\ MaxPackets[n] \in Nat
  BY NodeFacts, OverlayConstants DEF NodeTypes
<1>3. k \in 1..Len(net[n])
  BY <1>1, <1>2
<1>4. up \in Seq(Packet)
  BY <1>3, NodeFacts
<1>5. p \in Packet /\ sent[n] + 1 \in 0..MaxPackets[n]
  BY <1>1, <1>2 DEF Packet
<1> HIDE DEF k, up, p
<1>6. Append(up, p) \in Seq(Packet)
  BY <1>4, <1>5, SequenceSteps
<1>7. /\ IsNodeFun(net') /\ net'[n] \in Seq(NetType) /\ \A m \in Nodes \ {n} : net'[m] = net[m]
      /\ NetSet(n, k, Append(up, p), net[n][k].down, net[n][k].overlay)
  BY <1>1, <1>2, <1>3, <1>6, SetFields DEF NodeFuns
<1>8. sent'[n] = sent[n] + 1 /\ IsNodeFun(sent') /\ \A m \in Nodes \ {n} : sent'[m] = sent[m]
  BY <1>1, <1>2 DEF NodeFuns, IsNodeFun
<1>9. Writes(n, next)
  BY <1>1, <1>3, <1>7, <1>8 DEF Writes, Others, Node, WireSame, k, up, p
<1>10. NodeFuns'
  BY <1>1, <1>2, <1>7, <1>8 DEF NodeFuns, IsNodeFun
<1>11. NodeTypes(n)'
  <2>1. SendingType' = SendingType /\ ListenerType' = ListenerType /\ Len(net'[n]) = Len(net[n])
    BY <1>7 DEF SendingType, ListenerType, NetSet, NetBut
  <2>2. sent'[n] \in 0..MaxPackets[n]
    BY <1>5, <1>8
  <2> QED
    BY <1>1, <1>2, <1>7, <2>1, <2>2 DEF NodeTypes
<1> QED
  BY <1>9, <1>10, <1>11

LEMMA ReadsEffect ==
    ASSUME Invs, links' = links, NEW n \in Nodes, overlay_recvpkt(n)
    PROVE  Reads(n) /\ NodeFuns' /\ NodeTypes(n)'
<1> DEFINE k == process[n]
           down == net[n][k].down
           new == [m \in Nodes |-> IF m = Head(down).src THEN Head(down).no ELSE got[n][m]]
<1>1. /\ k # 0 /\ down # << >> /\ got' = [got EXCEPT ![n] = new]
      /\ net' = [net EXCEPT ![n][k].down = Tail(down)]
      /\ UNCHANGED <<wire, listener, network, serving, sending, pending, process, sent>>
  BY DEF overlay_recvpkt, linkVars, networkVars
<1>2. /\ NodeFuns /\ NodeTypes(n) /\ net[n] \in Seq(NetType) /\ got[n] \in [Nodes -> Nat]
      /\ k \in 0..Len(net[n]) /\ Len(net[n]) \in Nat
  BY NodeFacts DEF NodeTypes
<1>3. k \in 1..Len(net[n])
  BY <1>1, <1>2
<1>4. down \in Seq(Packet)
  BY <1>3, NodeFacts
<1>5. Head(down) \in Packet /\ Tail(down) \in Seq(Packet)
  BY <1>1, <1>4, HeadTail
<1>6. new \in [Nodes -> Nat]
  BY <1>2, <1>5, PacketFacts
<1>7. \A m \in Nodes : new[m] = IF m = Head(down).src THEN Head(down).no ELSE got[n][m]
  OBVIOUS
<1> HIDE DEF k, down, new
<1>8. /\ IsNodeFun(net') /\ net'[n] \in Seq(NetType) /\ \A m \in Nodes \ {n} : net'[m] = net[m]
      /\ NetSet(n, k, net[n][k].up, Tail(down), net[n][k].overlay)
  BY <1>1, <1>2, <1>3, <1>5, SetFields DEF NodeFuns
<1>9. got'[n] = new /\ IsNodeFun(got') /\ \A m \in Nodes \ {n} : got'[m] = got[m]
  BY <1>1, <1>2, Zenon DEF NodeFuns, IsNodeFun
<1>10. Reads(n)
  BY <1>1, <1>3, <1>7, <1>8, <1>9, Zenon DEF Reads, Others, Node, WireSame, k, down
<1>11. NodeFuns'
  BY <1>1, <1>2, <1>8, <1>9 DEF NodeFuns, IsNodeFun
<1>12. NodeTypes(n)'
  <2>1. SendingType' = SendingType /\ ListenerType' = ListenerType /\ Len(net'[n]) = Len(net[n])
    BY <1>8 DEF SendingType, ListenerType, NetSet, NetBut
  <2> QED
    BY <1>1, <1>2, <1>6, <1>8, <1>9, <2>1 DEF NodeTypes
<1> QED
  BY <1>10, <1>11, <1>12

\* The end of a process takes its packets along.
Quits(n) ==
    /\ Others(n) /\ main'[n] = "down" /\ \A k \in Nodes \ {n} : Steady(k)
    /\ closed' = [c \in ConnsOf(links) |-> IF n \in EndsOf(links, c) THEN closed[c] \cup {n} ELSE closed[c]]
    /\ \A c \in ConnsOf(links) : \A m \in EndsOf(links, c) : wire'[c][m] \in {wire[c][m], << >>}
    /\ listener'[n] = << >> /\ network'[n] = 0 /\ ~serving'[n] /\ sending'[n].to = << >> /\ pending'[n] = << >>
    /\ \A k \in 1..Len(net'[n]) : net'[n][k].up = << >>

LEMMA QuitsEffect ==
    ASSUME Invs, links' = links, NEW n \in Nodes, OverlayEnds(n)
    PROVE  Quits(n) /\ NodeFuns' /\ NodeTypes(n)'
<1>1. PICK reset \in BOOLEAN :
          /\ wire' = [c \in Conns |-> [m \in Ends(c) |->
                         IF n \notin Ends(c) THEN wire[c][m]
                         ELSE IF m = n THEN << >>
                         ELSE Cut(wire[c][n], wire[c][m], reset)]]
          /\ net' = [net EXCEPT ![n] = [k \in DOMAIN net[n] |->
                         [net[n][k] EXCEPT !.overlay = FALSE, !.up = << >>,
                                           !.down = Cut(net[n][k].up, net[n][k].down, reset)]]]
  BY Zenon DEF OverlayEnds
<1> DEFINE r(k) == [net[n][k] EXCEPT !.overlay = FALSE, !.up = << >>,
                                     !.down = Cut(net[n][k].up, net[n][k].down, reset)]
           e == [k \in DOMAIN net[n] |-> r(k)]
           rest == [pkt |-> Junk, to |-> << >>]
<1>2. /\ main' = [main EXCEPT ![n] = "down"] /\ nt' = [nt EXCEPT ![n] = << >>]
      /\ listener' = [listener EXCEPT ![n] = << >>] /\ network' = [network EXCEPT ![n] = 0]
      /\ serving' = [serving EXCEPT ![n] = FALSE] /\ sending' = [sending EXCEPT ![n] = rest]
      /\ pending' = [pending EXCEPT ![n] = << >>] /\ net' = [net EXCEPT ![n] = e]
      /\ closed' = [c \in Conns |-> IF n \in Ends(c) THEN closed[c] \cup {n} ELSE closed[c]]
      /\ UNCHANGED <<process, sent, got>>
  BY <1>1, Zenon DEF OverlayEnds
<1>3. /\ WireShape /\ NodeFuns /\ NodeTypes(n) /\ DOMAIN net[n] = 1..Len(net[n]) /\ Len(net[n]) \in Nat
      /\ Conns = ConnsOf(links) /\ \A c \in ConnsOf(links) : Ends(c) = EndsOf(links, c)
  BY NodeFacts, SeqElements DEF NodeTypes, WireShape, Conns, Ends
<1>4. ASSUME NEW k \in 1..Len(net[n]) PROVE r(k) \in NetType /\ r(k).up = << >>
  <2> DEFINE d == Cut(net[n][k].up, net[n][k].down, reset)
             x == net[n][k]
             P == Seq(Packet)
  <2>1. x \in [up : P, down : P, overlay : BOOLEAN, mnp : BOOLEAN] /\ d \in P
    BY NodeFacts DEF NetType, Cut
  <2>2. << >> \in P
    OBVIOUS
  <2> HIDE DEF d, x, P
  <2>3. LET y == [x EXCEPT !.overlay = FALSE, !.up = << >>, !.down = d]
        IN  y \in [up : P, down : P, overlay : BOOLEAN, mnp : BOOLEAN] /\ y.up = << >>
    BY <2>1, <2>2
  <2> QED
    BY <2>1, <2>3 DEF d, x, P, NetType
<1>5. e \in Seq(NetType) /\ Len(e) = Len(net[n])
  <2>1. e \in [1..Len(net[n]) -> NetType]
    <3> HIDE DEF r
    <3> QED
      BY <1>3, <1>4
  <2> HIDE DEF e
  <2> QED
    BY <1>3, <2>1, FunctionIsSeq
<1>6. \A k \in 1..Len(net[n]) : e[k].up = << >>
  <2> HIDE DEF r
  <2> QED
    BY <1>3, <1>4
<1>7. rest \in SendingType /\ rest.to = << >>
  BY DEF SendingType, Packet
<1> HIDE DEF e, r, rest
<1>8. /\ listener'[n] = << >> /\ network'[n] = 0 /\ serving'[n] = FALSE /\ sending'[n] = rest
      /\ pending'[n] = << >> /\ net'[n] = e /\ IsNodeFun(listener') /\ IsNodeFun(network')
      /\ IsNodeFun(serving') /\ IsNodeFun(sending') /\ IsNodeFun(pending') /\ IsNodeFun(net')
      /\ \A k \in Nodes \ {n} : /\ listener'[k] = listener[k] /\ network'[k] = network[k]
                                /\ serving'[k] = serving[k] /\ sending'[k] = sending[k]
                                /\ pending'[k] = pending[k] /\ net'[k] = net[k]
  BY <1>2, <1>3 DEF NodeFuns, IsNodeFun
<1>9. main'[n] = "down" /\ \A k \in Nodes \ {n} : Steady(k)
  <2>1. main \in [Nodes -> {"off", "connect", "join", "serve", "down"}] /\ DOMAIN nt = Nodes
    BY DEF Invs, StartInv, StartTypes
  <2> QED
    BY <1>2, <2>1 DEF Steady
<1>10. \A c \in ConnsOf(links) : \A m \in EndsOf(links, c) : wire'[c][m] \in {wire[c][m], << >>}
  <2>1. ASSUME NEW c \in ConnsOf(links), NEW m \in EndsOf(links, c) PROVE wire'[c][m] \in {wire[c][m], << >>}
    <3>1. c \in Conns /\ m \in Ends(c)
      BY <1>3
    <3>2. wire'[c][m] = IF n \notin Ends(c) THEN wire[c][m]
                        ELSE IF m = n THEN << >>
                        ELSE Cut(wire[c][n], wire[c][m], reset)
      BY <1>1, <3>1, Zenon
    <3> QED
      BY <3>2 DEF Cut
  <2> QED
    BY <2>1
<1>11. closed' = [c \in ConnsOf(links) |-> IF n \in EndsOf(links, c) THEN closed[c] \cup {n} ELSE closed[c]]
  BY <1>2, <1>3
<1>12. Quits(n)
  <2>1. Others(n)
    <3>1. UNCHANGED <<process, sent, got>>
      BY <1>2
    <3> QED
      BY <1>8, <3>1, Zenon DEF Others, Node
  <2>2. sending'[n].to = << >> /\ \A k \in 1..Len(net'[n]) : net'[n][k].up = << >>
    BY <1>5, <1>6, <1>7, <1>8
  <2> QED
    BY <1>8, <1>9, <1>10, <1>11, <2>1, <2>2, Zenon DEF Quits
<1>13. NodeFuns'
  BY <1>2, <1>3, <1>8 DEF NodeFuns, IsNodeFun
<1>14. NodeTypes(n)'
  <2>1. SendingType' = SendingType /\ ListenerType' = ListenerType
    BY DEF SendingType, ListenerType
  <2>2. listener'[n] \in Seq(ListenerType) /\ pending'[n] \in Seq(1..Len(net'[n]))
    <3>1. \A E : << >> \in Seq(E)
      OBVIOUS
    <3> QED
      BY <1>8, <3>1
  <2>3. process[n] \in 0..Len(net'[n]) /\ network'[n] \in 0..Len(net'[n]) /\ net'[n] \in Seq(NetType)
    BY <1>3, <1>5, <1>8 DEF NodeTypes
  <2>4. sending'[n] \in SendingType /\ serving'[n] \in BOOLEAN
    BY <1>7, <1>8
  <2> QED
    BY <1>2, <1>3, <2>1, <2>2, <2>3, <2>4 DEF NodeTypes
<1> QED
  BY <1>12, <1>13, <1>14

LEMMA Remains ==
    ASSUME Invs, NEW n \in Nodes,
           \/ UNCHANGED startVars \/ Start(n) \/ Listen(n) \/ AcceptNbr(n) \/ ConnectMade(n)
           \/ ConnectRefused(n) \/ ConnectNext(n) \/ StartListeners(n)
    PROVE  \A k \in Nodes : Steady(k)
<1>1. main \in [Nodes -> {"off", "connect", "join", "serve", "down"}] /\ DOMAIN nt = Nodes
  BY DEF Invs, StartInv, StartTypes
<1>2. main[n] = "serve" => waitNbrs[n] = "done"
  BY DEF Invs, StartInv, Life
<1>3. \/ main' = main /\ (nt' = nt \/ (main[n] # "serve" /\ \E t : nt' = [nt EXCEPT ![n] = t]))
      \/ main[n] \notin {"serve", "down"} /\ nt' = nt /\ \E s \in {"join", "serve"} : main' = [main EXCEPT ![n] = s]
      \/ /\ main[n] = "off" /\ main' = [main EXCEPT ![n] = "connect"]
         /\ \E t : nt' = [nt EXCEPT ![n] = t]
  <2>1. CASE UNCHANGED startVars
    BY <2>1 DEF startVars
  <2>2. CASE Start(n)
    BY <2>2 DEF Start
  <2>3. CASE Listen(n)
    BY <2>3 DEF Listen
  <2>4. CASE AcceptNbr(n)
    BY <1>2, <2>4 DEF AcceptNbr
  <2>5. CASE ConnectMade(n)
    BY <2>5 DEF ConnectMade, Connecting
  <2>6. CASE ConnectRefused(n)
    BY <2>6 DEF ConnectRefused, Connecting
  <2>7. CASE ConnectNext(n)
    BY <2>7 DEF ConnectNext
  <2>8. CASE StartListeners(n)
    BY <2>8 DEF StartListeners
  <2> QED
    BY <2>1, <2>2, <2>3, <2>4, <2>5, <2>6, <2>7, <2>8
<1> QED
  BY <1>1, <1>3 DEF Steady

TrafficStep(n) ==
    \/ Opens(n) \/ Departs(n) \/ Attaches(n) \/ Fetches(n) \/ Detaches(n) \/ Connects(n) \/ Reads(n)
    \/ \E i \in 1..Len(listener[n]) :
          \/ \E c \in ConnsOf(links) : Takes(n, i, c)
          \/ Repeats(n, i) \/ Drops(n, i) \/ HandsOver(n, i)
    \/ \E c \in ConnsOf(links) : Puts(n, c)
    \/ \E next \in Nodes \cup {BROADCAST_NODEID} : Writes(n, next)
Calm == closed' = closed /\ \A k \in Nodes : Steady(k)

LEMMA TrafficKinds ==
    ASSUME Invs, [Next]_vars
    PROVE  /\ links' = links /\ NodeFuns' /\ stops' \in 0..MaxStops
           /\ \/ Rests /\ Calm
              \/ \E n \in Nodes : TrafficStep(n) /\ NodeTypes(n)' /\ Calm
              \/ \E n \in Nodes : Quits(n) /\ NodeTypes(n)'
<1> DEFINE Goal == /\ NodeFuns' /\ stops' \in 0..MaxStops
                   /\ \/ Rests /\ Calm
                      \/ \E n \in Nodes : TrafficStep(n) /\ NodeTypes(n)' /\ Calm
                      \/ \E n \in Nodes : Quits(n) /\ NodeTypes(n)'
<1>0. links' = links
  BY StartKinds
<1>1. SUFFICES Goal
  BY <1>0
<1>2. stops \in 0..MaxStops /\ NodeFuns /\ MaxStops \in Nat
  BY OverlayConstants DEF Invs, TrafficInv
<1>3. ASSUME UNCHANGED <<linkVars, listener, networkVars, mnpVars, history>>, \A k \in Nodes : Steady(k) PROVE Goal
  <2>1. UNCHANGED <<wire, closed, listener, network, serving, sending, pending, net, process, sent, got, stops>>
    BY <1>3 DEF linkVars, networkVars, mnpVars, history
  <2>2. Rests /\ Calm
    BY <1>3, <2>1 DEF Rests, Calm, WireSame, Node
  <2>3. NodeFuns'
    BY <1>2, <2>1 DEF NodeFuns, IsNodeFun
  <2> QED
    BY <1>2, <2>1, <2>2, <2>3
<1>4. ASSUME NEW n \in Nodes, TrafficStep(n), NodeFuns', NodeTypes(n)', UNCHANGED <<startVars, closed, stops>> PROVE Goal
  <2>1. Calm
    BY <1>4, Remains DEF Calm
  <2> QED
    BY <1>2, <1>4, <2>1
<1>5. ASSUME NEW n \in Nodes, Quits(n), NodeFuns', NodeTypes(n)', stops' \in 0..MaxStops PROVE Goal
  BY <1>5
<1> HIDE DEF Goal
<1>6. ASSUME NEW n \in Nodes, KilledBySend(n) PROVE Goal
  <2>1. OverlayEnds(n) /\ stops' = stops
    BY <1>6 DEF KilledBySend
  <2> QED
    BY <1>0, <1>2, <1>5, <2>1, QuitsEffect
<1>7. CASE UNCHANGED vars
  <2>1. CASE Nodes = {}
    <3>1. UNCHANGED <<linkVars, listener, networkVars, mnpVars, history>>
      BY <1>7 DEF vars
    <3> QED
      BY <1>3, <2>1, <3>1
  <2>2. CASE Nodes # {}
    <3>1. UNCHANGED <<linkVars, listener, networkVars, mnpVars, history>> /\ UNCHANGED startVars
      BY <1>7 DEF vars
    <3> QED
      BY <1>3, <2>2, <3>1, Remains
  <2> QED
    BY <2>1, <2>2
<1>8. ASSUME NEW n \in Nodes, mainThread(n) PROVE Goal
  <2>1. CASE Start(n) \/ ConnectMade(n) \/ ConnectRefused(n) \/ ConnectNext(n)
    <3>1. UNCHANGED <<linkVars, listener, networkVars, mnpVars, history>>
      BY <2>1, Zenon DEF Start, ConnectMade, ConnectRefused, ConnectNext
    <3> QED
      BY <1>3, <2>1, <3>1, Remains
  <2>2. CASE StartListeners(n)
    <3>1. closed' = closed /\ stops' = stops
      BY <2>2 DEF StartListeners, linkVars, history
    <3>2. Opens(n) /\ NodeFuns' /\ NodeTypes(n)'
      BY <1>0, <2>2, OpensEffect
    <3>3. Calm /\ TrafficStep(n)
      BY <2>2, <3>1, <3>2, Remains DEF Calm, TrafficStep
    <3> QED
      BY <1>2, <3>1, <3>2, <3>3 DEF Goal
  <2>3. CASE AcceptNetwork(n)
    <3>1. UNCHANGED <<startVars, closed, stops>>
      BY <2>3 DEF AcceptNetwork, linkVars, history
    <3> QED
      BY <1>0, <1>4, <2>3, <3>1, AttachesEffect DEF TrafficStep
  <2>4. CASE getpktToSend(n)
    <3>1. UNCHANGED <<startVars, closed, stops>>
      BY <2>4 DEF getpktToSend, linkVars, history
    <3> QED
      BY <1>0, <1>4, <2>4, <3>1, FetchesEffect DEF TrafficStep
  <2>5. CASE CloseNetwork(n)
    <3>1. UNCHANGED <<startVars, closed, stops>>
      BY <2>5 DEF CloseNetwork, linkVars, history
    <3> QED
      BY <1>0, <1>4, <2>5, <3>1, DetachesEffect DEF TrafficStep
  <2>6. CASE sendpkt(n)
    <3>1. UNCHANGED <<startVars, closed, stops>>
      BY <2>6 DEF sendpkt, history
    <3> QED
      BY <1>0, <1>4, <2>6, <3>1, PutsEffect, SMTT(20) DEF TrafficStep
  <2>7. CASE sendpkt_Killed(n)
    BY <1>6, <2>7 DEF sendpkt_Killed
  <2> QED
    BY <1>8, <2>1, <2>2, <2>3, <2>4, <2>5, <2>6, <2>7 DEF mainThread, connectNbrs, waitNetwork
<1>9. ASSUME NEW n \in Nodes, waitNbrsThread(n) PROVE Goal
  <2>1. UNCHANGED <<linkVars, listener, networkVars, mnpVars, history>>
    BY <1>9 DEF waitNbrsThread, Listen, AcceptNbr
  <2> QED
    BY <1>3, <1>9, <2>1, Remains DEF waitNbrsThread
<1>10. ASSUME NEW n \in Nodes, NEW i \in DOMAIN listener[n],
              recvpkt(n, i) \/ recvpkt_Fails(n, i) \/ ForwardLost(n, i) \/ forwardpktToMNP(n, i)
       PROVE  Goal
  <2>0. i \in 1..Len(listener[n])
    <3>1. listener[n] \in Seq(ListenerType)
      BY NodeFacts DEF NodeTypes
    <3> QED
      BY <1>10, <3>1, SeqElements
  <2>1. CASE recvpkt(n, i) \/ recvpkt_Fails(n, i) \/ ForwardLost(n, i)
    <3>1. UNCHANGED <<startVars, closed, stops>>
      BY <2>1 DEF recvpkt, recvpkt_Fails, ForwardLost, linkVars, history
    <3>2. TrafficStep(n) /\ NodeFuns' /\ NodeTypes(n)'
      <4>1. /\ (\E c \in ConnsOf(links) : Takes(n, i, c)) \/ Repeats(n, i) \/ Drops(n, i)
            /\ NodeFuns' /\ NodeTypes(n)'
        BY <1>0, <2>1, HandEffects
      <4> QED
        BY <2>0, <4>1 DEF TrafficStep
    <3> QED
      BY <1>4, <3>1, <3>2
  <2>2. CASE forwardpktToMNP(n, i) /\ ~KilledBySend(n)
    <3>1. UNCHANGED <<startVars, closed, stops>>
      BY <2>2 DEF forwardpktToMNP, linkVars, history
    <3>2. HandsOver(n, i) /\ NodeFuns' /\ NodeTypes(n)'
      BY <1>0, <2>2, HandsOverEffect
    <3>3. TrafficStep(n)
      BY <2>0, <3>2 DEF TrafficStep
    <3> QED
      BY <1>4, <3>1, <3>2, <3>3
  <2> QED
    BY <1>6, <1>10, <2>1, <2>2
<1>11. ASSUME NEW n \in Nodes, connectToOverlay(n) PROVE Goal
  <2>1. UNCHANGED <<startVars, closed, stops>>
    BY <1>11 DEF connectToOverlay, linkVars, history
  <2> QED
    BY <1>0, <1>4, <1>11, <2>1, ConnectsEffect DEF TrafficStep
<1>12. ASSUME NEW n \in Nodes, NEW next \in Nodes \cup {BROADCAST_NODEID}, overlay_sendpkt(n, next) PROVE Goal
  <2>1. UNCHANGED <<startVars, closed, stops>>
    BY <1>12 DEF overlay_sendpkt, linkVars
  <2>2. Writes(n, next) /\ NodeFuns' /\ NodeTypes(n)'
    BY <1>0, <1>12, WritesEffect
  <2>3. TrafficStep(n)
    BY <2>2 DEF TrafficStep
  <2> QED
    BY <1>4, <2>1, <2>2, <2>3
<1>13. ASSUME NEW n \in Nodes, overlay_recvpkt(n) PROVE Goal
  <2>1. UNCHANGED <<startVars, closed, stops>>
    BY <1>13 DEF overlay_recvpkt, linkVars
  <2> QED
    BY <1>0, <1>4, <1>13, <2>1, ReadsEffect DEF TrafficStep
<1>14. ASSUME NEW n \in Nodes, ProcessEnds(n), stops' \in 0..MaxStops PROVE Goal
  <2>1. UNCHANGED startVars /\ closed' = closed
    BY <1>14, Zenon DEF ProcessEnds, linkVars
  <2>2. Departs(n) /\ NodeFuns' /\ NodeTypes(n)'
    BY <1>0, <1>14, DepartsEffect
  <2>3. Calm /\ TrafficStep(n)
    BY <2>1, <2>2, Remains DEF Calm, TrafficStep
  <2> QED
    BY <1>14, <2>2, <2>3 DEF Goal
<1>15. ASSUME NEW n \in Nodes,
              \/ overlay_stop(n) \/ network_stop(n) \/ LosesOverlay(n)
              \/ overlay_sendpkt_Killed(n) \/ MainReturns(n)
       PROVE  Goal
  <2>1. CASE overlay_stop(n)
    <3>1. OverlayEnds(n) /\ stops' \in 0..MaxStops
      BY <1>2, <2>1 DEF overlay_stop
    <3> QED
      BY <1>0, <1>5, <3>1, QuitsEffect
  <2>2. CASE network_stop(n)
    <3>1. ProcessEnds(n) /\ stops' \in 0..MaxStops
      BY <1>2, <2>2 DEF network_stop
    <3> QED
      BY <1>14, <3>1
  <2>3. CASE LosesOverlay(n)
    <3>1. UNCHANGED <<startVars, closed, stops>>
      BY <2>3 DEF LosesOverlay, linkVars, history
    <3> QED
      BY <1>0, <1>4, <2>3, <3>1, LosesEffect DEF TrafficStep
  <2>4. CASE overlay_sendpkt_Killed(n) \/ MainReturns(n)
    BY <1>2, <1>14, <2>4 DEF overlay_sendpkt_Killed, MainReturns
  <2> QED
    BY <1>15, <2>1, <2>2, <2>3, <2>4
<1>16. ASSUME Next PROVE Goal
  <2>1. PICK n \in Nodes :
           \/ mainThread(n) \/ waitNbrsThread(n)
           \/ \E i \in 1..LineBound : listen_to_neighbor(n, i)
           \/ connectToOverlay(n) \/ routeupdate_daemon(n) \/ waitTransport(n) \/ pkthandler(n)
           \/ overlay_sendpkt_Killed(n) \/ MainReturns(n)
           \/ overlay_stop(n) \/ network_stop(n)
    BY <1>16 DEF Next
  <2>2. CASE \E i \in 1..LineBound : listen_to_neighbor(n, i)
    BY <1>10, <2>2 DEF listen_to_neighbor
  <2>3. CASE routeupdate_daemon(n) \/ waitTransport(n)
    BY <1>12, <2>3 DEF routeupdate_daemon, waitTransport
  <2> QED
    BY <1>8, <1>9, <1>11, <1>13, <1>15, <2>1, <2>2, <2>3 DEF pkthandler
<1> QED
  BY <1>7, <1>16

\* What a step of a node is to its listeners, to the packets sent and to the
\* connections of its MNP processes, each of the three for itself.
LEMMA ListenersServeStep ==
    ASSUME Invs, links' = links, NEW n \in Nodes, Steady(n), TrafficStep(n)
    PROVE  ListenersServe(n)'
<1>1. ListenersServe(n) /\ Len(listener[n]) \in Nat
  BY NodeFacts DEF Serves
<1>2. ASSUME NEW i \in 1..Len(listener[n]) PROVE main'[n] = "serve" /\ nt'[n] = nt[n]
  BY <1>1 DEF ListenersServe, Steady
<1>3. CASE listener'[n] = listener[n]
  <2>1. CASE listener[n] = << >>
    BY <1>3, <2>1 DEF ListenersServe
  <2>2. CASE listener[n] # << >>
    <3>1. main'[n] = "serve" /\ nt'[n] = nt[n]
      BY <1>1, <2>2 DEF ListenersServe, Steady
    <3> QED
      BY <1>1, <1>3, <3>1 DEF ListenersServe
  <2> QED
    BY <2>1, <2>2
<1>4. ASSUME NEW i \in 1..Len(listener[n]), NEW p, NEW full, HandSet(n, i, p, full),
             p.src \in Nodes => nt[n][i].conn # NoConn /\ p.src = nt[n][i].nodeID
      PROVE  ListenersServe(n)'
  <2>1. main'[n] = "serve" /\ nt'[n] = nt[n]
    BY <1>2
  <2> QED
    BY <1>1, <1>4, <2>1 DEF ListenersServe, HandSet
<1>5. CASE Opens(n)
  <2>1. Junk.src \notin Nodes
    BY OverlayConstants DEF Junk
  <2>2. /\ main'[n] = "serve" /\ nt'[n] = nt[n] /\ Len(listener'[n]) = Len(nt[n])
        /\ \A i \in 1..Len(nt[n]) : listener'[n][i].conn = nt[n][i].conn /\ listener'[n][i].pkt = Junk
    BY <1>5 DEF Opens
  <2> QED
    BY <2>1, <2>2 DEF ListenersServe
<1>6. ASSUME NEW i \in 1..Len(listener[n]), NEW c \in ConnsOf(links), Takes(n, i, c) PROVE ListenersServe(n)'
  <2>1. /\ c = listener[n][i].conn /\ n \in EndsOf(links, c) /\ wire[c][n] # << >>
        /\ HandSet(n, i, Head(wire[c][n]), TRUE)
    BY <1>6 DEF Takes
  <2>2. i \in 1..Len(nt[n]) /\ nt[n][i].conn = c /\ c # NoConn
    <3>1. links \in Files
      BY DEF Invs, WireShape
    <3> QED
      BY <1>1, <2>1, <3>1, ConnFacts DEF ListenersServe
  <2>3. Peer(c, n) = nt[n][i].nodeID
    BY <2>2, EntryConn
  <2>4. OnWire(c, n)
    BY <2>1 DEF Invs, TrafficInv
  <2>5. Head(wire[c][n]).src = Peer(c, n)
    <3>1. wire[c][n] \in Seq(Packet)
      BY <2>4 DEF OnWire
    <3>2. Head(wire[c][n]) = wire[c][n][1] /\ Len(wire[c][n]) > 0 /\ Len(wire[c][n]) \in Nat
      BY <2>1, <3>1, HeadTail, SeqElements
    <3> QED
      BY <2>4, <3>2 DEF OnWire
  <2> QED
    BY <1>4, <2>1, <2>2, <2>3, <2>5
<1>7. ASSUME NEW i \in 1..Len(listener[n]), Repeats(n, i) \/ Drops(n, i) \/ HandsOver(n, i) PROVE ListenersServe(n)'
  <2>1. \E full : HandSet(n, i, listener[n][i].pkt, full)
    BY <1>7 DEF Repeats, Drops, HandsOver
  <2>2. listener[n][i].pkt.src \in Nodes => nt[n][i].conn # NoConn /\ listener[n][i].pkt.src = nt[n][i].nodeID
    BY <1>1 DEF ListenersServe
  <2> QED
    BY <1>4, <2>1, <2>2
<1>8. CASE Departs(n) \/ Attaches(n) \/ Fetches(n) \/ Detaches(n) \/ Connects(n) \/ Reads(n)
  BY <1>3, <1>8 DEF Departs, Attaches, Fetches, Detaches, Connects, Reads
<1>9. CASE (\E c \in ConnsOf(links) : Puts(n, c)) \/ (\E next \in Nodes \cup {BROADCAST_NODEID} : Writes(n, next))
  BY <1>3, <1>9 DEF Puts, Writes
<1> QED
  BY <1>5, <1>6, <1>7, <1>8, <1>9 DEF TrafficStep

LEMMA LoopServesStep ==
    ASSUME Invs, NEW n \in Nodes, Steady(n), TrafficStep(n)
    PROVE  LoopServes(n)'
<1>1. LoopServes(n) /\ (main[n] = "serve" => main'[n] = "serve")
  BY NodeFacts DEF Serves, Steady
<1>2. CASE serving'[n] = serving[n] /\ network'[n] = network[n]
  BY <1>1, <1>2 DEF LoopServes
<1>3. CASE Attaches(n)
  <2>1. pending[n][1] \in 1..Len(net[n]) /\ Len(net[n]) \in Nat
    <3>1. pending[n] \in Seq(1..Len(net[n])) /\ Len(pending[n]) > 0 /\ Len(pending[n]) \in Nat
      BY <1>3, NodeFacts DEF NodeTypes, Attaches
    <3> DEFINE E == 1..Len(net[n])
    <3>2. pending[n] \in Seq(E)
      BY <3>1
    <3> HIDE DEF E
    <3>3. pending[n][1] \in E
      BY <3>1, <3>2, SeqElements
    <3> QED
      BY <3>3, NodeFacts DEF E
  <2> QED
    BY <1>1, <1>3, <2>1 DEF Attaches, LoopServes
<1>4. CASE Detaches(n)
  BY <1>1, <1>4 DEF Detaches, LoopServes
<1>5. CASE Opens(n) \/ \E i \in 1..Len(listener[n]) :
                          \/ \E c \in ConnsOf(links) : Takes(n, i, c)
                          \/ Repeats(n, i) \/ Drops(n, i) \/ HandsOver(n, i)
  BY <1>2, <1>5, Zenon DEF Opens, Takes, Repeats, Drops, HandsOver, NotHand, NotHandNet
<1>6. CASE \/ Departs(n) \/ Fetches(n) \/ Connects(n) \/ Reads(n) \/ \E c \in ConnsOf(links) : Puts(n, c)
           \/ \E next \in Nodes \cup {BROADCAST_NODEID} : Writes(n, next)
  BY <1>2, <1>6, Zenon DEF Departs, Fetches, Connects, Reads, Puts, Writes
<1> QED
  BY <1>3, <1>4, <1>5, <1>6 DEF TrafficStep

LEMMA SendsServeStep ==
    ASSUME Invs, NEW n \in Nodes, Steady(n), TrafficStep(n)
    PROVE  SendsServe(n)'
<1>1. /\ SendsServe(n) /\ LoopServes(n) /\ UpsRise(n)
      /\ main[n] = "serve" => main'[n] = "serve" /\ nt'[n] = nt[n]
  BY NodeFacts DEF Serves, Queued, Steady
<1>2. CASE sending'[n] = sending[n]
  <2>1. CASE sending[n].to = << >>
    BY <1>2, <2>1 DEF SendsServe
  <2>2. CASE sending[n].to # << >>
    <3>1. main'[n] = "serve" /\ nt'[n] = nt[n]
      BY <1>1, <2>2 DEF SendsServe
    <3> QED
      BY <1>1, <1>2, <3>1 DEF SendsServe, Entries
  <2> QED
    BY <2>1, <2>2
<1>3. CASE Fetches(n)
  <2> DEFINE k == network[n]
             up == net[n][k].up
  <2>1. /\ serving[n] /\ k \in 1..Len(net[n]) /\ up # << >>
        /\ sending'[n].pkt = Head(up) /\ sending'[n].to = SendTo(n, Head(up).next)
    BY <1>3 DEF Fetches
  <2>2. main'[n] = "serve" /\ nt'[n] = nt[n]
    BY <1>1, <2>1 DEF LoopServes
  <2>3. up \in Seq(Packet)
    BY <2>1, NodeFacts
  <2> HIDE DEF k
  <2>4. Head(up) = up[1] /\ 1 \in 1..Len(up)
    <3> HIDE DEF up
    <3> QED
      BY <2>1, <2>3, HeadTail, SeqElements
  <2>5. Head(up).src = n
    BY <1>1, <2>1, <2>4 DEF UpsRise
  <2> DEFINE next == Head(up).next
             to == SendTo(n, next)
  <2>6. /\ \A j \in 1..Len(to) : \E i \in 1..Len(nt[n]) :
              nt[n][i].conn = to[j] /\ (next = BROADCAST_NODEID \/ nt[n][i].nodeID = next)
        /\ \A a, b \in 1..Len(to) : to[a] = to[b] => a = b
    <3> HIDE DEF next
    <3> QED
      BY SendToFacts
  <2>7. sending'[n].pkt.next = next /\ sending'[n].pkt.src = n /\ sending'[n].to = to
    BY <2>1, <2>5
  <2> HIDE DEF to, next, up
  <2> QED
    BY <2>2, <2>6, <2>7 DEF SendsServe, Entries
<1>4. ASSUME NEW c \in ConnsOf(links), Puts(n, c) PROVE SendsServe(n)'
  <2> DEFINE to == sending[n].to
  <2>1. to # << >> /\ to \in Seq(ConnsOf(links)) /\ sending'[n].pkt = sending[n].pkt /\ sending'[n].to = Tail(to)
    BY <1>4, NodeFacts, Zenon DEF Puts
  <2>2. main'[n] = "serve" /\ nt'[n] = nt[n] /\ sending[n].pkt.src = n
    BY <1>1, <2>1 DEF SendsServe
  <2> HIDE DEF to
  <2>3. /\ Len(to) \in Nat /\ Len(Tail(to)) = Len(to) - 1
        /\ \A j \in 1..(Len(to) - 1) : j + 1 \in 1..Len(to) /\ Tail(to)[j] = to[j + 1]
    BY <2>1, HeadTail, SeqElements
  <2>4. /\ \A j \in 1..Len(to) : \E i \in Entries(n) :
              nt[n][i].conn = to[j] /\ sending[n].pkt.next \in {nt[n][i].nodeID, BROADCAST_NODEID}
        /\ \A j, k \in 1..Len(to) : to[j] = to[k] => j = k
    BY <1>1 DEF SendsServe, to
  <2>5. ASSUME NEW j \in 1..Len(sending'[n].to)
        PROVE  /\ \E i \in 1..Len(nt'[n]) : /\ nt'[n][i].conn = sending'[n].to[j]
                                            /\ sending'[n].pkt.next \in {nt'[n][i].nodeID, BROADCAST_NODEID}
               /\ \A k \in 1..Len(sending'[n].to) : sending'[n].to[j] = sending'[n].to[k] => j = k
    <3>1. j \in 1..(Len(to) - 1) /\ sending'[n].to[j] = to[j + 1]
      BY <2>1, <2>3
    <3>2. \E i \in 1..Len(nt'[n]) : /\ nt'[n][i].conn = sending'[n].to[j]
                                    /\ sending'[n].pkt.next \in {nt'[n][i].nodeID, BROADCAST_NODEID}
      BY <2>1, <2>2, <2>3, <2>4, <3>1 DEF Entries
    <3>3. ASSUME NEW k \in 1..Len(sending'[n].to), sending'[n].to[j] = sending'[n].to[k] PROVE j = k
      <4>1. k \in 1..(Len(to) - 1) /\ sending'[n].to[k] = to[k + 1]
        BY <2>1, <2>3
      <4>2. j + 1 = k + 1
        BY <2>3, <2>4, <3>1, <3>3, <4>1
      <4> QED
        BY <3>1, <4>1, <4>2
    <3> QED
      BY <3>2, <3>3
  <2> QED
    BY <2>1, <2>2, <2>5 DEF SendsServe, Entries
<1>5. CASE Opens(n) \/ \E i \in 1..Len(listener[n]) :
                          \/ \E c \in ConnsOf(links) : Takes(n, i, c)
                          \/ Repeats(n, i) \/ Drops(n, i) \/ HandsOver(n, i)
  BY <1>2, <1>5 DEF Opens, Takes, Repeats, Drops, HandsOver, NotHand, NotHandNet
<1>6. CASE \/ Departs(n) \/ Attaches(n) \/ Detaches(n) \/ Connects(n) \/ Reads(n)
           \/ \E next \in Nodes \cup {BROADCAST_NODEID} : Writes(n, next)
  BY <1>2, <1>6, Zenon DEF Departs, Attaches, Detaches, Connects, Reads, Writes
<1> QED
  BY <1>3, <1>4, <1>5, <1>6 DEF TrafficStep

LEMMA InTurnStep ==
    ASSUME Invs, NEW n \in Nodes, TrafficStep(n)
    PROVE  InTurn(n)'
<1>1. /\ InTurn(n) /\ pending[n] \in Seq(1..Len(net[n])) /\ Len(net[n]) \in Nat /\ Len(pending[n]) \in Nat
      /\ network[n] \in 0..Len(net[n])
  BY NodeFacts DEF Queued, NodeTypes
<1>2. \A j \in 1..Len(pending[n]) : pending[n][j] \in 1..Len(net[n])
  <2> DEFINE E == 1..Len(net[n])
  <2>1. pending[n] \in Seq(E)
    BY <1>1
  <2> HIDE DEF E
  <2>2. \A j \in 1..Len(pending[n]) : pending[n][j] \in E
    BY <2>1, SeqElements
  <2> QED
    BY <2>2 DEF E
<1>3. CASE pending'[n] = pending[n] /\ network'[n] = network[n]
  BY <1>1, <1>3 DEF InTurn
<1>4. CASE Attaches(n)
  <2>1. Len(pending[n]) > 0 /\ network'[n] = pending[n][1] /\ pending'[n] = Tail(pending[n])
    BY <1>4 DEF Attaches
  <2>2. /\ Len(Tail(pending[n])) = Len(pending[n]) - 1
        /\ \A j \in 1..(Len(pending[n]) - 1) : Tail(pending[n])[j] = pending[n][j + 1]
    BY <1>1, <2>1
  <2>3. ASSUME NEW j \in 1..Len(pending'[n])
        PROVE  network'[n] < pending'[n][j] /\ \A i \in 1..(j - 1) : pending'[n][i] < pending'[n][j]
    <3>1. j \in 1..(Len(pending[n]) - 1) /\ pending'[n][j] = pending[n][j + 1] /\ j + 1 \in 1..Len(pending[n])
      BY <1>1, <2>1, <2>2
    <3>2. \A i \in 1..j : pending[n][i] < pending[n][j + 1]
      BY <1>1, <3>1 DEF InTurn
    <3>3. ASSUME NEW i \in 1..(j - 1) PROVE pending'[n][i] < pending'[n][j]
      <4>1. i \in 1..(Len(pending[n]) - 1) /\ i + 1 \in 1..j
        BY <3>1
      <4> QED
        BY <2>1, <2>2, <3>1, <3>2, <4>1
    <3> QED
      BY <2>1, <3>1, <3>2, <3>3
  <2> QED
    BY <2>3 DEF InTurn
<1>5. CASE Connects(n)
  <2> DEFINE L == Len(net[n])
             P == Len(pending[n])
             K == ConnectCalls[n]
  <2>0. K \in Nat
    BY OverlayConstants
  <2>1. /\ network'[n] = network[n] /\ Len(pending'[n]) = P + K /\ K \in Nat
        /\ \A j \in 1..P : pending'[n][j] = pending[n][j]
        /\ \A j \in (P + 1)..Len(pending'[n]) : pending'[n][j] = L + (j - P)
    BY <1>5, <2>0 DEF Connects
  <2>2. /\ L \in Nat /\ P \in Nat /\ network[n] <= L
        /\ \A j \in 1..P : /\ pending[n][j] \in 1..L /\ network[n] < pending[n][j]
                           /\ \A i \in 1..(j - 1) : pending[n][i] < pending[n][j]
    BY <1>1, <1>2 DEF InTurn
  <2> HIDE DEF L, P, K
  <2>3. ASSUME NEW j \in 1..Len(pending'[n])
        PROVE  network'[n] < pending'[n][j] /\ \A i \in 1..(j - 1) : pending'[n][i] < pending'[n][j]
    <3>1. CASE j \in 1..P
      <4>1. \A i \in 1..(j - 1) : i \in 1..P
        BY <2>2, <3>1
      <4> QED
        BY <2>1, <2>2, <3>1, <4>1
    <3>2. CASE j \in (P + 1)..Len(pending'[n])
      <4>1. pending'[n][j] = L + (j - P) /\ j - P \in Nat \ {0}
        BY <2>1, <2>2, <3>2
      <4>2. ASSUME NEW i \in 1..(j - 1) PROVE pending'[n][i] < pending'[n][j]
        <5>1. CASE i \in 1..P
          <6>1. pending'[n][i] \in 1..L
            BY <2>1, <2>2, <5>1
          <6> QED
            BY <2>2, <4>1, <6>1
        <5>2. CASE i \in (P + 1)..(j - 1)
          <6>1. i \in (P + 1)..Len(pending'[n])
            BY <2>1, <2>2, <3>2, <5>2
          <6>2. pending'[n][i] = L + (i - P)
            BY <2>1, <6>1
          <6> QED
            BY <2>2, <3>2, <4>1, <5>2, <6>2
        <5> QED
          BY <2>2, <4>2, <5>1, <5>2
      <4> QED
        BY <1>1, <2>1, <2>2, <4>1, <4>2
    <3> QED
      BY <2>1, <2>2, <2>3, <3>1, <3>2
  <2> QED
    BY <2>3 DEF InTurn
<1>6. CASE Opens(n) \/ \E i \in 1..Len(listener[n]) :
                          \/ \E c \in ConnsOf(links) : Takes(n, i, c)
                          \/ Repeats(n, i) \/ Drops(n, i) \/ HandsOver(n, i)
  BY <1>3, <1>6, Zenon DEF Opens, Takes, Repeats, Drops, HandsOver, NotHand, NotHandNet
<1>7. CASE \/ Departs(n) \/ Fetches(n) \/ Detaches(n) \/ Reads(n) \/ \E c \in ConnsOf(links) : Puts(n, c)
           \/ \E next \in Nodes \cup {BROADCAST_NODEID} : Writes(n, next)
  BY <1>3, <1>7, Zenon DEF Departs, Fetches, Detaches, Reads, Puts, Writes
<1> QED
  BY <1>4, <1>5, <1>6, <1>7 DEF TrafficStep

LEMMA RisingTail ==
    ASSUME NEW q \in Seq(Packet), NEW s, Rising(q, s), q # << >>
    PROVE  Rising(Tail(q), s)
<1>1. Len(q) \in Nat /\ Len(Tail(q)) = Len(q) - 1 /\ \A j \in 1..(Len(q) - 1) : Tail(q)[j] = q[j + 1]
  BY HeadTail, SeqElements
<1>2. ASSUME NEW i \in 1..Len(Tail(q)), NEW j \in 1..Len(Tail(q)), i < j, Tail(q)[i].src = s, Tail(q)[j].src = s
      PROVE  Tail(q)[i].no < Tail(q)[j].no
  <2>1. /\ i + 1 \in 1..Len(q) /\ j + 1 \in 1..Len(q) /\ i + 1 < j + 1
        /\ Tail(q)[i] = q[i + 1] /\ Tail(q)[j] = q[j + 1]
    BY <1>1, <1>2
  <2> QED
    BY <1>2, <2>1 DEF Rising
<1> QED
  BY <1>2 DEF Rising

LEMMA RisingAppend ==
    ASSUME NEW q \in Seq(Packet), NEW s, Rising(q, s), NEW p \in Packet,
           p.src = s => \A j \in 1..Len(q) : q[j].src = s => q[j].no < p.no
    PROVE  Rising(Append(q, p), s)
<1> DEFINE a == Append(q, p)
<1>1. /\ Len(q) \in Nat /\ Len(a) = Len(q) + 1 /\ a[Len(q) + 1] = p /\ \A j \in 1..Len(q) : a[j] = q[j]
  BY SequenceSteps, SeqElements
<1> HIDE DEF a
<1>2. ASSUME NEW i \in 1..Len(a), NEW j \in 1..Len(a), i < j, a[i].src = s, a[j].src = s
      PROVE  a[i].no < a[j].no
  <2>1. i \in 1..Len(q) /\ a[i] = q[i]
    BY <1>1, <1>2
  <2>2. CASE j \in 1..Len(q)
    BY <1>1, <1>2, <2>1, <2>2 DEF Rising
  <2>3. CASE j = Len(q) + 1
    BY <1>1, <1>2, <2>1, <2>3
  <2> QED
    BY <1>1, <2>2, <2>3
<1> QED
  BY <1>2 DEF Rising, a

\* Nothing is added to what the MNP processes of n have sent.
UpsKept(n) ==
    /\ Len(net'[n]) = Len(net[n]) /\ process'[n] \in {process[n], 0} /\ sent'[n] = sent[n]
    /\ \A k \in 1..Len(net[n]) : net'[n][k].up \in {net[n][k].up, << >>}
LEMMA UpsKinds ==
    ASSUME Invs, NEW n \in Nodes, TrafficStep(n)
    PROVE  \/ UpsKept(n) /\ (network'[n] = network[n] \/ Attaches(n)) /\ (sending'[n] = sending[n] \/ \E c \in ConnsOf(links) : Puts(n, c))
           \/ Fetches(n) \/ Connects(n) \/ \E next \in Nodes \cup {BROADCAST_NODEID} : Writes(n, next)
<1> DEFINE Kept1 == UpsKept(n) /\ (network'[n] = network[n] \/ Attaches(n))
                    /\ (sending'[n] = sending[n] \/ \E c \in ConnsOf(links) : Puts(n, c))
<1>1. CASE UNCHANGED <<net[n], process[n], sent[n]>> /\ (network'[n] = network[n] \/ Attaches(n))
           /\ (sending'[n] = sending[n] \/ \E c \in ConnsOf(links) : Puts(n, c))
  BY <1>1 DEF UpsKept
<1>2. ASSUME NEW k \in 1..Len(net[n]), NEW down, NEW open, NetSet(n, k, net[n][k].up, down, open)
      PROVE  Len(net'[n]) = Len(net[n]) /\ \A j \in 1..Len(net[n]) : net'[n][j].up = net[n][j].up
  BY <1>2 DEF NetSet, NetBut
<1>3. CASE Opens(n)
  BY <1>1, <1>3 DEF Opens, NotHand
<1>4. CASE Departs(n)
  BY <1>4 DEF Departs, UpsKept
<1>5. CASE Attaches(n)
  BY <1>1, <1>5 DEF Attaches
<1>6. CASE Detaches(n)
  <2>1. /\ UNCHANGED <<network[n], sending[n], process[n], sent[n]>>
        /\ \E k \in 1..Len(net[n]), open \in BOOLEAN : NetSet(n, k, net[n][k].up, net[n][k].down, open)
    BY <1>6 DEF Detaches
  <2> QED
    BY <1>2, <2>1 DEF UpsKept
<1>7. CASE Reads(n)
  <2>1. /\ process[n] \in 1..Len(net[n]) /\ UNCHANGED <<network[n], sending[n], process[n], sent[n]>>
        /\ \E down, open : NetSet(n, process[n], net[n][process[n]].up, down, open)
    BY <1>7 DEF Reads
  <2> QED
    BY <1>2, <2>1 DEF UpsKept
<1>8. CASE \E i \in 1..Len(listener[n]) :
               (\E c \in ConnsOf(links) : Takes(n, i, c)) \/ Repeats(n, i) \/ Drops(n, i)
  BY <1>1, <1>8 DEF Takes, Repeats, Drops, NotHand
<1>9. ASSUME NEW i \in 1..Len(listener[n]), HandsOver(n, i) PROVE Kept1
  <2>1. /\ network[n] \in 1..Len(net[n]) /\ UNCHANGED <<network[n], sending[n], process[n], sent[n]>>
        /\ \E down, open : NetSet(n, network[n], net[n][network[n]].up, down, open)
    BY <1>9 DEF HandsOver, NotHandNet
  <2> QED
    BY <1>2, <2>1 DEF UpsKept
<1>10. ASSUME NEW c \in ConnsOf(links), Puts(n, c) PROVE Kept1
  <2>1. net'[n] = net[n] /\ process'[n] = process[n] /\ sent'[n] = sent[n] /\ network'[n] = network[n]
    BY <1>10, Zenon DEF Puts
  <2>2. UpsKept(n)
    BY <2>1 DEF UpsKept
  <2> QED
    BY <1>10, <2>1, <2>2
<1> QED
  BY <1>3, <1>4, <1>5, <1>6, <1>7, <1>8, <1>9, <1>10 DEF TrafficStep

LEMMA UpsRiseStep ==
    ASSUME Invs, NEW n \in Nodes, TrafficStep(n)
    PROVE  UpsRise(n)'
<1> DEFINE L == Len(net[n])
<1>1. /\ UpsRise(n) /\ L \in Nat /\ network[n] \in 0..L /\ process[n] \in 0..L /\ sent[n] \in Nat
      /\ \A k \in 1..L : net[n][k].up \in Seq(Packet) /\ Len(net[n][k].up) \in Nat
  <2>1. \A k \in 1..L : net[n][k].up \in Seq(Packet)
    BY NodeFacts
  <2>2. \A k \in 1..L : Len(net[n][k].up) \in Nat
    BY <2>1, SeqElements
  <2> QED
    BY <2>1, <2>2, NodeFacts, OverlayConstants DEF Queued, NodeTypes
<1>2. CASE UpsKept(n)
  <2>1. /\ Len(net'[n]) = L /\ process'[n] \in {process[n], 0} /\ sent'[n] = sent[n]
        /\ \A k \in 1..L : net'[n][k].up = net[n][k].up \/ net'[n][k].up = << >>
    BY <1>2 DEF UpsKept
  <2>2. ASSUME NEW k \in 1..Len(net'[n])
        PROVE  /\ \A j \in 1..Len(net'[n][k].up) : net'[n][k].up[j].src = n /\ net'[n][k].up[j].no <= sent'[n]
               /\ Rising(net'[n][k].up, n)
               /\ \A h \in 1..(k - 1) : \A i \in 1..Len(net'[n][h].up), j \in 1..Len(net'[n][k].up) :
                     net'[n][h].up[i].no < net'[n][k].up[j].no
               /\ process'[n] # 0 /\ process'[n] < k => net'[n][k].up = << >>
    <3>1. k \in 1..L /\ \A h \in 1..(k - 1) : h \in 1..L
      BY <1>1, <2>1
    <3>2. \A j \in 1..Len(net'[n][k].up) : net'[n][k].up = net[n][k].up
      BY <2>1, <3>1
    <3>3. \A j \in 1..Len(net'[n][k].up) : net'[n][k].up[j].src = n /\ net'[n][k].up[j].no <= sent'[n]
      BY <1>1, <2>1, <3>1, <3>2 DEF UpsRise
    <3>4. Rising(net'[n][k].up, n)
      BY <1>1, <3>1, <3>2 DEF UpsRise, Rising
    <3>5. ASSUME NEW h \in 1..(k - 1), NEW i \in 1..Len(net'[n][h].up), NEW j \in 1..Len(net'[n][k].up)
          PROVE  net'[n][h].up[i].no < net'[n][k].up[j].no
      <4>1. net'[n][h].up = net[n][h].up /\ net'[n][k].up = net[n][k].up
        BY <2>1, <3>1, <3>2
      <4> QED
        BY <1>1, <3>1, <4>1 DEF UpsRise
    <3>6. process'[n] # 0 /\ process'[n] < k => net'[n][k].up = << >>
      BY <1>1, <2>1, <3>1 DEF UpsRise
    <3> QED
      BY <3>3, <3>4, <3>5, <3>6
  <2> QED
    BY <2>2 DEF UpsRise, Rising
<1>3. CASE Fetches(n)
  <2> DEFINE w == network[n]
             q == net[n][w].up
  <2>1. /\ w \in 1..L /\ q # << >> /\ process'[n] = process[n] /\ sent'[n] = sent[n]
        /\ Len(net'[n]) = L /\ net'[n][w].up = Tail(q)
        /\ \A k \in 1..L : k # w => net'[n][k].up = net[n][k].up
    BY <1>3 DEF Fetches, NetSet, NetBut
  <2>2. q \in Seq(Packet)
    BY <1>1, <2>1
  <2>3. Rising(q, n)
    BY <1>1, <2>1 DEF UpsRise
  <2> HIDE DEF q
  <2>4. /\ Rising(Tail(q), n) /\ Len(Tail(q)) = Len(q) - 1 /\ Len(q) \in Nat
        /\ \A j \in 1..(Len(q) - 1) : j + 1 \in 1..Len(q) /\ Tail(q)[j] = q[j + 1]
    BY <2>1, <2>2, <2>3, RisingTail, HeadTail, SeqElements
  <2>5. \A k \in 1..L : \A j \in 1..Len(net'[n][k].up) : \E i \in 1..Len(net[n][k].up) :
            net'[n][k].up[j] = net[n][k].up[i]
    <3>1. ASSUME NEW k \in 1..L, NEW j \in 1..Len(net'[n][k].up)
          PROVE  \E i \in 1..Len(net[n][k].up) : net'[n][k].up[j] = net[n][k].up[i]
      <4>1. CASE k = w
        BY <2>1, <2>4, <4>1 DEF q
      <4>2. CASE k # w
        BY <2>1, <4>2
      <4> QED
        BY <4>1, <4>2
    <3> QED
      BY <3>1
  <2> HIDE DEF w
  <2>6. ASSUME NEW k \in 1..Len(net'[n])
        PROVE  /\ \A j \in 1..Len(net'[n][k].up) : net'[n][k].up[j].src = n /\ net'[n][k].up[j].no <= sent'[n]
               /\ Rising(net'[n][k].up, n)
               /\ \A h \in 1..(k - 1) : \A i \in 1..Len(net'[n][h].up), j \in 1..Len(net'[n][k].up) :
                     net'[n][h].up[i].no < net'[n][k].up[j].no
               /\ process'[n] # 0 /\ process'[n] < k => net'[n][k].up = << >>
    <3>1. k \in 1..L /\ \A h \in 1..(k - 1) : h \in 1..L
      BY <1>1, <2>1
    <3>2. \A j \in 1..Len(net'[n][k].up) : net'[n][k].up[j].src = n /\ net'[n][k].up[j].no <= sent'[n]
      <4>1. \A j \in 1..Len(net[n][k].up) : net[n][k].up[j].src = n /\ net[n][k].up[j].no <= sent[n]
        BY <1>1, <3>1 DEF UpsRise
      <4>2. sent'[n] = sent[n]
        BY <2>1
      <4> QED
        <5>1. SUFFICES ASSUME NEW j \in 1..Len(net'[n][k].up)
                       PROVE  net'[n][k].up[j].src = n /\ net'[n][k].up[j].no <= sent'[n]
          OBVIOUS
        <5>2. PICK i \in 1..Len(net[n][k].up) : net'[n][k].up[j] = net[n][k].up[i]
          BY <2>5, <3>1
        <5> QED
          BY <4>1, <4>2, <5>2
    <3>3. Rising(net'[n][k].up, n)
      <4>1. Rising(net[n][k].up, n)
        BY <1>1, <3>1 DEF UpsRise
      <4>2. net'[n][k].up = Tail(q) \/ net'[n][k].up = net[n][k].up
        BY <2>1, <3>1
      <4> QED
        BY <2>4, <4>1, <4>2
    <3>4. ASSUME NEW h \in 1..(k - 1), NEW i \in 1..Len(net'[n][h].up), NEW j \in 1..Len(net'[n][k].up)
          PROVE  net'[n][h].up[i].no < net'[n][k].up[j].no
      <4>1. PICK i1 \in 1..Len(net[n][h].up) : net'[n][h].up[i] = net[n][h].up[i1]
        BY <2>5, <3>1
      <4>2. PICK j1 \in 1..Len(net[n][k].up) : net'[n][k].up[j] = net[n][k].up[j1]
        BY <2>5, <3>1
      <4> QED
        BY <1>1, <3>1, <4>1, <4>2 DEF UpsRise
    <3>5. process'[n] # 0 /\ process'[n] < k => net'[n][k].up = << >>
      <4>1. process[n] # 0 /\ process[n] < k => net[n][k].up = << >>
        BY <1>1, <3>1 DEF UpsRise
      <4> QED
        BY <2>1, <3>1, <4>1 DEF q
    <3> QED
      BY <3>2, <3>3, <3>4, <3>5
  <2> QED
    BY <2>6 DEF UpsRise, Rising
<1>4. ASSUME NEW next \in Nodes \cup {BROADCAST_NODEID}, Writes(n, next) PROVE UpsRise(n)'
  <2> DEFINE w == process[n]
             q == net[n][w].up
             p == [src |-> n, no |-> sent[n] + 1, next |-> next]
             a == Append(q, p)
  <2>1. /\ w \in 1..L /\ process'[n] = process[n] /\ sent'[n] = sent[n] + 1
        /\ Len(net'[n]) = L /\ net'[n][w].up = a
        /\ \A k \in 1..L : k # w => net'[n][k].up = net[n][k].up
    BY <1>4 DEF Writes, NetSet, NetBut
  <2>2. q \in Seq(Packet) /\ Rising(q, n) /\ \A j \in 1..Len(q) : q[j].src = n /\ q[j].no <= sent[n]
    BY <1>1, <2>1, Zenon DEF UpsRise
  <2>3. p \in Packet /\ p.src = n /\ p.no = sent[n] + 1
    BY <1>1 DEF Packet
  <2> HIDE DEF q, p
  <2>4. \A j \in 1..Len(q) : q[j].no \in Nat
    BY <2>2, SeqElements, PacketFacts
  <2>5. Rising(a, n)
    <3>1. sent[n] \in Nat
      BY <1>1
    <3>2. \A j \in 1..Len(q) : q[j].no < p.no
      BY <2>2, <2>3, <2>4, <3>1
    <3> QED
      BY <2>2, <2>3, <3>2, RisingAppend
  <2>6. Len(q) \in Nat /\ Len(a) = Len(q) + 1 /\ a[Len(q) + 1] = p /\ \A j \in 1..Len(q) : a[j] = q[j]
    BY <2>2, <2>3, SequenceSteps, SeqElements
  <2>7. \A j \in 1..Len(a) : a[j].src = n /\ a[j].no <= sent[n] + 1
                             /\ ((\E i \in 1..Len(q) : a[j] = q[i]) \/ a[j].no = sent[n] + 1)
    <3>1. ASSUME NEW j \in 1..Len(a)
          PROVE  a[j].src = n /\ a[j].no <= sent[n] + 1
                 /\ ((\E i \in 1..Len(q) : a[j] = q[i]) \/ a[j].no = sent[n] + 1)
      <4>1. CASE j \in 1..Len(q)
        BY <1>1, <2>2, <2>4, <2>6, <4>1
      <4>2. CASE j = Len(q) + 1
        BY <1>1, <2>3, <2>6, <4>2
      <4> QED
        BY <2>6, <4>1, <4>2
    <3> QED
      BY <3>1
  <2> HIDE DEF a, w
  <2>8. ASSUME NEW k \in 1..Len(net'[n])
        PROVE  /\ \A j \in 1..Len(net'[n][k].up) : net'[n][k].up[j].src = n /\ net'[n][k].up[j].no <= sent'[n]
               /\ Rising(net'[n][k].up, n)
               /\ \A h \in 1..(k - 1) : \A i \in 1..Len(net'[n][h].up), j \in 1..Len(net'[n][k].up) :
                     net'[n][h].up[i].no < net'[n][k].up[j].no
               /\ process'[n] # 0 /\ process'[n] < k => net'[n][k].up = << >>
    <3>1. k \in 1..L /\ \A h \in 1..(k - 1) : h \in 1..L /\ h < k
      BY <1>1, <2>1
    <3>2. \A h \in 1..L : \A j \in 1..Len(net[n][h].up) :
              net[n][h].up[j].src = n /\ net[n][h].up[j].no <= sent[n] /\ net[n][h].up[j].no \in Nat
      <4>1. ASSUME NEW h \in 1..L, NEW j \in 1..Len(net[n][h].up) PROVE net[n][h].up[j].no \in Nat
        <5>1. net[n][h].up[j] \in Packet
          BY <1>1, SeqElements
        <5> QED
          BY <5>1, PacketFacts
      <4> QED
        BY <1>1, <4>1 DEF UpsRise
    <3>3. \A j \in 1..Len(net'[n][k].up) : net'[n][k].up[j].src = n /\ net'[n][k].up[j].no <= sent'[n]
      <4>1. CASE k = w
        BY <2>1, <2>7, <4>1
      <4>2. CASE k # w
        <5>1. net'[n][k].up = net[n][k].up /\ sent'[n] = sent[n] + 1
          BY <2>1, <3>1, <4>2
        <5>2. \A j \in 1..Len(net[n][k].up) : net[n][k].up[j].src = n /\ net[n][k].up[j].no <= sent[n]
                                               /\ net[n][k].up[j].no \in Nat
          BY <3>1, <3>2
        <5>3. \A j \in 1..Len(net[n][k].up) : net[n][k].up[j].no <= sent[n] + 1
          BY <1>1, <5>2, SMTT(20)
        <5> QED
          BY <5>1, <5>2, <5>3
      <4> QED
        BY <4>1, <4>2
    <3>4. Rising(net'[n][k].up, n)
      <4>1. Rising(net[n][k].up, n)
        BY <1>1, <3>1 DEF UpsRise
      <4>2. net'[n][k].up = a \/ net'[n][k].up = net[n][k].up
        BY <2>1, <3>1
      <4> QED
        BY <2>5, <4>1, <4>2
    <3>5. ASSUME NEW h \in 1..(k - 1), NEW i \in 1..Len(net'[n][h].up), NEW j \in 1..Len(net'[n][k].up)
          PROVE  net'[n][h].up[i].no < net'[n][k].up[j].no
      <4>1. h \in 1..L /\ h < k
        BY <3>1
      <4>2. CASE h = w
        <5>1. net[n][k].up = << >> /\ net'[n][k].up = net[n][k].up
          BY <1>1, <2>1, <3>1, <4>1, <4>2 DEF UpsRise, w
        <5> QED
          BY <5>1
      <4>3. CASE h # w /\ k # w
        BY <1>1, <2>1, <3>1, <4>1, <4>3 DEF UpsRise
      <4>4. CASE h # w /\ k = w
        <5>1. net'[n][h].up = net[n][h].up /\ net'[n][k].up = a /\ q = net[n][k].up
          BY <2>1, <3>1, <4>1, <4>4 DEF q
        <5>2. CASE a[j].no = sent[n] + 1
          <6>1. i \in 1..Len(net[n][h].up)
            BY <5>1
          <6>2. net[n][h].up[i].no <= sent[n] /\ net[n][h].up[i].no \in Nat
            BY <3>2, <4>1, <6>1
          <6>3. sent[n] \in Nat
            BY <1>1
          <6>4. net[n][h].up[i].no < sent[n] + 1
            BY <6>2, <6>3
          <6> QED
            BY <5>1, <5>2, <6>4
        <5>3. CASE \E i1 \in 1..Len(q) : a[j] = q[i1]
          <6>1. PICK i1 \in 1..Len(net[n][k].up) : a[j] = net[n][k].up[i1]
            BY <5>1, <5>3
          <6>2. i \in 1..Len(net[n][h].up)
            BY <5>1
          <6>3. net[n][h].up[i].no < net[n][k].up[i1].no
            BY <1>1, <3>1, <6>2 DEF UpsRise
          <6> QED
            BY <5>1, <6>1, <6>3
        <5> QED
          BY <2>7, <5>1, <5>2, <5>3
      <4> QED
        BY <4>2, <4>3, <4>4
    <3>6. process'[n] # 0 /\ process'[n] < k => net'[n][k].up = << >>
      BY <1>1, <2>1, <3>1 DEF UpsRise, w
    <3> QED
      BY <3>3, <3>4, <3>5, <3>6
  <2> QED
    BY <2>8 DEF UpsRise, Rising
<1>5. CASE Connects(n)
  <2>1. /\ process[n] = 0 /\ process'[n] = L + 1 /\ sent'[n] = sent[n] /\ Len(net'[n]) = L + ConnectCalls[n]
        /\ \A k \in 1..L : net'[n][k] = net[n][k]
        /\ \A k \in (L + 1)..Len(net'[n]) : net'[n][k].up = << >>
    BY <1>5 DEF Connects
  <2>2. ConnectCalls[n] \in Nat
    BY OverlayConstants
  <2>3. \A k \in 1..Len(net'[n]) : k \in 1..L \/ net'[n][k].up = << >>
    BY <1>1, <2>1, <2>2
  <2>4. ASSUME NEW k \in 1..Len(net'[n])
        PROVE  /\ \A j \in 1..Len(net'[n][k].up) : net'[n][k].up[j].src = n /\ net'[n][k].up[j].no <= sent'[n]
               /\ Rising(net'[n][k].up, n)
               /\ \A h \in 1..(k - 1) : \A i \in 1..Len(net'[n][h].up), j \in 1..Len(net'[n][k].up) :
                     net'[n][h].up[i].no < net'[n][k].up[j].no
               /\ process'[n] # 0 /\ process'[n] < k => net'[n][k].up = << >>
    <3>1. CASE net'[n][k].up = << >>
      BY <3>1 DEF Rising
    <3>2. CASE k \in 1..L
      <4>1. /\ \A h \in 1..(k - 1) : h \in 1..L /\ net'[n][h] = net[n][h]
            /\ net'[n][k] = net[n][k] /\ ~(process'[n] < k)
        BY <1>1, <2>1, <3>2
      <4>2. /\ \A j \in 1..Len(net[n][k].up) : net[n][k].up[j].src = n /\ net[n][k].up[j].no <= sent[n]
            /\ Rising(net[n][k].up, n)
            /\ \A h \in 1..(k - 1) : \A i \in 1..Len(net[n][h].up), j \in 1..Len(net[n][k].up) :
                  net[n][h].up[i].no < net[n][k].up[j].no
        BY <1>1, <3>2 DEF UpsRise
      <4>3. sent'[n] = sent[n]
        BY <2>1
      <4>4. \A h \in 1..(k - 1) : \A i \in 1..Len(net'[n][h].up), j \in 1..Len(net'[n][k].up) :
                net'[n][h].up[i].no < net'[n][k].up[j].no
        BY <4>1, <4>2
      <4> QED
        BY <4>1, <4>2, <4>3, <4>4
    <3> QED
      BY <2>3, <3>1, <3>2
  <2> QED
    BY <2>4 DEF UpsRise, Rising
<1> QED
  BY <1>2, <1>3, <1>4, <1>5, UpsKinds

LEMMA WiresStep ==
    ASSUME Invs, WireShape', links' = links,
           \/ Rests /\ Calm
           \/ \E n \in Nodes : TrafficStep(n) /\ Calm
           \/ \E n \in Nodes : Quits(n),
           NEW c \in ConnsOf(links), NEW m \in EndsOf(links, c)
    PROVE  OnWire(c, m)'
<1>1. WireShape /\ OnWire(c, m) /\ Peer(c, m) \in Nodes
  BY PeerFacts DEF Invs, TrafficInv
<1>2. ASSUME wire'[c][m] \in {wire[c][m], Tail(wire[c][m]), << >>}, wire[c][m] = << >> => wire'[c][m] = << >>,
             main'[Peer(c, m)] = "down" \/ Steady(Peer(c, m))
      PROVE  OnWire(c, m)'
  BY <1>1, <1>2, KeepWire
<1>3. CASE Calm /\ wire'[c][m] = wire[c][m]
  BY <1>1, <1>2, <1>3 DEF Calm
<1>4. CASE Rests /\ Calm
  BY <1>3, <1>4 DEF Rests, WireSame
<1>5. ASSUME NEW n \in Nodes, Quits(n) PROVE OnWire(c, m)'
  <2>1. wire'[c][m] \in {wire[c][m], << >>} /\ (main'[Peer(c, m)] = "down" \/ Steady(Peer(c, m)))
    BY <1>1, <1>5 DEF Quits
  <2> QED
    BY <1>2, <2>1
<1>6. ASSUME NEW n \in Nodes, TrafficStep(n), Calm PROVE OnWire(c, m)'
  <2>1. CASE \/ Opens(n) \/ Departs(n) \/ Attaches(n) \/ Fetches(n) \/ Detaches(n) \/ Connects(n) \/ Reads(n)
             \/ \E next \in Nodes \cup {BROADCAST_NODEID} : Writes(n, next)
    <3>1. WireSame
      BY <2>1, Zenon DEF Opens, Departs, Attaches, Fetches, Detaches, Connects, Reads, Writes
    <3> QED
      BY <1>3, <1>6, <3>1 DEF WireSame
  <2>2. CASE \E i \in 1..Len(listener[n]) : Repeats(n, i) \/ Drops(n, i) \/ HandsOver(n, i)
    <3>1. WireSame
      BY <2>2 DEF Repeats, Drops, HandsOver
    <3> QED
      BY <1>3, <1>6, <3>1 DEF WireSame
  <2>3. ASSUME NEW i \in 1..Len(listener[n]), NEW d \in ConnsOf(links), Takes(n, i, d) PROVE OnWire(c, m)'
    <3>1. wire[d][n] # << >> /\ wire'[d][n] = Tail(wire[d][n]) /\ WireBut(d, n)
      BY <2>3 DEF Takes
    <3>2. CASE c = d /\ m = n
      BY <1>1, <1>2, <1>6, <3>1, <3>2 DEF Calm
    <3>3. CASE ~(c = d /\ m = n)
      <4>1. wire'[c][m] = wire[c][m]
        BY <3>1, <3>3 DEF WireBut
      <4> QED
        BY <1>3, <1>6, <4>1
    <3> QED
      BY <3>2, <3>3
  <2>4. ASSUME NEW d \in ConnsOf(links), Puts(n, d) PROVE OnWire(c, m)'
    <3>1. /\ sending[n].to # << >> /\ d = Head(sending[n].to) /\ n \in EndsOf(links, d)
          /\ WireBut(d, Peer(d, n))
          /\ wire'[d][Peer(d, n)] \in {wire[d][Peer(d, n)], Append(wire[d][Peer(d, n)], sending[n].pkt)}
      BY <2>4, Zenon DEF Puts
    <3>2. CASE wire'[c][m] = wire[c][m]
      BY <1>3, <1>6, <3>2
    <3>3. CASE wire'[c][m] # wire[c][m]
      <4>1. c = d /\ m = Peer(d, n) /\ wire'[c][m] = Append(wire[c][m], sending[n].pkt)
        BY <3>1, <3>3, Zenon DEF WireBut
      <4>2. Peer(c, m) = n /\ Ends(c) = EndsOf(links, c)
        <5>1. WireShape /\ n \in EndsOf(links, c) /\ m = Peer(c, n)
          BY <1>1, <3>1, <4>1, Zenon
        <5> QED
          BY <5>1, PeerFacts
      <4>3. Ends(c)' = Ends(c)
        BY <1>1 DEF WireShape, Ends
      <4>4. Peer(c, m)' = n
        BY <4>2, <4>3 DEF Peer
      <4> DEFINE p == sending[n].pkt
                 q == wire[c][m]
      <4>5. PICK i \in Entries(n) : nt[n][i].conn = c /\ p.next \in {nt[n][i].nodeID, BROADCAST_NODEID}
        <5>1. sending[n].to \in Seq(ConnsOf(links))
          BY NodeFacts
        <5>2. Head(sending[n].to) = sending[n].to[1] /\ 1 \in 1..Len(sending[n].to)
          <6> DEFINE to == sending[n].to
          <6>1. to \in Seq(ConnsOf(links)) /\ to # << >>
            BY <3>1, <5>1, Zenon
          <6> HIDE DEF to
          <6>2. Head(to) = to[1] /\ Len(to) \in Nat /\ Len(to) > 0
            BY <6>1, HeadTail, SeqElements
          <6> QED
            BY <6>2 DEF to
        <5>3. SendsServe(n)
          BY NodeFacts DEF Serves
        <5> QED
          <6>1. sending[n].to[1] = c
            BY <3>1, <4>1, <5>2, Zenon
          <6> QED
            BY <5>2, <5>3, <6>1 DEF SendsServe
      <4>6. main[n] = "serve" /\ p.src = n
        <5>1. SendsServe(n)
          BY NodeFacts DEF Serves
        <5> QED
          BY <3>1, <5>1, Zenon DEF SendsServe
      <4>7. nt[n][i].nodeID = m
        <5>1. links \in Files
          BY <1>1 DEF WireShape
        <5>2. nt[n][i].conn # NoConn
          BY <4>5, <5>1, ConnFacts
        <5>3. Peer(c, n) = nt[n][i].nodeID
          BY <4>5, <5>2, EntryConn DEF Entries
        <5> QED
          BY <4>1, <5>3, Zenon
      <4>8. p \in Packet /\ q \in Seq(Packet)
        BY <1>1, NodeFacts DEF OnWire
      <4>9. \A j \in 1..Len(q) : q[j].src = n /\ q[j].next \in {m, BROADCAST_NODEID}
        BY <1>1, <4>2 DEF OnWire
      <4>10. p.next \in {m, BROADCAST_NODEID} /\ wire'[c][m] = Append(q, p)
        BY <4>1, <4>5, <4>7
      <4> HIDE DEF p, q
      <4>11. /\ Append(q, p) \in Seq(Packet) /\ Len(q) \in Nat /\ Len(Append(q, p)) = Len(q) + 1
             /\ Append(q, p)[Len(q) + 1] = p /\ \A j \in 1..Len(q) : Append(q, p)[j] = q[j]
        BY <4>8, SequenceSteps, SeqElements
      <4>12. \A j \in 1..Len(Append(q, p)) : /\ Append(q, p)[j].src = n
                                             /\ Append(q, p)[j].next \in {m, BROADCAST_NODEID}
        <5>1. \A j \in 1..Len(Append(q, p)) : j \in 1..Len(q) \/ j = Len(q) + 1
          BY <4>11
        <5> QED
          BY <4>6, <4>9, <4>10, <4>11, <5>1 DEF p
      <4>13. main'[n] = "serve" /\ \E h \in Entries(n)' : nt'[n][h].conn = c
        <5>1. main'[n] = "serve" /\ nt'[n] = nt[n]
          BY <1>6, <4>6 DEF Calm, Steady
        <5> QED
          BY <4>5, <5>1 DEF Entries
      <4> QED
        BY <4>4, <4>10, <4>11, <4>12, <4>13 DEF OnWire
    <3> QED
      BY <3>2, <3>3
  <2> QED
    BY <1>6, <2>1, <2>2, <2>3, <2>4 DEF TrafficStep
<1> QED
  BY <1>4, <1>5, <1>6

LEMMA ClosedStep ==
    ASSUME ClosedIs, links' = links, Calm \/ \E n \in Nodes : Quits(n), links \in Files
    PROVE  ClosedIs'
<1>0. \A c \in ConnsOf(links) : EndsOf(links, c) \subseteq Nodes
  <2>1. ASSUME NEW c \in ConnsOf(links) PROVE EndsOf(links, c) \subseteq Nodes
    BY <2>1, ConnFacts
  <2> QED
    BY <2>1
<1>1. CASE Calm
  BY <1>0, <1>1 DEF Calm, Steady, ClosedIs
<1>2. ASSUME NEW n \in Nodes, Quits(n) PROVE ClosedIs'
  <2>1. /\ main'[n] = "down" /\ \A k \in Nodes \ {n} : main'[k] = "down" <=> main[k] = "down"
        /\ closed' = [c \in ConnsOf(links) |-> IF n \in EndsOf(links, c) THEN closed[c] \cup {n} ELSE closed[c]]
    BY <1>2 DEF Quits, Steady
  <2>2. ASSUME NEW c \in ConnsOf(links)
        PROVE  (IF n \in EndsOf(links, c) THEN closed[c] \cup {n} ELSE closed[c])
                   = {k \in EndsOf(links, c) : main'[k] = "down"}
    <3>1. closed[c] = {k \in EndsOf(links, c) : main[k] = "down"}
      BY DEF ClosedIs
    <3> QED
      BY <1>0, <2>1, <3>1
  <2> QED
    BY <2>1, <2>2 DEF ClosedIs
<1> QED
  BY <1>1, <1>2

LEMMA TrafficInvStep ==
    ASSUME Invs, [Next]_vars
    PROVE  Invs'
<1>1. /\ links' = links /\ NodeFuns' /\ stops' \in 0..MaxStops
      /\ \/ Rests /\ Calm
         \/ \E n \in Nodes : TrafficStep(n) /\ NodeTypes(n)' /\ Calm
         \/ \E n \in Nodes : Quits(n) /\ NodeTypes(n)'
  BY TrafficKinds
<1>2. WireShape' /\ StartInv'
  BY StartInvStep DEF Invs
<1>3. ClosedIs'
  <2>1. links \in Files /\ ClosedIs
    BY DEF Invs, TrafficInv, WireShape
  <2> QED
    BY <1>1, <2>1, ClosedStep
<1>4. \A c \in ConnsOf(links) : \A m \in EndsOf(links, c) : OnWire(c, m)'
  BY <1>1, <1>2, WiresStep
<1>5. ASSUME NEW k \in Nodes, Steady(k), Node(k)' = Node(k) PROVE NodeTypes(k)' /\ Serves(k)' /\ Queued(k)'
  BY <1>1, <1>5, NodeFacts, KeepNode
<1>6. ASSUME NEW k \in Nodes PROVE NodeTypes(k)' /\ Serves(k)' /\ Queued(k)'
  <2>1. CASE Rests /\ Calm
    BY <1>5, <2>1 DEF Rests, Calm
  <2>2. ASSUME NEW n \in Nodes, TrafficStep(n), NodeTypes(n)', Calm PROVE NodeTypes(k)' /\ Serves(k)' /\ Queued(k)'
    <3>1. CASE k = n
      <4>1. ListenersServe(n)' /\ LoopServes(n)' /\ SendsServe(n)'
        BY <1>1, <2>2, ListenersServeStep, LoopServesStep, SendsServeStep DEF Calm
      <4>2. InTurn(n)' /\ UpsRise(n)'
        BY <2>2, InTurnStep, UpsRiseStep
      <4> QED
        BY <2>2, <3>1, <4>1, <4>2 DEF Serves, Queued
    <3>2. CASE k # n
      <4>1. Others(n)
        BY <2>2, Zenon DEF TrafficStep, Opens, Departs, Attaches, Fetches, Detaches, Connects, Reads, Takes, Repeats,
                    Drops, HandsOver, Puts, Writes
      <4> QED
        BY <1>5, <2>2, <3>2, <4>1 DEF Others, Calm
    <3> QED
      BY <3>1, <3>2
  <2>3. ASSUME NEW n \in Nodes, Quits(n), NodeTypes(n)' PROVE NodeTypes(k)' /\ Serves(k)' /\ Queued(k)'
    <3>1. CASE k = n
      <4>1. /\ listener'[n] = << >> /\ ~serving'[n] /\ sending'[n].to = << >> /\ pending'[n] = << >>
            /\ \A i \in 1..Len(net'[n]) : net'[n][i].up = << >>
        BY <2>3 DEF Quits
      <4>2. Serves(n)'
        BY <4>1 DEF Serves, ListenersServe, LoopServes, SendsServe
      <4>3. Queued(n)'
        BY <4>1 DEF Queued, InTurn, UpsRise, Rising
      <4> QED
        BY <2>3, <3>1, <4>2, <4>3
    <3>2. CASE k # n
      BY <1>5, <2>3, <3>2 DEF Quits, Others
    <3> QED
      BY <3>1, <3>2
  <2> QED
    BY <1>1, <2>1, <2>2, <2>3
<1>7. TrafficInv'
  BY <1>1, <1>3, <1>4, <1>6 DEF TrafficInv
<1> QED
  BY <1>2, <1>7 DEF Invs

LEMMA TrafficInvInit ==
    ASSUME OverlayInit
    PROVE  Invs
<1>1. WireShape /\ StartInv
  BY StartInvInit
<1>2. /\ \A n \in Nodes : /\ main[n] = "off" /\ listener[n] = << >> /\ network[n] = 0 /\ serving[n] = FALSE
                          /\ sending[n] = [pkt |-> Junk, to |-> << >>] /\ pending[n] = << >> /\ net[n] = << >>
                          /\ process[n] = 0 /\ sent[n] = 0 /\ got[n] = [m \in Nodes |-> 0]
      /\ stops = 0 /\ closed = [c \in ConnsOf(links) |-> {}]
      /\ \A c \in ConnsOf(links) : \A m \in EndsOf(links, c) : wire[c][m] = << >>
  BY DEF OverlayInit
<1>3. NodeFuns
  BY DEF OverlayInit, NodeFuns, IsNodeFun
<1>4. ClosedIs
  <2>1. ASSUME NEW c \in ConnsOf(links) PROVE {n \in EndsOf(links, c) : main[n] = "down"} = {}
    <3>1. EndsOf(links, c) \subseteq Nodes
      BY <1>1, ConnFacts DEF WireShape
    <3> QED
      BY <1>2, <3>1
  <2> QED
    BY <1>2, <2>1 DEF ClosedIs
<1>5. stops \in 0..MaxStops
  BY <1>2, OverlayConstants
<1>6. ASSUME NEW n \in Nodes PROVE NodeTypes(n) /\ Serves(n) /\ Queued(n)
  <2>1. \A E : << >> \in Seq(E)
    OBVIOUS
  <2>2. sending[n] \in SendingType /\ sending[n].to = << >>
    <3>1. Junk \in Packet /\ << >> \in Seq(ConnsOf(links))
      BY <2>1 DEF Packet
    <3>2. sending[n] = [pkt |-> Junk, to |-> << >>]
      BY <1>2
    <3> QED
      BY <3>1, <3>2 DEF SendingType
  <2>3. 0 \in 0..MaxPackets[n] /\ 0 \in 0..Len(net[n]) /\ got[n] \in [Nodes -> Nat]
    BY <1>2, OverlayConstants
  <2>4. NodeTypes(n)
    BY <1>2, <2>1, <2>2, <2>3 DEF NodeTypes
  <2>5. Serves(n)
    BY <1>2, <2>2 DEF Serves, ListenersServe, LoopServes, SendsServe
  <2>6. Queued(n)
    BY <1>2 DEF Queued, InTurn, UpsRise
  <2> QED
    BY <2>4, <2>5, <2>6
<1>7. ASSUME NEW c \in ConnsOf(links), NEW m \in EndsOf(links, c) PROVE OnWire(c, m)
  <2>1. wire[c][m] = << >>
    BY <1>2
  <2> QED
    BY <2>1 DEF OnWire
<1> QED
  BY <1>1, <1>3, <1>4, <1>5, <1>6, <1>7 DEF Invs, TrafficInv

\* What the listeners, the loops of waitNetwork() and the connections hold fits
\* the tables of the processes (listen_to_neighbor(), waitNetwork() in overlay.c).
THEOREM TrafficCorrect == Spec => []Invs
<1>1. OverlayInit => Invs
  BY TrafficInvInit
<1>2. Invs /\ [Next]_vars => Invs'
  BY TrafficInvStep
<1> QED
  BY <1>1, <1>2, PTL DEF Spec

\* The variables have their types (the declarations of overlay.c and
\* neighbortable.h).
THEOREM TypeCorrect == Spec => []TypeOK
<1>1. ASSUME Invs PROVE TypeOK
  <2>1. /\ WireShape /\ StartTypes /\ NodeFuns /\ ClosedIs /\ stops \in 0..MaxStops
        /\ \A n \in Nodes : NodeTypes(n) /\ Life(n) /\ Asked(n)
        /\ \A c \in ConnsOf(links) : \A m \in EndsOf(links, c) : OnWire(c, m)
    BY <1>1 DEF Invs, StartInv, TrafficInv
  <2>2. Conns = ConnsOf(links) /\ \A c \in ConnsOf(links) : Ends(c) = EndsOf(links, c)
    BY <2>1 DEF WireShape, Conns, Ends
  <2>3. /\ main \in [Nodes -> {"off", "connect", "join", "serve", "down"}]
        /\ waitNbrs \in [Nodes -> {"off", "bind", "listen", "done"}]
        /\ counter \in [Nodes -> 0..LineBound] /\ idx \in [Nodes -> Nat]
        /\ \A n \in Nodes : nt[n] \in Seq(Entry_Type) /\ backlog[n] \in Seq(ConnsOf(links))
    BY <2>1, <2>2 DEF StartTypes, Entry_Type
  <2>4. ASSUME NEW n \in Nodes PROVE Len(nt[n]) \in 0..LineBound /\ idx[n] \in 0..(LineBound + 1)
    <3>1. Len(nt_create(links, n)) \in 0..Len(links) /\ Len(links) \in 0..LineBound /\ LineBound \in Nat
      BY <2>1, TableFacts, FileFacts, OverlayConstants DEF WireShape
    <3>2. CASE Up(n)
      BY <2>1, <3>1, <3>2 DEF Life
    <3>3. CASE ~Up(n)
      BY <2>1, <3>1, <3>3 DEF Life
    <3> QED
      BY <3>2, <3>3
  <2>5. idx \in [Nodes -> 0..(LineBound + 1)]
    BY <2>3, <2>4
  <2>6. ASSUME NEW n \in Nodes PROVE backlog[n] \in Seq({c \in Conns : n \in Ends(c)})
    <3> DEFINE F == {c \in Conns : n \in Ends(c)}
    <3>1. ASSUME NEW j \in 1..Len(backlog[n]) PROVE backlog[n][j] \in F
      <4>1. backlog[n][j] \in ConnsOf(links)
        BY <2>3, SeqElements
      <4> QED
        BY <2>1, <2>2, <4>1 DEF Asked
    <3> HIDE DEF F
    <3> QED
      BY <2>3, <3>1, SeqOver DEF F
  <2>7. ASSUME NEW n \in Nodes
        PROVE  /\ \A i \in DOMAIN listener[n] :
                     /\ listener[n][i].conn \in Conns \cup {NoConn}
                     /\ listener[n][i].pkt \in Packet /\ listener[n][i].full \in BOOLEAN
               /\ network[n] \in 0..Len(net[n]) /\ process[n] \in 0..Len(net[n])
               /\ serving[n] \in BOOLEAN
               /\ sending[n].pkt \in Packet /\ sending[n].to \in Seq(Conns)
               /\ pending[n] \in Seq(DOMAIN net[n])
               /\ \A k \in DOMAIN net[n] :
                     /\ net[n][k].up \in Seq(Packet) /\ net[n][k].down \in Seq(Packet)
                     /\ net[n][k].overlay \in BOOLEAN /\ net[n][k].mnp \in BOOLEAN
               /\ sent[n] \in 0..MaxPackets[n]
    <3>1. /\ listener[n] \in Seq(ListenerType) /\ net[n] \in Seq(NetType) /\ sending[n] \in SendingType
          /\ network[n] \in 0..Len(net[n]) /\ process[n] \in 0..Len(net[n]) /\ serving[n] \in BOOLEAN
          /\ pending[n] \in Seq(1..Len(net[n])) /\ sent[n] \in 0..MaxPackets[n]
      BY <2>1 DEF NodeTypes
    <3>2. \A i \in DOMAIN listener[n] : listener[n][i] \in ListenerType
      BY <3>1, SeqElements
    <3>3. DOMAIN net[n] = 1..Len(net[n]) /\ \A k \in DOMAIN net[n] : net[n][k] \in NetType
      BY <3>1, SeqElements
    <3>4. \A i \in DOMAIN listener[n] : /\ listener[n][i].conn \in Conns \cup {NoConn}
                                        /\ listener[n][i].pkt \in Packet /\ listener[n][i].full \in BOOLEAN
      BY <2>2, <3>2 DEF ListenerType
    <3>5. \A k \in DOMAIN net[n] : /\ net[n][k].up \in Seq(Packet) /\ net[n][k].down \in Seq(Packet)
                                   /\ net[n][k].overlay \in BOOLEAN /\ net[n][k].mnp \in BOOLEAN
      BY <3>3 DEF NetType
    <3>6. sending[n].pkt \in Packet /\ sending[n].to \in Seq(Conns)
      BY <2>2, <3>1 DEF SendingType
    <3> QED
      BY <3>1, <3>3, <3>4, <3>5, <3>6
  <2>8. ASSUME NEW c \in Conns PROVE closed[c] \subseteq Ends(c) /\ \A n \in Ends(c) : wire[c][n] \in Seq(Packet)
    BY <2>1, <2>2 DEF ClosedIs, OnWire
  <2>9. got \in [Nodes -> [Nodes -> Nat]]
    BY <2>1 DEF NodeFuns, IsNodeFun, NodeTypes
  <2>10. \A n \in Nodes : /\ nt[n] \in Seq(Entry_Type) /\ Len(nt[n]) <= LineBound
                           /\ backlog[n] \in Seq({c \in Conns : n \in Ends(c)})
    <3>1. ASSUME NEW n \in Nodes PROVE Len(nt[n]) <= LineBound
      BY <2>4
    <3> QED
      BY <2>3, <2>6, <3>1
  <2>11. \A c \in Conns : closed[c] \subseteq Ends(c) /\ \A n \in Ends(c) : wire[c][n] \in Seq(Packet)
    BY <2>8
  <2>12. stops \in 0..MaxStops /\ counter \in [Nodes -> 0..LineBound]
         /\ main \in [Nodes -> {"off", "connect", "join", "serve", "down"}]
         /\ waitNbrs \in [Nodes -> {"off", "bind", "listen", "done"}]
    BY <2>1, <2>3
  <2> QED
    BY <2>5, <2>7, <2>9, <2>10, <2>11, <2>12 DEF TypeOK
<1> QED
  BY <1>1, TrafficCorrect, PTL

\* A packet is only on a connection of the node whose MNP process sent it, and
\* one for a next hop only on its way to that node (waitNetwork() and
\* listen_to_neighbor() in overlay.c).
THEOREM SentToNextHopCorrect == Spec => []SentToNextHop
<1>1. Invs => SentToNextHop
  <2>1. ASSUME Invs, NEW c \in Conns, NEW m \in Ends(c), NEW j \in 1..Len(wire[c][m])
        PROVE  wire[c][m][j].src = Peer(c, m) /\ wire[c][m][j].next \in {m, BROADCAST_NODEID}
    <3>1. c \in ConnsOf(links) /\ m \in EndsOf(links, c)
      BY <2>1 DEF Invs, WireShape, Conns, Ends
    <3>2. OnWire(c, m)
      BY <2>1, <3>1 DEF Invs, TrafficInv
    <3> QED
      BY <3>2 DEF OnWire
  <2> QED
    BY <2>1 DEF SentToNextHop
<1> QED
  BY <1>1, TrafficCorrect, PTL

-----------------------------------------------------------------------------
(* The packets: their order.                                                *)

\* x is the first of B and goes to the end of A.
Moved(A, B, A1, B1, x) == x \in B /\ A1 \subseteq A \cup {x} /\ B1 \subseteq B /\ \A y \in B1 : x < y

LEMMA LineMoves ==
    ASSUME NEW G, NEW D, NEW H, NEW W, NEW S, NEW U, NEW G1, NEW D1, NEW H1, NEW W1, NEW S1, NEW U1,
           NEW top, NEW x, InLine(G, D, H, W, S, U, top),
           \/ G1 \subseteq G /\ D1 \subseteq D /\ H1 \subseteq H /\ W1 \subseteq W /\ S1 \subseteq S /\ U1 \subseteq U
           \/ Moved(G, D, G1, D1, x) /\ H1 \subseteq H /\ W1 \subseteq W /\ S1 \subseteq S /\ U1 \subseteq U
           \/ G1 \subseteq G /\ Moved(D, H, D1, H1, x) /\ W1 \subseteq W /\ S1 \subseteq S /\ U1 \subseteq U
           \/ G1 \subseteq G /\ D1 \subseteq D /\ Moved(H, W, H1, W1, x) /\ S1 \subseteq S /\ U1 \subseteq U
           \/ G1 \subseteq G /\ D1 \subseteq D /\ H1 \subseteq H /\ Moved(W, S, W1, S1, x) /\ U1 \subseteq U
           \/ G1 \subseteq G /\ D1 \subseteq D /\ H1 \subseteq H /\ W1 \subseteq W /\ Moved(S, U, S1, U1, x)
    PROVE  InLine(G1, D1, H1, W1, S1, U1, top)
<1>1. CASE G1 \subseteq G /\ D1 \subseteq D /\ H1 \subseteq H /\ W1 \subseteq W /\ S1 \subseteq S /\ U1 \subseteq U
  BY <1>1 DEF InLine, Before
<1>2. CASE Moved(G, D, G1, D1, x) /\ H1 \subseteq H /\ W1 \subseteq W /\ S1 \subseteq S /\ U1 \subseteq U
  BY <1>2 DEF InLine, Before, Moved
<1>3. CASE G1 \subseteq G /\ Moved(D, H, D1, H1, x) /\ W1 \subseteq W /\ S1 \subseteq S /\ U1 \subseteq U
  BY <1>3 DEF InLine, Before, Moved
<1>4. CASE G1 \subseteq G /\ D1 \subseteq D /\ Moved(H, W, H1, W1, x) /\ S1 \subseteq S /\ U1 \subseteq U
  BY <1>4 DEF InLine, Before, Moved
<1>5. CASE G1 \subseteq G /\ D1 \subseteq D /\ H1 \subseteq H /\ Moved(W, S, W1, S1, x) /\ U1 \subseteq U
  BY <1>5 DEF InLine, Before, Moved
<1>6. CASE G1 \subseteq G /\ D1 \subseteq D /\ H1 \subseteq H /\ W1 \subseteq W /\ Moved(S, U, S1, U1, x)
  BY <1>6 DEF InLine, Before, Moved
<1> QED
  BY <1>1, <1>2, <1>3, <1>4, <1>5, <1>6

LEMMA LineGrows ==
    ASSUME NEW G \in SUBSET Nat, NEW D \in SUBSET Nat, NEW H \in SUBSET Nat, NEW W \in SUBSET Nat,
           NEW S \in SUBSET Nat, NEW U \in SUBSET Nat, NEW U1, NEW top \in Nat,
           InLine(G, D, H, W, S, U, top), U1 \subseteq U \cup {top + 1}
    PROVE  InLine(G, D, H, W, S, U1, top + 1)
<1>1. \A x \in G \cup D \cup H \cup W \cup S \cup U : x \in Nat /\ x <= top /\ x < top + 1
  BY DEF InLine
<1>2. top + 1 <= top + 1 /\ \A x \in G \cup D \cup H \cup W \cup S \cup U : x <= top + 1
  BY <1>1
<1> QED
  BY <1>1, <1>2 DEF InLine, Before

\* The packets move on between two places, or an MNP process sends one more.
Flows(m, s) ==
    LET G == GotNos(m, s)   D == DownNos(m, s)  H == HandNos(m, s)
        W == WireNos(m, s)  S == SendNos(m, s)  U == UpNos(s)
        G1 == GotNos(m, s)'   D1 == DownNos(m, s)'  H1 == HandNos(m, s)'
        W1 == WireNos(m, s)'  S1 == SendNos(m, s)'  U1 == UpNos(s)'
    IN  \/ /\ sent'[s] = sent[s]
           /\ \E x \in Nat :
                 \/ G1 \subseteq G /\ D1 \subseteq D /\ H1 \subseteq H /\ W1 \subseteq W /\ S1 \subseteq S /\ U1 \subseteq U
                 \/ Moved(G, D, G1, D1, x) /\ H1 \subseteq H /\ W1 \subseteq W /\ S1 \subseteq S /\ U1 \subseteq U
                 \/ G1 \subseteq G /\ Moved(D, H, D1, H1, x) /\ W1 \subseteq W /\ S1 \subseteq S /\ U1 \subseteq U
                 \/ G1 \subseteq G /\ D1 \subseteq D /\ Moved(H, W, H1, W1, x) /\ S1 \subseteq S /\ U1 \subseteq U
                 \/ G1 \subseteq G /\ D1 \subseteq D /\ H1 \subseteq H /\ Moved(W, S, W1, S1, x) /\ U1 \subseteq U
                 \/ G1 \subseteq G /\ D1 \subseteq D /\ H1 \subseteq H /\ W1 \subseteq W /\ Moved(S, U, S1, U1, x)
        \/ /\ sent'[s] = sent[s] + 1 /\ U1 \subseteq U \cup {sent[s] + 1}
           /\ G1 = G /\ D1 = D /\ H1 = H /\ W1 = W /\ S1 = S

LEMMA PlaceNats ==
    ASSUME NEW m, NEW s
    PROVE  /\ GotNos(m, s) \in SUBSET Nat /\ DownNos(m, s) \in SUBSET Nat /\ HandNos(m, s) \in SUBSET Nat
           /\ WireNos(m, s) \in SUBSET Nat /\ SendNos(m, s) \in SUBSET Nat /\ UpNos(s) \in SUBSET Nat
BY DEF GotNos, DownNos, HandNos, WireNos, SendNos, UpNos, Nos

LEMMA LineStep ==
    ASSUME NEW m \in Nodes, NEW s \in Nodes, sent[s] \in Nat, Line(m, s), Flows(m, s)
    PROVE  Line(m, s)'
<1> DEFINE G == GotNos(m, s)   D == DownNos(m, s)  H == HandNos(m, s)
           W == WireNos(m, s)  S == SendNos(m, s)  U == UpNos(s)
           G1 == GotNos(m, s)'   D1 == DownNos(m, s)'  H1 == HandNos(m, s)'
           W1 == WireNos(m, s)'  S1 == SendNos(m, s)'  U1 == UpNos(s)'
           Goal == InLine(G1, D1, H1, W1, S1, U1, sent'[s])
<1>1. InLine(G, D, H, W, S, U, sent[s])
  BY DEF Line
<1>2. CASE sent'[s] = sent[s]
  <2>1. PICK x \in Nat :
           \/ G1 \subseteq G /\ D1 \subseteq D /\ H1 \subseteq H /\ W1 \subseteq W /\ S1 \subseteq S /\ U1 \subseteq U
           \/ Moved(G, D, G1, D1, x) /\ H1 \subseteq H /\ W1 \subseteq W /\ S1 \subseteq S /\ U1 \subseteq U
           \/ G1 \subseteq G /\ Moved(D, H, D1, H1, x) /\ W1 \subseteq W /\ S1 \subseteq S /\ U1 \subseteq U
           \/ G1 \subseteq G /\ D1 \subseteq D /\ Moved(H, W, H1, W1, x) /\ S1 \subseteq S /\ U1 \subseteq U
           \/ G1 \subseteq G /\ D1 \subseteq D /\ H1 \subseteq H /\ Moved(W, S, W1, S1, x) /\ U1 \subseteq U
           \/ G1 \subseteq G /\ D1 \subseteq D /\ H1 \subseteq H /\ W1 \subseteq W /\ Moved(S, U, S1, U1, x)
    BY <1>2 DEF Flows
  <2>2. InLine(G1, D1, H1, W1, S1, U1, sent[s])
    <3> HIDE DEF G, D, H, W, S, U, G1, D1, H1, W1, S1, U1
    <3> QED
      BY <1>1, <2>1, LineMoves
  <2> QED
    BY <1>2, <2>2 DEF Line, InLine, Before
<1>3. CASE sent'[s] # sent[s]
  <2>1. /\ sent'[s] = sent[s] + 1 /\ U1 \subseteq U \cup {sent[s] + 1}
        /\ G1 = G /\ D1 = D /\ H1 = H /\ W1 = W /\ S1 = S
    BY <1>3 DEF Flows
  <2>2. InLine(G, D, H, W, S, U1, sent[s] + 1)
    <3>1. G \in SUBSET Nat /\ D \in SUBSET Nat /\ H \in SUBSET Nat /\ W \in SUBSET Nat /\ S \in SUBSET Nat /\ U \in SUBSET Nat
      BY PlaceNats
    <3> HIDE DEF G, D, H, W, S, U, U1
    <3> QED
      BY <1>1, <2>1, <3>1, LineGrows
  <2> QED
    BY <2>1, <2>2 DEF Line, InLine, Before
<1> QED
  BY <1>2, <1>3

LEMMA OneEntry ==
    ASSUME Invs, NEW n \in Nodes, NEW i \in 1..Len(nt[n]), NEW j \in 1..Len(nt[n]),
           nt[n][i].conn # NoConn, nt[n][j].conn # NoConn, nt[n][i].nodeID = nt[n][j].nodeID
    PROVE  i = j
<1>1. TableConns(n)
  BY DEF Invs, StartInv
<1>2. ~(i < j)
  <2>1. i < j => i \in 1..(j - 1)
    OBVIOUS
  <2>2. \A e \in 1..(j - 1) : nt[n][e].nodeID # nt[n][j].nodeID
    BY <1>1 DEF TableConns, Entries
  <2> QED
    BY <2>1, <2>2
<1>3. ~(j < i)
  <2>1. j < i => j \in 1..(i - 1)
    OBVIOUS
  <2>2. \A e \in 1..(i - 1) : nt[n][e].nodeID # nt[n][i].nodeID
    BY <1>1 DEF TableConns, Entries
  <2> QED
    BY <2>1, <2>2
<1> QED
  BY <1>2, <1>3

\* Of several connections between two nodes a process that has not ended sends on one.
LEMMA OneWire ==
    ASSUME Invs, NEW m \in Nodes, NEW s \in Nodes, m # s, main[s] # "down",
           NEW c \in ConnsOf(links), NEW d \in ConnsOf(links),
           EndsOf(links, c) = {m, s}, EndsOf(links, d) = {m, s}, wire[c][m] # << >>, wire[d][m] # << >>
    PROVE  c = d
<1>0. links \in Files /\ WireShape
  BY DEF Invs, WireShape
<1>1. ASSUME NEW b \in ConnsOf(links), EndsOf(links, b) = {m, s}, wire[b][m] # << >>
      PROVE  \E i \in 1..Len(nt[s]) : nt[s][i].conn = b /\ b # NoConn /\ nt[s][i].nodeID = m
  <2>1. m \in EndsOf(links, b)
    BY <1>1
  <2>2. Peer(b, m) = s
    BY <1>0, <1>1, <2>1, PeerFacts
  <2>3. OnWire(b, m)
    BY <2>1 DEF Invs, TrafficInv
  <2>4. PICK i \in Entries(s) : nt[s][i].conn = b
    BY <1>1, <2>2, <2>3 DEF OnWire
  <2>5. b # NoConn
    BY <1>0, ConnFacts
  <2>6. EndsOf(links, b) = {s, nt[s][i].nodeID} /\ nt[s][i].nodeID # s
    BY <2>4, <2>5, EntryConn DEF Entries
  <2> QED
    BY <1>1, <2>4, <2>5, <2>6 DEF Entries
<1>2. PICK i \in 1..Len(nt[s]) : nt[s][i].conn = c /\ c # NoConn /\ nt[s][i].nodeID = m
  BY <1>1
<1>3. PICK j \in 1..Len(nt[s]) : nt[s][j].conn = d /\ d # NoConn /\ nt[s][j].nodeID = m
  BY <1>1
<1>4. i = j
  BY <1>2, <1>3, OneEntry
<1> QED
  BY <1>2, <1>3, <1>4

\* What a step that leaves a reader, a sender or the wires between them alone
\* does to the places of their packets.
ReaderSame(m) == listener'[m] = listener[m] /\ got'[m] = got[m] /\ Down(m)' = Down(m)
SenderSame(s) == sending'[s] = sending[s] /\ sent'[s] = sent[s] /\ UpNos(s)' \subseteq UpNos(s)
WaySame(m, s) ==
    \A c \in ConnsOf(links) : EndsOf(links, c) = {m, s} => wire'[c][m] \in {wire[c][m], << >>}
Risen(m, s) == DownRises(m, s) /\ WiresRise(m, s)

LEMMA ReaderFrame ==
    ASSUME NEW m \in Nodes, NEW s \in Nodes, ReaderSame(m), DownRises(m, s)
    PROVE  /\ GotNos(m, s)' = GotNos(m, s) /\ DownNos(m, s)' = DownNos(m, s)
           /\ HandNos(m, s)' = HandNos(m, s) /\ DownRises(m, s)'
BY DEF ReaderSame, GotNos, DownNos, HandNos, DownRises, Rising, Nos

LEMMA SenderFrame ==
    ASSUME links' = links, NEW m \in Nodes, NEW s \in Nodes, SenderSame(s)
    PROVE  SendNos(m, s)' = SendNos(m, s) /\ UpNos(s)' \subseteq UpNos(s) /\ sent'[s] = sent[s]
BY DEF SenderSame, SendNos

LEMMA WayFrame ==
    ASSUME links' = links, NEW m \in Nodes, NEW s \in Nodes, WaySame(m, s), WiresRise(m, s)
    PROVE  WireNos(m, s)' \subseteq WireNos(m, s) /\ WiresRise(m, s)'
<1>1. ASSUME NEW c \in ConnsOf(links), EndsOf(links, c) = {m, s}
      PROVE  /\ \A x \in Nat : x \in Nos(wire'[c][m], s) => x \in Nos(wire[c][m], s)
             /\ Rising(wire'[c][m], s)
  <2>1. wire'[c][m] \in {wire[c][m], << >>} /\ Rising(wire[c][m], s)
    BY <1>1 DEF WaySame, WiresRise
  <2> QED
    BY <2>1, SMTT(20) DEF Nos, Rising
<1>2. WiresRise(m, s)'
  BY <1>1 DEF WiresRise, Rising
<1>3. ASSUME NEW x \in Nat, NEW c \in ConnsOf(links), EndsOf(links, c) = {m, s}, x \in Nos(wire'[c][m], s)
      PROVE  x \in WireNos(m, s)
  BY <1>1, <1>3 DEF WireNos
<1>4. WireNos(m, s)' \subseteq WireNos(m, s)
  BY <1>3 DEF WireNos, Nos
<1> QED
  BY <1>2, <1>4

LEMMA StillFlows ==
    ASSUME links' = links, NEW m \in Nodes, NEW s \in Nodes, Risen(m, s),
           ReaderSame(m), SenderSame(s), WaySame(m, s)
    PROVE  Flows(m, s) /\ Risen(m, s)'
<1>1. /\ GotNos(m, s)' = GotNos(m, s) /\ DownNos(m, s)' = DownNos(m, s)
      /\ HandNos(m, s)' = HandNos(m, s) /\ DownRises(m, s)'
  BY ReaderFrame DEF Risen
<1>2. SendNos(m, s)' = SendNos(m, s) /\ UpNos(s)' \subseteq UpNos(s) /\ sent'[s] = sent[s]
  BY SenderFrame
<1>3. WireNos(m, s)' \subseteq WireNos(m, s) /\ WiresRise(m, s)'
  BY WayFrame DEF Risen
<1>4. Risen(m, s)'
  BY <1>1, <1>3 DEF Risen
<1>5. 0 \in Nat
  OBVIOUS
<1> QED
  BY <1>1, <1>2, <1>3, <1>4, <1>5 DEF Flows

LEMMA NodeFrame ==
    ASSUME NEW k \in Nodes, Node(k)' = Node(k)
    PROVE  ReaderSame(k) /\ SenderSame(k)
<1>1. /\ listener'[k] = listener[k] /\ network'[k] = network[k] /\ sending'[k] = sending[k]
      /\ net'[k] = net[k] /\ process'[k] = process[k] /\ sent'[k] = sent[k] /\ got'[k] = got[k]
  BY DEF Node
<1>2. Down(k)' = Down(k)
  BY <1>1 DEF Down
<1>3. UpNos(k)' = UpNos(k)
  BY <1>1 DEF UpNos, Nos
<1> QED
  BY <1>1, <1>2, <1>3 DEF ReaderSame, SenderSame

LEMMA WayKinds ==
    ASSUME Invs, NEW n \in Nodes, TrafficStep(n), NEW m \in Nodes, NEW s \in Nodes, m # s
    PROVE  \/ WaySame(m, s)
           \/ n = m /\ \E i \in 1..Len(listener[m]) : \E c \in ConnsOf(links) : Takes(m, i, c)
           \/ n = s /\ \E c \in ConnsOf(links) : Puts(s, c)
<1>1. CASE WireSame
  <2>1. \A c \in ConnsOf(links) : EndsOf(links, c) = {m, s} => m \in EndsOf(links, c)
    OBVIOUS
  <2> QED
    BY <1>1, <2>1 DEF WireSame, WaySame
<1>2. CASE \/ Opens(n) \/ Departs(n) \/ Attaches(n) \/ Fetches(n) \/ Detaches(n) \/ Connects(n) \/ Reads(n)
           \/ \E next \in Nodes \cup {BROADCAST_NODEID} : Writes(n, next)
  BY <1>1, <1>2, Zenon DEF Opens, Departs, Attaches, Fetches, Detaches, Connects, Reads, Writes
<1>3. CASE \E i \in 1..Len(listener[n]) : Repeats(n, i) \/ Drops(n, i) \/ HandsOver(n, i)
  BY <1>1, <1>3 DEF Repeats, Drops, HandsOver
<1>4. ASSUME NEW i \in 1..Len(listener[n]), NEW c \in ConnsOf(links), Takes(n, i, c), n # m PROVE WaySame(m, s)
  <2>1. WireBut(c, n)
    BY <1>4 DEF Takes
  <2>2. \A d \in ConnsOf(links) : EndsOf(links, d) = {m, s} => m \in EndsOf(links, d)
    OBVIOUS
  <2> QED
    BY <1>4, <2>1, <2>2 DEF WireBut, WaySame
<1>5. ASSUME NEW c \in ConnsOf(links), Puts(n, c), n # s PROVE WaySame(m, s)
  <2>1. WireBut(c, Peer(c, n)) /\ n \in EndsOf(links, c)
    BY <1>5, Zenon DEF Puts
  <2>2. EndsOf(links, c) = {n, Peer(c, n)} /\ Peer(c, n) # n
    BY <2>1, PeerFacts DEF Invs
  <2>3. ASSUME NEW d \in ConnsOf(links), EndsOf(links, d) = {m, s} PROVE wire'[d][m] = wire[d][m]
    <3>1. d # c \/ m # Peer(c, n)
      BY <1>5, <2>2, <2>3
    <3>2. m \in EndsOf(links, d)
      BY <2>3
    <3> QED
      BY <2>1, <3>1, <3>2 DEF WireBut
  <2> QED
    BY <2>3 DEF WaySame
<1> QED
  BY <1>2, <1>3, <1>4, <1>5 DEF TrafficStep

\* listen_to_neighbor() receives a packet.
LEMMA TakesFlows ==
    ASSUME Invs, links' = links, NEW m \in Nodes, NEW s \in Nodes, m # s, main[s] # "down",
           Line(m, s), Risen(m, s), SenderSame(s),
           NEW i \in 1..Len(listener[m]), NEW c \in ConnsOf(links), Takes(m, i, c)
    PROVE  Flows(m, s) /\ Risen(m, s)'
<1> DEFINE q == wire[c][m]
           p == Head(q)
<1>1. /\ NotHand(m)' = NotHand(m) /\ c = listener[m][i].conn /\ ~listener[m][i].full
      /\ m \in EndsOf(links, c) /\ q # << >> /\ HandSet(m, i, p, TRUE) /\ wire'[c][m] = Tail(q) /\ WireBut(c, m)
  BY DEF Takes
<1>2. /\ EndsOf(links, c) = {m, Peer(c, m)} /\ Peer(c, m) # m /\ OnWire(c, m)
  BY <1>1, PeerFacts DEF Invs, TrafficInv
<1>3. q \in Seq(Packet) /\ \A j \in 1..Len(q) : q[j].src = Peer(c, m)
  BY <1>2 DEF OnWire
<1>4. got'[m] = got[m] /\ Down(m)' = Down(m)
  BY <1>1 DEF NotHand, Down
<1>5. GotNos(m, s)' = GotNos(m, s) /\ DownNos(m, s)' = DownNos(m, s) /\ DownRises(m, s)'
  BY <1>4 DEF GotNos, DownNos, DownRises, Rising, Nos, Risen
<1>6. SendNos(m, s)' = SendNos(m, s) /\ UpNos(s)' \subseteq UpNos(s) /\ sent'[s] = sent[s]
  BY SenderFrame
<1> HIDE DEF q
<1>7. /\ Len(q) \in Nat /\ Len(q) > 0 /\ p = q[1] /\ p \in Packet /\ Len(Tail(q)) = Len(q) - 1
      /\ \A j \in 1..(Len(q) - 1) : Tail(q)[j] = q[j + 1]
  BY <1>1, <1>3, HeadTail, SeqElements
<1>8. p.src = Peer(c, m) /\ p.no \in Nat
  BY <1>3, <1>7, PacketFacts
<1> HIDE DEF p
<1>9. \A y \in HandNos(m, s)' : y \in HandNos(m, s) \/ (y = p.no /\ p.src = s)
  <2>1. ASSUME NEW y \in HandNos(m, s)' PROVE y \in HandNos(m, s) \/ (y = p.no /\ p.src = s)
    <3>1. PICK j \in 1..Len(listener[m]) : /\ listener'[m][j].full /\ listener'[m][j].pkt.src = s
                                           /\ listener'[m][j].pkt.no = y /\ y \in Nat
      BY <1>1, <2>1 DEF HandSet, HandNos
    <3>2. CASE j = i
      BY <1>1, <3>1, <3>2 DEF HandSet
    <3>3. CASE j # i
      <4>1. listener[m][j].full /\ listener[m][j].pkt.src = s /\ listener[m][j].pkt.no = y
        BY <1>1, <3>1, <3>3 DEF HandSet
      <4> QED
        BY <3>1, <4>1 DEF HandNos
    <3> QED
      BY <3>2, <3>3
  <2> QED
    BY <2>1
<1>10. \A j \in 1..Len(Tail(q)) : j + 1 \in 1..Len(q) /\ Tail(q)[j] = q[j + 1]
  BY <1>7
<1>11. CASE Peer(c, m) = s
  <2>1. EndsOf(links, c) = {m, s} /\ p.src = s
    BY <1>2, <1>8, <1>11
  <2>2. p.no \in WireNos(m, s)
    <3>1. p.no \in Nos(wire[c][m], s)
      BY <1>7, <1>8, <2>1 DEF Nos, q
    <3> QED
      BY <1>8, <2>1, <3>1 DEF WireNos
  <2>3. HandNos(m, s)' \subseteq HandNos(m, s) \cup {p.no}
    BY <1>9
  <2>4. ASSUME NEW y \in Nat, NEW d \in ConnsOf(links), EndsOf(links, d) = {m, s}, y \in Nos(wire'[d][m], s)
        PROVE  y \in WireNos(m, s) /\ p.no < y
    <3>1. CASE d = c
      <4>1. PICK j \in 1..Len(Tail(q)) : Tail(q)[j].src = s /\ Tail(q)[j].no = y
        BY <1>1, <2>4, <3>1 DEF Nos
      <4>2. j + 1 \in 1..Len(q) /\ q[j + 1].src = s /\ q[j + 1].no = y /\ 1 < j + 1
        BY <1>7, <1>10, <4>1
      <4>3. y \in Nos(wire[c][m], s)
        BY <4>2 DEF Nos, q
      <4>4. p.no < y
        <5>1. Rising(q, s)
          BY <2>1 DEF Risen, WiresRise, q
        <5>2. 1 \in 1..Len(q) /\ q[1].src = s
          BY <1>7, <2>1
        <5> QED
          BY <1>7, <4>2, <5>1, <5>2 DEF Rising
      <4> QED
        BY <2>1, <4>3, <4>4 DEF WireNos
    <3>2. CASE d # c
      <4>1. wire'[d][m] = wire[d][m]
        <5>1. m \in EndsOf(links, d)
          BY <2>4
        <5> QED
          BY <1>1, <3>2, <5>1 DEF WireBut
      <4>2. wire[d][m] # << >>
        BY <2>4, <4>1 DEF Nos
      <4>3. d = c
        BY <1>1, <2>1, <2>4, <4>2, OneWire DEF q
      <4> QED
        BY <3>2, <4>3
    <3> QED
      BY <3>1, <3>2
  <2>5. WireNos(m, s)' \subseteq WireNos(m, s) /\ \A y \in WireNos(m, s)' : p.no < y
    <3>1. ASSUME NEW y \in WireNos(m, s)' PROVE y \in WireNos(m, s) /\ p.no < y
      <4>1. PICK d \in ConnsOf(links) : EndsOf(links, d) = {m, s} /\ y \in Nos(wire'[d][m], s) /\ y \in Nat
        BY <3>1 DEF WireNos, Nos
      <4> QED
        BY <2>4, <4>1
    <3> QED
      BY <3>1
  <2>6. Moved(HandNos(m, s), WireNos(m, s), HandNos(m, s)', WireNos(m, s)', p.no)
    BY <2>2, <2>3, <2>5 DEF Moved
  <2>7. WiresRise(m, s)'
    <3>1. ASSUME NEW d \in ConnsOf(links), EndsOf(links, d) = {m, s} PROVE Rising(wire'[d][m], s)
      <4>1. Rising(wire[d][m], s)
        BY <3>1 DEF Risen, WiresRise
      <4>2. CASE d = c
        <5>1. Rising(q, s)
          BY <4>1, <4>2 DEF q
        <5>2. Rising(Tail(q), s)
          BY <1>1, <1>3, <5>1, RisingTail
        <5> QED
          BY <1>1, <4>2, <5>2
      <4>3. CASE d # c
        <5>1. m \in EndsOf(links, d)
          BY <3>1
        <5>2. wire'[d][m] = wire[d][m]
          BY <1>1, <4>3, <5>1 DEF WireBut
        <5> QED
          BY <4>1, <5>2
      <4> QED
        BY <4>2, <4>3
    <3> QED
      BY <3>1 DEF WiresRise, Rising
  <2>8. Flows(m, s)
    BY <1>5, <1>6, <1>8, <2>6 DEF Flows
  <2> QED
    BY <1>5, <2>7, <2>8 DEF Risen
<1>12. CASE Peer(c, m) # s
  <2>1. HandNos(m, s)' \subseteq HandNos(m, s)
    BY <1>8, <1>9, <1>12
  <2>2. WaySame(m, s)
    <3>1. \A d \in ConnsOf(links) : EndsOf(links, d) = {m, s} => d # c /\ m \in EndsOf(links, d)
      BY <1>2, <1>12
    <3> QED
      BY <1>1, <3>1 DEF WireBut, WaySame
  <2>3. WireNos(m, s)' \subseteq WireNos(m, s) /\ WiresRise(m, s)'
    BY <2>2, WayFrame DEF Risen
  <2>4. 0 \in Nat
    OBVIOUS
  <2>5. Flows(m, s)
    BY <1>5, <1>6, <2>1, <2>3, <2>4 DEF Flows
  <2> QED
    BY <1>5, <2>3, <2>5 DEF Risen
<1> QED
  BY <1>11, <1>12

\* forwardpktToMNP() sends a packet to the MNP process.
LEMMA HandsOverFlows ==
    ASSUME Invs, links' = links, NEW m \in Nodes, NEW s \in Nodes, m # s,
           Line(m, s), Risen(m, s), SenderSame(s), WaySame(m, s),
           NEW i \in 1..Len(listener[m]), HandsOver(m, i)
    PROVE  Flows(m, s) /\ Risen(m, s)'
<1> DEFINE p == listener[m][i].pkt
           k == network[m]
           q == net[m][k].down
<1>1. /\ NotHandNet(m)' = NotHandNet(m) /\ listener[m][i].full /\ HandSet(m, i, p, FALSE)
      /\ k \in 1..Len(net[m]) /\ net'[m][k].down = Append(q, p)
      /\ \A j \in 1..Len(net[m]) : j # k => net'[m][j] = net[m][j]
  BY DEF HandsOver, NetSet, NetBut
<1>2. p \in Packet /\ q \in Seq(Packet) /\ process[m] \in 0..Len(net[m]) /\ Len(net[m]) \in Nat
  <2>1. k \in 1..Len(net[m])
    BY <1>1
  <2> HIDE DEF k
  <2> QED
    BY <2>1, NodeFacts DEF NodeTypes
<1>3. got'[m] = got[m] /\ process'[m] = process[m]
  BY <1>1 DEF NotHandNet
<1>4. GotNos(m, s)' = GotNos(m, s)
  BY <1>3 DEF GotNos
<1>5. SendNos(m, s)' = SendNos(m, s) /\ UpNos(s)' \subseteq UpNos(s) /\ sent'[s] = sent[s]
  BY SenderFrame
<1>6. WireNos(m, s)' \subseteq WireNos(m, s) /\ WiresRise(m, s)'
  BY WayFrame DEF Risen
<1>7. HandNos(m, s)' \subseteq HandNos(m, s)
  BY <1>1, Zenon DEF HandSet, HandNos
<1>8. ASSUME p.src = s PROVE HandNos(m, s)' = {}
  <2>1. ListenersServe(m)
    BY NodeFacts DEF Serves
  <2>2. ASSUME NEW j \in 1..Len(listener'[m]), listener'[m][j].full, listener'[m][j].pkt.src = s PROVE FALSE
    <3>1. j \in 1..Len(listener[m]) /\ j # i /\ listener[m][j].pkt.src = s
      BY <1>1, <2>2 DEF HandSet
    <3>2. i \in 1..Len(nt[m]) /\ j \in 1..Len(nt[m])
      BY <2>1, <3>1 DEF ListenersServe
    <3>3. /\ nt[m][i].conn # NoConn /\ nt[m][i].nodeID = s
          /\ nt[m][j].conn # NoConn /\ nt[m][j].nodeID = s
      BY <1>8, <2>1, <3>1 DEF ListenersServe
    <3>4. i = j
      BY <3>2, <3>3, OneEntry
    <3> QED
      BY <3>1, <3>4, SMTT(20)
  <2> QED
    BY <2>2 DEF HandNos
<1>9. p.src = s => p.no \in HandNos(m, s) /\ p.no \in Nat
  BY <1>1, <1>2, PacketFacts, Zenon DEF HandNos
<1> HIDE DEF p, q
<1>10. CASE process[m] = k
  <2>1. Down(m) = q /\ Down(m)' = Append(q, p)
    BY <1>1, <1>2, <1>3, <1>10 DEF Down, q
  <2>2. Rising(q, s)
    BY <2>1 DEF Risen, DownRises
  <2>3. Len(q) \in Nat /\ Len(Append(q, p)) = Len(q) + 1 /\ Append(q, p)[Len(q) + 1] = p
        /\ \A j \in 1..Len(q) : Append(q, p)[j] = q[j]
    BY <1>2, SequenceSteps, SeqElements
  <2>4. p.src = s => \A j \in 1..Len(q) : q[j].src = s => q[j].no < p.no
    <3>1. ASSUME p.src = s, NEW j \in 1..Len(q), q[j].src = s PROVE q[j].no < p.no
      <4>1. q[j].no \in Nat
        BY <1>2, SeqElements, PacketFacts
      <4>2. q[j].no \in DownNos(m, s)
        BY <2>1, <3>1, <4>1 DEF DownNos, Nos
      <4>3. Before(DownNos(m, s), HandNos(m, s))
        BY DEF Line, InLine
      <4> QED
        BY <1>9, <3>1, <4>2, <4>3 DEF Before
    <3> QED
      BY <3>1
  <2>5. Rising(Append(q, p), s)
    BY <1>2, <2>2, <2>4, RisingAppend
  <2>6. DownRises(m, s)'
    BY <2>1, <2>5 DEF DownRises, Rising
  <2>7. \A y \in DownNos(m, s)' : y \in DownNos(m, s) \/ (y = p.no /\ p.src = s)
    <3>1. \A y \in Nos(Append(q, p), s) : y \in Nos(q, s) \/ (y = p.no /\ p.src = s)
      <4>1. ASSUME NEW y \in Nos(Append(q, p), s) PROVE y \in Nos(q, s) \/ (y = p.no /\ p.src = s)
        <5>1. PICK j \in 1..Len(Append(q, p)) : Append(q, p)[j].src = s /\ Append(q, p)[j].no = y /\ y \in Nat
          BY <4>1 DEF Nos
        <5>2. CASE j \in 1..Len(q)
          BY <2>3, <5>1, <5>2 DEF Nos
        <5>3. CASE j = Len(q) + 1
          BY <2>3, <5>1, <5>3
        <5> QED
          BY <2>3, <5>1, <5>2, <5>3
      <4> QED
        BY <4>1
    <3> QED
      BY <2>1, <3>1 DEF DownNos, Nos
  <2>8. CASE p.src = s
    <3>1. Moved(DownNos(m, s), HandNos(m, s), DownNos(m, s)', HandNos(m, s)', p.no)
      BY <1>7, <1>8, <1>9, <2>7, <2>8 DEF Moved, p
    <3> QED
      BY <1>4, <1>5, <1>6, <1>9, <2>6, <2>8, <3>1 DEF Flows, Risen
  <2>9. CASE p.src # s
    <3>1. DownNos(m, s)' \subseteq DownNos(m, s) /\ 0 \in Nat
      BY <2>7, <2>9
    <3> QED
      BY <1>4, <1>5, <1>6, <1>7, <2>6, <3>1 DEF Flows, Risen
  <2> QED
    BY <2>8, <2>9
<1>11. CASE process[m] # k
  <2>1. Down(m)' = Down(m)
    <3>1. process[m] = 0 \/ process[m] \in 1..Len(net[m])
      BY <1>2
    <3> QED
      BY <1>1, <1>3, <1>11, <3>1 DEF Down
  <2>2. DownNos(m, s)' = DownNos(m, s) /\ DownRises(m, s)'
    BY <2>1 DEF DownNos, DownRises, Rising, Nos, Risen
  <2>3. 0 \in Nat
    OBVIOUS
  <2> QED
    BY <1>4, <1>5, <1>6, <1>7, <2>2, <2>3 DEF Flows, Risen
<1> QED
  BY <1>10, <1>11, SMTT(20)

\* An MNP process receives a packet.
LEMMA ReadsFlows ==
    ASSUME Invs, links' = links, NEW m \in Nodes, NEW s \in Nodes,
           Risen(m, s), SenderSame(s), WaySame(m, s), Reads(m)
    PROVE  Flows(m, s) /\ Risen(m, s)'
<1> DEFINE k == process[m]
           q == net[m][k].down
           p == Head(q)
<1>1. /\ listener'[m] = listener[m] /\ process'[m] = process[m] /\ k \in 1..Len(net[m]) /\ q # << >>
      /\ net'[m][k].down = Tail(q) /\ got'[m][s] = IF s = p.src THEN p.no ELSE got[m][s]
  BY DEF Reads, NetSet
<1>2. q \in Seq(Packet) /\ Down(m) = q /\ Down(m)' = Tail(q)
  <2>1. k \in 1..Len(net[m]) /\ k # 0
    BY <1>1, NodeFacts
  <2> HIDE DEF k
  <2>2. q \in Seq(Packet)
    BY <2>1, NodeFacts
  <2> QED
    BY <1>1, <2>1, <2>2 DEF Down, k
<1>3. HandNos(m, s)' = HandNos(m, s)
  BY <1>1 DEF HandNos
<1>4. SendNos(m, s)' = SendNos(m, s) /\ UpNos(s)' \subseteq UpNos(s) /\ sent'[s] = sent[s]
  BY SenderFrame
<1>5. WireNos(m, s)' \subseteq WireNos(m, s) /\ WiresRise(m, s)'
  BY WayFrame DEF Risen
<1> HIDE DEF q
<1>6. /\ Len(q) \in Nat /\ Len(q) > 0 /\ p = q[1] /\ p \in Packet /\ Len(Tail(q)) = Len(q) - 1
      /\ \A j \in 1..(Len(q) - 1) : Tail(q)[j] = q[j + 1]
  BY <1>1, <1>2, HeadTail, SeqElements
<1>7. p.no \in Nat /\ Rising(q, s)
  BY <1>2, <1>6, PacketFacts DEF Risen, DownRises
<1> HIDE DEF p
<1>8. DownRises(m, s)'
  <2>1. Rising(Tail(q), s)
    BY <1>1, <1>2, <1>7, RisingTail
  <2> QED
    BY <1>2, <2>1 DEF DownRises, Rising
<1>9. \A y \in DownNos(m, s)' : \E j \in 2..Len(q) : q[j].src = s /\ q[j].no = y /\ y \in Nat
  <2>1. \A y \in Nos(Tail(q), s) : \E j \in 2..Len(q) : q[j].src = s /\ q[j].no = y /\ y \in Nat
    <3>1. ASSUME NEW y \in Nos(Tail(q), s) PROVE \E j \in 2..Len(q) : q[j].src = s /\ q[j].no = y /\ y \in Nat
      <4>1. PICK j \in 1..Len(Tail(q)) : Tail(q)[j].src = s /\ Tail(q)[j].no = y /\ y \in Nat
        BY <3>1 DEF Nos
      <4>2. j + 1 \in 2..Len(q) /\ Tail(q)[j] = q[j + 1]
        BY <1>6, <4>1
      <4> QED
        BY <4>1, <4>2
    <3> QED
      BY <3>1
  <2> QED
    BY <1>2, <2>1 DEF DownNos, Nos
<1>10. DownNos(m, s)' \subseteq DownNos(m, s)
  BY <1>2, <1>6, <1>9 DEF DownNos, Nos
<1>11. CASE p.src = s
  <2>1. p.no \in DownNos(m, s) /\ GotNos(m, s)' \subseteq GotNos(m, s) \cup {p.no}
    BY <1>1, <1>2, <1>6, <1>7, <1>11 DEF DownNos, Nos, GotNos
  <2>2. \A y \in DownNos(m, s)' : p.no < y
    BY <1>6, <1>7, <1>9, <1>11 DEF Rising
  <2>3. Moved(GotNos(m, s), DownNos(m, s), GotNos(m, s)', DownNos(m, s)', p.no)
    BY <1>10, <2>1, <2>2 DEF Moved
  <2> QED
    BY <1>3, <1>4, <1>5, <1>7, <1>8, <2>3 DEF Flows, Risen
<1>12. CASE p.src # s
  <2>1. GotNos(m, s)' = GotNos(m, s) /\ 0 \in Nat
    BY <1>1, <1>12 DEF GotNos
  <2> QED
    BY <1>3, <1>4, <1>5, <1>8, <1>10, <2>1 DEF Flows, Risen
<1> QED
  BY <1>11, <1>12

LEMMA ReaderFlows ==
    ASSUME Invs, links' = links, NEW m \in Nodes, NEW s \in Nodes, m # s, main[s] # "down",
           Line(m, s), Risen(m, s), SenderSame(s), TrafficStep(m)
    PROVE  Flows(m, s) /\ Risen(m, s)'
<1>1. CASE \E i \in 1..Len(listener[m]) : \E c \in ConnsOf(links) : Takes(m, i, c)
  BY <1>1, TakesFlows
<1>2. CASE WaySame(m, s)
  <2>0. WireNos(m, s)' \subseteq WireNos(m, s) /\ WiresRise(m, s)'
    BY <1>2, WayFrame DEF Risen
  <2>1. SendNos(m, s)' = SendNos(m, s) /\ UpNos(s)' \subseteq UpNos(s) /\ sent'[s] = sent[s]
    BY SenderFrame
  <2>2. ASSUME got'[m] = got[m], Down(m)' = Down(m), HandNos(m, s)' \subseteq HandNos(m, s)
        PROVE  Flows(m, s) /\ Risen(m, s)'
    <3>1. GotNos(m, s)' = GotNos(m, s) /\ DownNos(m, s)' = DownNos(m, s) /\ DownRises(m, s)' /\ 0 \in Nat
      BY <2>2 DEF GotNos, DownNos, DownRises, Rising, Nos, Risen
    <3> QED
      BY <2>0, <2>1, <2>2, <3>1 DEF Flows, Risen
  <2>3. ASSUME got'[m] = got[m], Down(m)' = << >>, listener'[m] = listener[m]
        PROVE  Flows(m, s) /\ Risen(m, s)'
    <3>1. GotNos(m, s)' = GotNos(m, s) /\ HandNos(m, s)' = HandNos(m, s) /\ 0 \in Nat
      BY <2>3 DEF GotNos, HandNos
    <3>2. DownNos(m, s)' = {} /\ DownRises(m, s)'
      BY <2>3 DEF DownNos, DownRises, Rising, Nos
    <3> QED
      BY <2>0, <2>1, <3>1, <3>2 DEF Flows, Risen
  <2>4. ASSUME ReaderSame(m) PROVE Flows(m, s) /\ Risen(m, s)'
    BY <1>2, <2>4, StillFlows
  <2>5. CASE Opens(m)
    <3>1. got'[m] = got[m] /\ Down(m)' = Down(m)
      BY <2>5 DEF Opens, NotHand, Down
    <3>2. HandNos(m, s)' \subseteq HandNos(m, s)
      BY <2>5 DEF Opens, HandNos
    <3> QED
      BY <2>2, <3>1, <3>2
  <2>6. ASSUME NEW i \in 1..Len(listener[m]), Repeats(m, i) PROVE Flows(m, s) /\ Risen(m, s)'
    <3>1. /\ NotHand(m)' = NotHand(m) /\ HandSet(m, i, listener[m][i].pkt, TRUE)
          /\ LET c == listener[m][i].conn
             IN  c # NoConn => c \in ConnsOf(links) /\ m \in EndsOf(links, c) /\ Peer(c, m) \in closed[c]
      BY <2>6 DEF Repeats
    <3>2. got'[m] = got[m] /\ Down(m)' = Down(m)
      BY <3>1 DEF NotHand, Down
    <3>3. listener[m][i].pkt.src # s
      <4> DEFINE c == listener[m][i].conn
      <4>1. ListenersServe(m) /\ ClosedIs
        BY NodeFacts DEF Serves, Invs, TrafficInv
      <4>2. SUFFICES ASSUME listener[m][i].pkt.src = s PROVE FALSE
        OBVIOUS
      <4>3. i \in 1..Len(nt[m]) /\ c = nt[m][i].conn /\ c # NoConn /\ nt[m][i].nodeID = s
        BY <4>1, <4>2 DEF ListenersServe
      <4>4. Peer(c, m) = s
        BY <4>3, EntryConn
      <4>5. c \in ConnsOf(links) /\ s \in closed[c]
        BY <3>1, <4>3, <4>4
      <4> HIDE DEF c
      <4>6. main[s] = "down"
        BY <4>1, <4>5 DEF ClosedIs
      <4> QED
        BY <4>6
    <3>4. HandNos(m, s)' \subseteq HandNos(m, s)
      BY <3>1, <3>3 DEF HandSet, HandNos
    <3> QED
      BY <2>2, <3>2, <3>4
  <2>7. ASSUME NEW i \in 1..Len(listener[m]), Drops(m, i) PROVE Flows(m, s) /\ Risen(m, s)'
    <3>1. NotHand(m)' = NotHand(m) /\ HandSet(m, i, listener[m][i].pkt, FALSE)
      BY <2>7 DEF Drops
    <3>2. got'[m] = got[m] /\ Down(m)' = Down(m)
      BY <3>1 DEF NotHand, Down
    <3>3. HandNos(m, s)' \subseteq HandNos(m, s)
      BY <3>1 DEF HandSet, HandNos
    <3> QED
      BY <2>2, <3>2, <3>3
  <2>8. CASE \E i \in 1..Len(listener[m]) : HandsOver(m, i)
    BY <1>2, <2>8, HandsOverFlows
  <2>9. CASE Departs(m)
    BY <2>3, <2>9 DEF Departs, Down
  <2>10. CASE Connects(m)
    <3>1. /\ got'[m] = got[m] /\ listener'[m] = listener[m] /\ process'[m] = Len(net[m]) + 1
          /\ Len(net'[m]) = Len(net[m]) + ConnectCalls[m]
          /\ \A k \in (Len(net[m]) + 1)..Len(net'[m]) : net'[m][k].down = << >>
      BY <2>10 DEF Connects
    <3>2. process'[m] \in (Len(net[m]) + 1)..Len(net'[m])
      <4>1. Len(net[m]) \in Nat /\ ConnectCalls[m] \in {1, 2}
        BY NodeFacts, OverlayConstants
      <4> QED
        BY <3>1, <4>1
    <3>3. Down(m)' = << >>
      BY <3>1, <3>2 DEF Down
    <3> QED
      BY <2>3, <3>1, <3>3
  <2>11. CASE Reads(m)
    BY <1>2, <2>11, ReadsFlows
  <2>12. CASE Attaches(m) \/ \E c \in ConnsOf(links) : Puts(m, c)
    <3>1. ReaderSame(m)
      BY <2>12 DEF Attaches, Puts, ReaderSame, Down
    <3> QED
      BY <2>4, <3>1
  <2>13. CASE Fetches(m) \/ Detaches(m) \/ \E next \in Nodes \cup {BROADCAST_NODEID} : Writes(m, next)
    <3>1. listener'[m] = listener[m] /\ got'[m] = got[m] /\ process'[m] = process[m]
      BY <2>13, Zenon DEF Fetches, Detaches, Writes
    <3>2. \A k \in 1..Len(net[m]) : net'[m][k].down = net[m][k].down
      BY <2>13, Zenon DEF Fetches, Detaches, Writes, NetSet, NetBut
    <3>3. process[m] = 0 \/ process[m] \in 1..Len(net[m])
      BY NodeFacts DEF NodeTypes
    <3>4. ReaderSame(m)
      BY <3>1, <3>2, <3>3 DEF ReaderSame, Down
    <3> QED
      BY <2>4, <3>4
  <2> QED
    BY <1>1, <2>5, <2>6, <2>7, <2>8, <2>9, <2>10, <2>11, <2>12, <2>13, TakesFlows DEF TrafficStep
<1> QED
  BY <1>1, <1>2, WayKinds

\* getpktToSend(): waitNetwork() takes a packet of the MNP process.
LEMMA FetchesFlows ==
    ASSUME Invs, links' = links, NEW m \in Nodes, NEW s \in Nodes,
           Risen(m, s), ReaderSame(m), WaySame(m, s), Fetches(s)
    PROVE  Flows(m, s) /\ Risen(m, s)'
<1> DEFINE k == network[s]
           q == net[s][k].up
           p == Head(q)
<1>1. /\ network'[s] = k /\ sent'[s] = sent[s] /\ k \in 1..Len(net[s]) /\ q # << >>
      /\ Len(net'[s]) = Len(net[s]) /\ net'[s][k].up = Tail(q)
      /\ \A j \in 1..Len(net[s]) : j # k => net'[s][j] = net[s][j]
      /\ sending'[s].pkt = p
  BY DEF Fetches, NetSet, NetBut
<1>2. q \in Seq(Packet)
  <2>1. k \in 1..Len(net[s])
    BY <1>1
  <2> HIDE DEF k
  <2> QED
    BY <2>1, NodeFacts
<1>3. UpsRise(s) /\ Len(net[s]) \in Nat
  BY NodeFacts DEF Queued
<1>4. Rising(q, s) /\ \A j \in 1..Len(q) : q[j].src = s
  BY <1>1, <1>3 DEF UpsRise
<1>5. GotNos(m, s)' = GotNos(m, s) /\ DownNos(m, s)' = DownNos(m, s)
      /\ HandNos(m, s)' = HandNos(m, s) /\ DownRises(m, s)'
  BY ReaderFrame DEF Risen
<1>6. WireNos(m, s)' \subseteq WireNos(m, s) /\ WiresRise(m, s)'
  BY WayFrame DEF Risen
<1>7. \A h \in 1..Len(net[s]) : h > k =>
          \A i \in 1..Len(q), j \in 1..Len(net[s][h].up) : q[i].no < net[s][h].up[j].no
  <2>1. \A h \in 1..Len(net[s]) : h > k => k \in 1..(h - 1)
    BY <1>1, <1>3
  <2> QED
    BY <1>3, <2>1 DEF UpsRise
<1> HIDE DEF q
<1>8. /\ Len(q) \in Nat /\ Len(q) > 0 /\ p = q[1] /\ p \in Packet /\ Len(Tail(q)) = Len(q) - 1
      /\ \A j \in 1..(Len(q) - 1) : Tail(q)[j] = q[j + 1]
  BY <1>1, <1>2, HeadTail, SeqElements
<1>9. p.no \in Nat /\ p.src = s
  BY <1>4, <1>8, PacketFacts
<1> HIDE DEF p
<1>10. p.no \in UpNos(s)
  <2>1. p.no \in Nos(net[s][k].up, s)
    BY <1>8, <1>9 DEF Nos, q
  <2> QED
    BY <1>1, <1>9, <2>1 DEF UpNos
<1>11. SendNos(m, s)' \subseteq SendNos(m, s) \cup {p.no}
  BY <1>1 DEF SendNos
<1>12. ASSUME NEW y \in UpNos(s)' PROVE y \in UpNos(s) /\ p.no < y
  <2>1. PICK h \in 1..Len(net[s]) : h >= k /\ \E j \in 1..Len(net'[s][h].up) :
            net'[s][h].up[j].src = s /\ net'[s][h].up[j].no = y /\ y \in Nat
    BY <1>1, <1>12 DEF UpNos, Nos
  <2>2. PICK j \in 1..Len(net'[s][h].up) : net'[s][h].up[j].src = s /\ net'[s][h].up[j].no = y /\ y \in Nat
    BY <2>1
  <2>3. CASE h = k
    <3>1. j \in 1..Len(Tail(q)) /\ Tail(q)[j].no = y /\ Tail(q)[j].src = s
      BY <1>1, <2>2, <2>3
    <3>2. j + 1 \in 1..Len(q) /\ q[j + 1].no = y /\ q[j + 1].src = s /\ 1 \in 1..Len(q) /\ 1 < j + 1
      BY <1>8, <3>1
    <3>3. p.no < y
      BY <1>4, <1>8, <1>9, <3>2 DEF Rising
    <3>4. y \in Nos(net[s][k].up, s)
      BY <2>2, <3>2 DEF Nos, q
    <3> QED
      BY <1>1, <2>2, <3>3, <3>4 DEF UpNos
  <2>4. CASE h # k
    <3>1. net'[s][h] = net[s][h] /\ h > k
      BY <1>1, <1>3, <2>1, <2>4
    <3>2. p.no < y
      BY <1>7, <1>8, <2>2, <3>1
    <3>3. y \in Nos(net[s][h].up, s)
      BY <2>2, <3>1 DEF Nos
    <3> QED
      BY <2>1, <2>2, <3>2, <3>3 DEF UpNos
  <2> QED
    BY <2>3, <2>4
<1>13. Moved(SendNos(m, s), UpNos(s), SendNos(m, s)', UpNos(s)', p.no)
  BY <1>10, <1>11, <1>12 DEF Moved
<1> QED
  BY <1>1, <1>5, <1>6, <1>9, <1>13 DEF Flows, Risen

\* sendpkt(): waitNetwork() sends the packet on the next of its connections.
LEMMA PutsFlows ==
    ASSUME Invs, links' = links, NEW m \in Nodes, NEW s \in Nodes, m # s,
           Line(m, s), Risen(m, s), ReaderSame(m), NEW c \in ConnsOf(links), Puts(s, c)
    PROVE  Flows(m, s) /\ Risen(m, s)'
<1> DEFINE to == sending[s].to
           p == sending[s].pkt
           q == wire[c][Peer(c, s)]
<1>1. /\ UNCHANGED <<network[s], net[s], sent[s]>>
      /\ to # << >> /\ c = Head(to) /\ s \in EndsOf(links, c)
      /\ sending'[s].pkt = p /\ sending'[s].to = Tail(to)
      /\ WireBut(c, Peer(c, s)) /\ wire'[c][Peer(c, s)] \in {q, Append(q, p)}
  BY Zenon DEF Puts
<1>2. EndsOf(links, c) = {s, Peer(c, s)} /\ Peer(c, s) # s /\ Peer(c, s) \in EndsOf(links, c)
  BY <1>1, PeerFacts, Zenon DEF Invs
<1>3. to \in Seq(ConnsOf(links)) /\ p \in Packet /\ SendsServe(s) /\ OnWire(c, Peer(c, s))
  BY <1>2, NodeFacts DEF Serves, Invs, TrafficInv
<1>4. q \in Seq(Packet)
  BY <1>3 DEF OnWire
<1>5. p.src = s /\ p.no \in Nat
  BY <1>1, <1>3, PacketFacts, Zenon DEF SendsServe
<1>6. GotNos(m, s)' = GotNos(m, s) /\ DownNos(m, s)' = DownNos(m, s)
      /\ HandNos(m, s)' = HandNos(m, s) /\ DownRises(m, s)'
  BY ReaderFrame DEF Risen
<1>7. UpNos(s)' = UpNos(s) /\ sent'[s] = sent[s]
  BY <1>1, Zenon DEF UpNos
<1>8. \A j \in 1..Len(to) : \E i \in 1..Len(nt[s]) : nt[s][i].conn = to[j] /\ to[j] # NoConn
                                                      /\ EndsOf(links, to[j]) = {s, nt[s][i].nodeID}
                                                      /\ nt[s][i].nodeID # s
  <2>1. ASSUME NEW j \in 1..Len(to)
        PROVE  \E i \in 1..Len(nt[s]) : nt[s][i].conn = to[j] /\ to[j] # NoConn
                                        /\ EndsOf(links, to[j]) = {s, nt[s][i].nodeID} /\ nt[s][i].nodeID # s
    <3>1. PICK i \in 1..Len(nt[s]) : nt[s][i].conn = to[j]
      BY <1>3 DEF SendsServe, Entries
    <3>2. to[j] \in ConnsOf(links)
      BY <1>3, SeqElements
    <3>3. to[j] # NoConn
      BY <3>2, ConnFacts DEF Invs, WireShape
    <3>4. nt[s][i].conn # NoConn
      BY <3>1, <3>3
    <3>5. EndsOf(links, nt[s][i].conn) = {s, nt[s][i].nodeID} /\ nt[s][i].nodeID # s
      BY <3>4, EntryConn
    <3> QED
      BY <3>1, <3>3, <3>5
  <2> QED
    BY <2>1
<1>9. \A j, k \in 1..Len(to) : to[j] = to[k] => j = k
  BY <1>3 DEF SendsServe
<1> HIDE DEF to, q
<1>10. /\ Len(to) \in Nat /\ Len(to) > 0 /\ c = to[1] /\ Len(Tail(to)) = Len(to) - 1
       /\ \A j \in 1..(Len(to) - 1) : Tail(to)[j] = to[j + 1]
  BY <1>1, <1>3, HeadTail, SeqElements
<1>11. \A y \in SendNos(m, s)' : y \in Nat /\ y = p.no /\ \E j \in 2..Len(to) : EndsOf(links, to[j]) = {m, s}
  <2>1. ASSUME NEW y \in SendNos(m, s)'
        PROVE  y \in Nat /\ y = p.no /\ \E j \in 2..Len(to) : EndsOf(links, to[j]) = {m, s}
    <3>1. y \in Nat /\ y = p.no /\ \E j \in 1..Len(Tail(to)) : EndsOf(links, Tail(to)[j]) = {m, s}
      BY <1>1, <2>1 DEF SendNos
    <3>2. PICK j \in 1..Len(Tail(to)) : EndsOf(links, Tail(to)[j]) = {m, s}
      BY <3>1
    <3>3. j + 1 \in 2..Len(to) /\ Tail(to)[j] = to[j + 1]
      BY <1>10, <3>2
    <3> QED
      BY <3>1, <3>2, <3>3
  <2> QED
    BY <2>1
<1> HIDE DEF p
<1>12. SendNos(m, s)' \subseteq SendNos(m, s)
  <2>1. ASSUME NEW y \in SendNos(m, s)' PROVE y \in SendNos(m, s)
    <3>1. y \in Nat /\ y = p.no /\ \E j \in 1..Len(to) : EndsOf(links, to[j]) = {m, s}
      BY <1>10, <1>11
    <3> QED
      BY <3>1 DEF SendNos, p, to
  <2> QED
    BY <2>1
<1>13. CASE Peer(c, s) = m
  <2>1. EndsOf(links, c) = {m, s}
    BY <1>2, <1>13
  <2>2. SendNos(m, s)' = {}
    <3>1. ASSUME NEW j \in 2..Len(to), EndsOf(links, to[j]) = {m, s} PROVE FALSE
      <4>1. j \in 1..Len(to) /\ 1 \in 1..Len(to) /\ j # 1
        BY <1>10
      <4>2. PICK a \in 1..Len(nt[s]) : nt[s][a].conn = to[j] /\ to[j] # NoConn
                                       /\ EndsOf(links, to[j]) = {s, nt[s][a].nodeID} /\ nt[s][a].nodeID # s
        BY <1>8, <4>1
      <4>3. PICK b \in 1..Len(nt[s]) : nt[s][b].conn = to[1] /\ to[1] # NoConn
                                       /\ EndsOf(links, to[1]) = {s, nt[s][b].nodeID} /\ nt[s][b].nodeID # s
        BY <1>8, <4>1
      <4>4. nt[s][a].nodeID = m /\ nt[s][b].nodeID = m
        BY <1>10, <2>1, <3>1, <4>2, <4>3
      <4>5. a = b
        BY <4>2, <4>3, <4>4, OneEntry
      <4> QED
        BY <1>9, <4>1, <4>2, <4>3, <4>5
    <3> QED
      BY <1>11, <3>1
  <2>3. p.no \in SendNos(m, s)
    <3>1. 1 \in 1..Len(to) /\ EndsOf(links, to[1]) = {m, s}
      BY <1>10, <2>1
    <3> QED
      BY <1>5, <3>1 DEF SendNos, p, to
  <2>4. Len(q) \in Nat /\ Len(Append(q, p)) = Len(q) + 1 /\ Append(q, p)[Len(q) + 1] = p
        /\ \A j \in 1..Len(q) : Append(q, p)[j] = q[j]
    BY <1>3, <1>4, SequenceSteps, SeqElements DEF p
  <2>5. \A y \in Nos(wire'[c][m], s) : y \in Nos(q, s) \/ y = p.no
    <3>1. \A y \in Nos(Append(q, p), s) : y \in Nos(q, s) \/ y = p.no
      <4>1. ASSUME NEW y \in Nos(Append(q, p), s) PROVE y \in Nos(q, s) \/ y = p.no
        <5>1. PICK j \in 1..Len(Append(q, p)) : Append(q, p)[j].src = s /\ Append(q, p)[j].no = y /\ y \in Nat
          BY <4>1 DEF Nos
        <5>2. CASE j \in 1..Len(q)
          BY <2>4, <5>1, <5>2 DEF Nos
        <5>3. CASE j = Len(q) + 1
          BY <2>4, <5>1, <5>3
        <5> QED
          BY <2>4, <5>1, <5>2, <5>3
      <4> QED
        BY <4>1
    <3>2. wire'[c][m] = q \/ wire'[c][m] = Append(q, p)
      BY <1>1, <1>13
    <3> QED
      BY <3>1, <3>2
  <2>6. \A d \in ConnsOf(links) : EndsOf(links, d) = {m, s} /\ d # c => wire'[d][m] = wire[d][m]
    <3>1. \A d \in ConnsOf(links) : EndsOf(links, d) = {m, s} => m \in EndsOf(links, d)
      OBVIOUS
    <3> QED
      BY <1>1, <3>1 DEF WireBut
  <2>7. WireNos(m, s)' \subseteq WireNos(m, s) \cup {p.no}
    <3>1. ASSUME NEW y \in WireNos(m, s)' PROVE y \in WireNos(m, s) \/ y = p.no
      <4>1. PICK d \in ConnsOf(links) : EndsOf(links, d) = {m, s} /\ y \in Nos(wire'[d][m], s) /\ y \in Nat
        BY <3>1 DEF WireNos, Nos
      <4>2. CASE d = c
        BY <1>13, <2>1, <2>5, <4>1, <4>2 DEF WireNos, q
      <4>3. CASE d # c
        BY <2>6, <4>1, <4>3 DEF WireNos
      <4> QED
        BY <4>2, <4>3
    <3> QED
      BY <3>1
  <2>8. Moved(WireNos(m, s), SendNos(m, s), WireNos(m, s)', SendNos(m, s)', p.no)
    BY <2>2, <2>3, <2>7 DEF Moved
  <2>9. WiresRise(m, s)'
    <3>1. ASSUME NEW d \in ConnsOf(links), EndsOf(links, d) = {m, s} PROVE Rising(wire'[d][m], s)
      <4>1. Rising(wire[d][m], s)
        BY <3>1 DEF Risen, WiresRise
      <4>2. CASE d # c
        BY <2>6, <3>1, <4>1, <4>2
      <4>3. CASE d = c
        <5>1. Rising(q, s)
          BY <1>13, <4>1, <4>3 DEF q
        <5>2. ASSUME NEW j \in 1..Len(q), q[j].src = s PROVE q[j].no < p.no
          <6>1. q[j].no \in Nat
            BY <1>4, SeqElements, PacketFacts
          <6>2. q[j].no \in Nos(wire[c][m], s)
            BY <1>13, <5>2, <6>1 DEF Nos, q
          <6>3. q[j].no \in WireNos(m, s)
            BY <2>1, <6>1, <6>2 DEF WireNos
          <6>4. Before(WireNos(m, s), SendNos(m, s))
            BY DEF Line, InLine
          <6> QED
            BY <2>3, <6>3, <6>4 DEF Before
        <5>3. p \in Packet
          BY <1>3 DEF p
        <5>4. Rising(Append(q, p), s)
          BY <1>4, <5>1, <5>2, <5>3, RisingAppend
        <5> QED
          BY <1>1, <1>13, <4>3, <5>1, <5>4
      <4> QED
        BY <4>2, <4>3
    <3> QED
      BY <3>1 DEF WiresRise, Rising
  <2> QED
    BY <1>5, <1>6, <1>7, <2>8, <2>9 DEF Flows, Risen
<1>14. CASE Peer(c, s) # m
  <2>1. WaySame(m, s)
    <3>1. \A d \in ConnsOf(links) : EndsOf(links, d) = {m, s} => d # c /\ m \in EndsOf(links, d)
      BY <1>2, <1>14
    <3> QED
      BY <1>1, <3>1 DEF WireBut, WaySame
  <2>2. WireNos(m, s)' \subseteq WireNos(m, s) /\ WiresRise(m, s)' /\ 0 \in Nat
    BY <2>1, WayFrame DEF Risen
  <2> QED
    BY <1>6, <1>7, <1>12, <2>2 DEF Flows, Risen
<1> QED
  BY <1>13, <1>14

\* overlay_sendpkt().
LEMMA WritesFlows ==
    ASSUME Invs, links' = links, NEW m \in Nodes, NEW s \in Nodes, Risen(m, s), ReaderSame(m), WireSame,
           NEW next \in Nodes \cup {BROADCAST_NODEID}, Writes(s, next)
    PROVE  Flows(m, s) /\ Risen(m, s)'
<1> DEFINE k == process[s]
           q == net[s][k].up
           p == [src |-> s, no |-> sent[s] + 1, next |-> next]
<1>1. /\ network'[s] = network[s] /\ sending'[s] = sending[s] /\ sent'[s] = sent[s] + 1
      /\ k \in 1..Len(net[s]) /\ Len(net'[s]) = Len(net[s]) /\ net'[s][k].up = Append(q, p)
      /\ \A j \in 1..Len(net[s]) : j # k => net'[s][j] = net[s][j]
  BY DEF Writes, NetSet, NetBut
<1>2. q \in Seq(Packet) /\ sent[s] \in Nat
  <2>1. k \in 1..Len(net[s])
    BY <1>1
  <2> HIDE DEF k
  <2> QED
    BY <2>1, NodeFacts, OverlayConstants, SMTT(20) DEF NodeTypes
<1>3. p \in Packet /\ p.no = sent[s] + 1
  BY <1>2 DEF Packet
<1> HIDE DEF q, p
<1>4. Len(q) \in Nat /\ Len(Append(q, p)) = Len(q) + 1 /\ Append(q, p)[Len(q) + 1] = p
      /\ \A j \in 1..Len(q) : Append(q, p)[j] = q[j]
  BY <1>2, <1>3, SequenceSteps, SeqElements
<1>5. ASSUME NEW y \in UpNos(s)' PROVE y \in UpNos(s) \/ y = sent[s] + 1
  <2>1. PICK h \in 1..Len(net[s]) : h >= network[s] /\ \E j \in 1..Len(net'[s][h].up) :
            net'[s][h].up[j].src = s /\ net'[s][h].up[j].no = y /\ y \in Nat
    BY <1>1, <1>5 DEF UpNos, Nos
  <2>2. PICK j \in 1..Len(net'[s][h].up) : net'[s][h].up[j].src = s /\ net'[s][h].up[j].no = y /\ y \in Nat
    BY <2>1
  <2>3. y \in Nos(net[s][h].up, s) \/ y = sent[s] + 1
    <3>1. CASE h = k
      <4>1. j \in 1..Len(q) \/ j = Len(q) + 1
        BY <1>1, <1>4, <2>2, <3>1
      <4>2. CASE j \in 1..Len(q)
        BY <1>1, <1>4, <2>2, <3>1, <4>2 DEF Nos, q
      <4>3. CASE j = Len(q) + 1
        BY <1>1, <1>3, <1>4, <2>2, <3>1, <4>3
      <4> QED
        BY <4>1, <4>2, <4>3
    <3>2. CASE h # k
      BY <1>1, <2>2, <3>2 DEF Nos
    <3> QED
      BY <3>1, <3>2
  <2> QED
    BY <2>1, <2>2, <2>3 DEF UpNos
<1>6. UpNos(s)' \subseteq UpNos(s) \cup {sent[s] + 1}
  BY <1>5
<1>7. GotNos(m, s)' = GotNos(m, s) /\ DownNos(m, s)' = DownNos(m, s)
      /\ HandNos(m, s)' = HandNos(m, s) /\ DownRises(m, s)'
  BY ReaderFrame DEF Risen
<1>8. SendNos(m, s)' = SendNos(m, s)
  BY <1>1 DEF SendNos
<1>9. \A c \in ConnsOf(links) : EndsOf(links, c) = {m, s} => wire'[c][m] = wire[c][m]
  <2>1. \A c \in ConnsOf(links) : EndsOf(links, c) = {m, s} => m \in EndsOf(links, c)
    OBVIOUS
  <2> QED
    BY <2>1 DEF WireSame
<1>10. WireNos(m, s)' = WireNos(m, s)
  BY <1>9 DEF WireNos, Nos
<1>11. WiresRise(m, s)'
  BY <1>9 DEF WiresRise, Rising, Risen
<1> QED
  BY <1>1, <1>6, <1>7, <1>8, <1>10, <1>11, SMTT(20) DEF Flows, Risen

\* What the processes of a node wrote and waitNetwork() has still to fetch is
\* not more after a step that writes and fetches nothing.
LEMMA UpsFewer ==
    ASSUME Invs, NEW s \in Nodes, UpsKept(s), network'[s] = network[s] \/ Attaches(s)
    PROVE  UpNos(s)' \subseteq UpNos(s)
<1>1. network[s] \in Nat /\ network'[s] \in Nat /\ network[s] <= network'[s] /\ Len(net[s]) \in Nat
  <2>1. network[s] \in 0..Len(net[s]) /\ Len(net[s]) \in Nat /\ pending[s] \in Seq(1..Len(net[s])) /\ InTurn(s)
    BY NodeFacts DEF NodeTypes, Queued
  <2>2. CASE Attaches(s)
    <3>1. Len(pending[s]) > 0 /\ network'[s] = pending[s][1]
      BY <2>2 DEF Attaches
    <3>2. 1 \in 1..Len(pending[s])
      BY <2>1, <3>1
    <3>3. network[s] < pending[s][1] /\ pending[s][1] \in 1..Len(net[s])
      BY <2>1, <3>2 DEF InTurn
    <3> QED
      BY <2>1, <3>1, <3>3
  <2> QED
    BY <2>1, <2>2
<1>2. ASSUME NEW k \in 1..Len(net[s]), k >= network'[s], NEW x \in Nat, x \in Nos(net'[s][k].up, s)
      PROVE  x \in UpNos(s)
  <2>1. k >= network[s]
    BY <1>1, <1>2
  <2>2. net'[s][k].up \in {net[s][k].up, << >>}
    BY DEF UpsKept
  <2>3. x \in Nos(net[s][k].up, s)
    <3>1. CASE net'[s][k].up = net[s][k].up
      BY <1>2, <3>1
    <3>2. CASE net'[s][k].up = << >>
      BY <1>2, <3>2 DEF Nos
    <3> QED
      BY <2>2, <3>1, <3>2
  <2> QED
    BY <2>1, <2>3 DEF UpNos
<1> QED
  BY <1>2 DEF UpNos, UpsKept, Nos

LEMMA SenderFlows ==
    ASSUME Invs, links' = links, NEW m \in Nodes, NEW s \in Nodes, m # s,
           Line(m, s), Risen(m, s), ReaderSame(m), TrafficStep(s)
    PROVE  Flows(m, s) /\ Risen(m, s)'
<1>1. CASE \E c \in ConnsOf(links) : Puts(s, c)
  BY <1>1, PutsFlows
<1>2. CASE ~(\E c \in ConnsOf(links) : Puts(s, c))
  <2>1. WaySame(m, s)
    BY <1>2, WayKinds
  <2>2. CASE UpsKept(s) /\ (network'[s] = network[s] \/ Attaches(s)) /\ sending'[s] = sending[s]
    <3>1. SenderSame(s)
      BY <2>2, UpsFewer DEF SenderSame, UpsKept
    <3> QED
      BY <2>1, <3>1, StillFlows
  <2>3. CASE Fetches(s)
    BY <2>1, <2>3, FetchesFlows
  <2>4. CASE Connects(s)
    <3>1. /\ network'[s] = network[s] /\ sending'[s] = sending[s] /\ sent'[s] = sent[s]
          /\ \A k \in 1..Len(net[s]) : net'[s][k] = net[s][k]
          /\ \A k \in (Len(net[s]) + 1)..Len(net'[s]) : net'[s][k].up = << >>
          /\ Len(net'[s]) = Len(net[s]) + ConnectCalls[s]
      BY <2>4 DEF Connects
    <3>2. Len(net[s]) \in Nat /\ ConnectCalls[s] \in Nat
      BY NodeFacts, OverlayConstants
    <3>3. ASSUME NEW k \in 1..Len(net'[s]), k >= network[s], NEW x \in Nat, x \in Nos(net'[s][k].up, s)
          PROVE  x \in UpNos(s)
      <4>1. k \in 1..Len(net[s])
        <5>1. k \in 1..Len(net[s]) \/ k \in (Len(net[s]) + 1)..Len(net'[s])
          BY <3>1, <3>2
        <5>2. ~(k \in (Len(net[s]) + 1)..Len(net'[s]))
          BY <3>1, <3>3 DEF Nos
        <5> QED
          BY <5>1, <5>2
      <4> QED
        BY <3>1, <3>3, <4>1 DEF UpNos
    <3>4. UpNos(s)' \subseteq UpNos(s)
      BY <3>1, <3>3 DEF UpNos, Nos
    <3> QED
      BY <2>1, <3>1, <3>4, StillFlows DEF SenderSame
  <2>5. ASSUME NEW next \in Nodes \cup {BROADCAST_NODEID}, Writes(s, next)
        PROVE  Flows(m, s) /\ Risen(m, s)'
    BY <2>5, WritesFlows DEF Writes
  <2> QED
    BY <1>2, <2>2, <2>3, <2>4, <2>5, UpsKinds
<1> QED
  BY <1>1, <1>2

LEMMA OrderStep ==
    ASSUME Invs, OrderInv, [Next]_vars
    PROVE  OrderInv'
<1>1. /\ links' = links
      /\ \/ Rests /\ Calm
         \/ \E n \in Nodes : TrafficStep(n) /\ Calm
         \/ \E n \in Nodes : Quits(n)
  BY TrafficKinds
<1>2. SUFFICES ASSUME NEW m \in Nodes, NEW s \in Nodes, main'[m] # "down", main'[s] # "down", m # s
               PROVE  Line(m, s)' /\ Risen(m, s)'
  BY DEF OrderInv, Way, Risen
<1>3. main[m] # "down" /\ main[s] # "down"
  BY <1>1, <1>2 DEF Calm, Steady, Quits
<1>4. Line(m, s) /\ Risen(m, s) /\ sent[s] \in Nat
  <2>1. Way(m, s)
    BY DEF OrderInv
  <2> QED
    BY <1>2, <1>3, <2>1, NodeFacts, OverlayConstants DEF Way, Risen, NodeTypes
<1>5. Flows(m, s) /\ Risen(m, s)'
  <2>1. CASE Rests
    <3>1. ReaderSame(m) /\ SenderSame(s)
      BY <2>1, NodeFrame DEF Rests
    <3>2. WaySame(m, s)
      <4>1. \A c \in ConnsOf(links) : EndsOf(links, c) = {m, s} => m \in EndsOf(links, c)
        OBVIOUS
      <4> QED
        BY <2>1, <4>1 DEF Rests, WireSame, WaySame
    <3> QED
      BY <1>1, <1>4, <3>1, <3>2, StillFlows
  <2>2. ASSUME NEW n \in Nodes, Others(n), n # m PROVE ReaderSame(m)
    BY <2>2, NodeFrame DEF Others
  <2>3. ASSUME NEW n \in Nodes, Others(n), n # s PROVE SenderSame(s)
    BY <2>3, NodeFrame DEF Others
  <2>4. ASSUME NEW n \in Nodes, TrafficStep(n) PROVE Flows(m, s) /\ Risen(m, s)'
    <3>1. Others(n)
      BY <2>4, Zenon DEF TrafficStep, Opens, Departs, Attaches, Fetches, Detaches, Connects, Reads, Takes,
                  Repeats, Drops, HandsOver, Puts, Writes
    <3>2. CASE n = m
      <4>1. TrafficStep(m) /\ SenderSame(s)
        BY <1>2, <2>3, <2>4, <3>1, <3>2
      <4> QED
        BY <1>1, <1>2, <1>3, <1>4, <4>1, ReaderFlows
    <3>3. CASE n = s
      <4>1. TrafficStep(s) /\ ReaderSame(m)
        BY <1>2, <2>2, <2>4, <3>1, <3>3
      <4> QED
        BY <1>1, <1>2, <1>4, <4>1, SenderFlows
    <3>4. CASE n # m /\ n # s
      <4>1. ReaderSame(m) /\ SenderSame(s)
        BY <2>2, <2>3, <3>1, <3>4
      <4>2. WaySame(m, s)
        BY <1>2, <2>4, <3>4, WayKinds
      <4> QED
        BY <1>1, <1>4, <4>1, <4>2, StillFlows
    <3> QED
      BY <3>2, <3>3, <3>4
  <2>5. ASSUME NEW n \in Nodes, Quits(n) PROVE Flows(m, s) /\ Risen(m, s)'
    <3>1. n # m /\ n # s /\ Others(n)
      BY <1>2, <2>5 DEF Quits
    <3>2. ReaderSame(m) /\ SenderSame(s)
      BY <2>2, <2>3, <3>1
    <3>3. WaySame(m, s)
      <4>1. \A c \in ConnsOf(links) : EndsOf(links, c) = {m, s} => m \in EndsOf(links, c)
        OBVIOUS
      <4> QED
        BY <2>5, <4>1 DEF Quits, WaySame
    <3> QED
      BY <1>1, <1>4, <3>2, <3>3, StillFlows
  <2> QED
    BY <1>1, <2>1, <2>4, <2>5
<1> QED
  BY <1>4, <1>5, LineStep

LEMMA OrderInit ==
    ASSUME OverlayInit
    PROVE  OrderInv
<1>1. /\ \A n \in Nodes : /\ listener[n] = << >> /\ network[n] = 0
                          /\ sending[n] = [pkt |-> Junk, to |-> << >>] /\ net[n] = << >>
                          /\ process[n] = 0 /\ sent[n] = 0 /\ got[n] = [m \in Nodes |-> 0]
      /\ \A c \in ConnsOf(links) : \A m \in EndsOf(links, c) : wire[c][m] = << >>
  BY DEF OverlayInit
<1>2. SUFFICES ASSUME NEW m \in Nodes, NEW s \in Nodes
               PROVE  Line(m, s) /\ Risen(m, s)
  BY DEF OrderInv, Way, Risen
<1>3. ASSUME NEW c \in ConnsOf(links), EndsOf(links, c) = {m, s} PROVE wire[c][m] = << >>
  BY <1>1, <1>3
<1>4. Down(m) = << >> /\ sending[s].to = << >>
  BY <1>1 DEF Down
<1>5. /\ GotNos(m, s) = {0} /\ DownNos(m, s) = {} /\ HandNos(m, s) = {} /\ WireNos(m, s) = {}
      /\ SendNos(m, s) = {} /\ UpNos(s) = {}
  BY <1>1, <1>3, <1>4 DEF GotNos, DownNos, HandNos, WireNos, SendNos, UpNos, Nos
<1>6. Line(m, s)
  BY <1>1, <1>5 DEF Line, InLine, Before
<1>7. Risen(m, s)
  BY <1>3, <1>4 DEF Risen, DownRises, WiresRise, Rising
<1> QED
  BY <1>6, <1>7

\* Between two processes that have not ended the packets are at each of the six
\* places of their way in the order sent, and those of a place nearer to the
\* reader were sent before those of one farther (the path from
\* overlay_sendpkt() over getpktToSend(), sendpkt(), recvpkt() and
\* forwardpktToMNP() to overlay_recvpkt() in overlay.c and pkt.c).
THEOREM OrderCorrect == Spec => []OrderInv
<1>1. OverlayInit => Invs /\ OrderInv
  BY TrafficInvInit, OrderInit
<1>2. (Invs /\ OrderInv) /\ [Next]_vars => (Invs /\ OrderInv)'
  BY TrafficInvStep, OrderStep
<1> QED
  BY <1>1, <1>2, PTL DEF Spec

\* Of the packets two sequences hold one after the other.
LEMMA RisingConcat ==
    ASSUME NEW s, NEW q \in Seq(Packet), NEW r \in Seq(Packet), Rising(q, s), Rising(r, s),
           Before(Nos(q, s), Nos(r, s))
    PROVE  q \o r \in Seq(Packet) /\ Rising(q \o r, s) /\ Nos(q \o r, s) \subseteq Nos(q, s) \cup Nos(r, s)
<1> DEFINE a == q \o r
<1>1. /\ a \in Seq(Packet) /\ Len(q) \in Nat /\ Len(r) \in Nat /\ Len(a) = Len(q) + Len(r)
      /\ \A j \in 1..Len(q) : a[j] = q[j] /\ q[j] \in Packet
      /\ \A j \in 1..Len(r) : a[Len(q) + j] = r[j] /\ r[j] \in Packet
  BY Concat, SeqElements
<1> HIDE DEF a
<1>2. ASSUME NEW j \in 1..Len(a)
      PROVE  \/ j \in 1..Len(q) /\ a[j] = q[j] /\ q[j].no \in Nat
             \/ j - Len(q) \in 1..Len(r) /\ a[j] = r[j - Len(q)] /\ r[j - Len(q)].no \in Nat
  <2>1. j \in 1..Len(q) \/ (j - Len(q) \in 1..Len(r) /\ j = Len(q) + (j - Len(q)))
    BY <1>1
  <2> QED
    BY <1>1, <2>1, PacketFacts
<1>3. ASSUME NEW i \in 1..Len(a), NEW j \in 1..Len(a), i < j, a[i].src = s, a[j].src = s
      PROVE  a[i].no < a[j].no
  <2>1. CASE i \in 1..Len(q) /\ a[i] = q[i] /\ q[i].no \in Nat
    <3>1. CASE j \in 1..Len(q) /\ a[j] = q[j]
      BY <1>3, <2>1, <3>1 DEF Rising
    <3>2. CASE j - Len(q) \in 1..Len(r) /\ a[j] = r[j - Len(q)] /\ r[j - Len(q)].no \in Nat
      <4>1. a[i].no \in Nos(q, s) /\ a[j].no \in Nos(r, s)
        BY <1>3, <2>1, <3>2 DEF Nos
      <4> QED
        BY <4>1 DEF Before
    <3> QED
      BY <1>2, <3>1, <3>2
  <2>2. CASE i - Len(q) \in 1..Len(r) /\ a[i] = r[i - Len(q)]
    <3>1. j - Len(q) \in 1..Len(r) /\ a[j] = r[j - Len(q)] /\ i - Len(q) < j - Len(q)
      BY <1>1, <1>2, <1>3, <2>2
    <3> QED
      BY <1>3, <2>2, <3>1 DEF Rising
  <2> QED
    BY <1>2, <2>1, <2>2
<1>4. ASSUME NEW x \in Nos(a, s) PROVE x \in Nos(q, s) \cup Nos(r, s)
  <2>1. PICK j \in 1..Len(a) : a[j].src = s /\ a[j].no = x
    BY <1>4 DEF Nos
  <2> QED
    BY <1>2, <2>1 DEF Nos
<1> QED
  BY <1>1, <1>3, <1>4 DEF Rising, a

\* A connection has one listener of a node, and that one packet.
LEMMA HandFacts ==
    ASSUME Invs, NEW c \in ConnsOf(links), NEW m \in EndsOf(links, c), NEW s
    PROVE  Hand(m, c) \in Seq(Packet) /\ Rising(Hand(m, c), s) /\ Nos(Hand(m, c), s) \subseteq HandNos(m, s)
<1> DEFINE q == listener[m]
           C == {i \in DOMAIN q : q[i].conn = c /\ q[i].full}
           k == Kept(q, C)
           hand == Hand(m, c)
<1>1. /\ m \in Nodes /\ q \in Seq(ListenerType) /\ Len(q) \in Nat /\ DOMAIN q = 1..Len(q) /\ C \subseteq 1..Len(q)
      /\ \A i \in 1..Len(q) : q[i] \in ListenerType /\ q[i].pkt \in Packet
  <2>1. m \in Nodes
    BY PeerFacts DEF Invs
  <2>2. q \in Seq(ListenerType)
    BY <2>1, NodeFacts DEF NodeTypes
  <2>3. Len(q) \in Nat /\ DOMAIN q = 1..Len(q) /\ \A i \in 1..Len(q) : q[i] \in ListenerType
    BY <2>2, SeqElements
  <2>4. \A i \in 1..Len(q) : q[i].pkt \in Packet
    BY <2>3 DEF ListenerType
  <2> QED
    BY <2>1, <2>2, <2>3, <2>4
<1>2. hand = [j \in 1..Len(k) |-> k[j].pkt]
  BY DEF Hand
<1>3. \A i, j \in C : i = j
  <2>1. SUFFICES ASSUME NEW i \in C, NEW j \in C PROVE i = j
    OBVIOUS
  <2>2. ListenersServe(m) /\ q # << >>
    BY <1>1, <2>1, NodeFacts DEF Serves
  <2>3. /\ Len(q) = Len(nt[m]) /\ nt[m][i].conn = c /\ nt[m][j].conn = c
        /\ i \in 1..Len(nt[m]) /\ j \in 1..Len(nt[m])
    BY <1>1, <2>1, <2>2 DEF ListenersServe
  <2>4. c # NoConn
    BY ConnFacts DEF Invs, WireShape
  <2> QED
    BY <1>1, <2>3, <2>4, EntryConn
<1>4. \A i \in C : q[i].full
  OBVIOUS
<1> HIDE DEF q, C, k, hand
<1>5. KeptOf(ListenerType, q, C, Len(q), k)
  BY <1>1, KeptFacts DEF k
<1>6. PICK at \in [1..Len(k) -> C \cap (1..Len(q))] :
          /\ \A i \in 1..Len(k) : k[i] = q[at[i]]
          /\ \A i, j \in 1..Len(k) : i < j => at[i] < at[j]
  BY <1>5 DEF KeptOf
<1>7. k \in Seq(ListenerType) /\ Len(k) \in Nat
  BY <1>5, SeqElements DEF KeptOf
<1>8. ASSUME NEW j \in 1..Len(k)
      PROVE  at[j] \in C /\ at[j] \in 1..Len(q) /\ k[j].pkt = q[at[j]].pkt /\ k[j].pkt \in Packet /\ q[at[j]].full
  BY <1>1, <1>4, <1>6
<1>9. hand \in Seq(Packet) /\ Len(hand) = Len(k) /\ \A j \in 1..Len(k) : hand[j] = k[j].pkt
  <2>1. hand \in [1..Len(k) -> Packet]
    BY <1>2, <1>8
  <2> QED
    BY <1>2, <1>7, <2>1, FunctionIsSeq
<1>10. \A i, j \in 1..Len(hand) : ~(i < j)
  <2>1. SUFFICES ASSUME NEW i \in 1..Len(k), NEW j \in 1..Len(k), i < j PROVE FALSE
    BY <1>9
  <2>2. at[i] = at[j] /\ at[i] \in Nat
    BY <1>1, <1>3, <1>8
  <2> QED
    BY <1>6, <2>1, <2>2
<1>11. ASSUME NEW x \in Nos(hand, s) PROVE x \in HandNos(m, s)
  <2>1. PICK j \in 1..Len(k) : hand[j].src = s /\ hand[j].no = x /\ x \in Nat
    BY <1>9, <1>11 DEF Nos
  <2>2. at[j] \in 1..Len(listener[m]) /\ hand[j] = listener[m][at[j]].pkt /\ listener[m][at[j]].full
    BY <1>8, <1>9 DEF q
  <2> QED
    BY <2>1, <2>2 DEF HandNos
<1> QED
  BY <1>9, <1>10, <1>11 DEF Rising, hand

\* Packets reach an MNP process in the order their sender gave them to its
\* overlay process, each at most once, while the connection stands
\* (listen_to_neighbor(), waitNetwork() and connectNbrs() in overlay.c,
\* nt_addconn() in neighbortable.c).
THEOREM PacketsInOrderCorrect == Spec => []PacketsInOrder
<1>1. ASSUME Invs, OrderInv, NEW c \in Conns, NEW m \in Ends(c), closed[c] = {}
      PROVE  LET way == Down(m) \o Hand(m, c) \o wire[c][m]
                 mine == {j \in 1..Len(way) : way[j].src = Peer(c, m)}
             IN  \A j \in mine : /\ got[m][Peer(c, m)] < way[j].no
                                /\ \A k \in mine : j < k => way[j].no < way[k].no
  <2> DEFINE s == Peer(c, m)
             D == Down(m)
             H == Hand(m, c)
             W == wire[c][m]
             way == D \o H \o W
  <2>1. c \in ConnsOf(links) /\ m \in EndsOf(links, c)
    BY <1>1 DEF Invs, WireShape, Conns, Ends
  <2>2. /\ s \in Nodes /\ m \in Nodes /\ m # s /\ EndsOf(links, c) = {m, s}
        /\ s \in EndsOf(links, c) /\ m \in EndsOf(links, c)
    BY <1>1, <2>1, PeerFacts DEF Invs
  <2>3. main[m] # "down" /\ main[s] # "down"
    <3>1. closed[c] = {n \in EndsOf(links, c) : main[n] = "down"}
      BY <1>1, <2>1 DEF Invs, TrafficInv, ClosedIs
    <3> QED
      BY <1>1, <2>2, <3>1
  <2>4. Line(m, s) /\ DownRises(m, s) /\ WiresRise(m, s)
    BY <1>1, <2>2, <2>3 DEF OrderInv, Way
  <2>5. D \in Seq(Packet) /\ Rising(D, s) /\ Nos(D, s) = DownNos(m, s)
    <3>1. process[m] = 0 \/ process[m] \in 1..Len(net[m])
      BY <1>1, <2>2, NodeFacts DEF NodeTypes
    <3>2. D \in Seq(Packet)
      BY <1>1, <2>2, <3>1, NodeFacts DEF Down
    <3> QED
      BY <2>4, <3>2 DEF DownRises, DownNos
  <2>6. H \in Seq(Packet) /\ Rising(H, s) /\ Nos(H, s) \subseteq HandNos(m, s)
    BY <1>1, <2>1, HandFacts
  <2>7. W \in Seq(Packet) /\ Rising(W, s) /\ Nos(W, s) \subseteq WireNos(m, s)
    <3>1. W \in Seq(Packet)
      BY <1>1, <2>1 DEF Invs, TrafficInv, OnWire
    <3>2. Rising(W, s)
      BY <2>1, <2>2, <2>4 DEF WiresRise
    <3>3. Nos(W, s) \subseteq WireNos(m, s)
      BY <2>1, <2>2 DEF WireNos, Nos
    <3> QED
      BY <3>1, <3>2, <3>3
  <2>8. got[m][s] \in Nat /\ got[m][s] \in GotNos(m, s)
    BY <1>1, <2>2, NodeFacts DEF NodeTypes, GotNos
  <2>9. /\ Before(GotNos(m, s), DownNos(m, s)) /\ Before(GotNos(m, s), HandNos(m, s))
        /\ Before(GotNos(m, s), WireNos(m, s)) /\ Before(DownNos(m, s), HandNos(m, s))
        /\ Before(DownNos(m, s), WireNos(m, s)) /\ Before(HandNos(m, s), WireNos(m, s))
    BY <2>4 DEF Line, InLine
  <2> HIDE DEF s, D, H, W
  <2>10. D \o H \in Seq(Packet) /\ Rising(D \o H, s) /\ Nos(D \o H, s) \subseteq Nos(D, s) \cup Nos(H, s)
    <3>1. Before(Nos(D, s), Nos(H, s))
      BY <2>5, <2>6, <2>9 DEF Before
    <3> QED
      BY <2>5, <2>6, <3>1, RisingConcat
  <2>11. /\ way \in Seq(Packet) /\ Rising(way, s)
         /\ Nos(way, s) \subseteq DownNos(m, s) \cup HandNos(m, s) \cup WireNos(m, s)
    <3>1. Before(Nos(D \o H, s), Nos(W, s))
      BY <2>5, <2>6, <2>7, <2>9, <2>10 DEF Before
    <3>2. (D \o H) \o W \in Seq(Packet) /\ Rising((D \o H) \o W, s)
          /\ Nos((D \o H) \o W, s) \subseteq Nos(D \o H, s) \cup Nos(W, s)
      BY <2>7, <2>10, <3>1, RisingConcat
    <3> QED
      BY <2>5, <2>6, <2>7, <2>10, <3>2
  <2> HIDE DEF way
  <2>12. ASSUME NEW j \in 1..Len(way), way[j].src = s PROVE got[m][s] < way[j].no
    <3>1. way[j].no \in Nat
      BY <2>11, PacketFacts, SeqElements
    <3>2. way[j].no \in Nos(way, s)
      BY <2>12, <3>1 DEF Nos
    <3> QED
      BY <2>8, <2>9, <2>11, <3>2 DEF Before
  <2>13. ASSUME NEW j \in 1..Len(way), NEW k \in 1..Len(way), j < k, way[j].src = s, way[k].src = s
         PROVE  way[j].no < way[k].no
    BY <2>11, <2>13 DEF Rising
  <2> QED
    BY <2>12, <2>13 DEF s, D, H, W, way
<1>2. Invs /\ OrderInv => PacketsInOrder
  BY <1>1 DEF PacketsInOrder
<1> QED
  BY <1>2, TrafficCorrect, OrderCorrect, PTL
=============================================================================
