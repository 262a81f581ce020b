------------------------ MODULE NativeRuntimeProofs ------------------------
(***************************************************************************)
(* For every set of machines, whatever their files say: cores are counted  *)
(* right or not at all, and a pool leaves one free or has a single worker. *)
(*                                                                         *)
(* The first is a matter of what the checks of QueryPhysicalCores amount   *)
(* to.  They never compare two CPUs' lists as such: a list is compared     *)
(* with the one entered under the same leader, and the rest is counting.   *)
(* As many members as CPUs means that the map from members to CPUs, which  *)
(* reaches every CPU, reaches none twice (OneLeader); as many identities   *)
(* as leaders, that the map from identities to leaders, which reaches      *)
(* every leader, reaches none twice (OneIdentity).  So the lists are a     *)
(* partition and the identities name its parts (CheckedTells).             *)
(*                                                                         *)
(* The second counts cores in three ways: by their keys, which are no more *)
(* than the cores (KeysCount), by the CPUs, which are no more than twice   *)
(* as many (TwoThreads), and by those of the CPUs for performance.  What   *)
(* is calculated stays below the cores (ThreadsFit); to hold the count of  *)
(* threads to its limits adds to it only where it is 0 or 1, and two       *)
(* threads is what cores of one or two get (PoolSized).                    *)
(*                                                                         *)
(* The last part is about ThreadPolicy by itself: IInv says for every call *)
(* the code may be about to make how far the thread has moved from where   *)
(* the first query found it.                                               *)
(***************************************************************************)
EXTENDS NativeRuntime, TaskRangeProofs, FiniteSetTheorems

-----------------------------------------------------------------------------
(* Counting.                                                               *)

LEMMA MinIsLeast ==
  ASSUME NEW S \in SUBSET Nat, S # {}
  PROVE  Min(S) \in S /\ \A y \in S : Min(S) <= y
BY LeastNat DEF Min

\* The image of a finite set, and when it is as large.
LEMMA ImageCount ==
  ASSUME NEW S, IsFiniteSet(S), NEW T, NEW f \in [S -> T], \A y \in T : \E x \in S : f[x] = y
  PROVE  /\ IsFiniteSet(T) /\ Cardinality(T) \in Nat /\ Cardinality(S) \in Nat
         /\ Cardinality(T) <= Cardinality(S)
         /\ Cardinality(T) = Cardinality(S) <=> \A x, y \in S : f[x] = f[y] => x = y
<1>1. f \in Surjection(S, T)
  BY DEF Surjection
<1>2. IsFiniteSet(T) /\ Cardinality(T) <= Cardinality(S)
      /\ (Cardinality(T) = Cardinality(S) <=> f \in Injection(S, T))
  BY <1>1, FS_Surjection
<1>3. f \in Injection(S, T) <=> \A x, y \in S : f[x] = f[y] => x = y
  BY DEF Injection, IsInjective
<1> QED
  BY <1>2, <1>3, FS_CardinalityType

LEMMA MachineFacts ==
  ASSUME machine \in Machines
  PROVE  /\ Cpus \subseteq Nat /\ IsFiniteSet(Cpus)
         /\ Usable \subseteq Cpus /\ Usable # {}
         /\ DOMAIN machine.core = Cpus /\ DOMAIN machine.siblings = Cpus
         /\ DOMAIN machine.id = Cpus
         /\ \A i \in Cpus : machine.siblings[i] \subseteq Nat
         /\ \A c \in Range(machine.core) :
              Cardinality({i \in Cpus : machine.core[i] = c}) <= 2
         /\ machine.platform = "linux" /\ TellCores(machine) =>
              \A i, j \in Cpus : machine.core[i] = machine.core[j] => j \in machine.siblings[i]
BY MachinesAssumption DEF Cpus, CpusOf, Usable

-----------------------------------------------------------------------------
(* What the files are checked for is what they have to tell.               *)

\* What is known of files the checks accept.
Checked == machine \in Machines /\ Files /\ Consistent

LEMMA LeaderFacts ==
  ASSUME Checked, NEW i \in Cpus
  PROVE  /\ i \in machine.siblings[i] /\ machine.siblings[i] \subseteq Cpus
         /\ Leader(i) \in machine.siblings[i] /\ Leader(i) \in Leaders
<1>1. i \in machine.siblings[i] /\ machine.siblings[i] \subseteq Cpus
  BY DEF Checked, Consistent
<1>2. machine.siblings[i] \in SUBSET Nat /\ machine.siblings[i] # {}
  BY <1>1, MachineFacts DEF Checked
<1>3. Leader(i) \in machine.siblings[i]
  BY <1>2, MinIsLeast DEF Leader
<1> QED
  BY <1>1, <1>3 DEF Leaders

\* Each CPU's siblings are those entered under its leader.
LEMMA GroupIs ==
  ASSUME Checked, NEW i \in Cpus
  PROVE  machine.siblings[i] = Group(Leader(i))
<1> DEFINE S == {j \in Cpus : Leader(j) = Leader(i)}
           first == {j \in {k \in Cpus : k < i} : Leader(j) = Leader(i)}
           m == Min(S)
<1>1. Cpus \subseteq Nat /\ i \in S
  BY MachineFacts DEF Checked
<1>2. m \in S /\ \A y \in S : m <= y
  BY <1>1, MinIsLeast
<1>3. Group(Leader(i)) = machine.siblings[m]
  BY DEF Group
<1>4. CASE m = i
  BY <1>3, <1>4
<1>5. CASE m # i
  <2>1. m \in Nat /\ i \in Nat /\ m < i
    <3>1. m \in Cpus /\ m <= i
      BY <1>1, <1>2
    <3> HIDE DEF m
    <3> QED
      BY <1>1, <1>5, <3>1
  <2>2. m \in first /\ first \subseteq S /\ first \in SUBSET Nat
    BY <1>1, <1>2, <2>1
  <2>3. Min(first) \in first /\ \A y \in first : Min(first) <= y
    BY <2>2, MinIsLeast
  <2>4. Min(first) = m
    <3> DEFINE k == Min(first)
    <3>1. k \in Nat /\ k <= m /\ m <= k
      BY <1>2, <2>2, <2>3
    <3> HIDE DEF k
    <3> QED
      BY <2>1, <3>1 DEF k
  <2>5. Agrees(i)
    BY DEF Checked, Consistent
  <2>6. machine.siblings[Min(first)] = machine.siblings[i]
    BY <2>2, <2>5 DEF Agrees
  <2> QED
    BY <1>3, <2>4, <2>6
<1> QED
  BY <1>4, <1>5

\* CPUs of one identity have one leader.
LEMMA IdentityLeader ==
  ASSUME Checked, NEW i \in Cpus, NEW j \in Cpus, machine.id[i] = machine.id[j]
  PROVE  Leader(i) = Leader(j)
<1> DEFINE S == {k \in Cpus : machine.id[k] = machine.id[i]}
           m == Min(S)
<1>1. Cpus \subseteq Nat /\ i \in S /\ j \in S
  BY MachineFacts DEF Checked
<1>2. m \in S /\ \A y \in S : m <= y
  BY <1>1, MinIsLeast
<1>3. ASSUME NEW k \in S
      PROVE  Leader(k) = Leader(m)
  <2> DEFINE alike == {l \in {x \in Cpus : x < k} : machine.id[l] = machine.id[k]}
  <2>1. CASE m = k
    BY <2>1
  <2>2. CASE m # k
    <3>1. m \in Nat /\ k \in Nat /\ m < k
      <4>1. m \in Cpus /\ m <= k
        BY <1>2
      <4> HIDE DEF m
      <4> QED
        BY <1>1, <2>2, <4>1
    <3>2. m \in alike /\ alike \subseteq S /\ alike \in SUBSET Nat
      BY <1>1, <1>2, <3>1
    <3>3. Min(alike) \in alike /\ \A y \in alike : Min(alike) <= y
      BY <3>2, MinIsLeast
    <3>4. Min(alike) = m
      <4> DEFINE a == Min(alike)
      <4>1. a \in Nat /\ a <= m /\ m <= a
        BY <1>2, <3>2, <3>3
      <4> HIDE DEF a
      <4> QED
        BY <3>1, <4>1 DEF a
    <3>5. Agrees(k)
      BY DEF Checked, Consistent
    <3>6. Leader(Min(alike)) = Leader(k)
      BY <3>2, <3>5 DEF Agrees
    <3> QED
      BY <3>4, <3>6
  <2> QED
    BY <2>1, <2>2
<1> QED
  BY <1>1, <1>3

\* As many members as CPUs: nobody is a member twice.
LEMMA OneLeader ==
  ASSUME Checked, NEW i \in Cpus, NEW j \in machine.siblings[i]
  PROVE  j \in Cpus /\ Leader(j) = Leader(i)
<1> DEFINE P == {p \in Leaders \X Cpus : p[2] \in Group(p[1])}
           f == [p \in P |-> p[2]]
<1>1. j \in Cpus /\ Leader(i) \in Leaders /\ Leader(j) \in Leaders
  BY LeaderFacts
<1>2. \A k \in Cpus : <<Leader(k), k>> \in P
  BY LeaderFacts, GroupIs
<1>3. <<Leader(i), j>> \in P
  BY <1>1, GroupIs
<1>4. IsFiniteSet(Cpus)
  BY MachineFacts DEF Checked
<1>5. IsFiniteSet(P)
  <2> DEFINE g == [k \in Cpus |-> Leader(k)]
  <2>1. g \in [Cpus -> Leaders] /\ \A l \in Leaders : \E k \in Cpus : g[k] = l
    BY DEF Leaders
  <2> HIDE DEF g
  <2>2. IsFiniteSet(Leaders)
    BY <1>4, <2>1, ImageCount
  <2>3. IsFiniteSet(Leaders \X Cpus)
    BY <1>4, <2>2, FS_Product
  <2>4. P \in SUBSET (Leaders \X Cpus)
    OBVIOUS
  <2> QED
    BY <2>3, <2>4, FS_Subset
<1>6. Cardinality(P) = Cardinality(Cpus)
  BY DEF Checked, Consistent, MembersCounted
<1>7. f \in [P -> Cpus] /\ \A k \in Cpus : \E p \in P : f[p] = k
  <2>1. \A k \in Cpus : f[<<Leader(k), k>>] = k
    BY <1>2
  <2> QED
    BY <1>2, <2>1
<1>8. f[<<Leader(i), j>>] = j /\ f[<<Leader(j), j>>] = j
  BY <1>1, <1>2, <1>3
<1>9. <<Leader(j), j>> \in P
  BY <1>1, <1>2
<1> HIDE DEF P, f
<1>10. \A p, q \in P : f[p] = f[q] => p = q
  BY <1>5, <1>6, <1>7, ImageCount
<1>11. <<Leader(i), j>> = <<Leader(j), j>>
  BY <1>3, <1>8, <1>9, <1>10
<1> QED
  BY <1>1, <1>11

\* As many identities as leaders: nobody leads under two.
LEMMA OneIdentity ==
  ASSUME Checked, NEW i \in Cpus, NEW j \in Cpus, Leader(i) = Leader(j)
  PROVE  machine.id[i] = machine.id[j]
<1> DEFINE ids == Range(machine.id)
           of(d) == CHOOSE k \in Cpus : machine.id[k] = d
           h == [d \in ids |-> Leader(of(d))]
<1>1. DOMAIN machine.id = Cpus /\ IsFiniteSet(Cpus)
  BY MachineFacts DEF Checked
<1>2. ids = {machine.id[k] : k \in Cpus}
  BY <1>1 DEF Range
<1>3. \A k \in Cpus : machine.id[k] \in ids /\ h[machine.id[k]] = Leader(k)
  <2>1. ASSUME NEW k \in Cpus
        PROVE  machine.id[k] \in ids /\ h[machine.id[k]] = Leader(k)
    <3>1. machine.id[k] \in ids
      BY <1>2
    <3>2. of(machine.id[k]) \in Cpus /\ machine.id[of(machine.id[k])] = machine.id[k]
      OBVIOUS
    <3>3. Leader(of(machine.id[k])) = Leader(k)
      BY <3>2, IdentityLeader
    <3> QED
      BY <3>1, <3>3
  <2> QED
    BY <2>1
<1>4. IsFiniteSet(ids)
  <2> DEFINE g == [k \in Cpus |-> machine.id[k]]
  <2>1. g \in [Cpus -> ids] /\ \A d \in ids : \E k \in Cpus : g[k] = d
    BY <1>2
  <2> HIDE DEF g, ids
  <2> QED
    BY <1>1, <2>1, ImageCount
<1>5. h \in [ids -> Leaders] /\ \A l \in Leaders : \E d \in ids : h[d] = l
  <2>1. h = [d \in ids |-> h[d]]
    OBVIOUS
  <2> HIDE DEF h
  <2>2. ASSUME NEW d \in ids
        PROVE  h[d] \in Leaders
    <3>1. PICK k \in Cpus : d = machine.id[k]
      BY <1>2
    <3>2. h[d] = Leader(k)
      BY <1>3, <3>1
    <3> QED
      BY <3>2 DEF Leaders
  <2>3. ASSUME NEW l \in Leaders
        PROVE  \E d \in ids : h[d] = l
    <3>1. PICK k \in Cpus : l = Leader(k)
      BY DEF Leaders
    <3> HIDE DEF ids
    <3> QED
      BY <1>3, <3>1
  <2> HIDE DEF ids
  <2> QED
    BY <2>1, <2>2, <2>3
<1>6. Cardinality(ids) = Cardinality(Leaders)
  BY DEF Checked, Consistent
<1> HIDE DEF ids, h, of
<1>7. \A d, e \in ids : h[d] = h[e] => d = e
  BY <1>4, <1>5, <1>6, ImageCount
<1> QED
  BY <1>3, <1>7

\* Files that pass tell of a partition, with one identity a part.
LEMMA CheckedTells ==
  ASSUME Checked
  PROVE  TellCores(machine)
<1>1. \A i \in Cpus : i \in machine.siblings[i] /\ machine.siblings[i] \subseteq Cpus
  BY LeaderFacts
<1>2. ASSUME NEW i \in Cpus, NEW j \in Cpus, j \in machine.siblings[i]
      PROVE  machine.siblings[i] = machine.siblings[j] /\ machine.id[i] = machine.id[j]
  <2>1. Leader(j) = Leader(i)
    BY <1>2, OneLeader
  <2> QED
    BY <2>1, GroupIs, OneIdentity
<1>3. ASSUME NEW i \in Cpus, NEW j \in Cpus, machine.id[i] = machine.id[j]
      PROVE  j \in machine.siblings[i]
  <2>1. Leader(i) = Leader(j)
    BY <1>3, IdentityLeader
  <2>2. machine.siblings[i] = machine.siblings[j]
    BY <2>1, GroupIs
  <2> QED
    BY <1>1, <2>2
<1> QED
  BY <1>1, <1>2, <1>3 DEF TellCores, Cpus

\* The leaders are as many as the parts, and as the identities.
LEMMA CheckedCount ==
  ASSUME Checked
  PROVE  /\ Cardinality(Leaders) = Cardinality({machine.siblings[i] : i \in Cpus})
         /\ Cardinality(Leaders) = Cardinality(Range(machine.id))
<1> DEFINE parts == {machine.siblings[i] : i \in Cpus}
           g == [l \in Leaders |-> Group(l)]
<1>1. IsFiniteSet(Leaders)
  <2> DEFINE e == [k \in Cpus |-> Leader(k)]
  <2>1. e \in [Cpus -> Leaders] /\ \A l \in Leaders : \E k \in Cpus : e[k] = l
    BY DEF Leaders
  <2>2. IsFiniteSet(Cpus)
    BY MachineFacts DEF Checked
  <2> HIDE DEF e
  <2> QED
    BY <2>1, <2>2, ImageCount
<1>2. \A i \in Cpus : Leader(i) \in Leaders /\ g[Leader(i)] = machine.siblings[i]
  BY LeaderFacts, GroupIs
<1>3. \A l \in Leaders : \E i \in Cpus : l = Leader(i)
  BY DEF Leaders
<1>4. g \in [Leaders -> parts] /\ \A s \in parts : \E l \in Leaders : g[l] = s
  <2>1. \A l \in Leaders : g[l] \in parts
    BY <1>2, <1>3
  <2>2. g = [l \in Leaders |-> g[l]]
    OBVIOUS
  <2> HIDE DEF g
  <2> QED
    BY <1>2, <2>1, <2>2
<1>5. ASSUME NEW l \in Leaders, NEW k \in Leaders, g[l] = g[k]
      PROVE  l = k
  <2>1. PICK i \in Cpus : l = Leader(i)
    BY <1>3
  <2>2. PICK j \in Cpus : k = Leader(j)
    BY <1>3
  <2>3. machine.siblings[i] = machine.siblings[j]
    BY <1>2, <1>5, <2>1, <2>2
  <2> QED
    BY <2>1, <2>2, <2>3 DEF Leader
<1> HIDE DEF g, parts
<1>6. Cardinality(parts) = Cardinality(Leaders)
  BY <1>1, <1>4, <1>5, ImageCount
<1>7. Cardinality(Leaders) = Cardinality(Range(machine.id))
  BY DEF Checked, Consistent
<1> QED
  BY <1>6, <1>7 DEF parts

-----------------------------------------------------------------------------
(* How many workers a topology gets.                                       *)

\* A part of the usable CPUs has no more keys than cores, where the files tell
\* of cores.
LEMMA KeysCount ==
  ASSUME machine \in Machines, TellsCores, NEW S \in SUBSET Usable
  PROVE  /\ Cardinality({Key(i) : i \in S}) \in Nat
         /\ Cardinality({Key(i) : i \in S}) <= Cardinality(CoresOf(S))
         /\ IsFiniteSet(CoresOf(S)) /\ Cardinality(CoresOf(S)) \in Nat
         /\ IsFiniteSet(S) /\ Cardinality(S) \in Nat
<1> DEFINE keys == {Key(i) : i \in S}
           cores == CoresOf(S)
           of(c) == CHOOSE i \in S : machine.core[i] = c
           f == [c \in cores |-> Key(of(c))]
<1>1. S \subseteq Cpus /\ IsFiniteSet(S)
  <2>1. IsFiniteSet(Cpus) /\ S \in SUBSET Cpus
    BY MachineFacts
  <2> QED
    BY <2>1, FS_Subset
<1>2. IsFiniteSet(cores)
  <2> DEFINE g == [i \in S |-> machine.core[i]]
  <2>1. g \in [S -> cores] /\ \A c \in cores : \E i \in S : g[i] = c
    BY DEF CoresOf
  <2> HIDE DEF g, cores
  <2> QED
    BY <1>1, <2>1, ImageCount
<1>3. ASSUME NEW i \in S, NEW j \in S, machine.core[i] = machine.core[j]
      PROVE  Key(i) = Key(j)
  <2>1. CASE machine.platform # "linux"
    BY <1>3, <2>1 DEF Key
  <2>2. CASE machine.platform = "linux"
    <3>1. TellCores(machine)
      BY <2>2 DEF TellsCores, Files
    <3>2. i \in Cpus /\ j \in Cpus
      BY <1>1
    <3>3. j \in machine.siblings[i]
      BY <1>3, <2>2, <3>1, <3>2, MachineFacts
    <3>4. machine.siblings[i] = machine.siblings[j]
      BY <3>1, <3>2, <3>3 DEF TellCores, Cpus
    <3> QED
      BY <2>2, <3>4 DEF Key
  <2> QED
    BY <2>1, <2>2
<1>4. \A i \in S : machine.core[i] \in cores /\ f[machine.core[i]] = Key(i)
  <2>1. ASSUME NEW i \in S
        PROVE  machine.core[i] \in cores /\ f[machine.core[i]] = Key(i)
    <3>1. machine.core[i] \in cores
      BY DEF CoresOf
    <3>2. of(machine.core[i]) \in S /\ machine.core[of(machine.core[i])] = machine.core[i]
      OBVIOUS
    <3>3. Key(of(machine.core[i])) = Key(i)
      BY <1>3, <3>2
    <3> QED
      BY <3>1, <3>3
  <2> QED
    BY <2>1
<1>5. f \in [cores -> keys] /\ \A k \in keys : \E c \in cores : f[c] = k
  <2>1. f = [c \in cores |-> f[c]]
    OBVIOUS
  <2> HIDE DEF f
  <2>2. ASSUME NEW c \in cores
        PROVE  f[c] \in keys
    <3>1. PICK i \in S : c = machine.core[i]
      BY DEF CoresOf
    <3> QED
      BY <1>4, <3>1
  <2>3. ASSUME NEW k \in keys
        PROVE  \E c \in cores : f[c] = k
    <3>1. PICK i \in S : k = Key(i)
      OBVIOUS
    <3> HIDE DEF cores
    <3> QED
      BY <1>4, <3>1
  <2> HIDE DEF cores, keys
  <2> QED
    BY <2>1, <2>2, <2>3
<1> HIDE DEF f, keys, cores
<1>6. Cardinality(keys) \in Nat /\ Cardinality(keys) <= Cardinality(cores)
      /\ Cardinality(cores) \in Nat
  BY <1>2, <1>5, ImageCount
<1>7. Cardinality(S) \in Nat
  BY <1>1, FS_CardinalityType
<1> QED
  BY <1>1, <1>2, <1>6, <1>7 DEF keys, cores

\* Three different members are more than two.
LEMMA ThreeMembers ==
  ASSUME NEW S, IsFiniteSet(S), NEW x \in S, NEW y \in S, NEW z \in S, x # y, x # z, y # z
  PROVE  ~(Cardinality(S) <= 2)
<1>1. IsFiniteSet({x}) /\ Cardinality({x}) = 1
  BY FS_Singleton
<1>2. IsFiniteSet({x} \cup {y}) /\ Cardinality({x} \cup {y}) = 2
  <2>1. y \notin {x}
    OBVIOUS
  <2>2. IsFiniteSet({x} \cup {y}) /\ Cardinality({x} \cup {y}) = Cardinality({x}) + 1
    BY <1>1, <2>1, FS_AddElement, Zenon
  <2>3. 1 + 1 = 2
    OBVIOUS
  <2> QED
    BY <1>1, <2>2, <2>3, Zenon
<1> DEFINE T == ({x} \cup {y}) \cup {z}
<1>3. IsFiniteSet(T) /\ Cardinality(T) = 3
  <2>1. z \notin {x} \cup {y}
    OBVIOUS
  <2>2. IsFiniteSet(T) /\ Cardinality(T) = Cardinality({x} \cup {y}) + 1
    BY <1>2, <2>1, FS_AddElement, Zenon
  <2>3. 2 + 1 = 3
    OBVIOUS
  <2> QED
    BY <1>2, <2>1, <2>2, <2>3, Zenon
<1>4. T \in SUBSET S
  OBVIOUS
<1> HIDE DEF T
<1>5. Cardinality(T) <= Cardinality(S) /\ Cardinality(S) \in Nat
  BY <1>4, FS_Subset, FS_CardinalityType
<1> QED
  BY <1>3, <1>5

\* Two threads a core, at most.
LEMMA TwoThreads ==
  ASSUME machine \in Machines, TellsCores
  PROVE  Cardinality(Usable) <= 2 * Cardinality(CoresOf(Usable))
<1> DEFINE cores == CoresOf(Usable)
           of(c) == CHOOSE i \in Usable : machine.core[i] = c
           firsts == {of(c) : c \in cores}
           others == Usable \ firsts
           f == [c \in cores |-> of(c)]
           g == [i \in others |-> machine.core[i]]
<1>1. IsFiniteSet(cores) /\ Cardinality(cores) \in Nat /\ IsFiniteSet(Usable)
  <2>1. Usable \in SUBSET Usable
    OBVIOUS
  <2> QED
    BY <2>1, KeysCount
<1>2. \A c \in cores : of(c) \in Usable /\ machine.core[of(c)] = c
  BY DEF CoresOf
<1>3. \A i \in Usable : machine.core[i] \in cores
  BY DEF CoresOf
<1> HIDE DEF cores, of
<1>4. IsFiniteSet(firsts) /\ Cardinality(firsts) <= Cardinality(cores)
      /\ Cardinality(firsts) \in Nat /\ firsts \subseteq Usable
  <2>1. f \in [cores -> firsts] /\ \A i \in firsts : \E c \in cores : f[c] = i
    OBVIOUS
  <2>2. firsts \subseteq Usable
    BY <1>2
  <2> HIDE DEF f, firsts
  <2> QED
    BY <1>1, <2>1, <2>2, ImageCount
<1>5. ASSUME NEW i \in others, NEW j \in others, machine.core[i] = machine.core[j]
      PROVE  i = j
  <2>1. SUFFICES ASSUME i # j PROVE FALSE
    OBVIOUS
  <2> DEFINE c == machine.core[i]
             S == {k \in Cpus : machine.core[k] = c}
             r == of(c)
  <2>2. c \in cores /\ r \in Usable /\ machine.core[r] = c /\ r \in firsts
    BY <1>2, <1>3
  <2>3. r # i /\ r # j
    BY <2>2
  <2>4. i \in S /\ j \in S /\ r \in S /\ IsFiniteSet(S) /\ Cardinality(S) <= 2
    <3>1. /\ Usable \subseteq Cpus /\ IsFiniteSet(Cpus) /\ DOMAIN machine.core = Cpus
          /\ \A d \in Range(machine.core) : Cardinality({k \in Cpus : machine.core[k] = d}) <= 2
      BY MachineFacts
    <3>2. i \in Cpus /\ j \in Cpus /\ r \in Cpus
      BY <2>2, <3>1
    <3>3. c \in Range(machine.core)
      BY <3>1, <3>2 DEF Range
    <3>4. S \in SUBSET Cpus
      OBVIOUS
    <3>5. IsFiniteSet(S)
      BY <3>1, <3>4, FS_Subset
    <3> QED
      BY <1>5, <2>2, <3>1, <3>2, <3>3, <3>5
  <2> HIDE DEF S, r
  <2> QED
    BY <2>1, <2>3, <2>4, ThreeMembers
<1>6. /\ IsFiniteSet(others) /\ Cardinality(others) \in Nat
      /\ Cardinality(others) <= Cardinality(cores)
  <2>1. others \in SUBSET Usable
    OBVIOUS
  <2>2. g \in Injection(others, cores)
    BY <1>3, <1>5 DEF Injection, IsInjective
  <2> HIDE DEF g, others
  <2> QED
    BY <1>1, <2>1, <2>2, FS_Injection, FS_Subset, FS_CardinalityType
<1>7. Cardinality(Usable) <= Cardinality(firsts) + Cardinality(others)
  <2>1. Usable = firsts \cup others /\ firsts \cap others = {}
    BY <1>4
  <2> HIDE DEF firsts, others
  <2>2. Cardinality(firsts \cup others) =
          Cardinality(firsts) + Cardinality(others) - Cardinality(firsts \cap others)
    BY <1>4, <1>6, FS_Union
  <2>3. Cardinality(firsts \cap others) = 0
    BY <2>1, FS_EmptySet
  <2>4. Cardinality(Usable) = Cardinality(firsts) + Cardinality(others) - 0
    BY <2>1, <2>2, <2>3
  <2> QED
    BY <1>4, <1>6, <2>4
<1>8. Cardinality(Usable) \in Nat
  BY <1>1, FS_CardinalityType
<1> HIDE DEF firsts, others
<1> QED
  BY <1>1, <1>4, <1>6, <1>7, <1>8 DEF cores

\* What a topology asks for is less than the cores the workers may use, if it
\* asks for anything.
LEMMA ThreadsFit ==
  ASSUME machine \in Machines, TellsCores,
         NEW bound \in {{}, DetectCpuTopology.bind}
  PROVE  /\ CalculateDesktopThreadCount(DetectCpuTopology) \in Nat
         /\ Cardinality(CoresOf(IF bound = {} THEN Usable ELSE bound)) \in Nat
         /\ CalculateDesktopThreadCount(DetectCpuTopology) > 0 =>
              CalculateDesktopThreadCount(DetectCpuTopology) + 1
                <= Cardinality(CoresOf(IF bound = {} THEN Usable ELSE bound))
<1> DEFINE fast == PerformanceCpus
           t == DetectCpuTopology
           n == Cardinality(Usable)
           p == Cardinality({Key(i) : i \in Usable})
           q == Cardinality({Key(i) : i \in fast})
           c == Cardinality(CoresOf(Usable))
           d == Cardinality(CoresOf(fast))
<1>1. fast \in SUBSET Usable
  BY DEF PerformanceCpus, FromLists, FromClasses, Fastest
<1>2. /\ t.logical = n /\ t.physical = p /\ t.performance = q /\ t.hybrid = (fast # {})
      /\ t.bind \in {{}, fast}
  BY DEF DetectCpuTopology
<1>3. p \in Nat /\ p <= c /\ c \in Nat /\ n \in Nat
  <2>1. Usable \in SUBSET Usable
    OBVIOUS
  <2> QED
    BY <2>1, KeysCount
<1>4. q \in Nat /\ q <= d /\ d \in Nat
  BY <1>1, KeysCount
<1>5. n <= 2 * c
  BY TwoThreads
<1>6. d <= c
  <2>1. CoresOf(fast) \in SUBSET CoresOf(Usable)
    BY <1>1 DEF CoresOf
  <2>2. IsFiniteSet(CoresOf(Usable))
    <3>1. Usable \in SUBSET Usable
      OBVIOUS
    <3> QED
      BY <3>1, KeysCount
  <2> QED
    BY <2>1, <2>2, FS_Subset
<1> DEFINE here == IF bound = {} THEN Usable ELSE bound
<1>7. /\ fast = {} => here = Usable
      /\ fast # {} => here = Usable \/ here = fast
  BY <1>2
<1>8. CASE fast # {}
  <2>1. CalculateDesktopThreadCount(t) = IF q > 1 THEN q - 1 ELSE 0
    BY <1>2, <1>8 DEF CalculateDesktopThreadCount, PerformanceShare, Available
  <2>2. q <= Cardinality(CoresOf(here))
    <3>1. CASE here = Usable
      <4> HIDE DEF q, d, c
      <4>1. q <= c
        BY <1>3, <1>4, <1>6
      <4> QED
        BY <3>1, <4>1 DEF c
    <3>2. CASE here = fast
      BY <1>4, <3>2
    <3> QED
      BY <1>7, <1>8, <3>1, <3>2
  <2>3. /\ CalculateDesktopThreadCount(t) \in Nat
        /\ CalculateDesktopThreadCount(t) > 0 => CalculateDesktopThreadCount(t) + 1 = q
    <3> HIDE DEF q, t
    <3> QED
      BY <1>4, <2>1 DEF t
  <2>4. Cardinality(CoresOf(here)) \in Nat
    BY <1>3, <1>4, <1>7, <1>8
  <2> QED
    BY <2>2, <2>3, <2>4
<1>9. CASE fast = {}
  <2>1. here = Usable /\ ~t.hybrid
    BY <1>2, <1>7, <1>9
  <2> DEFINE k == CalculateDesktopThreadCount(t)
  <2>2. k = IF n > p THEN Available(n \div 2, 2) ELSE (p \div 3) * 2 + ((p % 3) * 2) \div 3
    BY <1>2, <2>1 DEF CalculateDesktopThreadCount
  <2>3. k \in Nat /\ (k > 0 => k + 1 <= c)
    <3> HIDE DEF n, p, c, k
    <3>1. CASE n > p
      <4> DEFINE h == n \div 2
      <4>1. h \in Nat /\ h <= c
        BY <1>3, <1>5
      <4>2. k = IF h > 2 THEN h - 2 ELSE 0
        BY <2>2, <3>1 DEF Available
      <4> HIDE DEF h
      <4> QED
        BY <1>3, <4>1, <4>2
    <3>2. CASE ~(n > p)
      <4> DEFINE a == p \div 3
                 r == p % 3
      <4>1. a \in Nat /\ r \in 0 .. 2 /\ p = 3 * a + r
        BY <1>3
      <4>2. k = a * 2 + (r * 2) \div 3
        BY <2>2, <3>2
      <4> HIDE DEF a, r
      <4>3. (r * 2) \div 3 = IF r = 2 THEN 1 ELSE 0
        BY <4>1
      <4>4. k = a * 2 + IF r = 2 THEN 1 ELSE 0
        BY <4>2, <4>3
      <4> QED
        BY <1>3, <4>1, <4>4
    <3> QED
      BY <3>1, <3>2
  <2> QED
    BY <1>3, <2>1, <2>3
<1> QED
  BY <1>8, <1>9

\* Held to its limits and counted with the caller, it still is - or is two.
LEMMA PoolSized ==
  ASSUME NEW count \in Nat, NEW cores \in Nat, count > 0 => count + 1 <= cores
  PROVE  IF cores <= 2 THEN Started(count) + 1 = 2
         ELSE Started(count) + 1 \in 2 .. cores - 1
<1>1. CASE count < 2
  BY <1>1 DEF Started, DetermineThreadCount, kMinimumThreadCount
<1>2. CASE ~(count < 2) /\ count > 8
  BY <1>2 DEF Started, DetermineThreadCount, kMinimumThreadCount, kMaximumThreadCount
<1>3. CASE ~(count < 2) /\ ~(count > 8)
  BY <1>3 DEF Started, DetermineThreadCount, kMinimumThreadCount, kMaximumThreadCount
<1> QED
  BY <1>1, <1>2, <1>3

-----------------------------------------------------------------------------
(* The entries.                                                            *)

RuntimeInv == machine \in Machines /\ CoresAreCounted /\ PoolFits

LEMMA InitRuntimeInv == RuntimeInit => RuntimeInv
BY DEF RuntimeInit, RuntimeInv, CoresAreCounted, PoolFits, NoPool

\* What is told of a machine stays.
LEMMA MachineSame ==
  ASSUME UNCHANGED machine
  PROVE  /\ TellsCores' = TellsCores /\ Files' = Files /\ Cpus' = Cpus
         /\ Usable' = Usable /\ \A S : CoresOf(S)' = CoresOf(S)
BY DEF TellsCores, TellCores, Files, Cpus, CpusOf, Usable, CoresOf

LEMMA CountedSame ==
  ASSUME UNCHANGED machine, UNCHANGED answer, CoresAreCounted
  PROVE  CoresAreCounted'
BY MachineSame DEF CoresAreCounted

LEMMA FitsSame ==
  ASSUME UNCHANGED machine, UNCHANGED pool, PoolFits
  PROVE  PoolFits'
<1>1. CoresOf(IF pool.bound = {} THEN Usable ELSE pool.bound)'
        = CoresOf(IF pool.bound = {} THEN Usable ELSE pool.bound)
  BY DEF CoresOf, Usable
<1>2. TellsCores' = TellsCores
  BY MachineSame
<1> QED
  BY <1>1, <1>2 DEF PoolFits, GetThreadCount

LEMMA CoresAnswered ==
  ASSUME machine \in Machines, nPhysicalCoreCount
  PROVE  CoresAreCounted'
<1>1. UNCHANGED machine
  BY DEF nPhysicalCoreCount
<1>2. CASE Consistent /\ Answer("cores", QueryPhysicalCores)
  <2>1. TellsCores
    BY <1>2, CheckedTells DEF TellsCores, Checked
  <2>2. QueryPhysicalCores = IF Files THEN Cardinality({machine.siblings[i] : i \in Cpus})
                             ELSE Cardinality(Range(machine.core))
    BY <1>2, CheckedCount DEF QueryPhysicalCores, Checked
  <2>3. answer'.is = QueryPhysicalCores /\ answer'.entry = "cores"
    BY <1>2 DEF Answer
  <2> QED
    BY <1>1, <2>1, <2>2, <2>3, MachineSame DEF CoresAreCounted
<1>3. CASE Fails("cores")
  BY <1>3 DEF Fails, CoresAreCounted
<1> QED
  BY <1>2, <1>3 DEF nPhysicalCoreCount

LEMMA QualityAnswered ==
  ASSUME machine \in Machines, nClassifyDevice
  PROVE  CoresAreCounted'
<1>1. UNCHANGED machine
  BY DEF nClassifyDevice
<1>2. PICK heap \in Heaps :
        \/ /\ heap > 0
           /\ (heap > 4 /\ AsksForCores) => Consistent
           /\ Answer("quality", ClassifyDevice(heap))
        \/ /\ heap <= 0 \/ (heap > 4 /\ machine.platform /= "android")
           /\ Fails("quality")
  BY DEF nClassifyDevice
<1>3. CASE Fails("quality")
  BY <1>3 DEF Fails, CoresAreCounted
<1>4. CASE /\ (heap > 4 /\ AsksForCores) => Consistent
           /\ Answer("quality", ClassifyDevice(heap))
  <2>1. answer'.entry = "quality" /\ answer'.is = ClassifyDevice(heap)
    BY <1>4 DEF Answer
  <2>2. ASSUME machine.x86, ClassifyDevice(heap) = "high"
        PROVE  /\ TellsCores
               /\ Cardinality(Range(IF Files THEN machine.id ELSE machine.core)) >= 6
    <3>1. /\ machine.platform \notin {"android", "windows7"} /\ ~(heap <= 4)
          /\ ~(QueryPhysicalCores < 6)
      BY <2>2 DEF ClassifyDevice
    <3>2. Consistent
      <4>1. heap > 4
        BY <3>1, MachinesAssumption
      <4> QED
        BY <1>4, <3>1, <4>1 DEF AsksForCores
    <3>3. TellsCores
      BY <3>2, CheckedTells DEF TellsCores, Checked
    <3>4. QueryPhysicalCores = Cardinality(Range(IF Files THEN machine.id ELSE machine.core))
      BY <3>2, CheckedCount DEF QueryPhysicalCores, Checked
    <3>5. Cardinality(Range(IF Files THEN machine.id ELSE machine.core)) \in Nat
      <4> DEFINE g == IF Files THEN machine.id ELSE machine.core
                 e == [i \in Cpus |-> g[i]]
      <4>1. DOMAIN g = Cpus /\ IsFiniteSet(Cpus)
        BY MachineFacts
      <4>2. e \in [Cpus -> Range(g)] /\ \A y \in Range(g) : \E i \in Cpus : e[i] = y
        BY <4>1 DEF Range
      <4> HIDE DEF e, g
      <4>3. Cardinality(Range(g)) \in Nat
        BY <4>1, <4>2, ImageCount
      <4> QED
        BY <4>3 DEF g
    <3> QED
      BY <3>1, <3>3, <3>4, <3>5
  <2> QED
    BY <1>1, <2>1, <2>2, MachineSame DEF CoresAreCounted
<1> QED
  BY <1>2, <1>3, <1>4

LEMMA PoolCreated ==
  ASSUME machine \in Machines, CreatePool
  PROVE  PoolFits'
<1>1. UNCHANGED machine
  BY DEF CreatePool
<1> DEFINE count == CalculateDesktopThreadCount(DetectCpuTopology)
<1>2. CASE \E bound \in {{}, DetectCpuTopology.bind} :
             pool' = [workers |-> Started(count), bound |-> bound, from |-> "topology"]
  <2>1. PICK bound \in {{}, DetectCpuTopology.bind} :
             pool' = [workers |-> Started(count), bound |-> bound, from |-> "topology"]
    BY <1>2
  <2> DEFINE cores == Cardinality(CoresOf(IF bound = {} THEN Usable ELSE bound))
  <2>2. GetThreadCount' = Started(count) + 1 /\ pool'.bound = bound
    BY <2>1 DEF GetThreadCount
  <2>3. SUFFICES ASSUME TellsCores
                 PROVE  IF cores <= 2 THEN Started(count) + 1 = 2
                        ELSE Started(count) + 1 \in 2 .. cores - 1
    <3>1. Cardinality(CoresOf(IF pool.bound = {} THEN Usable ELSE pool.bound))' = cores
      BY <1>1, <2>2 DEF CoresOf, Usable
    <3>2. TellsCores' = TellsCores
      BY <1>1, MachineSame
    <3> HIDE DEF cores, count
    <3> QED
      BY <2>2, <3>1, <3>2 DEF PoolFits
  <2>4. count \in Nat /\ cores \in Nat /\ (count > 0 => count + 1 <= cores)
    BY <2>3, ThreadsFit
  <2> HIDE DEF cores, count
  <2> QED
    BY <2>4, PoolSized
<1>3. CASE pool'.from = "count"
  BY <1>3 DEF PoolFits
<1> QED
  BY <1>2, <1>3 DEF CreatePool

LEMMA StepRuntimeInv == RuntimeInv /\ [RuntimeNext]_<<runtimeVars, vars>> => RuntimeInv'
<1> SUFFICES ASSUME RuntimeInv, [RuntimeNext]_<<runtimeVars, vars>> PROVE RuntimeInv'
  OBVIOUS
<1>0. machine \in Machines /\ CoresAreCounted /\ PoolFits
  BY DEF RuntimeInv
<1>1. CASE nInitialize
  <2>1. UNCHANGED machine /\ UNCHANGED pool
    BY <1>1 DEF nInitialize
  <2>2. answer'.entry = "initialize"
    <3>1. PICK c \in Configs : Answer("initialize", c) \/ Fails("initialize")
      BY <1>1 DEF nInitialize
    <3>2. CASE Answer("initialize", c)
      BY <3>2 DEF Answer
    <3>3. CASE Fails("initialize")
      BY <3>3 DEF Fails
    <3> QED
      BY <3>1, <3>2, <3>3
  <2> QED
    BY <1>0, <2>1, <2>2, FitsSame DEF RuntimeInv, CoresAreCounted
<1>2. CASE nPhysicalCoreCount
  <2>1. UNCHANGED machine /\ UNCHANGED pool
    BY <1>2 DEF nPhysicalCoreCount
  <2> QED
    BY <1>0, <1>2, <2>1, CoresAnswered, FitsSame DEF RuntimeInv
<1>3. CASE nClassifyDevice
  <2>1. UNCHANGED machine /\ UNCHANGED pool
    BY <1>3 DEF nClassifyDevice
  <2> QED
    BY <1>0, <1>3, <2>1, QualityAnswered, FitsSame DEF RuntimeInv
<1>4. CASE CreatePool
  <2>1. UNCHANGED machine /\ UNCHANGED answer
    BY <1>4 DEF CreatePool
  <2> QED
    BY <1>0, <1>4, <2>1, PoolCreated, CountedSame DEF RuntimeInv
<1>5. CASE UNCHANGED runtimeVars
  <2>1. UNCHANGED machine /\ UNCHANGED answer /\ UNCHANGED pool
    BY <1>5 DEF runtimeVars
  <2> QED
    BY <1>0, <2>1, CountedSame, FitsSame DEF RuntimeInv
<1> QED
  BY <1>1, <1>2, <1>3, <1>4, <1>5 DEF RuntimeNext

LEMMA RuntimeInvariance == RuntimeSpec => []RuntimeInv
BY InitRuntimeInv, StepRuntimeInv, PTL DEF RuntimeSpec

\* Whatever the files of a machine say, an answer counts the cores they tell of.
THEOREM CoresCounted == RuntimeSpec => []CoresAreCounted
<1>1. RuntimeInv => CoresAreCounted
  BY DEF RuntimeInv
<1> QED
  BY <1>1, RuntimeInvariance, PTL

\* On every machine the threads of the pool leave a core free, or are two.
THEOREM WorkersFit == RuntimeSpec => []PoolFits
<1>1. RuntimeInv => PoolFits
  BY DEF RuntimeInv
<1> QED
  BY <1>1, RuntimeInvariance, PTL

-----------------------------------------------------------------------------
(* The outcome of a thread policy request is true and the host's policy is *)
(* kept, for every set of priorities a thread may be found with.           *)
(*                                                                         *)
(* Both properties speak of a finished request; what makes them inductive  *)
(* is, for every call the code may be about to make, how far the thread    *)
(* may have moved from where the first query found it, and who began its   *)
(* background mode.                                                        *)

WindowsState == [cpu : Int, memory : Int, background : BOOLEAN, saved : Int \X Int]
PosixState   == [nice : Int, scheduler : {"other", "batch", "idle", "fifo"}]
MacosState   == [qos : Int, relative : Int]

IsThread(t) ==
  /\ system \in Windows => t \in WindowsState /\ (~t.background => t.saved = <<0, 5>>)
  /\ system = "posix" => t \in PosixState
  /\ system = "macos" => t \in MacosState

TypeOK ==
  /\ system \in Systems
  /\ policy \in {"invalid", "normal", "below_normal", "low"}
  /\ pc \in {"idle", "query_before", "begin", "set_memory", "query_background", "end",
             "query_abandoned", "inherited", "set", "set_scheduler", "query_after"}
  /\ {changed, set_ok, scheduler_ok, fallback} \subseteq BOOLEAN
  /\ step_count \in Nat
  /\ IsThread(thread) /\ IsThread(before)

Asked == policy \in {"below_normal", "low"}

\* Nothing has been done to the thread yet.
Untouched == thread = before /\ ~changed /\ set_ok

\* Background mode is on, and it was this request that began it.
Owned ==
  /\ system = "windows" /\ Low
  /\ before.cpu >= LOWEST /\ ~before.background
  /\ thread.background /\ thread.saved = <<before.cpu, before.memory>>
  /\ changed /\ set_ok

\* At most the priority and the scheduling class were moved, each only to
\* where this policy wants it.
Moved ==
  /\ ~changed => thread = before
  /\ system \in Windows =>
       \/ thread = before
       \/ before.cpu > Target /\ thread = [before EXCEPT !.cpu = Target]
  /\ system = "posix" =>
       /\ thread.nice = before.nice \/ (before.nice < Target /\ thread.nice = Target)
       /\ thread.scheduler = before.scheduler
            \/ (before.scheduler = "other" /\ thread.scheduler = "batch")
  /\ system = "macos" =>
       \/ thread = before
       \/ (before.qos = 0 \/ before.qos > Target) /\ thread = [qos |-> Target, relative |-> 0]

PhaseOK ==
  /\ pc # "idle" => Asked
  /\ pc = "query_before" => Untouched /\ ~fallback /\ step_count = 0
  /\ pc = "begin" => /\ system = "windows" /\ Low /\ before.cpu >= LOWEST
                     /\ Untouched /\ step_count <= 1
  /\ pc = "set_memory" => Owned /\ step_count <= 2
  /\ pc \in {"query_background", "end"} => Owned /\ step_count <= 3
  /\ pc = "query_abandoned" => Owned /\ step_count <= 4
  /\ pc = "inherited" => /\ system \in Windows /\ Low /\ before.cpu < LOWEST
                         /\ Untouched /\ step_count <= 1
  /\ pc = "set" => /\ Untouched
                   /\ step_count <= IF system = "posix" THEN 2 ELSE 4
                   /\ system \in Windows /\ Low => before.cpu >= LOWEST /\ fallback
  /\ pc = "set_scheduler" => /\ system = "posix" /\ Low /\ Moved /\ step_count <= 3
                             /\ thread.scheduler = before.scheduler
  /\ pc = "query_after" => /\ Moved
                           /\ step_count <= IF system = "posix" THEN 4 ELSE 5
                           /\ system \in Windows /\ Low => fallback

IInv == TypeOK /\ PhaseOK /\ OutcomeIsTrue /\ HostPolicyKept

-----------------------------------------------------------------------------
LEMMA Initially == Init => IInv
<1> SUFFICES ASSUME Init PROVE IInv
  OBVIOUS
<1> USE PolicyAssumption DEF Init, Systems, Windows
<1>1. IsThread(thread)
  <2>1. CASE system \in Windows
    <3>1. PICK c \in Priorities, m \in {2, 5}, b \in BOOLEAN : thread = WindowsThread(c, m, b)
      <4>1. CASE system = "windows"
        BY <4>1 DEF HostThreads
      <4>2. CASE system = "windows7"
        <5>1. HostThreads["windows7"] = {WindowsThread(c, 5, FALSE) : c \in Priorities}
          BY DEF HostThreads
        <5>2. PICK c \in Priorities : thread = WindowsThread(c, 5, FALSE)
          BY <4>2, <5>1
        <5> QED BY <5>2
      <4> QED BY <2>1, <4>1, <4>2
    <3>2. c \in Int /\ m \in Int /\ <<0, 5>> \in Int \X Int
      OBVIOUS
    <3> QED BY <2>1, <3>1, <3>2 DEF IsThread, WindowsThread, WindowsState
  <2>3. CASE system = "posix"
    BY <2>3 DEF IsThread, HostThreads, PosixState
  <2>4. CASE system = "macos"
    BY <2>4 DEF IsThread, HostThreads, MacosState, BACKGROUND, UTILITY
  <2> QED BY <2>1, <2>3, <2>4
<1>2. TypeOK
  BY <1>1 DEF TypeOK, IsThread
<1>3. PhaseOK /\ OutcomeIsTrue /\ HostPolicyKept
  BY DEF PhaseOK, OutcomeIsTrue, HostPolicyKept
<1> QED BY <1>2, <1>3 DEF IInv

\* While a request is under way the two properties say nothing.
LEMMA Underway ==
  ASSUME TypeOK', PhaseOK', pc' # "idle"
  PROVE  IInv'
BY DEF IInv, OutcomeIsTrue, HostPolicyKept

LEMMA ApplyKeeps ==
  ASSUME IInv, NEW p \in {"invalid", "normal", "below_normal", "low"}, Apply(p)
  PROVE  IInv'
<1> USE PolicyAssumption DEF IInv, Apply, Report
<1>1. TypeOK'
  BY DEF TypeOK, IsThread
<1>2. PhaseOK'
  BY DEF PhaseOK, Asked, Untouched, TypeOK
<1>3. OutcomeIsTrue' /\ HostPolicyKept'
  BY DEF OutcomeIsTrue, HostPolicyKept, TypeOK, IsThread, WindowsState, PosixState, MacosState
<1> QED BY <1>1, <1>2, <1>3

LEMMA QueryBeforeKeeps ==
  ASSUME IInv, QueryBefore
  PROVE  IInv'
<1> USE DEF IInv
<1>1. pc = "query_before" /\ Untouched /\ ~fallback /\ step_count = 0 /\ Asked /\ IsThread(thread)
  BY DEF QueryBefore, PhaseOK, TypeOK
<1>2. CASE pc' = "idle"
  <2>1. thread = before /\ outcome' = "failed" /\ step_count' \in {1, 2} /\ UNCHANGED <<system, thread, before>>
    BY <1>1, <1>2 DEF QueryBefore, Report, AddSteps, QueriesBefore, AfterQuery, Untouched
  <2>2. TypeOK' /\ PhaseOK'
    BY <1>2, <2>1 DEF QueryBefore, TypeOK, IsThread, PhaseOK, Report, AfterQuery
  <2>3. OutcomeIsTrue' /\ HostPolicyKept'
    BY <1>1, <2>1, PolicyAssumption
       DEF OutcomeIsTrue, HostPolicyKept, IsThread, WindowsState, PosixState, MacosState
  <2> QED BY <2>2, <2>3
<1>3. CASE pc' # "idle"
  <2>1. /\ pc' = AfterQuery /\ fallback' = Unsupported
        /\ AddSteps(QueriesBefore + IF Unsupported THEN 1 ELSE 0)
        /\ UNCHANGED <<system, thread, policy, before, changed, set_ok, scheduler_ok>>
    BY <1>1, <1>3 DEF QueryBefore, Report
  <2>2. step_count' \in Nat /\ step_count' <= 2 /\ (pc' # "set" => step_count' <= 1)
    BY <1>1, <2>1 DEF AddSteps, AfterQuery, QueriesBefore, Unsupported, Windows, InheritsLower
  <2>3. pc' \in {"begin", "inherited", "set"}
    BY <2>1 DEF AfterQuery
  <2>4. TypeOK'
    BY <2>1, <2>2, <2>3 DEF TypeOK, IsThread, Unsupported
  <2>5. /\ pc' = "begin" => system = "windows" /\ Low /\ ~(before.cpu < LOWEST)
        /\ pc' = "inherited" => system \in Windows /\ Low /\ before.cpu < LOWEST
        /\ pc' = "set" /\ system \in Windows /\ Low => ~(before.cpu < LOWEST) /\ Unsupported
    BY <1>1, <2>1 DEF AfterQuery, InheritsLower, Windows, Unsupported
  <2>6. system \in Windows => before.cpu \in Int
    BY DEF TypeOK, IsThread, WindowsState
  <2>7. PhaseOK'
    BY <1>1, <2>1, <2>2, <2>3, <2>5, <2>6 DEF PhaseOK, Asked, Untouched, Low, Windows, LOWEST
  <2> QED BY <1>3, <2>4, <2>7, Underway
<1> QED BY <1>2, <1>3

LEMMA BeginBackgroundKeeps ==
  ASSUME IInv, BeginBackground
  PROVE  IInv'
<1> USE DEF IInv
<1>1. /\ system = "windows" /\ Low /\ ~(before.cpu < LOWEST) /\ Untouched /\ step_count <= 1
      /\ step_count \in Nat /\ Asked /\ IsThread(thread) /\ TypeOK /\ before.cpu \in Int
  BY DEF BeginBackground, PhaseOK, TypeOK, IsThread, WindowsState, Windows, LOWEST
<1>2. /\ UNCHANGED <<system, policy, before, set_ok, scheduler_ok, outcome>>
      /\ step_count' \in Nat /\ step_count' <= 2
  BY <1>1 DEF BeginBackground, AddSteps
<1>3. CASE pc' = "set_memory"
  <2>1. PICK cpu \in Priorities :
          /\ ~thread.background /\ changed' = TRUE /\ UNCHANGED fallback
          /\ thread' = [cpu |-> cpu, memory |-> 1, background |-> TRUE,
                        saved |-> <<thread.cpu, thread.memory>>]
    BY <1>3 DEF BeginBackground, AfterBegin
  <2>2. thread'.background /\ thread'.saved = <<thread.cpu, thread.memory>>
    BY <2>1
  <2>3. thread' \in WindowsState
    BY <1>1, <2>1, PolicyAssumption DEF IsThread, WindowsState, Windows
  <2>4. TypeOK'
    BY <1>1, <1>2, <1>3, <2>1, <2>2, <2>3 DEF TypeOK, IsThread, Windows
  <2>5. PhaseOK'
    BY <1>1, <1>2, <1>3, <2>1, <2>2 DEF PhaseOK, Owned, Untouched, Asked, Low, LOWEST
  <2> QED BY <1>3, <2>4, <2>5, Underway
<1>4. CASE pc' = "set"
  <2>1. UNCHANGED <<thread, changed>> /\ fallback' = TRUE
    BY <1>4 DEF BeginBackground, AfterBegin
  <2>2. TypeOK'
    BY <1>1, <1>2, <1>4, <2>1 DEF TypeOK, IsThread
  <2>3. PhaseOK'
    BY <1>1, <1>2, <1>4, <2>1 DEF PhaseOK, Untouched, Asked, Low, LOWEST
  <2> QED BY <1>4, <2>2, <2>3, Underway
<1> QED BY <1>3, <1>4 DEF BeginBackground, AfterBegin

LEMMA SetMemoryKeeps ==
  ASSUME IInv, SetMemory
  PROVE  IInv'
<1> USE DEF IInv
<1>1. Owned /\ step_count <= 2 /\ step_count \in Nat /\ Asked /\ IsThread(thread) /\ TypeOK
  BY DEF SetMemory, PhaseOK, TypeOK
<1>2. /\ UNCHANGED <<system, policy, before, changed, set_ok, scheduler_ok, fallback, outcome>>
      /\ thread' \in {thread, [thread EXCEPT !.memory = 5]}
      /\ pc' \in {"query_background", "end"}
      /\ step_count' \in Nat /\ step_count' <= 3
  BY <1>1 DEF SetMemory, AddSteps
<1>3. thread \in WindowsState /\ system = "windows"
  BY <1>1 DEF IsThread, Owned, Windows
<1>4. /\ thread' \in WindowsState
      /\ thread'.background = thread.background /\ thread'.saved = thread.saved
  BY <1>2, <1>3 DEF WindowsState
<1>5. TypeOK'
  BY <1>1, <1>2, <1>3, <1>4 DEF TypeOK, IsThread
<1>6. PhaseOK'
  BY <1>1, <1>2, <1>4 DEF PhaseOK, Owned, Asked, Low
<1> QED BY <1>2, <1>5, <1>6, Underway

LEMMA EndBackgroundKeeps ==
  ASSUME IInv, EndBackground
  PROVE  IInv'
<1> USE DEF IInv
<1>1. Owned /\ step_count <= 3 /\ step_count \in Nat /\ Asked /\ TypeOK
  BY DEF EndBackground, PhaseOK, TypeOK
<1>2. /\ UNCHANGED <<system, policy, before, set_ok, scheduler_ok, outcome>>
      /\ step_count' \in Nat /\ step_count' <= 4
  BY <1>1 DEF EndBackground, AddSteps
<1>3. before \in WindowsState /\ before.saved = <<0, 5>> /\ ~before.background
  BY <1>1 DEF TypeOK, IsThread, Owned, Windows
<1>4. CASE pc' = "set"
  <2>1. /\ changed' = FALSE /\ fallback' = TRUE
        /\ thread' = [cpu |-> thread.saved[1], memory |-> thread.saved[2],
                      background |-> FALSE, saved |-> <<0, 5>>]
    BY <1>4 DEF EndBackground
  <2>2. thread.saved[1] = before.cpu /\ thread.saved[2] = before.memory
    BY <1>1 DEF Owned
  <2>3. thread' = before
    BY <1>3, <2>1, <2>2 DEF WindowsState
  <2>4. TypeOK'
    BY <1>1, <1>2, <1>4, <2>1, <2>3 DEF TypeOK, IsThread
  <2>5. PhaseOK'
    BY <1>1, <1>2, <1>4, <2>1, <2>3 DEF PhaseOK, Owned, Untouched, Asked, Low
  <2> QED BY <1>4, <2>4, <2>5, Underway
<1>5. CASE pc' = "query_abandoned"
  <2>1. UNCHANGED <<thread, changed, fallback>>
    BY <1>5 DEF EndBackground
  <2>2. TypeOK' /\ PhaseOK'
    BY <1>1, <1>2, <1>5, <2>1 DEF TypeOK, IsThread, PhaseOK, Owned, Asked, Low
  <2> QED BY <1>5, <2>2, Underway
<1> QED BY <1>4, <1>5 DEF EndBackground

LEMMA TargetIsInt == system \in Systems => Target \in Int
BY DEF Target, Systems, Windows, BELOW_NORMAL, LOWEST, UTILITY, BACKGROUND

\* A thread that was to be moved, and was, is a thread and Moved.
LEMMA SetToMoves ==
  ASSUME TypeOK, Untouched, ToBeSet, NEW t, t \in {thread, SetTo}
  PROVE  /\ IsThread(t)
         /\ system \in Windows => t = before \/ (before.cpu > Target /\ t = [before EXCEPT !.cpu = Target])
         /\ system = "posix" => /\ t.nice = before.nice \/ (before.nice < Target /\ t.nice = Target)
                               /\ t.scheduler = before.scheduler
         /\ system = "macos" => \/ t = before
                               \/ /\ before.qos = 0 \/ before.qos > Target
                                  /\ t = [qos |-> Target, relative |-> 0]
<1>1. thread = before /\ IsThread(before) /\ Target \in Int
  BY TargetIsInt DEF TypeOK, Untouched
<1>2. CASE system \in Windows
  <2>1. before.cpu > Target /\ SetTo = [before EXCEPT !.cpu = Target]
    BY <1>1, <1>2 DEF ToBeSet, SetTo, Windows
  <2>2. before \in WindowsState
    BY <1>1, <1>2 DEF IsThread
  <2>3. SetTo \in WindowsState /\ SetTo.background = before.background /\ SetTo.saved = before.saved
    BY <1>1, <2>1, <2>2 DEF WindowsState
  <2> QED BY <1>1, <1>2, <2>1, <2>3 DEF IsThread, Windows
<1>3. CASE system = "posix"
  <2>1. before.nice < Target /\ SetTo = [before EXCEPT !.nice = Target] /\ before \in PosixState
    BY <1>1, <1>3 DEF ToBeSet, SetTo, Windows, IsThread
  <2>2. SetTo \in PosixState /\ SetTo.nice = Target /\ SetTo.scheduler = before.scheduler
    BY <1>1, <2>1 DEF PosixState
  <2> QED BY <1>1, <1>3, <2>1, <2>2 DEF IsThread, Windows
<1>4. CASE system = "macos"
  <2>1. /\ before.qos = 0 \/ before.qos > Target
        /\ SetTo = [qos |-> Target, relative |-> 0]
    BY <1>1, <1>4 DEF ToBeSet, SetTo, Windows
  <2> QED BY <1>1, <1>4, <2>1 DEF IsThread, MacosState, Windows
<1> QED BY <1>2, <1>3, <1>4 DEF TypeOK, Systems, Windows

LEMMA SetPriorityKeeps ==
  ASSUME IInv, SetPriority
  PROVE  IInv'
<1> USE DEF IInv
<1>1. /\ Untouched /\ Asked /\ TypeOK /\ step_count <= (IF system = "posix" THEN 2 ELSE 4)
      /\ system \in Windows /\ Low => fallback
  BY DEF SetPriority, PhaseOK
<1>2. /\ UNCHANGED <<system, policy, before, scheduler_ok, fallback, outcome>>
      /\ step_count' \in Nat /\ step_count' <= (IF system = "posix" THEN 3 ELSE 5)
      /\ pc' = AfterSet
  BY <1>1 DEF SetPriority, AddSteps, TypeOK
<1>3. Target' = Target
  BY <1>2 DEF Target
<1>4. {changed', set_ok'} \subseteq BOOLEAN
  BY <1>1 DEF SetPriority, TypeOK
<1>5. IsThread(thread)' /\ IsThread(before)' /\ Moved' /\ (system = "posix" => thread'.scheduler = before.scheduler)
  <2>1. CASE ToBeSet /\ thread' \in {thread, SetTo} /\ changed' = TRUE
    BY <1>1, <1>2, <1>3, <2>1, SetToMoves DEF Moved, IsThread, TypeOK
  <2>2. CASE UNCHANGED thread
    BY <1>1, <1>2, <2>2 DEF Moved, IsThread, TypeOK, Untouched
  <2> QED BY <2>1, <2>2 DEF SetPriority
<1>6. pc' \in {"set_scheduler", "query_after"} /\ (pc' = "set_scheduler" => system = "posix" /\ Low)
  BY <1>2 DEF AfterSet
<1>7. TypeOK'
  BY <1>1, <1>2, <1>4, <1>5, <1>6 DEF TypeOK
<1>8. PhaseOK'
  BY <1>1, <1>2, <1>5, <1>6 DEF PhaseOK, Asked, Low
<1> QED BY <1>6, <1>7, <1>8, Underway

LEMMA SetSchedulerKeeps ==
  ASSUME IInv, SetScheduler
  PROVE  IInv'
<1> USE DEF IInv
<1>1. /\ system = "posix" /\ Low /\ Moved /\ Asked /\ TypeOK /\ step_count <= 3
      /\ thread.scheduler = before.scheduler
  BY DEF SetScheduler, PhaseOK
<1>2. /\ UNCHANGED <<system, policy, before, set_ok, fallback, outcome>>
      /\ step_count' \in Nat /\ step_count' <= 4
      /\ pc' = "query_after"
  BY <1>1 DEF SetScheduler, AddSteps, TypeOK
<1>3. Target' = Target
  BY <1>2 DEF Target
<1>4. {changed', scheduler_ok'} \subseteq BOOLEAN
  <2>1. {changed, scheduler_ok} \subseteq BOOLEAN
    BY <1>1 DEF TypeOK
  <2>2. changed' \in BOOLEAN
    BY <2>1 DEF SetScheduler
  <2>3. CASE MayMove
    BY <2>1, <2>2, <2>3 DEF SetScheduler
  <2>4. CASE ~MayMove
    <3>1. scheduler_ok' = (before.scheduler \in Demoted)
      BY <2>4 DEF SetScheduler
    <3>2. scheduler_ok' \in BOOLEAN
      <4>1. CASE before.scheduler \in Demoted
        BY <3>1, <4>1
      <4>2. CASE before.scheduler \notin Demoted
        BY <3>1, <4>2
      <4> QED BY <4>1, <4>2
    <3> QED BY <2>2, <3>2
  <2> QED BY <2>3, <2>4
<1>5. thread \in PosixState /\ before \in PosixState
  BY <1>1 DEF TypeOK, IsThread
<1>6. \/ UNCHANGED <<thread, changed>>
      \/ /\ before.scheduler = "other" /\ changed' = TRUE
         /\ thread' \in {thread, [thread EXCEPT !.scheduler = "batch"]}
  BY DEF SetScheduler, MayMove
<1>7. /\ thread' \in PosixState
      /\ thread'.nice = thread.nice
      /\ thread'.scheduler = before.scheduler
           \/ (before.scheduler = "other" /\ thread'.scheduler = "batch")
  BY <1>1, <1>5, <1>6 DEF PosixState
<1>8. TypeOK'
  BY <1>1, <1>2, <1>4, <1>5, <1>7 DEF TypeOK, IsThread, Windows
<1>9. Moved'
  BY <1>1, <1>2, <1>3, <1>6, <1>7 DEF Moved, Windows
<1>10. PhaseOK'
  BY <1>1, <1>2, <1>9 DEF PhaseOK, Asked, Windows
<1> QED BY <1>2, <1>8, <1>10, Underway

LEMMA QueryAfterKeeps ==
  ASSUME IInv, QueryAfter
  PROVE  IInv'
<1> USE DEF IInv
<1>1. /\ UNCHANGED <<system, thread, policy, before, changed, set_ok, scheduler_ok, fallback>>
      /\ pc' = "idle" /\ TypeOK /\ Asked
      /\ pc \in {"query_after", "query_background", "query_abandoned", "inherited"}
  BY DEF QueryAfter, Report, PhaseOK
<1>2. Target' = Target /\ LowEnough' = LowEnough
  BY <1>1 DEF Target, LowEnough
<1>3. Target \in Int
  BY <1>1, TargetIsInt DEF TypeOK
<1>4. step_count' \in Nat /\ step_count' <= 6
  <2>1. /\ step_count \in Nat
        /\ step_count' = step_count + (IF pc = "inherited" THEN IF ReadsMemory THEN 4 ELSE 3
                                       ELSE IF ReadsMemory \/ system = "posix" THEN 2 ELSE 1)
    BY <1>1 DEF QueryAfter, AddSteps, TypeOK
  <2>2. CASE pc = "query_after"
    BY <2>1, <2>2 DEF PhaseOK, ReadsMemory
  <2>3. CASE pc \in {"query_background", "query_abandoned"}
    BY <2>1, <2>3 DEF PhaseOK
  <2>4. CASE pc = "inherited"
    BY <2>1, <2>4 DEF PhaseOK
  <2> QED BY <1>1, <2>2, <2>3, <2>4
<1>5. TypeOK'
  BY <1>1, <1>4 DEF TypeOK, IsThread
<1>6. PhaseOK'
  BY <1>1 DEF PhaseOK
<1>7. system \in Windows => thread.cpu \in Int /\ before.cpu \in Int
  BY <1>1 DEF TypeOK, IsThread, WindowsState
<1>8. system = "posix" => thread.nice \in Int /\ before.nice \in Int
  BY <1>1 DEF TypeOK, IsThread, PosixState
<1>9. system = "macos" => thread.qos \in Int /\ before.qos \in Int
  BY <1>1 DEF TypeOK, IsThread, MacosState
<1>10. CASE pc = "query_after"
  <2>1. Moved
    BY <1>10 DEF PhaseOK
  <2>2. PICK ok \in BOOLEAN : outcome' = Verdict(ok)
    BY <1>10 DEF QueryAfter, Report
  <2>3. /\ outcome' \in {"applied", "degraded", "partial", "failed"}
        /\ outcome' = "failed" => ~changed
        /\ outcome' \in {"applied", "degraded"} => LowEnough
        /\ outcome' = "applied" => ~FellShort
    BY <2>2 DEF Verdict, Unlucky
  <2>4. outcome' = "failed" => thread = before
    BY <2>1, <2>3 DEF Moved
  <2>5. outcome' = "applied" /\ system = "posix" /\ Low => thread.scheduler \in Demoted
    BY <2>3 DEF FellShort, Windows
  <2>6. outcome' = "applied" /\ system = "macos" => thread.qos = Target /\ thread.relative = 0
    BY <2>3 DEF FellShort, Windows
  <2>7. outcome' = "applied" => ~(Low /\ system \in Windows)
    BY <2>3, <1>10 DEF FellShort, PhaseOK, Windows
  <2>8. OutcomeIsTrue'
    BY <1>1, <1>2, <1>4, <2>3, <2>4, <2>5, <2>6, <2>7, PolicyAssumption DEF OutcomeIsTrue, Low
  <2>9. ASSUME system \in Windows
         PROVE  /\ before.background => thread.background
                /\ before.cpu <= LOWEST => thread = before
    <3>1. Target >= LOWEST /\ before \in WindowsState
      BY <1>1, <2>9 DEF Target, BELOW_NORMAL, LOWEST, TypeOK, IsThread, Windows
    <3>2. before.cpu <= LOWEST => ~(before.cpu > Target)
      BY <1>3, <1>7, <2>9, <3>1 DEF LOWEST
    <3> QED BY <2>1, <2>9, <3>1, <3>2 DEF Moved, WindowsState
  <2>10. system = "posix" => /\ thread.nice >= before.nice
                             /\ before.scheduler # "other" => thread.scheduler = before.scheduler
    BY <1>3, <1>8, <2>1 DEF Moved
  <2>11. system = "macos" /\ before.qos # 0 => thread.qos <= before.qos
    BY <1>3, <1>9, <2>1 DEF Moved
  <2>12. HostPolicyKept'
    BY <1>1, <1>7, <2>9, <2>10, <2>11 DEF HostPolicyKept, LOWEST
  <2> QED BY <1>5, <1>6, <2>8, <2>12
<1>11. CASE pc = "query_background"
  <2>1. Owned
    BY <1>11 DEF PhaseOK
  <2>2. PICK ok \in BOOLEAN : outcome' = BackgroundVerdict(ok)
    BY <1>11 DEF QueryAfter, Report
  <2>3. /\ outcome' \in {"applied", "partial"}
        /\ outcome' = "applied" => thread.cpu <= before.cpu /\ thread.memory = 5
    BY <2>2 DEF BackgroundVerdict
  <2>4. OutcomeIsTrue'
    BY <1>1, <1>4, <2>1, <2>3, PolicyAssumption DEF OutcomeIsTrue, Owned, Low, Windows
  <2>5. HostPolicyKept'
    BY <1>1, <1>7, <2>1, <2>3 DEF HostPolicyKept, Owned, Windows, LOWEST
  <2> QED BY <1>5, <1>6, <2>4, <2>5
<1>12. CASE pc = "query_abandoned"
  <2>1. Owned /\ outcome' = "partial"
    BY <1>12 DEF PhaseOK, QueryAfter, Report
  <2>2. OutcomeIsTrue'
    BY <1>1, <1>4, <2>1, PolicyAssumption DEF OutcomeIsTrue
  <2>3. HostPolicyKept'
    BY <1>1, <1>7, <2>1 DEF HostPolicyKept, Owned, Windows, LOWEST
  <2> QED BY <1>5, <1>6, <2>2, <2>3
<1>13. CASE pc = "inherited"
  <2>1. system \in Windows /\ Low /\ before.cpu < LOWEST /\ thread = before
    BY <1>13 DEF PhaseOK, Untouched
  <2>2. outcome' \in {"degraded", "failed"}
    BY <1>13 DEF QueryAfter, Report
  <2>3. LowEnough
    <3>1. Target = LOWEST
      BY <2>1 DEF Target, Low, Windows
    <3>2. thread.cpu <= Target
      BY <1>7, <2>1, <3>1 DEF LOWEST
    <3> QED BY <2>1, <3>2 DEF LowEnough, Windows
  <2>4. OutcomeIsTrue'
    BY <1>1, <1>2, <1>4, <2>1, <2>2, <2>3, PolicyAssumption DEF OutcomeIsTrue, Windows
  <2>5. HostPolicyKept'
    BY <1>1, <1>7, <2>1, <2>2 DEF HostPolicyKept, Windows, LOWEST
  <2> QED BY <1>5, <1>6, <2>4, <2>5
<1> QED BY <1>1, <1>10, <1>11, <1>12, <1>13

-----------------------------------------------------------------------------
\* The strengthened invariant of every behaviour.
THEOREM Invariance == Spec => []IInv
<1>1. IInv /\ [Next]_vars => IInv'
  <2> SUFFICES ASSUME IInv, [Next]_vars PROVE IInv'
    OBVIOUS
  <2>1. CASE UNCHANGED vars
    <3>1. /\ UNCHANGED <<system, thread, pc, policy, before, changed, set_ok, scheduler_ok,
                         fallback, outcome, step_count>>
          /\ Low' = Low /\ Target' = Target
      BY <2>1 DEF vars, Low, Target
    <3>2. LowEnough' = LowEnough
      BY <3>1 DEF LowEnough
    <3>3. TypeOK' /\ OutcomeIsTrue' /\ HostPolicyKept'
      BY <3>1, <3>2 DEF IInv, TypeOK, IsThread, OutcomeIsTrue, HostPolicyKept
    <3>4. Moved' = Moved /\ Owned' = Owned /\ Untouched' = Untouched /\ Asked' = Asked
      BY <3>1 DEF Moved, Owned, Untouched, Asked
    <3>5. PhaseOK'
      BY <3>1, <3>4 DEF IInv, PhaseOK
    <3> QED BY <3>3, <3>5 DEF IInv
  <2>2. CASE Next
    BY <2>2, ApplyKeeps, QueryBeforeKeeps, BeginBackgroundKeeps, SetMemoryKeeps, EndBackgroundKeeps,
       SetPriorityKeeps, SetSchedulerKeeps, QueryAfterKeeps DEF Next
  <2> QED BY <2>1, <2>2
<1> QED BY <1>1, Initially, PTL DEF Spec

\* Whatever the thread's priority was, and whichever call failed or did
\* nothing: what nApplyThreadPolicy reports is true and fits its report.
THEOREM OutcomeTrue == Spec => []OutcomeIsTrue
<1>1. IInv => OutcomeIsTrue
  BY DEF IInv
<1> QED BY <1>1, Invariance, PTL

\* No request undoes what the host had arranged for the thread.
THEOREM HostKept == Spec => []HostPolicyKept
<1>1. IInv => HostPolicyKept
  BY DEF IInv
<1> QED BY <1>1, Invariance, PTL

=============================================================================
