-------------------------- MODULE BakedModelProofs --------------------------
(***************************************************************************)
(* Proofs about BakedModel, for all geometry models, options and widths    *)
(* and for all cache files.                                                *)
(*                                                                         *)
(*   The hierarchy.  Preorder speaks of ancestors, Nested of a bone and    *)
(*   those behind it: PreorderIsNested.  WalkInv is what the traversal     *)
(*   keeps of the list, the open bones and the children still to visit;    *)
(*   HierarchyBuilt follows when the walk has ended, whether or not every  *)
(*   bone was reached.  HierarchyCheckIsExact is about the reader's check, *)
(*   which sees no ancestors, only the path of open bones.                 *)
(*                                                                         *)
(*   The caches.  HeldOfModel: a span finds its own piece of a flattened   *)
(*   sequence, in either order of bones and kinds.                         *)
(*                                                                         *)
(*   The bake.  Adds is what adding a cube does to the groups, in either   *)
(*   of its two cases; HoldsExactly says where the quads added so far are, *)
(*   and that they are nowhere else.  QuadsBakedOnce follows when all      *)
(*   bones have been added.                                                *)
(*                                                                         *)
(*   The file.  CacheIsExact combines the three.                           *)
(***************************************************************************)
EXTENDS BakedModel, TaskRangeProofs, FiniteSetTheorems, FunctionTheorems, SequenceTheorems

LEMMA LeastIsMin ==
  ASSUME NEW S \in SUBSET Nat, S # {}
  PROVE  Min(S) \in S /\ \A y \in S : Min(S) <= y
BY LeastNat DEF Min

-----------------------------------------------------------------------------
(* Ancestors.                                                              *)

\* p gives each of D another of D or none.
Parents(p, D) == DOMAIN p = D /\ 0 \notin D /\ \A i \in D : p[i] \in D \cup {0}

LEMMA AboveWithin ==
  ASSUME NEW D, NEW p, Parents(p, D), NEW i \in D, NEW S \in SUBSET D, Upwards(p, S),
         p[i] \in S \cup {0}
  PROVE  Above(p)[i] \subseteq S
BY DEF Above, Parents

LEMMA AboveStep ==
  ASSUME NEW D, NEW p, Parents(p, D), NEW i \in D
  PROVE  Above(p)[i] = IF p[i] = 0 THEN {} ELSE {p[i]} \cup Above(p)[p[i]]
<1> DEFINE above == Above(p)
<1>1. DOMAIN p = D /\ 0 \notin D /\ p[i] \in D \cup {0}
  BY DEF Parents
<1>2. \A j \in D : above[j] = {a \in D : \A S \in SUBSET D :
                                p[j] \in S \cup {0} /\ Upwards(p, S) => a \in S}
  BY <1>1 DEF Above
<1>3. CASE p[i] = 0
  <2>1. {} \in SUBSET D /\ Upwards(p, {})
    BY DEF Upwards
  <2> QED
    BY <1>2, <1>3, <2>1
<1>4. CASE p[i] # 0
  <2>1. p[i] \in D
    BY <1>1, <1>4
  <2>2. ASSUME NEW a \in above[i], a # p[i]
        PROVE  a \in above[p[i]]
    <3>1. a \in D
      BY <1>2
    <3>2. ASSUME NEW S \in SUBSET D, p[p[i]] \in S \cup {0}, Upwards(p, S)
          PROVE  a \in S
      <4>1. S \cup {p[i]} \in SUBSET D /\ Upwards(p, S \cup {p[i]})
        BY <2>1, <3>2 DEF Upwards
      <4> QED
        BY <1>2, <2>2, <4>1
    <3> QED
      BY <1>2, <2>1, <3>1, <3>2
  <2>3. p[i] \in above[i]
    BY <1>2, <1>4, <2>1
  <2>4. ASSUME NEW a \in above[p[i]]
        PROVE  a \in above[i]
    <3>1. a \in D
      BY <1>2, <2>1
    <3>2. ASSUME NEW S \in SUBSET D, p[i] \in S \cup {0}, Upwards(p, S)
          PROVE  a \in S
      <4>1. p[p[i]] \in S \cup {0}
        BY <1>4, <3>2 DEF Upwards
      <4> QED
        BY <1>2, <2>1, <2>4, <3>2, <4>1
    <3> QED
      BY <1>2, <3>1, <3>2
  <2> QED
    BY <1>4, <2>2, <2>3, <2>4
<1> QED
  BY <1>3, <1>4

\* The same for all of D at once.
AboveBy(p, D) ==
  \A i \in D : Above(p)[i] = IF p[i] = 0 THEN {} ELSE {p[i]} \cup Above(p)[p[i]]

LEMMA AboveSteps ==
  ASSUME NEW D, NEW p, Parents(p, D)
  PROVE  AboveBy(p, D)
BY AboveStep DEF AboveBy

LEMMA AboveInDomain ==
  ASSUME NEW D, NEW p, Parents(p, D), NEW i \in D
  PROVE  Above(p)[i] \subseteq D
BY DEF Above, Parents

-----------------------------------------------------------------------------
(* Preorder, bone by bone.                                                 *)

Typed(l) ==
  /\ Len(l) \in Nat
  /\ \A i \in 1 .. Len(l) :
       l[i].parent_index \in Nat /\ l[i].subtree_end \in Nat /\ l[i].depth \in Nat

\* What a bone's own numbers say.
BoneFits(l, i) ==
  /\ l[i].subtree_end \in i .. Len(l)
  /\ l[i].parent_index < i
  /\ l[i].depth = IF l[i].parent_index = 0 THEN 0 ELSE l[l[i].parent_index].depth + 1

\* No bone of a subtree hangs above its root, none behind it hangs in it.
SubtreeFits(l, i) ==
  \A j \in i + 1 .. Len(l) :
    IF j <= l[i].subtree_end THEN i <= l[j].parent_index
    ELSE l[j].parent_index \notin i .. l[i].subtree_end

Nested(l) == \A i \in 1 .. Len(l) : BoneFits(l, i) /\ SubtreeFits(l, i)

ParentsOf(l) == [i \in 1 .. Len(l) |-> l[i].parent_index]

LEMMA ListParents ==
  ASSUME NEW l, Typed(l), \A i \in 1 .. Len(l) : l[i].parent_index < i
  PROVE  Parents(ParentsOf(l), 1 .. Len(l))
BY DEF Typed, Parents, ParentsOf

LEMMA AboveInList ==
  ASSUME NEW l, Parents(ParentsOf(l), 1 .. Len(l))
  PROVE  \A i \in 1 .. Len(l) :
           Above(ParentsOf(l))[i] =
             IF ParentsOf(l)[i] = 0 THEN {}
             ELSE {ParentsOf(l)[i]} \cup Above(ParentsOf(l))[ParentsOf(l)[i]]
<1>1. AboveBy(ParentsOf(l), 1 .. Len(l))
  BY AboveSteps
<1> QED
  BY <1>1 DEF AboveBy

\* Where parents come first, ancestors do.
LEMMA AncestorsFirst ==
  ASSUME NEW l, Typed(l), \A i \in 1 .. Len(l) : l[i].parent_index < i, NEW i \in 1 .. Len(l)
  PROVE  Above(ParentsOf(l))[i] \subseteq 1 .. i - 1
<1> DEFINE p == ParentsOf(l)
           S == 1 .. i - 1
<1>1. Parents(p, 1 .. Len(l)) /\ Len(l) \in Nat
  BY ListParents DEF Typed
<1>2. S \in SUBSET (1 .. Len(l))
  BY <1>1
<1>3. \A j \in 1 .. Len(l) : p[j] = l[j].parent_index /\ p[j] \in Nat /\ p[j] < j
  BY DEF ParentsOf, Typed
<1>4. Upwards(p, S) /\ p[i] \in S \cup {0}
  <2>1. \A j \in S : p[j] \in Nat /\ p[j] < j
    BY <1>2, <1>3
  <2>2. \A j \in S : p[j] \in S \cup {0}
    BY <2>1
  <2>3. p[i] \in Nat /\ p[i] < i
    BY <1>3
  <2> QED
    BY <2>2, <2>3 DEF Upwards
<1> HIDE DEF p, S
<1> QED
  BY <1>1, <1>2, <1>4, AboveWithin DEF p, S

\* The bones a bone is above are those up to its subtree_end.
LEMMA SubtreeIsBelow ==
  ASSUME NEW l, Typed(l), Nested(l), NEW i \in 1 .. Len(l)
  PROVE  {j \in 1 .. Len(l) : j = i \/ i \in Above(ParentsOf(l))[j]} = i .. l[i].subtree_end
<1> DEFINE p == ParentsOf(l)
           n == Len(l)
           e == l[i].subtree_end
           above == Above(p)
<1>1. /\ n \in Nat /\ i \in Nat /\ e \in i .. n
      /\ \A j \in 1 .. n : p[j] = l[j].parent_index /\ p[j] \in Nat /\ p[j] < j
      /\ \A j \in i + 1 .. n : IF j <= e THEN i <= p[j] ELSE p[j] \notin i .. e
  BY DEF Nested, BoneFits, SubtreeFits, Typed, ParentsOf
<1>2. Parents(p, 1 .. n) /\ \A j \in 1 .. n : above[j] \subseteq 1 .. j - 1
  BY ListParents, AncestorsFirst DEF Nested, BoneFits
<1> HIDE DEF p, e, n, above
<1>3. \A j \in 1 .. n : above[j] = IF p[j] = 0 THEN {} ELSE {p[j]} \cup above[p[j]]
  BY <1>2, AboveInList DEF above, p, n
<1>4. \A j \in i + 1 .. e : i \in above[j]
  <2> DEFINE T == {j \in i + 1 .. e : i \notin above[j]}
  <2> SUFFICES ASSUME T # {} PROVE FALSE
    OBVIOUS
  <2>1. T \subseteq Nat
    BY <1>1
  <2>2. PICK j \in T : \A k \in T : j <= k
    BY <2>1, LeastNat
  <2>3. j \in 1 .. n /\ j \in i + 1 .. e /\ i <= p[j] /\ p[j] < j /\ p[j] \in Nat /\ p[j] # 0
    BY <1>1
  <2>4. p[j] # i /\ i \notin above[p[j]]
    BY <1>3, <2>3
  <2>5. p[j] \in i + 1 .. e
    BY <1>1, <2>3, <2>4
  <2> QED
    BY <2>2, <2>3, <2>4, <2>5
<1>5. \A j \in e + 1 .. n : i \notin above[j]
  <2> DEFINE S == (1 .. n) \ (i .. e)
  <2>1. \A j \in S : p[j] \in S \cup {0}
    <3> SUFFICES ASSUME NEW j \in S PROVE p[j] \in S \cup {0}
      OBVIOUS
    <3>1. j \in 1 .. n /\ p[j] \in Nat /\ p[j] < j
      BY <1>1
    <3>2. p[j] \notin i .. e
      BY <1>1, <3>1
    <3> QED
      BY <1>1, <3>1, <3>2
  <2>2. ASSUME NEW j \in e + 1 .. n
        PROVE  i \notin above[j]
    <3>1. j \in S /\ j \in 1 .. n
      BY <1>1
    <3>2. S \in SUBSET (1 .. n) /\ Upwards(p, S) /\ p[j] \in S \cup {0}
      BY <2>1, <3>1 DEF Upwards
    <3> HIDE DEF S
    <3>3. above[j] \subseteq S
      BY <1>2, <3>1, <3>2, AboveWithin DEF above
    <3>4. i \notin S
      BY <1>1 DEF S
    <3> QED
      BY <3>3, <3>4
  <2> QED
    BY <2>2
<1>6. \A j \in 1 .. i - 1 : i \notin above[j]
  BY <1>1, <1>2
<1>7. {j \in 1 .. n : j = i \/ i \in above[j]} = i .. e
  BY <1>1, <1>4, <1>5, <1>6
<1> QED
  BY <1>7 DEF n, e, above, p

LEMMA OneMore ==
  ASSUME NEW S, IsFiniteSet(S), NEW x, x \notin S
  PROVE  IsFiniteSet(S \cup {x}) /\ Cardinality(S \cup {x}) = Cardinality(S) + 1
BY FS_AddElement

\* A bone's depth is the number of its ancestors.
LEMMA DepthCounts ==
  ASSUME NEW l, Typed(l), Nested(l), NEW i \in 1 .. Len(l)
  PROVE  IsFiniteSet(Above(ParentsOf(l))[i]) /\ l[i].depth = Cardinality(Above(ParentsOf(l))[i])
<1> DEFINE p == ParentsOf(l)
           n == Len(l)
           above == Above(p)
           T == {j \in 1 .. n : ~(IsFiniteSet(above[j]) /\ l[j].depth = Cardinality(above[j]))}
<1>1. /\ n \in Nat
      /\ \A j \in 1 .. n :
           /\ p[j] = l[j].parent_index /\ p[j] \in Nat /\ p[j] < j
           /\ l[j].depth = IF p[j] = 0 THEN 0 ELSE l[p[j]].depth + 1
  BY DEF Nested, BoneFits, Typed, ParentsOf
<1>2. Parents(p, 1 .. n) /\ \A j \in 1 .. n : above[j] \subseteq 1 .. j - 1
  BY ListParents, AncestorsFirst DEF Nested, BoneFits
<1>3. \A j \in 1 .. n : above[j] = IF p[j] = 0 THEN {} ELSE {p[j]} \cup above[p[j]]
  BY <1>2, AboveInList
<1> SUFFICES ASSUME T # {} PROVE FALSE
  OBVIOUS
<1>4. T \subseteq Nat
  BY <1>1
<1>5. PICK j \in T : \A k \in T : j <= k
  BY <1>4, LeastNat
<1> HIDE DEF p, above, n
<1>6. j \in 1 .. n /\ p[j] \in Nat /\ p[j] < j
  BY <1>1
<1>7. CASE p[j] = 0
  <2>1. above[j] = {} /\ l[j].depth = 0
    BY <1>1, <1>3, <1>6, <1>7
  <2> QED
    BY <2>1, FS_EmptySet
<1>8. CASE p[j] # 0
  <2>1. p[j] \in 1 .. n /\ p[j] \notin T
    BY <1>1, <1>5, <1>6, <1>8
  <2>2. IsFiniteSet(above[p[j]]) /\ l[p[j]].depth = Cardinality(above[p[j]])
    BY <2>1
  <2>3. above[p[j]] \subseteq 1 .. p[j] - 1 /\ p[j] \notin 1 .. p[j] - 1
    BY <1>2, <1>6, <2>1
  <2>4. above[j] = above[p[j]] \cup {p[j]} /\ p[j] \notin above[p[j]]
    BY <1>3, <1>6, <1>8, <2>3
  <2>5. IsFiniteSet(above[j]) /\ Cardinality(above[j]) = Cardinality(above[p[j]]) + 1
    BY <2>2, <2>4, OneMore
  <2> QED
    BY <1>1, <1>6, <1>8, <2>2, <2>5
<1> QED
  BY <1>7, <1>8

\* Preorder, said of ancestors, and Nested, said of neighbours, are the same.
LEMMA PreorderIsNested ==
  ASSUME NEW l, Typed(l)
  PROVE  Preorder(l) <=> Nested(l)
<1> DEFINE p == ParentsOf(l)
           n == Len(l)
           above == Above(p)
<1>1. Preorder(l) <=>
        \A i \in 1 .. n :
          /\ i \notin above[i]
          /\ {j \in 1 .. n : j = i \/ i \in above[j]} = i .. l[i].subtree_end
          /\ l[i].depth = Cardinality(above[i])
  BY DEF Preorder, ParentsOf
<1>2. ASSUME Nested(l) PROVE Preorder(l)
  <2>1. \A i \in 1 .. n : above[i] \subseteq 1 .. i - 1
    BY <1>2, AncestorsFirst DEF Nested, BoneFits
  <2> HIDE DEF above
  <2>2. \A i \in 1 .. n : i \notin above[i]
    BY <2>1
  <2> USE DEF above
  <2> QED
    BY <1>1, <1>2, <2>2, SubtreeIsBelow, DepthCounts
<1>3. ASSUME Preorder(l) PROVE Nested(l)
  <2>1. /\ n \in Nat
        /\ \A i \in 1 .. n : /\ p[i] = l[i].parent_index /\ p[i] \in Nat
                             /\ l[i].subtree_end \in Nat /\ l[i].depth \in Nat
    BY DEF Typed, ParentsOf
  <2>2. \A i \in 1 .. n :
          /\ i \notin above[i]
          /\ {j \in 1 .. n : j = i \/ i \in above[j]} = i .. l[i].subtree_end
          /\ l[i].depth = Cardinality(above[i])
    BY <1>1, <1>3
  <2>3. \A i \in 1 .. n : p[i] \in 0 .. n
    <3> SUFFICES ASSUME NEW i \in 1 .. n, p[i] \notin 0 .. n PROVE FALSE
      OBVIOUS
    <3>1. \A S \in SUBSET (1 .. n) : p[i] \notin S \cup {0}
      BY <2>1
    <3>2. DOMAIN p = 1 .. n
      BY DEF ParentsOf
    <3>3. i \in above[i]
      BY <3>1, <3>2 DEF Above
    <3> QED
      BY <2>2, <3>3
  <2>4. Parents(p, 1 .. n)
    BY <2>1, <2>3 DEF Parents, ParentsOf
  <2>5. \A i \in 1 .. n : above[i] = IF p[i] = 0 THEN {} ELSE {p[i]} \cup above[p[i]]
    BY <2>4, AboveInList
  <2> HIDE DEF above, p, n
  <2>6. ASSUME NEW i \in 1 .. n
        PROVE  l[i].subtree_end \in i .. n
    <3>1. i \in i .. l[i].subtree_end
      BY <2>2
    <3>2. l[i].subtree_end \in i .. l[i].subtree_end
      BY <2>1, <3>1
    <3> QED
      BY <2>2, <3>1, <3>2
  <2>7. ASSUME NEW i \in 1 .. n, p[i] # 0
        PROVE  p[i] \in 1 .. n /\ p[i] < i /\ p[i] \in above[i]
    <3>1. p[i] \in 1 .. n
      BY <2>1, <2>3, <2>7
    <3>2. p[i] \in above[i]
      BY <2>5, <2>7
    <3>3. i \in p[i] .. l[p[i]].subtree_end
      BY <2>2, <3>1, <3>2
    <3>4. p[i] # i
      BY <2>2, <3>2
    <3> QED
      BY <2>1, <3>1, <3>2, <3>3, <3>4
  <2>8. ASSUME NEW i \in 1 .. n
        PROVE  p[i] < i
    BY <2>1, <2>7
  <2>9. Parents(ParentsOf(l), 1 .. Len(l)) /\ \A i \in 1 .. n : above[i] \subseteq 1 .. i - 1
    BY <2>4, <2>8, <2>1, AncestorsFirst DEF above, p, n
  <2>10. ASSUME NEW i \in 1 .. n
         PROVE  l[i].depth = IF p[i] = 0 THEN 0 ELSE l[p[i]].depth + 1
    <3>1. CASE p[i] = 0
      BY <2>2, <2>5, <3>1, FS_EmptySet
    <3>2. CASE p[i] # 0
      <4>1. p[i] \in 1 .. n
        BY <2>7, <3>2
      <4>2. above[p[i]] \subseteq 1 .. p[i] - 1
        BY <2>9, <4>1
      <4>3. IsFiniteSet(above[p[i]])
        <5>1. p[i] - 1 \in Int /\ IsFiniteSet(1 .. p[i] - 1)
          BY <2>1, FS_Interval
        <5> QED
          BY <4>2, <5>1, FS_Subset
      <4>4. p[i] \notin above[p[i]] /\ above[i] = above[p[i]] \cup {p[i]}
        BY <2>2, <2>5, <3>2, <4>1
      <4>5. Cardinality(above[i]) = Cardinality(above[p[i]]) + 1
        BY <4>3, <4>4, OneMore
      <4> QED
        BY <2>2, <3>2, <4>1, <4>5
    <3> QED
      BY <3>1, <3>2
  <2>11. ASSUME NEW i \in 1 .. n, NEW j \in i + 1 .. n
         PROVE  IF j <= l[i].subtree_end THEN i <= p[j] ELSE p[j] \notin i .. l[i].subtree_end
    <3>1. j \in 1 .. n /\ i \in Nat /\ j \in Nat /\ p[j] \in Nat /\ l[i].subtree_end \in Nat
      BY <2>1
    <3>2. CASE j <= l[i].subtree_end
      <4>1. i \in above[j]
        <5>1. j \in i .. l[i].subtree_end /\ j # i
          BY <3>1, <3>2
        <5> QED
          BY <2>2, <5>1
      <4>2. p[j] # 0 /\ p[j] \in 1 .. n /\ (p[j] = i \/ i \in above[p[j]])
        BY <2>5, <2>7, <3>1, <4>1
      <4>3. p[j] \in i .. l[i].subtree_end
        BY <2>2, <4>2
      <4> QED
        BY <3>1, <3>2, <4>3
    <3>3. CASE ~(j <= l[i].subtree_end)
      <4> SUFFICES ASSUME p[j] \in i .. l[i].subtree_end PROVE FALSE
        BY <3>3
      <4>1. p[j] # 0
        BY <3>1
      <4>2. p[j] \in 1 .. n
        BY <2>7, <3>1, <4>1
      <4>3. p[j] = i \/ i \in above[p[j]]
        BY <2>2, <4>2
      <4>4. i \in above[j]
        BY <2>5, <3>1, <4>1, <4>3
      <4>5. j \in i .. l[i].subtree_end
        BY <2>2, <3>1, <4>4
      <4> QED
        BY <3>1, <3>3, <4>5
    <3> QED
      BY <3>2, <3>3
  <2>12. \A i \in 1 .. n : p[i] = l[i].parent_index
    BY <2>1
  <2> QED
    BY <2>6, <2>8, <2>10, <2>11, <2>12 DEF Nested, BoneFits, SubtreeFits, n
<1> QED
  BY <1>2, <1>3

-----------------------------------------------------------------------------
(* The traversal of BuildBoneHierarchy.                                    *)

Accepted == Prepared /\ Named

\* The bones that are listed and not left yet.
Open == {stack[k].sorted : k \in 1 .. Len(stack)}

Frames  == [original : Bones, sorted : 1 .. Len(list), rest : SUBSET Bones]
ListOK ==
  /\ list \in Seq([parent_index : Nat, subtree_end : Nat, depth : Nat])
  /\ sorted_bone_indices \in Seq(Bones)
  /\ Len(sorted_bone_indices) = Len(list)
  /\ visit_state \in [Bones -> {0, 1, 2}]
  /\ stack \in Seq(Frames)
  /\ roots \in SUBSET Roots

\* The bones that were visited are listed, each once.
Visited(b) == visit_state[b] # 0
VisitedAreListed ==
  /\ \A i, j \in 1 .. Len(list) : sorted_bone_indices[i] = sorted_bone_indices[j] => i = j
  /\ \A b \in Bones : Visited(b) <=> \E i \in 1 .. Len(list) : sorted_bone_indices[i] = b

StackOK ==
  /\ \A j, k \in 1 .. Len(stack) : j < k => stack[j].sorted < stack[k].sorted
  /\ \A k \in 1 .. Len(stack) :
       /\ stack[k].original = sorted_bone_indices[stack[k].sorted]
       /\ stack[k].rest \subseteq Children(stack[k].original)

\* A listed bone hangs below the one it hangs below in the source.
ParentsKept ==
  \A i \in 1 .. Len(list) :
    /\ list[i].parent_index < i
    /\ list[i].depth = IF list[i].parent_index = 0 THEN 0 ELSE list[list[i].parent_index].depth + 1
    /\ IF list[i].parent_index = 0 THEN IsRoot(sorted_bone_indices[i])
       ELSE sorted_bone_indices[i] \in Children(sorted_bone_indices[list[i].parent_index])

\* A bone that was left has its whole subtree behind it and nothing else.
LeftIsWhole ==
  \A i \in (1 .. Len(list)) \ Open :
    /\ list[i].subtree_end \in i .. Len(list)
    /\ SubtreeFits(list, i)
    /\ \A j \in i .. list[i].subtree_end : j \notin Open
    /\ \A b \in Children(sorted_bone_indices[i]) : Visited(b)
OpenIsLast ==
  \A i \in Open : \A j \in i + 1 .. Len(list) : i <= list[j].parent_index

\* What is taken from a list of children, or of roots, is visited.
TakenIsVisited ==
  /\ \A b \in Roots \ roots : Visited(b)
  /\ \A k \in 1 .. Len(stack) : \A b \in Children(stack[k].original) \ stack[k].rest : Visited(b)

\* Brothers are taken in the order of the source.
BrothersInOrder ==
  /\ \A i \in 1 .. Len(list) : \A j \in 1 .. i - 1 :
       list[i].parent_index = list[j].parent_index =>
         sorted_bone_indices[j] < sorted_bone_indices[i]
  /\ \A j \in 1 .. Len(list) :
       /\ list[j].parent_index = 0 => \A b \in roots : sorted_bone_indices[j] < b
       /\ \A k \in 1 .. Len(stack) :
            list[j].parent_index = stack[k].sorted =>
              \A b \in stack[k].rest : sorted_bone_indices[j] < b

WalkInv ==
  /\ ListOK /\ VisitedAreListed /\ StackOK /\ ParentsKept /\ LeftIsWhole /\ OpenIsLast
  /\ TakenIsVisited /\ BrothersInOrder

Ended == stack = <<>> /\ roots = {}

HierarchyInv ==
  source # None =>
    /\ source \in Sources
    /\ stage = "prepare" =>
         list = <<>> /\ sorted_bone_indices = <<>> /\ stack = <<>> /\ roots = {}
    /\ stage = "walk" => Accepted
    /\ stage = "refused" => ~Accepted \/ (Ended /\ Len(list) # BoneCount)
    /\ stage \notin {"prepare", "walk", "refused"} => Accepted /\ Ended /\ Len(list) = BoneCount
    /\ stage # "prepare" /\ Accepted => WalkInv

\* What entering a bone does to the frames and to the roots.
Entering(original, parent, frames) ==
  /\ original \in Bones /\ ~Visited(original)
  /\ frames \in Seq(Frames) /\ Len(frames) = Len(stack)
  /\ \A k \in 1 .. Len(stack) :
       /\ frames[k].sorted = stack[k].sorted /\ frames[k].original = stack[k].original
       /\ frames[k].rest \subseteq stack[k].rest
       /\ stack[k].rest \ frames[k].rest \subseteq {original}
       /\ parent = stack[k].sorted => \A b \in frames[k].rest : original < b
  /\ roots' \subseteq roots /\ roots \ roots' \subseteq {original}
  /\ IF parent = 0
     THEN stack = <<>> /\ original \in roots /\ \A b \in roots' : original < b
     ELSE stack # <<>> /\ parent = stack[Len(stack)].sorted /\ original \in stack[Len(stack)].rest

LEMMA SourceFacts ==
  ASSUME source \in Sources
  PROVE  /\ BoneCount \in Nat /\ Bones \subseteq Nat \ {0}
         /\ Roots \subseteq Bones /\ \A p : Children(p) \subseteq Bones
<1>1. BoneCount \in Nat
  BY SourcesAssumption DEF BoneCount
<1> QED
  BY <1>1 DEF Bones, Roots, Children

LEMMA SameSource ==
  ASSUME source' = source
  PROVE  /\ Bones' = Bones /\ Roots' = Roots /\ BoneCount' = BoneCount
         /\ \A p : Children(p)' = Children(p)
         /\ \A p : IsRoot(p)' = IsRoot(p)
BY DEF Bones, Roots, BoneCount, Children, IsRoot

\* The lists after a bone was appended.
Longer(s, t, x) ==
  Len(t) = Len(s) + 1 /\ t[Len(s) + 1] = x /\ \A i \in 1 .. Len(s) : t[i] = s[i]

LEMMA AppendIsLonger ==
  ASSUME NEW T, NEW s \in Seq(T), NEW x \in T
  PROVE  Append(s, x) \in Seq(T) /\ Longer(s, Append(s, x), x) /\ Len(s) \in Nat
BY DEF Longer

LEMMA FrontFacts ==
  ASSUME NEW T, NEW s \in Seq(T), Len(s) # 0
  PROVE  /\ Front(s) \in Seq(T) /\ Len(Front(s)) = Len(s) - 1
         /\ \A i \in 1 .. Len(s) - 1 : Front(s)[i] = s[i]
<1> DEFINE n == Len(s) - 1
<1>1. Front(s) = SubSeq(s, 1, n) /\ n \in Nat /\ Len(s) = n + 1
  BY DEF Front
<1>2. \A i \in 1 .. n : s[i] \in T
  BY ElementOfSeq
<1> HIDE DEF n
<1>3. /\ SubSeq(s, 1, n) \in Seq(T)
      /\ Len(SubSeq(s, 1, n)) = IF 1 <= n THEN n - 1 + 1 ELSE 0
      /\ \A i \in 1 .. n - 1 + 1 : SubSeq(s, 1, n)[i] = s[1 + i - 1]
  BY <1>1, <1>2, SubSeqProperties
<1>4. Len(SubSeq(s, 1, n)) = n /\ \A i \in 1 .. n : SubSeq(s, 1, n)[i] = s[i]
  BY <1>1, <1>3
<1> QED
  BY <1>1, <1>3, <1>4 DEF n

LEMMA WalkTypes ==
  ASSUME source \in Sources, ListOK
  PROVE  /\ Len(list) \in Nat /\ Len(stack) \in Nat
         /\ \A i \in 1 .. Len(list) :
              /\ list[i].parent_index \in Nat /\ list[i].subtree_end \in Nat /\ list[i].depth \in Nat
              /\ sorted_bone_indices[i] \in Bones /\ sorted_bone_indices[i] \in Nat
         /\ \A k \in 1 .. Len(stack) :
              /\ stack[k].original \in Bones /\ stack[k].rest \subseteq Bones
              /\ stack[k].sorted \in 1 .. Len(list) /\ stack[k].sorted \in Nat
         /\ Open \subseteq 1 .. Len(list)
<1>1. /\ list \in Seq([parent_index : Nat, subtree_end : Nat, depth : Nat])
      /\ sorted_bone_indices \in Seq(Bones) /\ Len(sorted_bone_indices) = Len(list)
      /\ stack \in Seq(Frames)
  BY DEF ListOK
<1>2. Bones \subseteq Nat
  BY SourceFacts
<1>3. Len(list) \in Nat /\ Len(stack) \in Nat
  BY <1>1
<1>4. ASSUME NEW i \in 1 .. Len(list)
      PROVE  /\ list[i].parent_index \in Nat /\ list[i].subtree_end \in Nat /\ list[i].depth \in Nat
             /\ sorted_bone_indices[i] \in Bones /\ sorted_bone_indices[i] \in Nat
  <2>1. list[i] \in [parent_index : Nat, subtree_end : Nat, depth : Nat]
    BY <1>1, ElementOfSeq
  <2>2. sorted_bone_indices[i] \in Bones
    BY <1>1
  <2> QED
    BY <1>2, <2>1, <2>2
<1>5. ASSUME NEW k \in 1 .. Len(stack)
      PROVE  /\ stack[k].original \in Bones /\ stack[k].rest \subseteq Bones
             /\ stack[k].sorted \in 1 .. Len(list) /\ stack[k].sorted \in Nat
  <2>1. stack[k] \in Frames
    BY <1>1
  <2> QED
    BY <1>3, <2>1 DEF Frames
<1>6. Open \subseteq 1 .. Len(list)
  BY <1>5 DEF Open
<1> QED
  BY <1>3, <1>4, <1>5, <1>6

\* What appending a bone leaves in the variables.
Entered(original, parent) ==
  LET n == Len(list)
      m == Len(stack)
  IN /\ Len(list') = n + 1 /\ Len(sorted_bone_indices') = n + 1 /\ Len(stack') = m + 1
     /\ \A i \in 1 .. n : list'[i] = list[i] /\ sorted_bone_indices'[i] = sorted_bone_indices[i]
     /\ list'[n + 1].parent_index = parent
     /\ list'[n + 1].depth = IF parent = 0 THEN 0 ELSE list[parent].depth + 1
     /\ sorted_bone_indices'[n + 1] = original
     /\ \A k \in 1 .. m :
          /\ stack'[k].sorted = stack[k].sorted /\ stack'[k].original = stack[k].original
          /\ stack'[k].rest \subseteq stack[k].rest
          /\ stack[k].rest \ stack'[k].rest \subseteq {original}
          /\ parent = stack[k].sorted => \A b \in stack'[k].rest : original < b
     /\ stack'[m + 1].sorted = n + 1 /\ stack'[m + 1].original = original
     /\ stack'[m + 1].rest = Children(original)
     /\ \A b \in Bones : visit_state'[b] = IF b = original THEN 1 ELSE visit_state[b]
     /\ Open' = Open \cup {n + 1}

LEMMA AppendBoneEnters ==
  ASSUME source \in Sources, ListOK, StackOK, NEW original, NEW parent \in Nat, NEW frames,
         Entering(original, parent, frames), AppendBone(original, parent, frames), source' = source
  PROVE  Entered(original, parent) /\ ListOK'
<1> DEFINE n == Len(list)
           m == Len(stack)
           bone == [parent_index |-> parent, subtree_end |-> 0,
                    depth |-> IF parent = 0 THEN 0 ELSE list[parent].depth + 1]
           frame == [original |-> original, sorted |-> n + 1, rest |-> Children(original)]
           Listed == [parent_index : Nat, subtree_end : Nat, depth : Nat]
           Framed == [original : Bones, sorted : 1 .. n + 1, rest : SUBSET Bones]
<1>1. /\ list \in Seq(Listed) /\ sorted_bone_indices \in Seq(Bones)
      /\ Len(sorted_bone_indices) = n /\ n \in Nat /\ m \in Nat
      /\ original \in Bones /\ frames \in Seq(Frames) /\ Len(frames) = m
  BY WalkTypes DEF ListOK, Entering
<1>2. parent # 0 => parent \in 1 .. n
  BY WalkTypes, <1>1 DEF Entering
<1>3. bone \in Listed
  <2>1. parent # 0 => list[parent].depth \in Nat
    BY <1>2, WalkTypes
  <2> QED
    BY <2>1
<1>4. frames \in Seq(Framed)
  <2>1. Frames \subseteq Framed
    BY <1>1 DEF Frames
  <2>2. \A k \in 1 .. m : frames[k] \in Framed
    BY <1>1, <2>1
  <2> HIDE DEF Framed
  <2> QED
    BY <1>1, <2>2
<1>5. frame \in Framed
  BY <1>1, SourceFacts
<1>6. /\ list' = Append(list, bone) /\ sorted_bone_indices' = Append(sorted_bone_indices, original)
      /\ stack' = Append(frames, frame)
      /\ visit_state' = [visit_state EXCEPT ![original] = 1]
  BY DEF AppendBone
<1> HIDE DEF bone, frame, Listed, Framed
<1>7. list' \in Seq(Listed) /\ Longer(list, list', bone)
  BY <1>1, <1>3, <1>6, AppendIsLonger
<1>8. sorted_bone_indices' \in Seq(Bones) /\ Longer(sorted_bone_indices, sorted_bone_indices', original)
  BY <1>1, <1>6, AppendIsLonger
<1>9. stack' \in Seq(Framed) /\ Longer(frames, stack', frame)
  BY <1>4, <1>5, <1>6, AppendIsLonger
<1>10. Len(list') = n + 1 /\ Len(sorted_bone_indices') = n + 1 /\ Len(stack') = m + 1
  BY <1>1, <1>7, <1>8, <1>9 DEF Longer
<1>11. /\ visit_state' \in [Bones -> {0, 1, 2}]
       /\ \A b \in Bones : visit_state'[b] = IF b = original THEN 1 ELSE visit_state[b]
  BY <1>1, <1>6 DEF ListOK
<1>12. ListOK'
  <2>1. roots' \subseteq Roots
    BY DEF ListOK, Entering
  <2>2. Framed = Frames'
    BY <1>10, SameSource DEF Framed, Frames
  <2> QED
    BY <1>7, <1>8, <1>9, <1>10, <1>11, <2>1, <2>2, SameSource DEF ListOK, Listed
<1>13. \A k \in 1 .. m : stack'[k] = frames[k]
  BY <1>1, <1>9 DEF Longer
<1>14. stack'[m + 1] = frame
  BY <1>1, <1>9 DEF Longer
<1>15. Open' = Open \cup {n + 1}
  <2>1. Open' = {stack'[k].sorted : k \in 1 .. m + 1}
    BY <1>10 DEF Open
  <2>2. \A k \in 1 .. m : stack'[k].sorted = stack[k].sorted
    BY <1>13 DEF Entering
  <2>3. stack'[m + 1].sorted = n + 1
    BY <1>14 DEF frame
  <2>4. \A k : k \in 1 .. m + 1 <=> k \in 1 .. m \/ k = m + 1
    BY <1>1
  <2> QED
    BY <2>1, <2>2, <2>3, <2>4 DEF Open
<1>16. \A i \in 1 .. n : list'[i] = list[i] /\ sorted_bone_indices'[i] = sorted_bone_indices[i]
  BY <1>1, <1>7, <1>8 DEF Longer
<1>17. list'[n + 1] = bone /\ sorted_bone_indices'[n + 1] = original
  BY <1>1, <1>7, <1>8 DEF Longer
<1>18. /\ list'[n + 1].parent_index = parent
       /\ list'[n + 1].depth = IF parent = 0 THEN 0 ELSE list[parent].depth + 1
  BY <1>17 DEF bone
<1>19. \A k \in 1 .. m :
          /\ stack'[k].sorted = stack[k].sorted /\ stack'[k].original = stack[k].original
          /\ stack'[k].rest \subseteq stack[k].rest
          /\ stack[k].rest \ stack'[k].rest \subseteq {original}
          /\ parent = stack[k].sorted => \A b \in stack'[k].rest : original < b
  BY <1>13 DEF Entering
<1>20. /\ stack'[m + 1].sorted = n + 1 /\ stack'[m + 1].original = original
       /\ stack'[m + 1].rest = Children(original)
  BY <1>14 DEF frame
<1> QED
  BY <1>10, <1>11, <1>12, <1>15, <1>16, <1>17, <1>18, <1>19, <1>20 DEF Entered

\* Entering a bone keeps the invariant of the traversal.
LEMMA EnteringKeeps ==
  ASSUME source \in Sources, WalkInv, NEW original, NEW parent \in Nat, NEW frames,
         Entering(original, parent, frames), AppendBone(original, parent, frames), source' = source
  PROVE  WalkInv'
<1> DEFINE n == Len(list)
           m == Len(stack)
           q == IF parent = 0 THEN 0 ELSE sorted_bone_indices[parent]
<1>1. /\ ListOK /\ VisitedAreListed /\ StackOK /\ ParentsKept /\ LeftIsWhole /\ OpenIsLast
      /\ TakenIsVisited /\ BrothersInOrder
  BY DEF WalkInv
<1>2. Entered(original, parent) /\ ListOK'
  BY <1>1, AppendBoneEnters
<1>3. /\ n \in Nat /\ m \in Nat /\ original \in Bones /\ original \in Nat
      /\ Open \subseteq 1 .. n
      /\ \A i \in 1 .. n : list[i].parent_index \in Nat /\ list[i].subtree_end \in Nat
                           /\ sorted_bone_indices[i] \in Bones /\ sorted_bone_indices[i] \in Nat
      /\ \A k \in 1 .. m : stack[k].sorted \in 1 .. n /\ stack[k].rest \subseteq Bones
  BY <1>1, WalkTypes, SourceFacts DEF Entering
<1>4. /\ Len(list') = n + 1 /\ Len(stack') = m + 1
      /\ \A i \in 1 .. n : list'[i] = list[i] /\ sorted_bone_indices'[i] = sorted_bone_indices[i]
      /\ list'[n + 1].parent_index = parent
      /\ list'[n + 1].depth = IF parent = 0 THEN 0 ELSE list[parent].depth + 1
      /\ sorted_bone_indices'[n + 1] = original
      /\ Open' = Open \cup {n + 1}
  BY <1>2 DEF Entered
<1>5. /\ \A k \in 1 .. m :
          /\ stack'[k].sorted = stack[k].sorted /\ stack'[k].original = stack[k].original
          /\ stack'[k].rest \subseteq stack[k].rest
          /\ stack[k].rest \ stack'[k].rest \subseteq {original}
          /\ parent = stack[k].sorted => \A b \in stack'[k].rest : original < b
      /\ stack'[m + 1].sorted = n + 1 /\ stack'[m + 1].original = original
      /\ stack'[m + 1].rest = Children(original)
  BY <1>2 DEF Entered
<1>6. \A b \in Bones : Visited(b)' <=> Visited(b) \/ b = original
  BY <1>2 DEF Entered, Visited
<1>7. /\ Bones' = Bones /\ Roots' = Roots /\ \A b : Children(b)' = Children(b) /\ IsRoot(b)' = IsRoot(b)
      /\ Roots \subseteq Bones /\ \A b : Children(b) \subseteq Bones
  BY SameSource, SourceFacts
<1>8. ~Visited(original) /\ \A i \in 1 .. n : sorted_bone_indices[i] # original
  BY <1>1, <1>3 DEF VisitedAreListed, Entering
<1>9. \A i : i \in 1 .. n + 1 <=> i \in 1 .. n \/ i = n + 1
  BY <1>3
<1>10. \A k : k \in 1 .. m + 1 <=> k \in 1 .. m \/ k = m + 1
  BY <1>3
<1>11. parent # 0 => /\ m \in 1 .. m /\ parent = stack[m].sorted /\ original \in stack[m].rest
                     /\ parent \in 1 .. n /\ parent \in Open
  BY <1>3 DEF Entering, Open
<1>12. /\ parent = 0 => stack = <<>> /\ original \in roots /\ \A b \in roots' : original < b
       /\ roots' \subseteq roots /\ roots \ roots' \subseteq {original}
  BY DEF Entering
<1> HIDE DEF n, m
<1>a. VisitedAreListed'
  <2>1. ASSUME NEW i \in 1 .. n + 1, NEW j \in 1 .. n + 1,
               sorted_bone_indices'[i] = sorted_bone_indices'[j]
        PROVE  i = j
    BY <1>1, <1>4, <1>8, <1>9, <2>1 DEF VisitedAreListed, n
  <2>2. ASSUME NEW b \in Bones
        PROVE  Visited(b)' <=> \E i \in 1 .. n + 1 : sorted_bone_indices'[i] = b
    <3>1. Visited(b) <=> \E i \in 1 .. n : sorted_bone_indices[i] = b
      BY <1>1 DEF VisitedAreListed, n
    <3>2. n + 1 \in 1 .. n + 1
      BY <1>3
    <3> QED
      BY <1>4, <1>6, <1>9, <3>1, <3>2
  <2> QED
    BY <1>4, <1>7, <2>1, <2>2 DEF VisitedAreListed
<1>b. StackOK'
  <2>1. ASSUME NEW j \in 1 .. m + 1, NEW k \in 1 .. m + 1, j < k
        PROVE  stack'[j].sorted < stack'[k].sorted
    <3>1. j \in 1 .. m
      BY <1>3, <2>1
    <3>2. CASE k \in 1 .. m
      BY <1>1, <1>5, <2>1, <3>1, <3>2 DEF StackOK, m
    <3>3. CASE k = m + 1
      BY <1>3, <1>5, <3>1, <3>3
    <3> QED
      BY <1>10, <3>2, <3>3
  <2>2. ASSUME NEW k \in 1 .. m + 1
        PROVE  /\ stack'[k].original = sorted_bone_indices'[stack'[k].sorted]
               /\ stack'[k].rest \subseteq Children(stack'[k].original)
    <3>1. CASE k \in 1 .. m
      <4>1. stack[k].sorted \in 1 .. n
        BY <1>3, <3>1
      <4>2. /\ stack[k].original = sorted_bone_indices[stack[k].sorted]
            /\ stack[k].rest \subseteq Children(stack[k].original)
        BY <1>1, <3>1 DEF StackOK, m
      <4> QED
        BY <1>4, <1>5, <3>1, <4>1, <4>2
    <3>2. CASE k = m + 1
      BY <1>4, <1>5, <3>2
    <3> QED
      BY <1>10, <3>1, <3>2
  <2> QED
    BY <1>4, <1>7, <2>1, <2>2 DEF StackOK
<1>c. ParentsKept'
  <2>1. ASSUME NEW i \in 1 .. n + 1
        PROVE  /\ list'[i].parent_index < i
               /\ list'[i].depth = IF list'[i].parent_index = 0 THEN 0
                                   ELSE list'[list'[i].parent_index].depth + 1
               /\ IF list'[i].parent_index = 0 THEN IsRoot(sorted_bone_indices'[i])
                  ELSE sorted_bone_indices'[i] \in Children(sorted_bone_indices'[list'[i].parent_index])
    <3>1. CASE i \in 1 .. n
      <4>1. /\ list[i].parent_index < i /\ list[i].parent_index \in Nat
            /\ list[i].depth = IF list[i].parent_index = 0 THEN 0 ELSE list[list[i].parent_index].depth + 1
            /\ IF list[i].parent_index = 0 THEN IsRoot(sorted_bone_indices[i])
               ELSE sorted_bone_indices[i] \in Children(sorted_bone_indices[list[i].parent_index])
        BY <1>1, <1>3, <3>1 DEF ParentsKept, n
      <4>2. list'[i] = list[i] /\ sorted_bone_indices'[i] = sorted_bone_indices[i]
        BY <1>4, <3>1
      <4>3. CASE list[i].parent_index = 0
        BY <4>1, <4>2, <4>3
      <4>4. CASE list[i].parent_index # 0
        <5>1. list[i].parent_index \in 1 .. n
          BY <1>3, <3>1, <4>1, <4>4
        <5> QED
          BY <1>4, <4>1, <4>2, <4>4, <5>1
      <4> QED
        BY <4>3, <4>4
    <3>2. CASE i = n + 1
      <4>1. CASE parent = 0
        <5>1. IsRoot(original)
          BY <1>1, <1>12, <4>1 DEF ListOK, Roots
        <5> QED
          BY <1>3, <1>4, <3>2, <4>1, <5>1
      <4>2. CASE parent # 0
        <5>1. /\ stack[m].original = sorted_bone_indices[parent]
              /\ stack[m].rest \subseteq Children(stack[m].original)
          BY <1>1, <1>11, <4>2 DEF StackOK, m
        <5>2. original \in Children(sorted_bone_indices[parent])
          BY <1>11, <4>2, <5>1
        <5>3. parent < n + 1
          BY <1>3, <1>11, <4>2
        <5> QED
          BY <1>4, <1>11, <3>2, <4>2, <5>2, <5>3
      <4> QED
        BY <4>1, <4>2
    <3> QED
      BY <1>9, <3>1, <3>2
  <2> QED
    BY <1>4, <1>7, <2>1 DEF ParentsKept
<1>d. LeftIsWhole'
  <2>1. ASSUME NEW i \in (1 .. n) \ Open
        PROVE  /\ list'[i].subtree_end \in i .. n + 1
               /\ SubtreeFits(list', i)
               /\ \A j \in i .. list'[i].subtree_end : j \notin Open'
               /\ \A b \in Children(sorted_bone_indices'[i]) : Visited(b)'
    <3>1. /\ list[i].subtree_end \in i .. n
          /\ SubtreeFits(list, i)
          /\ \A j \in i .. list[i].subtree_end : j \notin Open
          /\ \A b \in Children(sorted_bone_indices[i]) : Visited(b)
      BY <1>1 DEF LeftIsWhole, n
    <3>2. list'[i] = list[i] /\ sorted_bone_indices'[i] = sorted_bone_indices[i] /\ i \in 1 .. n
      BY <1>4
    <3>3. parent \notin i .. list[i].subtree_end
      BY <1>11, <3>1
    <3>4. SubtreeFits(list', i)
      <4>1. ASSUME NEW j \in i + 1 .. n + 1
            PROVE  IF j <= list[i].subtree_end THEN i <= list'[j].parent_index
                   ELSE list'[j].parent_index \notin i .. list[i].subtree_end
        <5>1. CASE j \in 1 .. n
          <6>1. j \in i + 1 .. n
            BY <5>1
          <6>2. IF j <= list[i].subtree_end THEN i <= list[j].parent_index
                ELSE list[j].parent_index \notin i .. list[i].subtree_end
            BY <3>1, <6>1 DEF SubtreeFits, n
          <6> QED
            BY <1>4, <5>1, <6>2
        <5>2. CASE j = n + 1
          <6>1. ~(j <= list[i].subtree_end)
            BY <1>3, <3>1, <5>2
          <6> QED
            BY <1>4, <3>3, <5>2, <6>1
        <5> QED
          BY <1>3, <3>2, <5>1, <5>2
      <4> QED
        BY <1>4, <3>2, <4>1 DEF SubtreeFits
    <3>5. \A j \in i .. list[i].subtree_end : j \notin Open'
      BY <1>3, <1>4, <3>1
    <3>6. list[i].subtree_end \in i .. n + 1
      BY <1>3, <3>1
    <3> QED
      BY <1>6, <1>7, <3>1, <3>2, <3>4, <3>5, <3>6
  <2>2. (1 .. n + 1) \ Open' = (1 .. n) \ Open
    BY <1>3, <1>4, <1>9
  <2> QED
    BY <1>4, <1>7, <2>1, <2>2 DEF LeftIsWhole
<1>e. OpenIsLast'
  <2>1. ASSUME NEW i \in Open \cup {n + 1}, NEW j \in i + 1 .. n + 1
        PROVE  i <= list'[j].parent_index
    <3>1. i \in Open /\ i \in 1 .. n
      BY <1>3, <2>1
    <3>2. CASE j \in 1 .. n
      <4>1. j \in i + 1 .. n
        BY <3>2
      <4>2. i <= list[j].parent_index
        BY <1>1, <3>1, <4>1 DEF OpenIsLast, n
      <4> QED
        BY <1>4, <3>2, <4>2
    <3>3. CASE j = n + 1
      <4>1. PICK k \in 1 .. m : i = stack[k].sorted
        BY <3>1 DEF Open, m
      <4>2. stack # <<>> /\ parent # 0
        <5>1. m # 0
          BY <1>3, <4>1
        <5> QED
          BY <1>12, <5>1 DEF m
      <4>3. k = m \/ k < m
        BY <1>3
      <4>4. i <= parent
        BY <1>1, <1>3, <1>11, <4>1, <4>2, <4>3 DEF StackOK, m
      <4> QED
        BY <1>4, <3>3, <4>4
    <3> QED
      BY <1>3, <3>1, <3>2, <3>3
  <2> QED
    BY <1>4, <2>1 DEF OpenIsLast
<1>f. TakenIsVisited'
  <2>1. ASSUME NEW b \in Roots \ roots'
        PROVE  Visited(b)'
    BY <1>1, <1>6, <1>7, <1>12 DEF TakenIsVisited
  <2>2. ASSUME NEW k \in 1 .. m + 1, NEW b \in Children(stack'[k].original) \ stack'[k].rest
        PROVE  Visited(b)'
    <3>1. CASE k \in 1 .. m
      <4>1. b \in Children(stack[k].original)
        BY <1>5, <3>1
      <4>2. b = original \/ Visited(b)
        BY <1>1, <1>5, <3>1, <4>1 DEF TakenIsVisited, m
      <4> QED
        BY <1>6, <1>7, <4>1, <4>2
    <3>2. CASE k = m + 1
      BY <1>5, <3>2
    <3> QED
      BY <1>10, <3>1, <3>2
  <2> QED
    BY <1>4, <1>7, <2>1, <2>2 DEF TakenIsVisited
<1>g. BrothersInOrder'
  <2>1. ASSUME NEW i \in 1 .. n + 1, NEW j \in 1 .. i - 1,
               list'[i].parent_index = list'[j].parent_index
        PROVE  sorted_bone_indices'[j] < sorted_bone_indices'[i]
    <3>1. j \in 1 .. n
      BY <1>3
    <3>2. CASE i \in 1 .. n
      BY <1>1, <1>4, <2>1, <3>1, <3>2 DEF BrothersInOrder, n
    <3>3. CASE i = n + 1
      <4>1. list[j].parent_index = parent
        BY <1>4, <2>1, <3>1, <3>3
      <4>2. CASE parent = 0
        BY <1>1, <1>4, <1>12, <3>1, <3>3, <4>1, <4>2 DEF BrothersInOrder, n
      <4>3. CASE parent # 0
        BY <1>1, <1>4, <1>11, <3>1, <3>3, <4>1, <4>3 DEF BrothersInOrder, n, m
      <4> QED
        BY <4>2, <4>3
    <3> QED
      BY <1>9, <3>2, <3>3
  <2>2. ASSUME NEW j \in 1 .. n + 1, list'[j].parent_index = 0, NEW b \in roots'
        PROVE  sorted_bone_indices'[j] < b
    <3>1. CASE j \in 1 .. n
      BY <1>1, <1>4, <1>12, <2>2, <3>1 DEF BrothersInOrder, n
    <3>2. CASE j = n + 1
      BY <1>4, <1>12, <2>2, <3>2
    <3> QED
      BY <1>9, <3>1, <3>2
  <2>3. ASSUME NEW j \in 1 .. n + 1, NEW k \in 1 .. m + 1,
               list'[j].parent_index = stack'[k].sorted, NEW b \in stack'[k].rest
        PROVE  sorted_bone_indices'[j] < b
    <3>1. k # m + 1
      <4>1. list'[j].parent_index < j
        BY <1>4, <1>c DEF ParentsKept
      <4>2. k = m + 1 => j <= n + 1 /\ list'[j].parent_index = n + 1 /\ j \in Nat
        BY <1>3, <1>5, <2>3
      <4> QED
        BY <1>3, <4>1, <4>2
    <3>2. k \in 1 .. m
      BY <1>10, <3>1
    <3>3. CASE j \in 1 .. n
      BY <1>1, <1>4, <1>5, <2>3, <3>2, <3>3 DEF BrothersInOrder, n, m
    <3>4. CASE j = n + 1
      BY <1>4, <1>5, <2>3, <3>2, <3>4
    <3> QED
      BY <1>9, <3>3, <3>4
  <2> QED
    BY <1>4, <2>1, <2>2, <2>3 DEF BrothersInOrder
<1> QED
  BY <1>2, <1>a, <1>b, <1>c, <1>d, <1>e, <1>f, <1>g DEF WalkInv

LEMMA EnterRootKeeps ==
  ASSUME source \in Sources, WalkInv, EnterRoot
  PROVE  WalkInv'
<1> DEFINE r == Min(roots)
<1>1. /\ stack = <<>> /\ roots # {} /\ visit_state[r] = 0 /\ source' = source
      /\ AppendBone(r, 0, <<>>) /\ roots' = roots \ {r}
  BY DEF EnterRoot, arguments
<1>2. roots \subseteq Roots /\ roots \subseteq Bones /\ roots \subseteq Nat
  BY SourceFacts DEF WalkInv, ListOK
<1>3. r \in roots /\ \A b \in roots : r <= b
  BY <1>1, <1>2, LeastIsMin
<1> HIDE DEF r
<1>4. Entering(r, 0, <<>>)
  <2>1. <<>> \in Seq(Frames) /\ Len(<<>>) = Len(stack) /\ Len(stack) = 0
    BY <1>1
  <2>2. \A b \in roots' : r < b
    BY <1>1, <1>2, <1>3
  <2>3. r \in Bones /\ ~Visited(r) /\ roots' \subseteq roots /\ roots \ roots' \subseteq {r}
    BY <1>1, <1>2, <1>3 DEF Visited
  <2> QED
    BY <1>1, <1>3, <2>1, <2>2, <2>3 DEF Entering
<1> QED
  BY <1>1, <1>4, EnteringKeeps

LEMMA EnterChildKeeps ==
  ASSUME source \in Sources, WalkInv, EnterChild
  PROVE  WalkInv'
<1> DEFINE m == Len(stack)
           frame == stack[m]
           c == Min(frame.rest)
           left == [frame EXCEPT !.rest = frame.rest \ {c}]
           frames == [stack EXCEPT ![m] = left]
<1>0. stack \in Seq(Frames)
  BY DEF WalkInv, ListOK
<1>1. /\ stack # <<>> /\ frame.rest # {} /\ visit_state[c] = 0 /\ source' = source
      /\ AppendBone(c, frame.sorted, frames) /\ roots' = roots
  BY DEF EnterChild, arguments, Last
<1>2. m \in Nat \ {0} /\ m \in 1 .. m
  BY <1>0, <1>1
<1>3. /\ \A k \in 1 .. m : stack[k] \in Frames
      /\ frame.rest \subseteq Bones /\ frame.rest \subseteq Nat
      /\ frame.sorted \in Nat /\ frame.sorted # 0
  <2>1. \A k \in 1 .. m : stack[k] \in Frames
    BY <1>0, ElementOfSeq
  <2>2. frame.rest \subseteq Bones /\ frame.sorted \in 1 .. Len(list)
    BY <1>2, WalkTypes DEF WalkInv
  <2> QED
    BY <2>1, <2>2, SourceFacts
<1>4. c \in frame.rest /\ \A b \in frame.rest : c <= b
  BY <1>1, <1>3, LeastIsMin
<1>5. left \in Frames /\ left.sorted = frame.sorted /\ left.original = frame.original
      /\ left.rest = frame.rest \ {c}
  <2>1. frame \in Frames
    BY <1>2, <1>3
  <2> HIDE DEF frame, c
  <2> QED
    BY <2>1 DEF Frames
<1> HIDE DEF left, frame, c
<1>6. /\ frames \in Seq(Frames) /\ Len(frames) = m
      /\ \A k \in 1 .. m : frames[k] = IF k = m THEN left ELSE stack[k]
  BY <1>0, <1>2, <1>5, ExceptSeq
<1> HIDE DEF frames
<1>7. Entering(c, frame.sorted, frames)
  <2>1. c \in Bones /\ ~Visited(c)
    BY <1>1, <1>3, <1>4 DEF Visited
  <2>2. ASSUME NEW k \in 1 .. m
        PROVE  /\ frames[k].sorted = stack[k].sorted /\ frames[k].original = stack[k].original
               /\ frames[k].rest \subseteq stack[k].rest
               /\ stack[k].rest \ frames[k].rest \subseteq {c}
               /\ frame.sorted = stack[k].sorted => \A b \in frames[k].rest : c < b
    <3>1. CASE k = m
      <4>1. frames[k] = left /\ stack[k] = frame
        BY <1>6, <3>1 DEF frame
      <4>2. \A b \in left.rest : c < b
        BY <1>3, <1>4, <1>5
      <4> QED
        BY <1>5, <4>1, <4>2
    <3>2. CASE k # m
      <4>1. frames[k] = stack[k]
        BY <1>6, <3>2
      <4>2. frame.sorted # stack[k].sorted
        <5>1. k < m
          BY <1>2, <3>2
        <5>2. stack[k].sorted < stack[m].sorted
          BY <1>2, <5>1 DEF WalkInv, StackOK
        <5>3. stack[k].sorted \in Nat
          BY WalkTypes DEF WalkInv
        <5> QED
          BY <1>3, <5>2, <5>3 DEF frame
      <4> QED
        BY <4>1, <4>2
    <3> QED
      BY <3>1, <3>2
  <2>3. roots' \subseteq roots /\ roots \ roots' \subseteq {c}
    BY <1>1
  <2>4. stack # <<>> /\ frame.sorted = stack[m].sorted /\ c \in stack[m].rest /\ frame.sorted # 0
    BY <1>1, <1>3, <1>4 DEF frame
  <2> QED
    BY <1>6, <2>1, <2>2, <2>3, <2>4 DEF Entering
<1> QED
  BY <1>1, <1>3, <1>7, EnteringKeeps

\* Leaving a bone gives it its subtree_end: everything listed since.
LEMMA LeaveBoneKeeps ==
  ASSUME source \in Sources, WalkInv, LeaveBone
  PROVE  WalkInv'
<1> DEFINE n == Len(list)
           m == Len(stack)
           s == stack[m].sorted
           bone == [list[s] EXCEPT !.subtree_end = n]
           Listed == [parent_index : Nat, subtree_end : Nat, depth : Nat]
<1>1. /\ ListOK /\ VisitedAreListed /\ StackOK /\ ParentsKept /\ LeftIsWhole /\ OpenIsLast
      /\ TakenIsVisited /\ BrothersInOrder
  BY DEF WalkInv
<1>2. /\ stack # <<>> /\ stack[m].rest = {}
      /\ list' = [list EXCEPT ![s] = bone]
      /\ visit_state' = [visit_state EXCEPT ![stack[m].original] = 2]
      /\ stack' = Front(stack)
      /\ source' = source /\ roots' = roots /\ sorted_bone_indices' = sorted_bone_indices
  BY DEF LeaveBone, arguments, Last
<1>3. /\ stack \in Seq(Frames) /\ list \in Seq(Listed) /\ visit_state \in [Bones -> {0, 1, 2}]
      /\ n \in Nat /\ m \in Nat \ {0} /\ m \in 1 .. m
  BY <1>1, <1>2 DEF ListOK
<1>4. /\ s \in 1 .. n /\ stack[m].original \in Bones /\ Open \subseteq 1 .. n
      /\ \A i \in 1 .. n : list[i].parent_index \in Nat /\ list[i].subtree_end \in Nat /\ list[i].depth \in Nat
      /\ \A k \in 1 .. m : stack[k].sorted \in 1 .. n
  BY <1>1, <1>3, WalkTypes
<1>5. bone \in Listed /\ bone.parent_index = list[s].parent_index /\ bone.depth = list[s].depth
      /\ bone.subtree_end = n
  <2>1. list[s] \in Listed
    BY <1>3, <1>4, ElementOfSeq
  <2> HIDE DEF s, n
  <2> QED
    BY <1>3, <2>1
<1> HIDE DEF bone, Listed
<1>6. /\ list' \in Seq(Listed) /\ Len(list') = n
      /\ \A i \in 1 .. n : list'[i] = IF i = s THEN bone ELSE list[i]
  <2> HIDE DEF s
  <2> QED
    BY <1>2, <1>3, <1>4, <1>5, ExceptSeq
<1>7. /\ Len(stack') = m - 1 /\ \A k \in 1 .. m - 1 : stack'[k] = stack[k]
      /\ stack' \in Seq(Frames)
  BY <1>2, <1>3, FrontFacts
<1>8. \A i \in 1 .. n : list'[i].parent_index = list[i].parent_index /\ list'[i].depth = list[i].depth
  BY <1>5, <1>6
<1>9. \A b \in Bones : Visited(b)' <=> Visited(b)
  <2>1. Visited(stack[m].original)
    <3>1. stack[m].original = sorted_bone_indices[s] /\ s \in 1 .. n
      BY <1>1, <1>3, <1>4 DEF StackOK
    <3> QED
      BY <1>1, <1>4, <3>1 DEF VisitedAreListed
  <2> QED
    BY <1>2, <1>3, <1>4, <2>1 DEF Visited
<1>10. Open' = Open \ {s}
  <2>1. Open' = {stack[k].sorted : k \in 1 .. m - 1}
    BY <1>7 DEF Open
  <2>2. \A k \in 1 .. m - 1 : stack[k].sorted # s
    <3>1. \A k \in 1 .. m - 1 : stack[k].sorted < s
      BY <1>1, <1>3 DEF StackOK
    <3>2. \A k \in 1 .. m - 1 : stack[k].sorted \in Nat
      BY <1>3, <1>4
    <3> QED
      BY <1>4, <3>1, <3>2
  <2>3. \A k : k \in 1 .. m <=> k \in 1 .. m - 1 \/ k = m
    BY <1>3
  <2> QED
    BY <2>1, <2>2, <2>3 DEF Open
<1>11. /\ Bones' = Bones /\ Roots' = Roots /\ \A b : Children(b)' = Children(b) /\ IsRoot(b)' = IsRoot(b)
       /\ \A b : Children(b) \subseteq Bones
  BY <1>2, SameSource, SourceFacts
<1>12. s \in Open /\ \A i \in Open : i <= s
  <2>1. s \in Open
    BY <1>3 DEF Open
  <2>2. ASSUME NEW i \in Open
        PROVE  i <= s
    <3>1. PICK k \in 1 .. m : i = stack[k].sorted
      BY DEF Open
    <3>2. k = m \/ k < m
      BY <1>3
    <3> QED
      BY <1>1, <1>3, <1>4, <3>1, <3>2 DEF StackOK
  <2> QED
    BY <2>1, <2>2
<1>13. stack[m].original = sorted_bone_indices[s]
  BY <1>1, <1>3 DEF StackOK
<1>14. \A k \in 1 .. m - 1 : k \in 1 .. m
  BY <1>3
<1>15. Roots \subseteq Bones /\ roots \subseteq Roots
  BY <1>1, SourceFacts DEF ListOK
<1> HIDE DEF n, m, s
<1>a. ListOK'
  <2>1. visit_state' \in [Bones -> {0, 1, 2}]
    BY <1>2, <1>3, <1>4
  <2>2. Frames' = Frames
    BY <1>6, <1>11 DEF Frames, n
  <2>3. /\ list' \in Seq([parent_index : Nat, subtree_end : Nat, depth : Nat])
        /\ sorted_bone_indices' \in Seq(Bones') /\ Len(sorted_bone_indices') = Len(list')
        /\ roots' \in SUBSET Roots'
    BY <1>1, <1>2, <1>6, <1>11 DEF ListOK, Listed, n
  <2> QED
    BY <1>7, <1>11, <2>1, <2>2, <2>3 DEF ListOK
<1>b. VisitedAreListed'
  BY <1>1, <1>2, <1>6, <1>9, <1>11 DEF VisitedAreListed, n
<1>c. StackOK'
  BY <1>1, <1>2, <1>7, <1>11, <1>14 DEF StackOK, m
<1>d. ParentsKept'
  <2>1. ASSUME NEW i \in 1 .. n
        PROVE  /\ list'[i].parent_index < i
               /\ list'[i].depth = IF list'[i].parent_index = 0 THEN 0
                                   ELSE list'[list'[i].parent_index].depth + 1
               /\ IF list'[i].parent_index = 0 THEN IsRoot(sorted_bone_indices[i])
                  ELSE sorted_bone_indices[i] \in Children(sorted_bone_indices[list'[i].parent_index])
    <3>1. /\ list[i].parent_index < i
          /\ list[i].depth = IF list[i].parent_index = 0 THEN 0 ELSE list[list[i].parent_index].depth + 1
          /\ IF list[i].parent_index = 0 THEN IsRoot(sorted_bone_indices[i])
             ELSE sorted_bone_indices[i] \in Children(sorted_bone_indices[list[i].parent_index])
      BY <1>1 DEF ParentsKept, n
    <3>2. list[i].parent_index # 0 => list[i].parent_index \in 1 .. n
      BY <1>3, <1>4, <3>1
    <3> QED
      BY <1>8, <3>1, <3>2
  <2> QED
    BY <1>2, <1>6, <1>11, <2>1 DEF ParentsKept
<1>e. LeftIsWhole'
  <2>1. ASSUME NEW i \in 1 .. n, i \notin Open \/ i = s
        PROVE  /\ list'[i].subtree_end \in i .. n
               /\ SubtreeFits(list', i)
               /\ \A j \in i .. list'[i].subtree_end : j \notin Open'
               /\ \A b \in Children(sorted_bone_indices[i]) : Visited(b)'
    <3>1. CASE i # s
      <4>1. /\ list[i].subtree_end \in i .. n
            /\ SubtreeFits(list, i)
            /\ \A j \in i .. list[i].subtree_end : j \notin Open
            /\ \A b \in Children(sorted_bone_indices[i]) : Visited(b)
        BY <1>1, <2>1, <3>1 DEF LeftIsWhole, n
      <4>2. list'[i] = list[i]
        BY <1>6, <3>1
      <4>3. \A j \in i + 1 .. n : j \in 1 .. n
        BY <1>3
      <4>4. SubtreeFits(list', i)
        BY <1>6, <1>8, <4>1, <4>2, <4>3 DEF SubtreeFits, n
      <4> QED
        BY <1>9, <1>10, <1>11, <4>1, <4>2, <4>4
    <3>2. CASE i = s
      <4>1. list'[i].subtree_end = n
        BY <1>5, <1>6, <3>2
      <4>2. SubtreeFits(list', i)
        <5>1. ASSUME NEW j \in i + 1 .. n
              PROVE  j <= n /\ i <= list'[j].parent_index
          <6>1. i <= list[j].parent_index
            BY <1>1, <1>12, <3>2 DEF OpenIsLast, n
          <6>2. j \in 1 .. n /\ j <= n
            BY <1>3
          <6> QED
            BY <1>8, <6>1, <6>2
        <5> QED
          BY <1>6, <4>1, <5>1 DEF SubtreeFits
      <4>3. \A j \in i .. n : j \notin Open'
        BY <1>3, <1>4, <1>10, <1>12, <3>2
      <4>4. \A b \in Children(sorted_bone_indices[i]) : Visited(b)
        BY <1>1, <1>2, <1>3, <1>13, <3>2 DEF TakenIsVisited, m
      <4>5. n \in i .. n
        BY <1>3
      <4> QED
        BY <1>9, <1>11, <4>1, <4>2, <4>3, <4>4, <4>5
    <3> QED
      BY <3>1, <3>2
  <2>2. \A i \in (1 .. n) \ Open' : i \in 1 .. n /\ (i \notin Open \/ i = s)
    BY <1>10
  <2> QED
    BY <1>2, <1>6, <1>11, <2>1, <2>2 DEF LeftIsWhole
<1>f. OpenIsLast'
  <2>1. ASSUME NEW i \in Open', NEW j \in i + 1 .. n
        PROVE  i <= list'[j].parent_index
    <3>1. i \in Open /\ i \in 1 .. n
      BY <1>4, <1>10
    <3>2. j \in 1 .. n
      BY <1>3, <3>1
    <3>3. i <= list[j].parent_index
      BY <1>1, <3>1 DEF OpenIsLast, n
    <3> QED
      BY <1>8, <3>2, <3>3
  <2> QED
    BY <1>6, <2>1 DEF OpenIsLast
<1>g. TakenIsVisited'
  <2>1. \A b \in Roots \ roots' : Visited(b)'
    BY <1>1, <1>2, <1>9, <1>15 DEF TakenIsVisited
  <2>2. \A k \in 1 .. m - 1 : \A b \in Children(stack'[k].original) \ stack'[k].rest : Visited(b)'
    BY <1>1, <1>7, <1>9, <1>11, <1>14 DEF TakenIsVisited, m
  <2> QED
    BY <1>7, <1>11, <2>1, <2>2 DEF TakenIsVisited
<1>h. BrothersInOrder'
  <2>1. \A i \in 1 .. n : \A j \in 1 .. i - 1 : j \in 1 .. n
    BY <1>3
  <2>2. \A i \in 1 .. n : \A j \in 1 .. i - 1 :
          list'[i].parent_index = list'[j].parent_index =>
            sorted_bone_indices[j] < sorted_bone_indices[i]
    BY <1>1, <1>8, <2>1 DEF BrothersInOrder, n
  <2>3. \A j \in 1 .. n :
          /\ list'[j].parent_index = 0 => \A b \in roots' : sorted_bone_indices[j] < b
          /\ \A k \in 1 .. m - 1 :
               list'[j].parent_index = stack'[k].sorted =>
                 \A b \in stack'[k].rest : sorted_bone_indices[j] < b
    BY <1>1, <1>2, <1>7, <1>8, <1>14 DEF BrothersInOrder, n, m
  <2> QED
    BY <1>2, <1>6, <1>7, <2>2, <2>3 DEF BrothersInOrder
<1> QED
  BY <1>a, <1>b, <1>c, <1>d, <1>e, <1>f, <1>g, <1>h DEF WalkInv

-----------------------------------------------------------------------------
(* Lists without repetition.                                               *)

Injects(s, n, N) == s \in [1 .. n -> 1 .. N] /\ \A i, j \in 1 .. n : s[i] = s[j] => i = j
Covers(s, n, N)  == \A t \in 1 .. N : \E i \in 1 .. n : s[i] = t

\* They are as long as there are elements exactly when they hold them all.
LEMMA InjectiveList ==
  ASSUME NEW n \in Nat, NEW N \in Nat, NEW s, Injects(s, n, N)
  PROVE  n = N <=> Covers(s, n, N)
<1> DEFINE S == 1 .. n
           T == 1 .. N
<1>1. IsFiniteSet(S) /\ Cardinality(S) = n /\ IsFiniteSet(T) /\ Cardinality(T) = N
  <2>1. n \in Int /\ N \in Int /\ 1 \in Int
    OBVIOUS
  <2>2. IsFiniteSet(S) /\ Cardinality(S) = IF 1 > n THEN 0 ELSE n - 1 + 1
    BY <2>1, FS_Interval
  <2>3. IsFiniteSet(T) /\ Cardinality(T) = IF 1 > N THEN 0 ELSE N - 1 + 1
    BY <2>1, FS_Interval
  <2> HIDE DEF S, T
  <2> QED
    BY <2>2, <2>3
<1> HIDE DEF S, T
<1>2. s \in [S -> T] /\ \A i, j \in S : s[i] = s[j] => i = j
  BY DEF S, T, Injects
<1>3. s \in Injection(S, T)
  BY <1>2, Fun_IsInj
<1>4. n = N <=> s \in Surjection(S, T)
  BY <1>1, <1>3, FS_Injection
<1>5. (\A t \in T : \E i \in S : s[i] = t) => s \in Surjection(S, T)
  BY <1>2, Fun_IsSurj
<1>6. s \in Surjection(S, T) => \A t \in T : \E i \in S : s[i] = t
  BY Fun_SurjectionProperties
<1> QED
  BY <1>4, <1>5, <1>6 DEF S, T, Covers

LEMMA PermutationList ==
  ASSUME NEW n \in Nat, NEW s \in Seq(1 .. n), Len(s) = n
  PROVE  Range(s) = 1 .. n <=> \A i, j \in 1 .. n : s[i] = s[j] => i = j
<1>1. s \in [1 .. n -> 1 .. n] /\ DOMAIN s = 1 .. n
  OBVIOUS
<1>2. Range(s) = {s[i] : i \in 1 .. n}
  BY <1>1 DEF Range
<1>3. ASSUME \A i, j \in 1 .. n : s[i] = s[j] => i = j
      PROVE  Range(s) = 1 .. n
  <2>1. Injects(s, n, n)
    BY <1>1, <1>3 DEF Injects
  <2>2. \A t \in 1 .. n : \E i \in 1 .. n : s[i] = t
    BY <2>1, InjectiveList DEF Covers
  <2> QED
    BY <1>1, <1>2, <2>2
<1>4. ASSUME Range(s) = 1 .. n
      PROVE  \A i, j \in 1 .. n : s[i] = s[j] => i = j
  <2> DEFINE S == 1 .. n
  <2>1. IsFiniteSet(S)
    BY FS_Interval
  <2>2. s \in [S -> S] /\ \A t \in S : \E i \in S : s[i] = t
    BY <1>1, <1>2, <1>4
  <2> HIDE DEF S
  <2>3. s \in Surjection(S, S)
    BY <2>2, Fun_IsSurj
  <2>4. s \in Injection(S, S)
    BY <2>1, <2>3, FS_SurjSameCardinalityImpliesInj
  <2>5. \A i, j \in S : s[i] = s[j] => i = j
    BY <2>4, Fun_InjectionProperties
  <2> QED
    BY <2>5 DEF S
<1> QED
  BY <1>3, <1>4

-----------------------------------------------------------------------------
(* Where the traversal ends.                                               *)

\* With unique names, a bone's parent is the one bone that has it as a child.
LEMMA SourceParents ==
  ASSUME source \in Sources, Named
  PROVE  /\ Parents(SourceParent, Bones)
         /\ \A i \in Bones : SourceParent[i] = 0 <=> IsRoot(i)
         /\ \A i, p \in Bones : i \in Children(p) <=> SourceParent[i] = p
<1>1. Bones \subseteq Nat \ {0}
  BY SourceFacts
<1>2. /\ \A i, j \in Bones : i # j => source.bones[i].name # source.bones[j].name
      /\ \A i \in Bones : IsRoot(i) \/ \E p \in Bones : source.bones[p].name = source.bones[i].parent
  BY DEF Named
<1>3. \A i \in Bones :
        SourceParent[i] = IF IsRoot(i) THEN 0
                          ELSE CHOOSE p \in Bones : source.bones[p].name = source.bones[i].parent
  BY DEF SourceParent
<1>4. ASSUME NEW i \in Bones, ~IsRoot(i)
      PROVE  SourceParent[i] \in Bones /\ source.bones[SourceParent[i]].name = source.bones[i].parent
  BY <1>2, <1>3, <1>4
<1>5. ASSUME NEW i \in Bones, NEW p \in Bones
      PROVE  i \in Children(p) <=> SourceParent[i] = p
  <2>1. CASE IsRoot(i)
    BY <1>1, <1>3, <2>1 DEF Children
  <2>2. CASE ~IsRoot(i)
    <3>1. SourceParent[i] \in Bones /\ source.bones[SourceParent[i]].name = source.bones[i].parent
      BY <1>4, <2>2
    <3>2. i \in Children(p) <=> source.bones[i].parent = source.bones[p].name
      BY <2>2 DEF Children
    <3> QED
      BY <1>2, <3>1, <3>2
  <2> QED
    BY <2>1, <2>2
<1>6. \A i \in Bones : SourceParent[i] = 0 <=> IsRoot(i)
  BY <1>1, <1>3, <1>4
<1>7. Parents(SourceParent, Bones)
  <2>1. DOMAIN SourceParent = Bones
    BY DEF SourceParent
  <2>2. \A i \in Bones : SourceParent[i] \in Bones \cup {0}
    BY <1>3, <1>4
  <2> QED
    BY <1>1, <2>1, <2>2 DEF Parents
<1> QED
  BY <1>5, <1>6, <1>7

\* The list says of a bone's parent what the source says.
LEMMA ListParent ==
  ASSUME source \in Sources, Named, WalkInv, NEW i \in 1 .. Len(list)
  PROVE  SourceParent[sorted_bone_indices[i]] =
           IF list[i].parent_index = 0 THEN 0 ELSE sorted_bone_indices[list[i].parent_index]
<1>1. /\ list[i].parent_index \in Nat /\ sorted_bone_indices[i] \in Bones
      /\ list[i].parent_index < i
      /\ IF list[i].parent_index = 0 THEN IsRoot(sorted_bone_indices[i])
         ELSE sorted_bone_indices[i] \in Children(sorted_bone_indices[list[i].parent_index])
  BY WalkTypes DEF WalkInv, ParentsKept
<1>2. CASE list[i].parent_index = 0
  BY <1>1, <1>2, SourceParents
<1>3. CASE list[i].parent_index # 0
  <2>1. list[i].parent_index \in 1 .. Len(list)
    BY <1>1, <1>3, WalkTypes DEF WalkInv
  <2>2. sorted_bone_indices[list[i].parent_index] \in Bones
    BY <2>1, WalkTypes DEF WalkInv
  <2> QED
    BY <1>1, <1>3, <2>2, SourceParents
<1> QED
  BY <1>2, <1>3

\* A listed bone is on no cycle: the bones ahead of it hold all its ancestors.
LEMMA ListedHasNoCycle ==
  ASSUME source \in Sources, Named, WalkInv, NEW i \in 1 .. Len(list)
  PROVE  sorted_bone_indices[i] \notin Above(SourceParent)[sorted_bone_indices[i]]
<1> DEFINE n == Len(list)
           S == {sorted_bone_indices[j] : j \in 1 .. i - 1}
           b == sorted_bone_indices[i]
<1>1. /\ n \in Nat
      /\ \A j \in 1 .. n : /\ list[j].parent_index \in Nat /\ list[j].parent_index < j
                           /\ sorted_bone_indices[j] \in Bones
      /\ \A j, k \in 1 .. n : sorted_bone_indices[j] = sorted_bone_indices[k] => j = k
  BY WalkTypes DEF WalkInv, VisitedAreListed, ParentsKept
<1>2. \A j \in 1 .. i - 1 : j \in 1 .. n
  BY <1>1
<1>3. S \in SUBSET Bones /\ b \in Bones
  BY <1>1, <1>2
<1>4. ASSUME NEW j \in 1 .. i
      PROVE  SourceParent[sorted_bone_indices[j]] \in S \cup {0}
  <2>1. j \in 1 .. n
    BY <1>1
  <2>2. list[j].parent_index # 0 => list[j].parent_index \in 1 .. i - 1
    BY <1>1, <2>1
  <2> QED
    BY <2>1, <2>2, ListParent
<1>5. Upwards(SourceParent, S) /\ SourceParent[b] \in S \cup {0}
  <2>1. \A j \in 1 .. i - 1 : j \in 1 .. i
    BY <1>1
  <2> QED
    BY <1>1, <1>4, <2>1 DEF Upwards
<1>6. b \notin S
  BY <1>1, <1>2
<1>7. Parents(SourceParent, Bones)
  BY SourceParents
<1> HIDE DEF S, b
<1>8. Above(SourceParent)[b] \subseteq S
  BY <1>3, <1>5, <1>7, AboveWithin
<1> QED
  BY <1>6, <1>8 DEF b

\* When the traversal ends with bones it has not reached, one is on a cycle:
\* the parent of an unreached bone is unreached, and of these the one with the
\* fewest ancestors cannot have fewer than its parent.
LEMMA UnlistedHasCycle ==
  ASSUME source \in Sources, Named, WalkInv, Ended, Len(list) # BoneCount
  PROVE  \E i \in Bones : i \in Above(SourceParent)[i]
<1> DEFINE p == SourceParent
           above == Above(p)
           U == {b \in Bones : ~Visited(b)}
           Sizes_ == {Cardinality(above[b]) : b \in U}
<1> SUFFICES ASSUME \A i \in Bones : i \notin above[i] PROVE FALSE
  OBVIOUS
<1>1. /\ Len(list) \in Nat /\ BoneCount \in Nat
      /\ \A i \in 1 .. Len(list) : sorted_bone_indices[i] \in Bones
      /\ \A i, j \in 1 .. Len(list) : sorted_bone_indices[i] = sorted_bone_indices[j] => i = j
      /\ \A b \in Bones : Visited(b) <=> \E i \in 1 .. Len(list) : sorted_bone_indices[i] = b
  BY WalkTypes, SourceFacts DEF WalkInv, VisitedAreListed
<1>2. U # {}
  <2>1. Injects(sorted_bone_indices, Len(list), BoneCount)
    BY <1>1, SMTT(30) DEF WalkInv, ListOK, Bones, Injects
  <2>2. ~Covers(sorted_bone_indices, Len(list), BoneCount)
    BY <1>1, <2>1, InjectiveList
  <2> QED
    BY <1>1, <2>2 DEF Bones, Covers
<1>3. /\ Parents(p, Bones)
      /\ \A i \in Bones : p[i] = 0 <=> IsRoot(i)
      /\ \A i, q \in Bones : i \in Children(q) <=> p[i] = q
  BY SourceParents
<1>4. ASSUME NEW b \in U
      PROVE  p[b] \in U
  <2>1. ~IsRoot(b)
    BY DEF WalkInv, TakenIsVisited, Ended, Roots
  <2>2. p[b] \in Bones /\ b \in Children(p[b])
    BY <1>3, <2>1 DEF Parents
  <2>3. ASSUME NEW i \in 1 .. Len(list), sorted_bone_indices[i] = p[b]
        PROVE  FALSE
    <3>1. Len(stack) = 0
      BY DEF Ended
    <3>2. i \notin Open
      BY <3>1 DEF Open
    <3>3. \A c \in Children(sorted_bone_indices[i]) : Visited(c)
      BY <3>2 DEF WalkInv, LeftIsWhole
    <3> QED
      BY <2>2, <2>3, <3>3
  <2> QED
    BY <1>1, <2>2, <2>3
<1>5. ASSUME NEW b \in Bones
      PROVE  above[b] \subseteq Bones /\ IsFiniteSet(above[b]) /\ Cardinality(above[b]) \in Nat
  <2>1. above[b] \subseteq Bones
    BY <1>3, AboveInDomain
  <2>2. IsFiniteSet(Bones)
    BY <1>1, FS_Interval DEF Bones
  <2> HIDE DEF above
  <2>3. IsFiniteSet(above[b])
    BY <2>1, <2>2, FS_Subset
  <2> QED
    BY <2>1, <2>3, FS_CardinalityType
<1>6. PICK b \in U : \A c \in U : Cardinality(above[b]) <= Cardinality(above[c])
  <2>1. Sizes_ \subseteq Nat /\ Sizes_ # {}
    BY <1>2, <1>5
  <2>2. PICK x \in Sizes_ : \A y \in Sizes_ : x <= y
    BY <2>1, LeastNat
  <2> QED
    BY <2>2
<1>7. p[b] \in U /\ p[b] \in Bones /\ b \in Bones /\ p[b] # 0
  BY <1>3, <1>4 DEF Parents
<1>8. above[b] = above[p[b]] \cup {p[b]}
  <2>1. AboveBy(p, Bones)
    BY <1>3, AboveSteps
  <2>2. above[b] = IF p[b] = 0 THEN {} ELSE {p[b]} \cup above[p[b]]
    BY <1>7, <2>1 DEF AboveBy
  <2> QED
    BY <1>7, <2>2
<1>9. p[b] \notin above[p[b]]
  BY <1>7
<1> HIDE DEF p, above, U
<1>10. Cardinality(above[b]) = Cardinality(above[p[b]]) + 1
  BY <1>5, <1>7, <1>8, <1>9, OneMore
<1> QED
  BY <1>5, <1>6, <1>7, <1>10

-----------------------------------------------------------------------------
(* The invariant of the traversal.                                         *)

LEMMA InitHierarchy == Init => HierarchyInv
BY DEF Init, HierarchyInv

LEMMA SameAccepted ==
  ASSUME source' = source
  PROVE  Accepted' <=> Accepted
<1>1. CubeOffset(BoneCount + 1)' = CubeOffset(BoneCount + 1)
  BY DEF CubeOffset, BoneCount
<1>2. Prepared' <=> Prepared
  BY <1>1 DEF Prepared
<1>3. Named' <=> Named
  BY DEF Named, Bones, BoneCount, IsRoot
<1> QED
  BY <1>2, <1>3 DEF Accepted

\* Past the traversal its variables stay.
LEMMA SameWalk ==
  ASSUME source' = source, UNCHANGED hierarchy, WalkInv
  PROVE  WalkInv'
<1>1. /\ visit_state' = visit_state /\ stack' = stack /\ roots' = roots /\ list' = list
      /\ sorted_bone_indices' = sorted_bone_indices
  BY DEF hierarchy
<1>2. /\ Bones' = Bones /\ Roots' = Roots
      /\ \A b : Children(b)' = Children(b) /\ IsRoot(b)' = IsRoot(b)
  BY SameSource
<1>3. Frames' = Frames /\ Open' = Open /\ \A b : Visited(b)' <=> Visited(b)
  BY <1>1, <1>2 DEF Frames, Open, Visited
<1>4. ListOK' /\ StackOK'
  BY <1>1, <1>2, <1>3 DEF WalkInv, ListOK, StackOK
<1>5. VisitedAreListed' /\ ParentsKept'
  BY <1>1, <1>2, <1>3 DEF WalkInv, VisitedAreListed, ParentsKept
<1>6. LeftIsWhole' /\ OpenIsLast'
  BY <1>1, <1>2, <1>3 DEF WalkInv, LeftIsWhole, OpenIsLast
<1>7. TakenIsVisited' /\ BrothersInOrder'
  BY <1>1, <1>2, <1>3 DEF WalkInv, TakenIsVisited, BrothersInOrder
<1> QED
  BY <1>4, <1>5, <1>6, <1>7 DEF WalkInv

LEMMA PrepareStarts ==
  ASSUME HierarchyInv, source # None, Prepare
  PROVE  HierarchyInv'
<1>1. /\ source \in Sources /\ source' = source /\ stage = "prepare"
      /\ list' = <<>> /\ sorted_bone_indices' = <<>> /\ stack' = <<>> /\ roots \subseteq Roots
  BY DEF HierarchyInv, Prepare, arguments
<1>2. Accepted' <=> Accepted
  BY <1>1, SameAccepted
<1>3. CASE Accepted
  <2>1. stage' = "walk" /\ visit_state' = [i \in Bones |-> 0] /\ roots' = Roots
    BY <1>3 DEF Prepare, Accepted
  <2>2. Bones' = Bones /\ Roots' = Roots
    BY <1>1, SameSource
  <2>3. /\ Len(list') = 0 /\ Len(stack') = 0 /\ \A i : i \notin 1 .. 0
        /\ Open' = {}
    BY <1>1 DEF Open
  <2>4. ListOK'
    <3>1. <<>> \in Seq(Bones) /\ <<>> \in Seq(Frames')
          /\ <<>> \in Seq([parent_index : Nat, subtree_end : Nat, depth : Nat])
      OBVIOUS
    <3>2. visit_state' \in [Bones -> {0, 1, 2}]
      BY <2>1
    <3> QED
      BY <1>1, <2>1, <2>2, <3>1, <3>2 DEF ListOK
  <2>5. VisitedAreListed'
    BY <2>1, <2>2, <2>3 DEF VisitedAreListed, Visited
  <2>6. StackOK' /\ ParentsKept' /\ LeftIsWhole' /\ OpenIsLast' /\ BrothersInOrder'
    BY <2>3 DEF StackOK, ParentsKept, LeftIsWhole, OpenIsLast, BrothersInOrder
  <2>7. TakenIsVisited'
    BY <2>1, <2>2, <2>3 DEF TakenIsVisited
  <2>8. WalkInv'
    BY <2>4, <2>5, <2>6, <2>7 DEF WalkInv
  <2> QED
    BY <1>1, <1>2, <1>3, <2>1, <2>8 DEF HierarchyInv
<1>4. CASE ~Accepted
  <2>1. stage' = "refused"
    BY <1>4 DEF Prepare, Accepted
  <2> QED
    BY <1>1, <1>2, <1>4, <2>1 DEF HierarchyInv
<1> QED
  BY <1>3, <1>4

LEMMA HierarchyStep ==
  ASSUME HierarchyInv, [Next]_vars
  PROVE  HierarchyInv'
<1>1. source' = source
  BY DEF Next, Prepare, EnterRoot, EnterChild, LeaveBone, EndHierarchy, AddBone, Finish,
         Serialize, ReadBakedModel, Done, vars, arguments
<1> SUFFICES ASSUME source # None PROVE HierarchyInv'
  BY <1>1 DEF HierarchyInv
<1>2. source \in Sources /\ (Accepted' <=> Accepted) /\ BoneCount' = BoneCount
  BY <1>1, SameAccepted, SameSource DEF HierarchyInv
<1>3. CASE Prepare
  BY <1>3, PrepareStarts
<1>4. CASE EnterRoot \/ EnterChild \/ LeaveBone
  <2>1. stage = "walk" /\ stage' = "walk"
    BY <1>4 DEF EnterRoot, EnterChild, LeaveBone
  <2>2. Accepted /\ WalkInv
    BY <2>1 DEF HierarchyInv
  <2>3. WalkInv'
    BY <1>2, <1>4, <2>2, EnterRootKeeps, EnterChildKeeps, LeaveBoneKeeps
  <2> QED
    BY <1>1, <1>2, <2>1, <2>2, <2>3 DEF HierarchyInv
<1>5. CASE EndHierarchy
  <2>1. stage = "walk" /\ UNCHANGED hierarchy /\ Ended
        /\ stage' = IF AllReached THEN "bake" ELSE "refused"
    BY <1>5 DEF EndHierarchy, Ended
  <2>2. Accepted /\ WalkInv
    BY <2>1 DEF HierarchyInv
  <2>3. WalkInv'
    BY <1>1, <2>1, <2>2, SameWalk
  <2>4. Ended' /\ Len(list') = Len(list) /\ stage' \in {"bake", "refused"}
    BY <2>1 DEF hierarchy, Ended
  <2> QED
    BY <1>1, <1>2, <2>1, <2>2, <2>3, <2>4 DEF HierarchyInv, AllReached
<1>6. ASSUME UNCHANGED <<source, hierarchy>>,
             stage' = stage \/ (/\ stage \notin {"prepare", "walk", "refused"}
                                /\ stage' \notin {"prepare", "walk", "refused"})
      PROVE  HierarchyInv'
  <2>1. stage # "prepare" /\ Accepted => WalkInv'
    BY <1>1, <1>6, SameWalk DEF HierarchyInv
  <2>2. list' = list /\ stack' = stack /\ roots' = roots /\ (Ended' <=> Ended)
        /\ sorted_bone_indices' = sorted_bone_indices
    BY <1>6 DEF hierarchy, Ended
  <2> QED
    BY <1>2, <1>6, <2>1, <2>2 DEF HierarchyInv
<1>7. CASE AddBone \/ Finish \/ Serialize
  BY <1>6, <1>7 DEF AddBone, Finish, Serialize, arguments
<1>8. CASE ReadBakedModel
  <2>1. stage = "stored" /\ stage' \in {"corrupt", "loaded"} /\ UNCHANGED <<source, hierarchy>>
    BY <1>8 DEF ReadBakedModel, arguments
  <2> QED
    BY <1>6, <2>1
<1>9. CASE Done \/ UNCHANGED vars
  BY <1>6, <1>9 DEF Done, vars, arguments
<1> QED
  BY <1>3, <1>4, <1>5, <1>7, <1>8, <1>9 DEF Next

LEMMA AlwaysHierarchy == Spec => []HierarchyInv
<1>1. Init => HierarchyInv
  BY InitHierarchy
<1>2. HierarchyInv /\ [Next]_vars => HierarchyInv'
  BY HierarchyStep
<1> QED
  BY <1>1, <1>2, PTL DEF Spec

\* The list that the traversal leaves.
LEMMA WalkedIsPreorder ==
  ASSUME source \in Sources, Named, WalkInv, Ended, Len(list) = BoneCount
  PROVE  /\ Permutation(sorted_bone_indices, BoneCount)
         /\ Typed(list) /\ Nested(list) /\ Preorder(list)
         /\ \A i \in Bones :
              SourceParent[sorted_bone_indices[i]] =
                IF list[i].parent_index = 0 THEN 0 ELSE sorted_bone_indices[list[i].parent_index]
         /\ \A i \in Bones : \A j \in 1 .. i - 1 :
              list[i].parent_index = list[j].parent_index =>
                sorted_bone_indices[j] < sorted_bone_indices[i]
         /\ \A i \in Bones : i \notin Above(SourceParent)[i]
<1> DEFINE n == Len(list)
<1>1. Bones = 1 .. n /\ n \in Nat
  BY WalkTypes DEF Bones, WalkInv
<1>2. Permutation(sorted_bone_indices, BoneCount)
  <2>1. sorted_bone_indices \in Seq(1 .. BoneCount) /\ Len(sorted_bone_indices) = BoneCount
        /\ BoneCount \in Nat
    BY <1>1 DEF WalkInv, ListOK, Bones
  <2>2. \A i, j \in 1 .. BoneCount : sorted_bone_indices[i] = sorted_bone_indices[j] => i = j
    BY DEF WalkInv, VisitedAreListed
  <2> QED
    BY <2>1, <2>2, PermutationList DEF Permutation
<1>3. Typed(list)
  BY WalkTypes DEF WalkInv, Typed
<1>4. Nested(list)
  <2>1. Len(stack) = 0
    BY DEF Ended
  <2>2. Open = {}
    BY <2>1 DEF Open
  <2> QED
    BY <2>2 DEF WalkInv, LeftIsWhole, ParentsKept, Nested, BoneFits
<1>5. Preorder(list)
  BY <1>3, <1>4, PreorderIsNested
<1>6. \A i \in Bones :
        SourceParent[sorted_bone_indices[i]] =
          IF list[i].parent_index = 0 THEN 0 ELSE sorted_bone_indices[list[i].parent_index]
  BY <1>1, ListParent
<1>7. \A i \in Bones : \A j \in 1 .. i - 1 :
        list[i].parent_index = list[j].parent_index => sorted_bone_indices[j] < sorted_bone_indices[i]
  BY <1>1 DEF WalkInv, BrothersInOrder
<1>8. \A b \in Bones : b \notin Above(SourceParent)[b]
  <2> SUFFICES ASSUME NEW b \in Bones PROVE b \notin Above(SourceParent)[b]
    OBVIOUS
  <2>1. PICK i \in 1 .. n : sorted_bone_indices[i] = b
    <3>1. Range(sorted_bone_indices) = Bones /\ DOMAIN sorted_bone_indices = 1 .. n
      BY <1>2 DEF Permutation, Bones, WalkInv, ListOK
    <3> QED
      BY <3>1 DEF Range
  <2> QED
    BY <2>1, ListedHasNoCycle
<1> QED
  BY <1>2, <1>3, <1>4, <1>5, <1>6, <1>7, <1>8

\* A geometry model is accepted exactly when its parents make a forest over
\* uniquely named bones, and its bones are then listed in preorder, brothers
\* in the order of the source.
THEOREM HierarchyBuilt == Spec => []HierarchyIsPreorder
<1>1. ASSUME HierarchyInv
      PROVE  HierarchyIsPreorder
  <2> SUFFICES ASSUME source # None, stage \notin {"prepare", "walk"}
               PROVE  /\ stage # "refused" <=>
                           Prepared /\ Named /\ \A i \in Bones : i \notin Above(SourceParent)[i]
                      /\ stage # "refused" =>
                           /\ Permutation(sorted_bone_indices, BoneCount)
                           /\ Preorder(list)
                           /\ \A i \in Bones :
                                SourceParent[sorted_bone_indices[i]] =
                                  IF list[i].parent_index = 0 THEN 0
                                  ELSE sorted_bone_indices[list[i].parent_index]
                           /\ \A i \in Bones : \A j \in 1 .. i - 1 :
                                list[i].parent_index = list[j].parent_index =>
                                  sorted_bone_indices[j] < sorted_bone_indices[i]
    BY DEF HierarchyIsPreorder
  <2>1. source \in Sources
    BY <1>1 DEF HierarchyInv
  <2>2. CASE stage = "refused"
    <3>1. ASSUME Accepted
          PROVE  \E i \in Bones : i \in Above(SourceParent)[i]
      BY <1>1, <2>1, <2>2, <3>1, UnlistedHasCycle DEF HierarchyInv, Accepted
    <3> QED
      BY <2>2, <3>1 DEF Accepted
  <2>3. CASE stage # "refused"
    <3>1. Accepted /\ Ended /\ Len(list) = BoneCount /\ WalkInv
      BY <1>1, <2>3 DEF HierarchyInv
    <3> QED
      BY <2>1, <2>3, <3>1, WalkedIsPreorder DEF Accepted
  <2> QED
    BY <2>2, <2>3
<1> QED
  BY <1>1, AlwaysHierarchy, PTL

-----------------------------------------------------------------------------
(* Recursive functions.  That a function with these values exists is       *)
(* proved from the set of the numbers up to which one does: it has 0, and  *)
(* with n also n + 1 (SetInduction of TaskRangeProofs).                    *)

Recursion(g, n, first, step) ==
  g = [i \in 0 .. n |-> IF i = 0 THEN first ELSE step[<<i, g[i - 1]>>]]

LEMMA RecursionExists ==
  ASSUME NEW T, NEW first \in T, NEW step, \A i \in Nat, x \in T : step[<<i, x>>] \in T
  PROVE  \A n \in Nat : \E g \in [0 .. n -> T] : Recursion(g, n, first, step)
<1> DEFINE S == {n \in Nat : \E g \in [0 .. n -> T] : Recursion(g, n, first, step)}
<1>1. 0 \in S
  <2> DEFINE g == [i \in 0 .. 0 |-> first]
  <2>1. g \in [0 .. 0 -> T] /\ Recursion(g, 0, first, step)
    BY DEF Recursion
  <2> HIDE DEF g
  <2> QED
    BY <2>1
<1>2. ASSUME NEW n \in Nat, n \in S
      PROVE  n + 1 \in S
  <2>1. PICK g \in [0 .. n -> T] : Recursion(g, n, first, step)
    BY <1>2
  <2> DEFINE h == [i \in 0 .. n + 1 |-> IF i = 0 THEN first ELSE step[<<i, g[i - 1]>>]]
  <2>2. \A i \in 0 .. n : g[i] = IF i = 0 THEN first ELSE step[<<i, g[i - 1]>>]
    BY <2>1 DEF Recursion
  <2>3. \A i \in 0 .. n : h[i] = g[i]
    BY <2>2
  <2>4. \A i \in 0 .. n + 1 : h[i] = IF i = 0 THEN first ELSE step[<<i, h[i - 1]>>]
    <3> SUFFICES ASSUME NEW i \in 0 .. n + 1
                 PROVE  h[i] = IF i = 0 THEN first ELSE step[<<i, h[i - 1]>>]
      OBVIOUS
    <3>1. CASE i = 0
      BY <3>1
    <3>2. CASE i # 0
      <4>1. i - 1 \in 0 .. n
        BY <3>2
      <4>2. h[i - 1] = g[i - 1]
        BY <2>3, <4>1
      <4>3. h[i] = step[<<i, g[i - 1]>>]
        BY <3>2
      <4> HIDE DEF h
      <4> QED
        BY <3>2, <4>2, <4>3
    <3> QED
      BY <3>1, <3>2
  <2>5. \A i \in 0 .. n + 1 : h[i] \in T
    <3> SUFFICES ASSUME NEW i \in 0 .. n + 1 PROVE h[i] \in T
      OBVIOUS
    <3>1. CASE i = 0
      BY <3>1
    <3>2. CASE i # 0
      <4>1. i \in Nat /\ i - 1 \in 0 .. n
        BY <3>2
      <4>2. step[<<i, g[i - 1]>>] \in T
        BY <2>1, <4>1
      <4> QED
        BY <3>2, <4>2
    <3> QED
      BY <3>1, <3>2
  <2>6. DOMAIN h = 0 .. n + 1 /\ h = [i \in 0 .. n + 1 |-> h[i]]
    OBVIOUS
  <2> HIDE DEF h
  <2>7. h \in [0 .. n + 1 -> T] /\ Recursion(h, n + 1, first, step)
    BY <2>4, <2>5, <2>6 DEF Recursion
  <2> QED
    BY <2>7
<1> HIDE DEF S
<1>3. Nat \subseteq S
  BY <1>1, <1>2, SetInduction
<1> QED
  BY <1>3 DEF S

-----------------------------------------------------------------------------
(* ValidateHierarchy: the path of open bones.                              *)

LEMMA GreatestIsMax ==
  ASSUME NEW n \in Nat, NEW K \in SUBSET (0 .. n), K # {}
  PROVE  Max(K) \in K /\ \A y \in K : y <= Max(K)
<1> DEFINE D == {n - k : k \in K}
<1>0. \A k \in K : k \in 0 .. n
  OBVIOUS
<1>1. D \subseteq Nat /\ D # {}
  <2>1. \A k \in K : n - k \in Nat
    BY <1>0
  <2> QED
    BY <2>1
<1>2. PICK d \in D : \A y \in D : d <= y
  BY <1>1, LeastNat
<1>3. PICK k \in K : d = n - k
  OBVIOUS
<1>4. \A y \in K : n - y \in D
  OBVIOUS
<1>5. \A y \in K : k >= y
  <2> SUFFICES ASSUME NEW y \in K PROVE k >= y
    OBVIOUS
  <2>1. n - k <= n - y /\ y \in 0 .. n /\ k \in 0 .. n
    BY <1>0, <1>2, <1>3, <1>4
  <2> QED
    BY <2>1
<1>6. Max(K) \in K /\ \A y \in K : Max(K) >= y
  BY <1>5 DEF Max
<1> QED
  BY <1>6

Paths == [ok : BOOLEAN, open : Seq(Nat)]

\* The place on the path of the parent of bone i, 0 if it has none.
IsKept(l, open, i, k) ==
  /\ k \in 0 .. Len(open)
  /\ k # 0 => open[k] = l[i].parent_index
  /\ \A j \in k + 1 .. Len(open) : open[j] # l[i].parent_index

\* What OpenBone makes of the path s.
Opens(l, s, i, k, t) ==
  /\ t.ok <=> /\ s.ok
              /\ \A j \in k + 1 .. Len(s.open) : l[s.open[j]].subtree_end = i - 1
              /\ l[i].parent_index # 0 => k # 0
  /\ Len(t.open) = k + 1 /\ t.open[k + 1] = i
  /\ \A j \in 1 .. k : t.open[j] = s.open[j]

LEMMA OpenBoneOpens ==
  ASSUME NEW l, NEW s \in Paths, NEW i \in Nat
  PROVE  /\ OpenBone(l, s, i) \in Paths
         /\ \E k : IsKept(l, s.open, i, k) /\ Opens(l, s, i, k, OpenBone(l, s, i))
<1> DEFINE n == Len(s.open)
           p == l[i].parent_index
           K == {0} \cup {k \in DOMAIN s.open : s.open[k] = p}
           k == Max(K)
           front == SubSeq(s.open, 1, k)
           back == SubSeq(s.open, k + 1, n)
           t == OpenBone(l, s, i)
<1>1. s.ok \in BOOLEAN /\ s.open \in Seq(Nat) /\ n \in Nat /\ DOMAIN s.open = 1 .. n
  BY DEF Paths
<1>2. K \in SUBSET (0 .. n) /\ K # {}
  BY <1>1
<1> HIDE DEF n, p, K
<1>3. k \in K /\ \A y \in K : y <= k
  BY <1>1, <1>2, GreatestIsMax
<1> HIDE DEF k
<1>4. k \in 0 .. n /\ k \in Int /\ k + 1 \in Int /\ n \in Int /\ 1 \in Int
  BY <1>1, <1>2, <1>3
<1>5. IsKept(l, s.open, i, k)
  <2>1. k # 0 => s.open[k] = p
    BY <1>3 DEF K
  <2>2. \A j \in k + 1 .. n : s.open[j] # p
    <3> SUFFICES ASSUME NEW j \in k + 1 .. n, s.open[j] = p PROVE FALSE
      OBVIOUS
    <3>1. j \in 1 .. n
      BY <1>1, <1>4
    <3>2. j \in K
      BY <1>1, <3>1 DEF K
    <3> QED
      BY <1>3, <1>4, <3>1, <3>2
  <2> QED
    BY <1>4, <2>1, <2>2 DEF IsKept, n, p
<1>6. /\ front \in Seq(Nat) /\ Len(front) = k /\ \A j \in 1 .. k : front[j] = s.open[j]
  <2>1. \A j \in 1 .. k : s.open[j] \in Nat
    BY <1>1, <1>4, ElementOfSeq DEF n
  <2>2. /\ front \in Seq(Nat) /\ Len(front) = IF 1 <= k THEN k - 1 + 1 ELSE 0
        /\ \A j \in 1 .. k - 1 + 1 : front[j] = s.open[1 + j - 1]
    BY <1>4, <2>1, SubSeqProperties
  <2> HIDE DEF front
  <2> QED
    BY <1>4, <2>2
<1>7. /\ back \in Seq(Nat) /\ Len(back) = n - k /\ \A j \in 1 .. n - k : back[j] = s.open[k + j]
  <2>1. \A j \in k + 1 .. n : s.open[j] \in Nat
    BY <1>1, <1>4, ElementOfSeq DEF n
  <2>2. /\ back \in Seq(Nat) /\ Len(back) = IF k + 1 <= n THEN n - (k + 1) + 1 ELSE 0
        /\ \A j \in 1 .. n - (k + 1) + 1 : back[j] = s.open[(k + 1) + j - 1]
    BY <1>4, <2>1, SubSeqProperties
  <2> HIDE DEF back
  <2> QED
    BY <1>1, <1>4, <2>2
<1>8. Closes(l, back, i) <=> \A j \in k + 1 .. n : l[s.open[j]].subtree_end = i - 1
  <2>1. DOMAIN back = 1 .. n - k
    BY <1>7
  <2>2. Range(back) = {s.open[j] : j \in k + 1 .. n}
    <3>1. ASSUME NEW j \in 1 .. n - k PROVE k + j \in k + 1 .. n
      BY <1>1, <1>4
    <3>2. ASSUME NEW j \in k + 1 .. n PROVE j - k \in 1 .. n - k /\ k + (j - k) = j
      BY <1>1, <1>4
    <3> HIDE DEF back
    <3> QED
      BY <1>7, <2>1, <3>1, <3>2 DEF Range
  <2> HIDE DEF back
  <2> QED
    BY <2>2 DEF Closes
<1>9. t = [ok   |-> s.ok /\ Closes(l, back, i) /\ (p # 0 => k > 0), open |-> Append(front, i)]
  BY DEF OpenBone, k, K, p, n
<1>10. /\ Append(front, i) \in Seq(Nat) /\ Len(Append(front, i)) = k + 1 /\ Append(front, i)[k + 1] = i
       /\ \A j \in 1 .. k : Append(front, i)[j] = s.open[j]
  <2> HIDE DEF front
  <2> QED
    BY <1>6, AppendIsLonger DEF Longer
<1> HIDE DEF front, back, t
<1>11. t \in Paths
  BY <1>9, <1>10 DEF Paths
<1>12. k > 0 <=> k # 0
  BY <1>4
<1>13. Opens(l, s, i, k, t)
  BY <1>8, <1>9, <1>10, <1>12 DEF Opens, n, p
<1> QED
  BY <1>5, <1>11, <1>13 DEF t

\* The paths, bone by bone.
IsPath(l, path) ==
  /\ path \in [0 .. Len(l) -> Paths]
  /\ path[0] = [ok |-> TRUE, open |-> <<>>]
  /\ \A i \in 1 .. Len(l) :
       \E k : IsKept(l, path[i - 1].open, i, k) /\ Opens(l, path[i - 1], i, k, path[i])

LEMMA PathExists ==
  ASSUME NEW l, Len(l) \in Nat
  PROVE  \E path : /\ IsPath(l, path)
                   /\ PathCloses(l) <=> /\ path[Len(l)].ok
                                        /\ Closes(l, path[Len(l)].open, Len(l) + 1)
<1> DEFINE n == Len(l)
           first == [ok |-> TRUE, open |-> <<>>]
           step == [x \in Nat \X Paths |-> OpenBone(l, x[2], x[1])]
           Is(g) == g = [i \in 0 .. n |-> IF i = 0 THEN first ELSE OpenBone(l, g[i - 1], i)]
<1>1. first \in Paths
  BY DEF Paths
<1>2. \A i \in Nat, x \in Paths : step[<<i, x>>] = OpenBone(l, x, i)
  OBVIOUS
<1>3. \A i \in Nat, x \in Paths : step[<<i, x>>] \in Paths
  BY <1>2, OpenBoneOpens
<1> HIDE DEF step, first
<1>4. PICK g \in [0 .. n -> Paths] : Recursion(g, n, first, step)
  BY <1>1, <1>3, RecursionExists
<1>5. Is(g)
  <2>1. g = [i \in 0 .. n |-> IF i = 0 THEN first ELSE step[<<i, g[i - 1]>>]]
    BY <1>4 DEF Recursion
  <2>2. \A i \in 0 .. n : i # 0 => step[<<i, g[i - 1]>>] = OpenBone(l, g[i - 1], i)
    <3> SUFFICES ASSUME NEW i \in 0 .. n, i # 0
                 PROVE  step[<<i, g[i - 1]>>] = OpenBone(l, g[i - 1], i)
      OBVIOUS
    <3>1. i \in Nat /\ i - 1 \in 0 .. n
      OBVIOUS
    <3> QED
      BY <1>2, <1>4, <3>1
  <2> QED
    BY <2>1, <2>2
<1> DEFINE path == CHOOSE path : Is(path)
<1>6. Is(path)
  BY <1>5
<1>7. PathCloses(l) <=> path[n].ok /\ Closes(l, path[n].open, n + 1)
  BY DEF PathCloses, first
<1> HIDE DEF path
<1>8. path \in [0 .. n -> Paths]
  <2> DEFINE S == {i \in Nat : i <= n => path[i] \in Paths}
  <2>1. 0 \in S
    BY <1>1, <1>6
  <2>2. ASSUME NEW i \in Nat, i \in S PROVE i + 1 \in S
    <3> SUFFICES ASSUME i + 1 <= n PROVE path[i + 1] \in Paths
      OBVIOUS
    <3>1. path[i + 1] = OpenBone(l, path[(i + 1) - 1], i + 1) /\ (i + 1) - 1 = i
      BY <1>6
    <3>2. path[i] \in Paths
      BY <2>2
    <3> QED
      BY <3>1, <3>2, OpenBoneOpens
  <2> HIDE DEF S
  <2>3. Nat \subseteq S
    BY <2>1, <2>2, SetInduction
  <2>4. \A i \in 0 .. n : path[i] \in Paths
    BY <2>3 DEF S
  <2>5. path = [i \in 0 .. n |-> path[i]]
    BY <1>6
  <2> QED
    BY <2>4, <2>5
<1>9. path[0] = first
  BY <1>6
<1>10. ASSUME NEW i \in 1 .. n
       PROVE  \E k : IsKept(l, path[i - 1].open, i, k) /\ Opens(l, path[i - 1], i, k, path[i])
  <2>1. path[i] = OpenBone(l, path[i - 1], i) /\ i - 1 \in 0 .. n /\ i \in Nat
    BY <1>6
  <2>2. path[i - 1] \in Paths
    BY <1>8, <2>1
  <2> QED
    BY <2>1, <2>2, OpenBoneOpens
<1>11. IsPath(l, path)
  BY <1>8, <1>9, <1>10 DEF IsPath, first
<1> QED
  BY <1>7, <1>11

\* A path goes down: later bones come later.
GoesDown(open, t) ==
  /\ open \in Seq(Nat)
  /\ \A k \in 1 .. Len(open) : open[k] \in 1 .. t
  /\ \A j, k \in 1 .. Len(open) : j < k => open[j] < open[k]

LEMMA PathGoesDown ==
  ASSUME NEW l, Len(l) \in Nat, NEW path, IsPath(l, path)
  PROVE  \A t \in 0 .. Len(l) : GoesDown(path[t].open, t)
<1> DEFINE n == Len(l)
           S == {t \in Nat : t <= n => GoesDown(path[t].open, t)}
<1>1. 0 \in S
  <2>1. path[0].open = <<>> /\ <<>> \in Seq(Nat) /\ Len(<<>>) = 0 /\ 1 .. 0 = {}
    BY DEF IsPath
  <2>2. GoesDown(<<>>, 0)
    BY <2>1 DEF GoesDown
  <2> QED
    BY <2>1, <2>2
<1>2. ASSUME NEW t \in Nat, t \in S
      PROVE  t + 1 \in S
  <2> SUFFICES ASSUME t + 1 <= n PROVE GoesDown(path[t + 1].open, t + 1)
    OBVIOUS
  <2> DEFINE open == path[t].open
             next == path[t + 1].open
  <2>1. t + 1 \in 1 .. n /\ (t + 1) - 1 = t /\ t + 1 \in 0 .. n
    OBVIOUS
  <2>2. PICK k : IsKept(l, open, t + 1, k) /\ Opens(l, path[t], t + 1, k, path[t + 1])
    BY <2>1 DEF IsPath
  <2>3. GoesDown(open, t)
    BY <1>2
  <2>4. /\ open \in Seq(Nat) /\ Len(open) \in Nat
        /\ \A j \in 1 .. Len(open) : open[j] \in 1 .. t
        /\ \A i, j \in 1 .. Len(open) : i < j => open[i] < open[j]
    BY <2>3 DEF GoesDown
  <2>5. /\ k \in 0 .. Len(open) /\ Len(next) = k + 1 /\ next[k + 1] = t + 1
        /\ \A j \in 1 .. k : next[j] = open[j]
    BY <2>2 DEF IsKept, Opens
  <2>6. next \in Seq(Nat)
    <3>1. path[t + 1] \in Paths
      BY <2>1 DEF IsPath
    <3> QED
      BY <3>1 DEF Paths
  <2>7. \A j \in 1 .. k : j \in 1 .. Len(open)
    BY <2>4, <2>5
  <2>8. \A j : j \in 1 .. k + 1 <=> j \in 1 .. k \/ j = k + 1
    BY <2>4, <2>5
  <2> HIDE DEF open, next
  <2>9. \A j \in 1 .. k + 1 : next[j] \in 1 .. t + 1
    <3>1. \A x \in 1 .. t : x \in 1 .. t + 1
      OBVIOUS
    <3>2. t + 1 \in 1 .. t + 1
      OBVIOUS
    <3> QED
      BY <2>4, <2>5, <2>7, <2>8, <3>1, <3>2
  <2>10. ASSUME NEW i \in 1 .. k + 1, NEW j \in 1 .. k + 1, i < j
         PROVE  next[i] < next[j]
    <3>1. i \in 1 .. k /\ next[i] = open[i] /\ open[i] \in 1 .. t
      BY <2>4, <2>5, <2>7, <2>8, <2>10
    <3>2. CASE j \in 1 .. k
      BY <2>4, <2>5, <2>7, <2>10, <3>1, <3>2
    <3>3. CASE j = k + 1
      BY <2>5, <3>1, <3>3
    <3> QED
      BY <2>8, <3>2, <3>3
  <2> QED
    BY <2>5, <2>6, <2>9, <2>10 DEF GoesDown, next
<1> HIDE DEF S
<1>3. Nat \subseteq S
  BY <1>1, <1>2, SetInduction
<1> QED
  BY <1>3 DEF S

Has(open, i) == \E k \in 1 .. Len(open) : open[k] = i

\* What a valid path says of the first t bones: those on it are still open and
\* those left were left whole.
FitsUpTo(l, open, t) ==
  \A i \in 1 .. t :
    IF Has(open, i)
    THEN \A j \in i + 1 .. t : i <= l[j].parent_index
    ELSE /\ l[i].subtree_end <= t
         /\ \A j \in i + 1 .. t :
              IF j <= l[i].subtree_end THEN i <= l[j].parent_index
              ELSE l[j].parent_index \notin i .. l[i].subtree_end
         /\ \A j \in i .. l[i].subtree_end : ~Has(open, j)

\* One bone more.
LEMMA PathStepFits ==
  ASSUME NEW l, Typed(l), \A i \in 1 .. Len(l) : BoneFits(l, i),
         NEW t \in Nat, t + 1 <= Len(l), NEW s \in Paths, NEW next \in Paths, NEW k,
         GoesDown(s.open, t), FitsUpTo(l, s.open, t), next.ok,
         IsKept(l, s.open, t + 1, k), Opens(l, s, t + 1, k, next)
  PROVE  s.ok /\ FitsUpTo(l, next.open, t + 1)
<1> DEFINE n == Len(l)
           open == s.open
           q == l[t + 1].parent_index
           m == Len(open)
<1>1. /\ n \in Nat /\ t + 1 \in 1 .. n
      /\ \A i \in 1 .. n : /\ l[i].parent_index \in Nat /\ l[i].parent_index < i
                           /\ l[i].subtree_end \in Nat /\ i <= l[i].subtree_end
  BY DEF Typed, BoneFits
<1>2. /\ m \in Nat /\ \A j \in 1 .. m : open[j] \in 1 .. t
      /\ \A i, j \in 1 .. m : i < j => open[i] < open[j]
  BY DEF GoesDown
<1>3. /\ k \in 0 .. m
      /\ k # 0 => open[k] = q
      /\ \A j \in k + 1 .. m : open[j] # q
  BY DEF IsKept
<1>4. /\ s.ok
      /\ \A j \in k + 1 .. m : l[open[j]].subtree_end = t
      /\ q # 0 => k # 0
      /\ Len(next.open) = k + 1 /\ next.open[k + 1] = t + 1
      /\ \A j \in 1 .. k : next.open[j] = open[j]
  <2>1. (t + 1) - 1 = t
    OBVIOUS
  <2> QED
    BY <2>1 DEF Opens
<1>5. q \in Nat /\ q <= t
  BY <1>1
<1> HIDE DEF n, open, q, m
<1>6. \A i : Has(next.open, i) <=> i = t + 1 \/ \E j \in 1 .. k : open[j] = i
  <2>1. \A j : j \in 1 .. k + 1 <=> j \in 1 .. k \/ j = k + 1
    BY <1>2, <1>3
  <2> QED
    BY <1>4, <2>1 DEF Has
<1>7. \A j \in 1 .. k : open[j] <= q /\ open[j] \in 1 .. t
  <2> SUFFICES ASSUME NEW j \in 1 .. k PROVE open[j] <= q /\ open[j] \in 1 .. t
    OBVIOUS
  <2>1. j \in 1 .. m /\ k \in 1 .. m /\ k # 0 /\ (j = k \/ j < k)
    BY <1>2, <1>3
  <2> QED
    BY <1>2, <1>3, <1>5, <2>1
<1>8. q = 0 \/ Has(open, q)
  <2>1. q # 0 => k \in 1 .. m
    BY <1>2, <1>3, <1>4
  <2> QED
    BY <1>3, <1>4, <2>1 DEF Has, m
<1>9. ASSUME NEW i \in 1 .. t, Has(next.open, i)
      PROVE  Has(open, i) /\ i <= q
  <2>1. PICK j \in 1 .. k : open[j] = i
    BY <1>6, <1>9
  <2>2. j \in 1 .. m
    BY <1>2, <1>3
  <2> QED
    BY <1>7, <2>1, <2>2 DEF Has, m
<1>10. ASSUME NEW i \in 1 .. t, Has(open, i), ~Has(next.open, i)
       PROVE  l[i].subtree_end = t /\ q < i
  <2>1. PICK j \in 1 .. m : open[j] = i
    BY <1>10 DEF Has, m
  <2>2. j \in k + 1 .. m
    BY <1>2, <1>3, <1>6, <1>10, <2>1
  <2>3. q < i
    <3>1. CASE q = 0
      BY <3>1
    <3>2. CASE q # 0
      <4>1. k \in 1 .. m /\ k < j /\ open[k] = q
        BY <1>2, <1>3, <1>4, <2>2, <3>2
      <4> QED
        BY <1>2, <2>1, <4>1
    <3> QED
      BY <3>1, <3>2
  <2> QED
    BY <1>4, <2>1, <2>2, <2>3
<1>11. ASSUME NEW i \in 1 .. t + 1
       PROVE  IF Has(next.open, i)
              THEN \A j \in i + 1 .. t + 1 : i <= l[j].parent_index
              ELSE /\ l[i].subtree_end <= t + 1
                   /\ \A j \in i + 1 .. t + 1 :
                        IF j <= l[i].subtree_end THEN i <= l[j].parent_index
                        ELSE l[j].parent_index \notin i .. l[i].subtree_end
                   /\ \A j \in i .. l[i].subtree_end : ~Has(next.open, j)
  <2>0. \A j : j \in i + 1 .. t + 1 => j \in i + 1 .. t \/ (j = t + 1 /\ l[j].parent_index = q)
    BY DEF q
  <2>1. CASE i = t + 1
    BY <1>6, <2>1
  <2>2. CASE i # t + 1 /\ Has(next.open, i)
    <3>1. i \in 1 .. t
      BY <2>2
    <3>2. Has(open, i) /\ i <= q
      BY <1>9, <2>2, <3>1
    <3>3. \A j \in i + 1 .. t : i <= l[j].parent_index
      BY <3>1, <3>2 DEF FitsUpTo, open
    <3> QED
      BY <2>0, <2>2, <3>2, <3>3
  <2>3. CASE i # t + 1 /\ ~Has(next.open, i) /\ Has(open, i)
    <3>1. i \in 1 .. t
      BY <2>3
    <3>2. l[i].subtree_end = t /\ q < i
      BY <1>10, <2>3, <3>1
    <3>3. \A j \in i + 1 .. t : i <= l[j].parent_index
      BY <2>3, <3>1 DEF FitsUpTo, open
    <3>4. \A j \in i .. t : ~Has(next.open, j)
      <4> SUFFICES ASSUME NEW j \in i .. t, Has(next.open, j) PROVE FALSE
        OBVIOUS
      <4>1. j \in 1 .. t
        BY <3>1
      <4>2. j <= q
        BY <1>9, <4>1
      <4> QED
        BY <1>5, <3>1, <3>2, <4>1, <4>2
    <3>5. q \notin i .. t
      BY <1>5, <3>1, <3>2
    <3>6. \A j \in i + 1 .. t + 1 :
            IF j <= t THEN i <= l[j].parent_index ELSE l[j].parent_index \notin i .. t
      BY <2>0, <3>1, <3>3, <3>5
    <3> QED
      BY <2>3, <3>2, <3>4, <3>6
  <2>4. CASE i # t + 1 /\ ~Has(next.open, i) /\ ~Has(open, i)
    <3>1. i \in 1 .. t
      BY <2>4
    <3>2. /\ l[i].subtree_end <= t
          /\ \A j \in i + 1 .. t :
               IF j <= l[i].subtree_end THEN i <= l[j].parent_index
               ELSE l[j].parent_index \notin i .. l[i].subtree_end
          /\ \A j \in i .. l[i].subtree_end : ~Has(open, j)
      BY <2>4, <3>1 DEF FitsUpTo, open
    <3>3. l[i].subtree_end \in Nat
      BY <1>1, <3>1
    <3>4. q \notin i .. l[i].subtree_end
      BY <1>8, <3>1, <3>2
    <3>5. \A j \in i .. l[i].subtree_end : ~Has(next.open, j)
      <4> SUFFICES ASSUME NEW j \in i .. l[i].subtree_end, Has(next.open, j) PROVE FALSE
        OBVIOUS
      <4>1. j \in 1 .. t
        BY <3>1, <3>2, <3>3
      <4> QED
        BY <1>9, <3>2, <4>1
    <3>6. \A j \in i + 1 .. t + 1 :
            IF j <= l[i].subtree_end THEN i <= l[j].parent_index
            ELSE l[j].parent_index \notin i .. l[i].subtree_end
      <4> SUFFICES ASSUME NEW j \in i + 1 .. t + 1
                   PROVE  IF j <= l[i].subtree_end THEN i <= l[j].parent_index
                          ELSE l[j].parent_index \notin i .. l[i].subtree_end
        OBVIOUS
      <4>1. CASE j \in i + 1 .. t
        BY <3>2, <4>1
      <4>2. CASE j = t + 1 /\ l[j].parent_index = q
        <5>1. ~(j <= l[i].subtree_end)
          BY <3>2, <3>3, <4>2
        <5> QED
          BY <3>4, <4>2, <5>1
      <4> QED
        BY <2>0, <4>1, <4>2
    <3>7. l[i].subtree_end <= t + 1
      BY <3>2, <3>3
    <3> QED
      BY <2>4, <3>5, <3>6, <3>7
  <2> QED
    BY <2>1, <2>2, <2>3, <2>4
<1> QED
  BY <1>4, <1>11 DEF FitsUpTo

\* A list whose path closes is nested.
LEMMA ClosingIsNested ==
  ASSUME NEW l, Typed(l), \A i \in 1 .. Len(l) : BoneFits(l, i), PathCloses(l)
  PROVE  Nested(l)
<1> DEFINE n == Len(l)
<1>1. n \in Nat
  BY DEF Typed
<1>2. PICK path : IsPath(l, path) /\ path[n].ok /\ Closes(l, path[n].open, n + 1)
  BY <1>1, PathExists
<1>3. \A t \in 0 .. n : path[t] \in Paths /\ GoesDown(path[t].open, t)
  BY <1>1, <1>2, PathGoesDown DEF IsPath
<1> DEFINE S == {t \in Nat : t <= n /\ path[t].ok => FitsUpTo(l, path[t].open, t)}
<1>4. 0 \in S
  BY DEF FitsUpTo
<1>5. ASSUME NEW t \in Nat, t \in S
      PROVE  t + 1 \in S
  <2> SUFFICES ASSUME t + 1 <= n, path[t + 1].ok PROVE FitsUpTo(l, path[t + 1].open, t + 1)
    OBVIOUS
  <2>1. t + 1 \in 1 .. n /\ (t + 1) - 1 = t /\ t + 1 \in 0 .. n /\ t \in 0 .. n /\ t <= n
    BY <1>1
  <2>2. PICK k : IsKept(l, path[t].open, t + 1, k) /\ Opens(l, path[t], t + 1, k, path[t + 1])
    BY <1>2, <2>1 DEF IsPath
  <2>3. path[t].ok
    BY <2>2 DEF Opens
  <2>4. FitsUpTo(l, path[t].open, t)
    BY <1>5, <2>1, <2>3
  <2> QED
    BY <1>3, <2>1, <2>2, <2>4, PathStepFits
<1> HIDE DEF S
<1>6. Nat \subseteq S
  BY <1>4, <1>5, SetInduction
<1>7. FitsUpTo(l, path[n].open, n)
  BY <1>1, <1>2, <1>6 DEF S
<1>8. ASSUME NEW i \in 1 .. n
      PROVE  SubtreeFits(l, i)
  <2>1. CASE Has(path[n].open, i)
    <3>1. l[i].subtree_end = n
      <4>1. PICK k \in 1 .. Len(path[n].open) : path[n].open[k] = i
        BY <2>1 DEF Has
      <4>2. path[n].open \in Seq(Nat)
        BY <1>1, <1>3 DEF GoesDown
      <4>3. i \in Range(path[n].open)
        BY <4>1, <4>2 DEF Range
      <4>4. (n + 1) - 1 = n
        BY <1>1
      <4> QED
        BY <1>2, <4>3, <4>4 DEF Closes
    <3>2. \A j \in i + 1 .. n : i <= l[j].parent_index /\ j <= n
      BY <1>7, <2>1 DEF FitsUpTo
    <3> QED
      BY <3>1, <3>2 DEF SubtreeFits
  <2>2. CASE ~Has(path[n].open, i)
    BY <1>7, <2>2 DEF FitsUpTo, SubtreeFits
  <2> QED
    BY <2>1, <2>2
<1> QED
  BY <1>8 DEF Nested

\* The path of a nested list holds the bones whose subtrees go on, and closes.
LEMMA NestedCloses ==
  ASSUME NEW l, Typed(l), Nested(l)
  PROVE  PathCloses(l)
<1> DEFINE n == Len(l)
<1>1. /\ n \in Nat
      /\ \A i \in 1 .. n :
           /\ l[i].parent_index \in Nat /\ l[i].parent_index < i
           /\ l[i].subtree_end \in Nat /\ i <= l[i].subtree_end /\ l[i].subtree_end <= n
           /\ \A j \in i + 1 .. n : IF j <= l[i].subtree_end THEN i <= l[j].parent_index
                                    ELSE l[j].parent_index \notin i .. l[i].subtree_end
  BY SMTT(30) DEF Typed, Nested, BoneFits, SubtreeFits
<1>2. PICK path : IsPath(l, path) /\ (PathCloses(l) <=> path[n].ok /\ Closes(l, path[n].open, n + 1))
  BY <1>1, PathExists
<1>3. \A t \in 0 .. n : path[t] \in Paths /\ GoesDown(path[t].open, t)
  BY <1>1, <1>2, PathGoesDown DEF IsPath
<1> DEFINE GoOn(t) == path[t].ok /\ \A i \in 1 .. t : Has(path[t].open, i) <=> t <= l[i].subtree_end
           S == {t \in Nat : t <= n => GoOn(t)}
<1>4. 0 \in S
  BY <1>2 DEF IsPath
<1>5. ASSUME NEW t \in Nat, t \in S
      PROVE  t + 1 \in S
  <2> SUFFICES ASSUME t + 1 <= n PROVE GoOn(t + 1)
    OBVIOUS
  <2> DEFINE open == path[t].open
             next == path[t + 1].open
             q == l[t + 1].parent_index
             m == Len(open)
  <2>1. t + 1 \in 1 .. n /\ (t + 1) - 1 = t /\ t + 1 \in 0 .. n /\ t \in 0 .. n /\ t <= n
    BY <1>1
  <2>2. PICK k : IsKept(l, open, t + 1, k) /\ Opens(l, path[t], t + 1, k, path[t + 1])
    BY <1>2, <2>1 DEF IsPath
  <2>3. path[t].ok /\ \A i \in 1 .. t : Has(open, i) <=> t <= l[i].subtree_end
    BY <1>5, <2>1
  <2>4. /\ m \in Nat /\ \A j \in 1 .. m : open[j] \in 1 .. t
        /\ \A i, j \in 1 .. m : i < j => open[i] < open[j]
    BY <1>3, <2>1, SMTT(30) DEF GoesDown
  <2>5. /\ k \in 0 .. m
        /\ k # 0 => open[k] = q
        /\ \A j \in k + 1 .. m : open[j] # q
    BY <2>2 DEF IsKept
  <2>6. /\ path[t + 1].ok <=> /\ path[t].ok
                              /\ \A j \in k + 1 .. m : l[open[j]].subtree_end = t
                              /\ q # 0 => k # 0
        /\ Len(next) = k + 1 /\ next[k + 1] = t + 1
        /\ \A j \in 1 .. k : next[j] = open[j]
    BY <2>1, <2>2 DEF Opens
  <2>7. q \in Nat /\ q <= t /\ t + 1 <= l[t + 1].subtree_end
    BY <1>1, <2>1
  <2>8. ASSUME NEW i \in 1 .. t
        PROVE  /\ i \in 1 .. n /\ l[i].subtree_end \in Nat /\ i <= l[i].subtree_end
               /\ IF t + 1 <= l[i].subtree_end THEN i <= q ELSE q \notin i .. l[i].subtree_end
    <3>1. i \in 1 .. n /\ t + 1 \in i + 1 .. n
      BY <1>1, <2>1
    <3> QED
      BY <1>1, <3>1
  <2> HIDE DEF open, next, q, m
  <2>9. q # 0 => k # 0 /\ t + 1 <= l[q].subtree_end
    <3> SUFFICES ASSUME q # 0 PROVE k # 0 /\ t + 1 <= l[q].subtree_end
      OBVIOUS
    <3>1. q \in 1 .. t
      BY <2>7
    <3>2. t + 1 <= l[q].subtree_end
      BY <2>8, <3>1
    <3>3. Has(open, q)
      BY <2>3, <2>8, <3>1, <3>2
    <3>4. PICK j \in 1 .. m : open[j] = q
      BY <3>3 DEF Has, m
    <3> QED
      BY <2>4, <2>5, <3>2, <3>4
  <2>10. ASSUME NEW j \in k + 1 .. m
         PROVE  q < open[j] /\ l[open[j]].subtree_end = t /\ open[j] \in 1 .. t
    <3>1. j \in 1 .. m /\ open[j] \in 1 .. t
      BY <2>4, <2>5
    <3>2. q < open[j]
      <4>1. CASE q = 0
        BY <3>1, <4>1
      <4>2. CASE q # 0
        <5>1. k \in 1 .. m /\ k < j /\ open[k] = q
          BY <2>4, <2>5, <2>9, <4>2
        <5> QED
          BY <2>4, <3>1, <5>1
      <4> QED
        BY <4>1, <4>2
    <3>3. t <= l[open[j]].subtree_end
      BY <2>3, <3>1 DEF Has, m
    <3>4. ~(t + 1 <= l[open[j]].subtree_end)
      BY <2>7, <2>8, <3>1, <3>2
    <3> QED
      BY <2>8, <3>1, <3>2, <3>3, <3>4
  <2>11. path[t + 1].ok
    BY <2>3, <2>6, <2>9, <2>10
  <2>12. \A i : Has(next, i) <=> i = t + 1 \/ \E j \in 1 .. k : open[j] = i
    <3>1. \A j : j \in 1 .. k + 1 <=> j \in 1 .. k \/ j = k + 1
      BY <2>4, <2>5
    <3> QED
      BY <2>6, <3>1 DEF Has
  <2>13. ASSUME NEW i \in 1 .. t + 1
         PROVE  Has(next, i) <=> t + 1 <= l[i].subtree_end
    <3>1. CASE i = t + 1
      BY <2>7, <2>12, <3>1
    <3>2. CASE i # t + 1
      <4>1. i \in 1 .. t
        BY <3>2
      <4>2. ASSUME Has(next, i)
            PROVE  t + 1 <= l[i].subtree_end
        <5>1. PICK j \in 1 .. k : open[j] = i
          BY <2>12, <3>2, <4>2
        <5>2. j \in 1 .. m /\ k \in 1 .. m /\ k # 0 /\ (j = k \/ j < k)
          BY <2>4, <2>5
        <5>3. i <= q
          BY <2>4, <2>5, <2>7, <5>1, <5>2
        <5>4. t <= l[i].subtree_end
          BY <2>3, <4>1, <5>1, <5>2 DEF Has, m
        <5>5. t + 1 <= l[i].subtree_end \/ q \notin i .. l[i].subtree_end
          BY <2>8, <4>1
        <5> QED
          BY <2>7, <2>8, <4>1, <5>3, <5>4, <5>5
      <4>3. ASSUME t + 1 <= l[i].subtree_end
            PROVE  Has(next, i)
        <5>1. Has(open, i)
          BY <2>3, <2>8, <4>1, <4>3
        <5>2. PICK j \in 1 .. m : open[j] = i
          BY <5>1 DEF Has, m
        <5>3. j \notin k + 1 .. m
          BY <2>8, <2>10, <4>1, <4>3, <5>2
        <5>4. j \in 1 .. k
          BY <2>4, <2>5, <5>3
        <5> QED
          BY <2>12, <5>2, <5>4
      <4> QED
        BY <4>2, <4>3
    <3> QED
      BY <3>1, <3>2
  <2> QED
    BY <2>11, <2>13 DEF next
<1> HIDE DEF S
<1>6. Nat \subseteq S
  BY <1>4, <1>5, SetInduction
<1>7. GoOn(n)
  BY <1>1, <1>6 DEF S
<1>8. Closes(l, path[n].open, n + 1)
  <2>1. /\ path[n].open \in Seq(Nat)
        /\ \A k \in 1 .. Len(path[n].open) : path[n].open[k] \in 1 .. n
    BY <1>1, <1>3 DEF GoesDown
  <2>2. ASSUME NEW i \in Range(path[n].open)
        PROVE  l[i].subtree_end = (n + 1) - 1
    <3>1. PICK k \in 1 .. Len(path[n].open) : path[n].open[k] = i
      BY <2>1 DEF Range
    <3>2. i \in 1 .. n /\ n <= l[i].subtree_end
      BY <1>7, <2>1, <3>1 DEF Has
    <3> QED
      BY <1>1, <3>2
  <2> QED
    BY <2>2 DEF Closes
<1> QED
  BY <1>2, <1>7, <1>8

\* The one pass of ValidateHierarchy over the path of open bones tells
\* preorder forests from everything else, whatever numbers a file holds.
THEOREM HierarchyCheckIsExact ==
  ASSUME NEW f, f.list \in Seq(BoneInFile), f.sorted \in Seq(Nat)
  PROVE  ValidHierarchy(f) <=>
           /\ Permutation(f.sorted, Len(f.list))
           /\ Preorder(f.list)
           /\ \A b \in Range(f.list) : b.finite
<1> DEFINE l == f.list
           n == Len(l)
<1>1. n \in Nat /\ Typed(l) /\ DOMAIN l = 1 .. n /\ DOMAIN f.sorted = 1 .. Len(f.sorted)
  <2>1. \A i \in 1 .. n : l[i] \in BoneInFile
    BY ElementOfSeq
  <2>2. n \in Nat /\ DOMAIN l = 1 .. n /\ DOMAIN f.sorted = 1 .. Len(f.sorted)
    OBVIOUS
  <2> QED
    BY <2>1, <2>2 DEF Typed, BoneInFile
<1>2. (\A b \in Range(l) : b.finite) <=> \A i \in 1 .. n : l[i].finite
  BY <1>1 DEF Range
<1>3. Permutation(f.sorted, n) <=>
        Len(f.sorted) = n /\ Range(f.sorted) \subseteq 1 .. n /\ IsInjective(f.sorted)
  <2>1. CASE Len(f.sorted) = n /\ Range(f.sorted) \subseteq 1 .. n
    <3>1. f.sorted \in Seq(1 .. n)
      <4>1. \A i \in 1 .. n : f.sorted[i] \in 1 .. n
        BY <1>1, <2>1 DEF Range
      <4> QED
        BY <1>1, <2>1, <4>1
    <3>2. IsInjective(f.sorted) <=> \A i, j \in 1 .. n : f.sorted[i] = f.sorted[j] => i = j
      BY <1>1, <2>1 DEF IsInjective
    <3> QED
      BY <1>1, <2>1, <3>1, <3>2, PermutationList DEF Permutation
  <2>2. CASE ~(Len(f.sorted) = n /\ Range(f.sorted) \subseteq 1 .. n)
    BY <2>2 DEF Permutation
  <2> QED
    BY <2>1, <2>2
<1>4. (\A i \in 1 .. n : BoneFits(l, i)) /\ PathCloses(l) <=> Nested(l)
  BY <1>1, ClosingIsNested, NestedCloses DEF Nested
<1>5. Preorder(l) <=> Nested(l)
  BY <1>1, PreorderIsNested
<1>6. ValidHierarchy(f) <=>
        /\ Len(f.sorted) = n /\ Range(f.sorted) \subseteq 1 .. n /\ IsInjective(f.sorted)
        /\ \A i \in 1 .. n : BoneFits(l, i)
        /\ \A i \in 1 .. n : l[i].finite
        /\ PathCloses(l)
  BY DEF ValidHierarchy, BoneFits
<1> QED
  BY <1>2, <1>3, <1>4, <1>5, <1>6

\* As ModelState relies on it, by depths alone: a subtree is deeper than its
\* root, what follows it is not, and a bone goes down by at most one.
ByDepth(l) ==
  \A i \in 1 .. Len(l) :
    /\ l[i].subtree_end \in i .. Len(l)
    /\ \A j \in i + 1 .. l[i].subtree_end : l[j].depth > l[i].depth
    /\ l[i].subtree_end < Len(l) => l[l[i].subtree_end + 1].depth <= l[i].depth
    /\ l[i].depth <= IF i = 1 THEN 0 ELSE l[i - 1].depth + 1

LEMMA NestedByDepth ==
  ASSUME NEW l, Typed(l), Nested(l)
  PROVE  ByDepth(l)
<1> DEFINE n == Len(l)
<1>1. /\ n \in Nat
      /\ \A i \in 1 .. n :
           /\ l[i].parent_index \in Nat /\ l[i].parent_index < i /\ l[i].depth \in Nat
           /\ l[i].depth = IF l[i].parent_index = 0 THEN 0 ELSE l[l[i].parent_index].depth + 1
           /\ l[i].subtree_end \in Nat /\ i <= l[i].subtree_end /\ l[i].subtree_end <= n
           /\ \A j \in i + 1 .. n : IF j <= l[i].subtree_end THEN i <= l[j].parent_index
                                    ELSE l[j].parent_index \notin i .. l[i].subtree_end
  BY DEF Typed, Nested, BoneFits, SubtreeFits
<1> HIDE DEF n
<1>2. ASSUME NEW i \in 1 .. n
      PROVE  \A j \in i + 1 .. l[i].subtree_end : l[j].depth > l[i].depth
  <2> DEFINE T == {j \in i + 1 .. l[i].subtree_end : ~(l[j].depth > l[i].depth)}
  <2> SUFFICES ASSUME T # {} PROVE FALSE
    OBVIOUS
  <2>1. T \subseteq Nat
    BY <1>1
  <2>2. PICK j \in T : \A k \in T : j <= k
    BY <2>1, LeastNat
  <2> DEFINE q == l[j].parent_index
  <2>3. j \in i + 1 .. n /\ j \in 1 .. n /\ j <= l[i].subtree_end /\ ~(l[j].depth > l[i].depth)
    BY <1>1
  <2>4. i <= q /\ q < j /\ q \in Nat /\ q # 0 /\ l[j].depth = l[q].depth + 1
    BY <1>1, <2>3
  <2> HIDE DEF q
  <2>5. q \in 1 .. n /\ l[q].depth \in Nat /\ l[i].depth \in Nat
    BY <1>1, <2>3, <2>4
  <2>6. q # i
    BY <2>3, <2>4, <2>5
  <2>7. q \in i + 1 .. l[i].subtree_end
    <3>1. l[i].subtree_end \in Nat /\ i \in Nat /\ j \in Nat /\ j <= l[i].subtree_end
      BY <1>1, <2>3
    <3> QED
      BY <2>4, <2>6, <3>1
  <2>8. l[q].depth > l[i].depth
    BY <2>2, <2>3, <2>4, <2>7
  <2> QED
    BY <2>3, <2>4, <2>5, <2>8
<1>3. ASSUME NEW j \in 1 .. n, NEW i \in 1 .. j - 1, l[j].parent_index < i
      PROVE  l[j].depth <= l[i].depth
  <2> DEFINE q == l[j].parent_index
  <2>1. q \in Nat /\ q < i /\ i \in 1 .. n /\ l[j].depth = IF q = 0 THEN 0 ELSE l[q].depth + 1
    BY <1>1, <1>3
  <2>2. CASE q = 0
    BY <1>1, <2>1, <2>2
  <2>3. CASE q # 0
    <3>1. q \in 1 .. n /\ j \in q + 1 .. n
      BY <1>1, <2>1, <2>3
    <3>2. j <= l[q].subtree_end
      BY <1>1, <3>1
    <3>3. i \in q + 1 .. l[q].subtree_end
      BY <1>1, <2>1, <3>1, <3>2
    <3>4. l[i].depth > l[q].depth
      BY <1>2, <3>1, <3>3
    <3> HIDE DEF q
    <3> QED
      BY <1>1, <2>1, <2>3, <3>1, <3>4
  <2> QED
    BY <2>2, <2>3
<1>4. ASSUME NEW i \in 1 .. n, l[i].subtree_end < n
      PROVE  l[l[i].subtree_end + 1].depth <= l[i].depth
  <2> DEFINE j == l[i].subtree_end + 1
  <2>1. j \in 1 .. n /\ j \in i + 1 .. n /\ i \in 1 .. j - 1 /\ ~(j <= l[i].subtree_end)
    BY <1>1, <1>4
  <2>2. l[j].parent_index \notin i .. l[i].subtree_end /\ l[j].parent_index < j
        /\ l[j].parent_index \in Nat
    BY <1>1, <2>1
  <2>3. l[j].parent_index < i
    BY <1>1, <1>4, <2>2
  <2> QED
    BY <1>3, <2>1, <2>3
<1>5. ASSUME NEW i \in 1 .. n
      PROVE  l[i].depth <= IF i = 1 THEN 0 ELSE l[i - 1].depth + 1
  <2>1. CASE l[i].parent_index = 0
    <3>1. l[i].depth = 0 /\ (i # 1 => i - 1 \in 1 .. n)
      BY <1>1, <2>1
    <3> QED
      BY <1>1, <3>1
  <2>2. CASE l[i].parent_index # 0
    <3>1. i # 1 /\ i - 1 \in 1 .. n /\ l[i].parent_index \in 1 .. i - 1
      BY <1>1, <2>2
    <3>2. CASE l[i].parent_index = i - 1
      BY <1>1, <2>2, <3>1, <3>2
    <3>3. CASE l[i].parent_index # i - 1
      <4>1. i - 1 \in 1 .. i - 1 /\ l[i].parent_index < i - 1
        BY <1>1, <3>1, <3>3
      <4>2. l[i].depth <= l[i - 1].depth
        BY <1>3, <4>1
      <4> QED
        BY <1>1, <3>1, <4>2
    <3> QED
      BY <3>2, <3>3
  <2> QED
    BY <2>1, <2>2
<1>6. \A i \in 1 .. n : l[i].subtree_end \in i .. n
  BY <1>1
<1> QED
  BY <1>2, <1>4, <1>5, <1>6 DEF ByDepth, n

-----------------------------------------------------------------------------
(* Sums and concatenations.                                                *)

IsRunningSum(s, g) ==
  /\ g \in [0 .. Len(s) -> Nat]
  /\ g[0] = 0
  /\ \A i \in 1 .. Len(s) : g[i] = g[i - 1] + s[i]

LEMMA RunningSumExists ==
  ASSUME NEW s \in Seq(Nat)
  PROVE  \E g : IsRunningSum(s, g) /\ SumOf(s) = g[Len(s)]
<1> DEFINE n == Len(s)
           step == [x \in Nat \X Nat |-> IF x[1] \in 1 .. n THEN x[2] + s[x[1]] ELSE x[2]]
           Is(g) == g = [i \in 0 .. n |-> IF i = 0 THEN 0 ELSE g[i - 1] + s[i]]
<1>1. n \in Nat /\ \A i \in 1 .. n : s[i] \in Nat
  OBVIOUS
<1> HIDE DEF n
<1>2. \A i \in Nat, x \in Nat : step[<<i, x>>] = IF i \in 1 .. n THEN x + s[i] ELSE x
  OBVIOUS
<1> HIDE DEF step
<1>3. \A i \in Nat, x \in Nat : step[<<i, x>>] \in Nat
  <2> SUFFICES ASSUME NEW i \in Nat, NEW x \in Nat PROVE step[<<i, x>>] \in Nat
    OBVIOUS
  <2>1. CASE i \in 1 .. n
    <3>1. step[<<i, x>>] = x + s[i] /\ s[i] \in Nat
      BY <1>1, <1>2, <2>1
    <3> QED
      BY <3>1
  <2>2. CASE i \notin 1 .. n
    BY <1>2, <2>2
  <2> QED
    BY <2>1, <2>2
<1>4. \A i \in 1 .. n, x \in Nat : step[<<i, x>>] = x + s[i]
  <2> SUFFICES ASSUME NEW i \in 1 .. n, NEW x \in Nat PROVE step[<<i, x>>] = x + s[i]
    OBVIOUS
  <2>1. i \in Nat
    OBVIOUS
  <2> QED
    BY <1>2, <2>1
<1>5. PICK g \in [0 .. n -> Nat] : Recursion(g, n, 0, step)
  <2>1. 0 \in Nat
    OBVIOUS
  <2> QED
    BY <1>1, <1>3, <2>1, RecursionExists
<1>6. Is(g)
  <2>1. g = [i \in 0 .. n |-> IF i = 0 THEN 0 ELSE step[<<i, g[i - 1]>>]]
    BY <1>5 DEF Recursion
  <2>2. \A i \in 0 .. n : i # 0 => step[<<i, g[i - 1]>>] = g[i - 1] + s[i]
    <3> SUFFICES ASSUME NEW i \in 0 .. n, i # 0 PROVE step[<<i, g[i - 1]>>] = g[i - 1] + s[i]
      OBVIOUS
    <3>1. i \in 1 .. n /\ i - 1 \in 0 .. n
      BY <1>1
    <3> QED
      BY <1>4, <1>5, <3>1
  <2> QED
    BY <2>1, <2>2
<1> DEFINE h == CHOOSE h : Is(h)
<1>7. Is(h) /\ SumOf(s) = h[n]
  BY <1>6 DEF SumOf, n
<1> HIDE DEF h
<1>8. h \in [0 .. n -> Nat]
  <2> DEFINE S == {i \in Nat : i <= n => h[i] \in Nat}
  <2>1. 0 \in S
    BY <1>1, <1>7
  <2>2. ASSUME NEW i \in Nat, i \in S PROVE i + 1 \in S
    <3> SUFFICES ASSUME i + 1 <= n PROVE h[i + 1] \in Nat
      OBVIOUS
    <3>1. i + 1 \in 0 .. n /\ i + 1 \in 1 .. n /\ (i + 1) - 1 = i /\ i + 1 # 0
      BY <1>1
    <3>2. h[i + 1] = h[i] + s[i + 1]
      BY <1>7, <3>1
    <3>3. h[i] \in Nat
      BY <1>1, <2>2
    <3> QED
      BY <1>1, <3>1, <3>2, <3>3, SMTT(30)
  <2> HIDE DEF S
  <2>3. Nat \subseteq S
    BY <2>1, <2>2, SetInduction
  <2>4. \A i \in 0 .. n : h[i] \in Nat
    BY <2>3 DEF S
  <2>5. h = [i \in 0 .. n |-> h[i]]
    BY <1>7
  <2> QED
    BY <2>4, <2>5
<1>9. h[0] = 0
  BY <1>1, <1>7
<1>10. \A i \in 1 .. n : h[i] = h[i - 1] + s[i]
  <2>1. \A i \in 1 .. n : i \in 0 .. n /\ i # 0
    BY <1>1
  <2> QED
    BY <1>7, <2>1
<1> QED
  BY <1>7, <1>8, <1>9, <1>10 DEF IsRunningSum, n

\* The sums of the beginnings of a list.
LEMMA SumsOfBeginnings ==
  ASSUME NEW t \in Seq(Nat)
  PROVE  \E h : /\ IsRunningSum(t, h)
                /\ \A m \in 0 .. Len(t) : SumOf([j \in 1 .. m |-> t[j]]) = h[m]
<1> DEFINE n == Len(t)
<1>1. PICK h : IsRunningSum(t, h)
  BY RunningSumExists
<1>2. n \in Nat /\ \A j \in 1 .. n : t[j] \in Nat
  OBVIOUS
<1>3. h[0] = 0 /\ \A j \in 1 .. n : h[j] = h[j - 1] + t[j]
  BY <1>1 DEF IsRunningSum
<1> HIDE DEF n
<1>4. ASSUME NEW m \in 0 .. n
      PROVE  SumOf([j \in 1 .. m |-> t[j]]) = h[m]
  <2> DEFINE s == [j \in 1 .. m |-> t[j]]
  <2>0. \A j \in 1 .. m : j \in 1 .. n
    BY <1>2
  <2>1. s \in Seq(Nat) /\ Len(s) = m /\ \A j \in 1 .. m : s[j] = t[j]
    BY <1>2, <2>0
  <2> HIDE DEF s
  <2>2. PICK g : IsRunningSum(s, g) /\ SumOf(s) = g[m]
    BY <2>1, RunningSumExists
  <2>3. g[0] = 0 /\ \A j \in 1 .. m : g[j] = g[j - 1] + t[j]
    BY <2>1, <2>2 DEF IsRunningSum
  <2> DEFINE S == {i \in Nat : i <= m => g[i] = h[i]}
  <2>4. 0 \in S
    BY <1>3, <2>3
  <2>5. ASSUME NEW i \in Nat, i \in S PROVE i + 1 \in S
    <3> SUFFICES ASSUME i + 1 <= m PROVE g[i + 1] = h[i + 1]
      OBVIOUS
    <3>1. i + 1 \in 1 .. m /\ i + 1 \in 1 .. n /\ (i + 1) - 1 = i
      BY <1>2
    <3>2. g[i] = h[i]
      BY <1>2, <2>5
    <3> QED
      BY <1>3, <2>3, <3>1, <3>2
  <2> HIDE DEF S
  <2>6. Nat \subseteq S
    BY <2>4, <2>5, SetInduction
  <2>7. g[m] = h[m]
    BY <1>2, <2>6 DEF S
  <2> QED
    BY <2>2, <2>7 DEF s
<1> QED
  BY <1>1, <1>4 DEF n

LEMMA RunningSumGrows ==
  ASSUME NEW t \in Seq(Nat), NEW h, IsRunningSum(t, h), NEW a \in 0 .. Len(t), NEW b \in a .. Len(t)
  PROVE  h[a] \in Nat /\ h[b] \in Nat /\ h[a] <= h[b]
<1> DEFINE n == Len(t)
           S == {i \in Nat : a + i <= n => h[a] <= h[a + i]}
<1>1. /\ n \in Nat /\ \A j \in 1 .. n : t[j] \in Nat
      /\ h \in [0 .. n -> Nat]
      /\ \A j \in 1 .. n : h[j] = h[j - 1] + t[j]
  BY DEF IsRunningSum
<1> HIDE DEF n
<1>2. a \in 0 .. n /\ b \in a .. n
  BY DEF n
<1>3. 0 \in S
  BY <1>1, <1>2
<1>4. ASSUME NEW i \in Nat, i \in S PROVE i + 1 \in S
  <2> SUFFICES ASSUME a + (i + 1) <= n PROVE h[a] <= h[a + (i + 1)]
    OBVIOUS
  <2>1. a + (i + 1) \in 1 .. n /\ (a + (i + 1)) - 1 = a + i /\ a + i \in 0 .. n
    BY <1>1, <1>2
  <2>2. h[a] <= h[a + i]
    BY <1>4, <2>1
  <2>3. h[a + (i + 1)] = h[a + i] + t[a + (i + 1)]
    BY <1>1, <2>1
  <2>4. h[a] \in Nat /\ h[a + i] \in Nat /\ t[a + (i + 1)] \in Nat
    BY <1>1, <1>2, <2>1
  <2> QED
    BY <2>2, <2>3, <2>4
<1> HIDE DEF S
<1>5. Nat \subseteq S
  BY <1>3, <1>4, SetInduction
<1>6. b - a \in Nat /\ a + (b - a) = b
  BY <1>1, <1>2
<1>7. h[a] <= h[a + (b - a)]
  <2>1. (b - a) \in S
    BY <1>5, <1>6
  <2>2. a + (b - a) <= n
    BY <1>1, <1>2
  <2> QED
    BY <2>1, <2>2 DEF S
<1> QED
  BY <1>1, <1>2, <1>6, <1>7

LEMMA TwoPieces ==
  ASSUME NEW T, NEW u \in Seq(T), NEW v \in Seq(T)
  PROVE  /\ u \o v \in Seq(T) /\ Len(u \o v) = Len(u) + Len(v)
         /\ \A x \in 1 .. Len(u) : (u \o v)[x] = u[x]
         /\ \A x \in 1 .. Len(v) : (u \o v)[Len(u) + x] = v[x]
<1>1. /\ u \o v \in Seq(T) /\ Len(u \o v) = Len(u) + Len(v)
      /\ \A x \in 1 .. Len(u) + Len(v) : (u \o v)[x] = IF x <= Len(u) THEN u[x] ELSE v[x - Len(u)]
  BY ConcatProperties
<1> DEFINE w == u \o v
           a == Len(u)
           b == Len(v)
<1>2. a \in Nat /\ b \in Nat
  OBVIOUS
<1>3. \A x \in 1 .. a + b : w[x] = IF x <= a THEN u[x] ELSE v[x - a]
  BY <1>1
<1> HIDE DEF w, a, b
<1>4. ASSUME NEW x \in 1 .. a PROVE w[x] = u[x]
  <2>1. x \in 1 .. a + b /\ x <= a
    BY <1>2
  <2> QED
    BY <1>3, <2>1
<1>5. ASSUME NEW x \in 1 .. b PROVE w[a + x] = v[x]
  <2>1. a + x \in 1 .. a + b /\ ~(a + x <= a) /\ (a + x) - a = x
    BY <1>2
  <2> QED
    BY <1>3, <2>1
<1> QED
  BY <1>1, <1>4, <1>5 DEF w, a, b

LEMMA PieceBetween ==
  ASSUME NEW T, NEW u \in Seq(T), NEW p \in Seq(T), NEW a \in Nat,
         a + Len(p) <= Len(u), \A x \in 1 .. Len(p) : u[a + x] = p[x]
  PROVE  SubSeq(u, a + 1, a + Len(p)) = p
<1> DEFINE b == Len(p)
           c == a + 1
           d == a + b
           v == SubSeq(u, c, d)
           n == Len(u)
<1>1. b \in Nat /\ n \in Nat /\ d <= n
  OBVIOUS
<1> HIDE DEF b, n
<1>2. c \in Int /\ d \in Int /\ \A x \in c .. d : x \in 1 .. n
  BY <1>1
<1> HIDE DEF c, d
<1>3. \A x \in c .. d : u[x] \in T
  BY <1>2, ElementOfSeq DEF n
<1>4. /\ v \in Seq(T)
      /\ Len(v) = IF c <= d THEN d - c + 1 ELSE 0
      /\ \A x \in 1 .. d - c + 1 : v[x] = u[c + x - 1]
  BY <1>2, <1>3, SubSeqProperties
<1> HIDE DEF v
<1>5. Len(v) = b
  BY <1>1, <1>4 DEF c, d
<1>6. \A x \in 1 .. b : v[x] = p[x]
  <2> SUFFICES ASSUME NEW x \in 1 .. b PROVE v[x] = p[x]
    OBVIOUS
  <2>1. x \in 1 .. d - c + 1 /\ c + x - 1 = a + x
    BY <1>1 DEF c, d
  <2>2. v[x] = u[a + x]
    BY <1>4, <2>1
  <2> QED
    BY <2>2 DEF b
<1>7. v = p
  BY <1>4, <1>5, <1>6, SeqEqual DEF b
<1> QED
  BY <1>7 DEF v, c, d, b

\* Each piece of a concatenation is where the lengths of those ahead end.
LEMMA PiecesOfFlat ==
  ASSUME NEW T, NEW pieces \in Seq(Seq(T)), NEW lengths \in Seq(Nat),
         Len(lengths) = Len(pieces), \A j \in 1 .. Len(pieces) : lengths[j] = Len(pieces[j]),
         NEW j \in 1 .. Len(pieces)
  PROVE  LET at == SumOf([i \in 1 .. j - 1 |-> lengths[i]])
         IN  SubSeq(FlattenSeq(pieces), at + 1, at + lengths[j]) = pieces[j]
<1> DEFINE n == Len(pieces)
           Is(f) == f = [i \in 1 .. n |-> IF i = 1 THEN pieces[i] ELSE f[i - 1] \o pieces[i]]
           at == SumOf([i \in 1 .. j - 1 |-> lengths[i]])
<1>1. n \in Nat /\ \A i \in 1 .. n : pieces[i] \in Seq(T) /\ lengths[i] = Len(pieces[i])
  OBVIOUS
<1>2. n # 0 /\ Len(pieces) # 0
  OBVIOUS
<1>3. FlattenSeq(pieces) = (CHOOSE f : Is(f))[n]
  BY <1>2 DEF FlattenSeq
<1>4. PICK h : /\ IsRunningSum(lengths, h)
               /\ \A m \in 0 .. n : SumOf([i \in 1 .. m |-> lengths[i]]) = h[m]
  BY SumsOfBeginnings
<1>5. h[0] = 0 /\ (\A i \in 0 .. n : h[i] \in Nat) /\ \A i \in 1 .. n : h[i] = h[i - 1] + lengths[i]
  BY <1>4 DEF IsRunningSum
<1> HIDE DEF n
<1>6. j \in 1 .. n
  BY DEF n
<1>7. \E f : Is(f)
  <2> DEFINE step == [x \in Nat \X Seq(T) |-> IF x[1] \in 1 .. n THEN x[2] \o pieces[x[1]] ELSE x[2]]
  <2>1. \A i \in Nat, x \in Seq(T) : step[<<i, x>>] = IF i \in 1 .. n THEN x \o pieces[i] ELSE x
    OBVIOUS
  <2> HIDE DEF step
  <2>2. \A i \in Nat, x \in Seq(T) : step[<<i, x>>] \in Seq(T)
    <3> SUFFICES ASSUME NEW i \in Nat, NEW x \in Seq(T) PROVE step[<<i, x>>] \in Seq(T)
      OBVIOUS
    <3>1. CASE i \in 1 .. n
      <4>1. step[<<i, x>>] = x \o pieces[i] /\ pieces[i] \in Seq(T)
        BY <1>1, <2>1, <3>1
      <4> QED
        BY <4>1, ConcatProperties
    <3>2. CASE i \notin 1 .. n
      BY <2>1, <3>2
    <3> QED
      BY <3>1, <3>2
  <2>3. \A i \in 1 .. n, x \in Seq(T) : step[<<i, x>>] = x \o pieces[i]
    <3> SUFFICES ASSUME NEW i \in 1 .. n, NEW x \in Seq(T) PROVE step[<<i, x>>] = x \o pieces[i]
      OBVIOUS
    <3>1. i \in Nat
      OBVIOUS
    <3> QED
      BY <2>1, <3>1
  <2>4. <<>> \in Seq(T)
    OBVIOUS
  <2>5. PICK g \in [0 .. n -> Seq(T)] : Recursion(g, n, <<>>, step)
    BY <1>1, <2>2, <2>4, RecursionExists
  <2>6. \A i \in 0 .. n : g[i] = IF i = 0 THEN <<>> ELSE step[<<i, g[i - 1]>>]
    BY <2>5 DEF Recursion
  <2> DEFINE f == [i \in 1 .. n |-> g[i]]
  <2>7. ASSUME NEW i \in 1 .. n
        PROVE  f[i] = IF i = 1 THEN pieces[i] ELSE f[i - 1] \o pieces[i]
    <3>1. i - 1 \in 0 .. n /\ i \in 0 .. n /\ i # 0
      BY <1>1
    <3>2. f[i] = g[i - 1] \o pieces[i]
      BY <2>3, <2>5, <2>6, <3>1
    <3>3. CASE i = 1
      <4>1. g[i - 1] = <<>>
        <5>1. i - 1 = 0 /\ 0 \in 0 .. n
          BY <1>1, <3>3
        <5> QED
          BY <2>6, <5>1
      <4>2. <<>> \o pieces[i] = pieces[i]
        BY <1>1, ConcatEmptySeq
      <4> HIDE DEF f
      <4> QED
        BY <3>2, <3>3, <4>1, <4>2
    <3>4. CASE i # 1
      <4>1. i - 1 \in 1 .. n
        BY <1>1, <3>4
      <4>2. f[i - 1] = g[i - 1]
        BY <4>1
      <4> HIDE DEF f
      <4> QED
        BY <3>2, <3>4, <4>2
    <3> QED
      BY <3>3, <3>4
  <2>8. f = [i \in 1 .. n |-> f[i]]
    OBVIOUS
  <2> HIDE DEF f
  <2>9. Is(f)
    BY <2>7, <2>8
  <2> QED
    BY <2>9
<1> DEFINE f == CHOOSE f : Is(f)
<1>8. Is(f)
  BY <1>7
<1> HIDE DEF f
<1>9. f[1] = pieces[1] /\ \A i \in 1 .. n : i # 1 => f[i] = f[i - 1] \o pieces[i]
  <2>1. 1 \in 1 .. n
    BY <1>1, <1>6
  <2> QED
    BY <1>8, <2>1
<1> DEFINE Placed(i) == /\ f[i] \in Seq(T) /\ Len(f[i]) = h[i]
                        /\ \A k \in 1 .. i : \A x \in 1 .. lengths[k] : f[i][h[k - 1] + x] = pieces[k][x]
           S == {i \in Nat : i + 1 <= n => Placed(i + 1)}
<1>10. 0 \in S
  <2>1. 1 \in 1 .. n /\ 1 - 1 = 0
    BY <1>1, <1>6
  <2>2. h[1] = lengths[1] /\ f[1] \in Seq(T) /\ Len(f[1]) = h[1]
    BY <1>1, <1>5, <1>9, <2>1
  <2>3. \A x \in 1 .. lengths[1] : f[1][h[1 - 1] + x] = pieces[1][x]
    BY <1>5, <1>9, <2>1
  <2>4. Placed(1)
    <3>1. \A k \in 1 .. 1 : k = 1
      OBVIOUS
    <3> QED
      BY <2>2, <2>3, <3>1
  <2> QED
    BY <2>4
<1>11. ASSUME NEW i \in Nat, i \in S PROVE i + 1 \in S
  <2> SUFFICES ASSUME (i + 1) + 1 <= n PROVE Placed((i + 1) + 1)
    OBVIOUS
  <2> DEFINE m == i + 1
  <2>1. m \in 1 .. n /\ m + 1 \in 1 .. n /\ m + 1 # 1 /\ (m + 1) - 1 = m /\ m \in Nat
    BY <1>1
  <2>2. Placed(m)
    BY <1>11, <2>1
  <2> HIDE DEF m
  <2>3. f[m] \in Seq(T) /\ Len(f[m]) = h[m] /\ pieces[m + 1] \in Seq(T)
        /\ Len(pieces[m + 1]) = lengths[m + 1] /\ f[m + 1] = f[m] \o pieces[m + 1]
        /\ h[m + 1] = h[m] + lengths[m + 1] /\ h[m] \in Nat /\ lengths[m + 1] \in Nat
    <3>1. m \in 0 .. n
      BY <2>1
    <3>2. lengths[m + 1] = Len(pieces[m + 1]) /\ pieces[m + 1] \in Seq(T)
      BY <1>1, <2>1
    <3>3. f[m + 1] = f[m] \o pieces[m + 1] /\ h[m + 1] = h[m] + lengths[m + 1]
      BY <1>5, <1>9, <2>1
    <3>4. h[m] \in Nat
      BY <1>5, <3>1
    <3>5. lengths[m + 1] \in Nat
      BY <3>2
    <3> QED
      BY <2>2, <3>2, <3>3, <3>4, <3>5
  <2>4. /\ f[m + 1] \in Seq(T) /\ Len(f[m + 1]) = h[m + 1]
        /\ \A x \in 1 .. h[m] : f[m + 1][x] = f[m][x]
        /\ \A x \in 1 .. lengths[m + 1] : f[m + 1][h[m] + x] = pieces[m + 1][x]
    <3> DEFINE u == f[m]
               v == pieces[m + 1]
    <3>1. u \in Seq(T) /\ v \in Seq(T) /\ Len(u) = h[m] /\ Len(v) = lengths[m + 1]
      BY <2>3
    <3>2. f[m + 1] = u \o v
      BY <2>3
    <3> HIDE DEF u, v
    <3>3. /\ u \o v \in Seq(T) /\ Len(u \o v) = Len(u) + Len(v)
          /\ \A x \in 1 .. Len(u) : (u \o v)[x] = u[x]
          /\ \A x \in 1 .. Len(v) : (u \o v)[Len(u) + x] = v[x]
      <4>1. u \in Seq(T) /\ v \in Seq(T)
        BY <3>1
      <4> HIDE DEF S, Placed
      <4> QED
        BY ONLY <4>1, TwoPieces
    <3>4. /\ f[m + 1] \in Seq(T) /\ Len(f[m + 1]) = h[m] + lengths[m + 1]
          /\ \A x \in 1 .. h[m] : f[m + 1][x] = u[x]
          /\ \A x \in 1 .. lengths[m + 1] : f[m + 1][h[m] + x] = v[x]
      BY <3>1, <3>2, <3>3
    <3> QED
      BY <2>3, <3>4 DEF u, v
  <2>5. ASSUME NEW k \in 1 .. m + 1, NEW x \in 1 .. lengths[k]
        PROVE  f[m + 1][h[k - 1] + x] = pieces[k][x]
    <3>1. CASE k = m + 1
      BY <2>1, <2>4, <3>1
    <3>2. CASE k # m + 1
      <4>1. k \in 1 .. m /\ k \in 1 .. n /\ k - 1 \in 0 .. n
        BY <1>1, <2>1, <3>2
      <4>2. h[k] <= h[m]
        <5>1. k \in 0 .. Len(lengths) /\ m \in k .. Len(lengths)
          BY <1>1, <2>1, <4>1 DEF n
        <5> QED
          BY <1>4, <5>1, RunningSumGrows
      <4>3. h[k] = h[k - 1] + lengths[k] /\ h[k - 1] \in Nat /\ lengths[k] \in Nat
        BY <1>1, <1>5, <4>1, SMTT(30)
      <4>4. h[k - 1] + x \in 1 .. h[m]
        <5> DEFINE y == h[k - 1]
                   z == lengths[k]
                   t == h[m]
        <5>1. y \in Nat /\ z \in Nat /\ t \in Nat /\ y + z <= t /\ x \in 1 .. z
          BY <2>3, <4>2, <4>3
        <5> HIDE DEF y, z, t
        <5>2. y + x \in 1 .. t
          BY <5>1
        <5> QED
          BY <5>2 DEF y, t
      <4> QED
        BY <2>2, <2>4, <4>1, <4>4
    <3> QED
      BY <3>1, <3>2
  <2>6. Placed(m + 1)
    BY <2>4, <2>5
  <2> QED
    BY <2>6 DEF m
<1> HIDE DEF S
<1>12. Nat \subseteq S
  BY <1>10, <1>11, SetInduction
<1>13. Placed(n)
  <2>1. n - 1 \in Nat /\ (n - 1) + 1 = n
    BY <1>1, <1>6
  <2> QED
    <3>1. n - 1 \in S /\ (n - 1) + 1 <= n
      BY <1>1, <1>12, <2>1
    <3>2. Placed((n - 1) + 1)
      BY <3>1 DEF S
    <3> HIDE DEF Placed
    <3> QED
      BY <2>1, <3>2
<1>14. at = h[j - 1] /\ at \in Nat /\ at + lengths[j] = h[j] /\ h[j] <= h[n] /\ lengths[j] \in Nat
  <2>1. j - 1 \in 0 .. n /\ j \in 0 .. n
    BY <1>1, <1>6
  <2>2. h[j] <= h[n]
    <3>1. j \in 0 .. Len(lengths) /\ n \in j .. Len(lengths)
      BY <1>1, <1>6 DEF n
    <3> QED
      BY <1>4, <3>1, RunningSumGrows
  <2> QED
    <3>1. at = h[j - 1]
      BY <1>4, <2>1
    <3> HIDE DEF at
    <3>2. h[j - 1] \in Nat /\ h[j] = h[j - 1] + lengths[j]
      BY <1>5, <1>6, <2>1
    <3>3. lengths[j] \in Nat
      BY <1>1, <1>6
    <3> QED
      BY <2>2, <3>1, <3>2, <3>3
<1> HIDE DEF at
<1>15. SubSeq(f[n], at + 1, at + lengths[j]) = pieces[j]
  <2> DEFINE u == f[n]
             p == pieces[j]
  <2>1. u \in Seq(T) /\ Len(u) = h[n] /\ \A x \in 1 .. lengths[j] : u[at + x] = p[x]
    BY <1>6, <1>13, <1>14
  <2>2. p \in Seq(T) /\ Len(p) = lengths[j]
    BY <1>1, <1>6
  <2> HIDE DEF u, p
  <2>3. \A x \in 1 .. Len(p) : u[at + x] = p[x]
    BY <2>1, <2>2
  <2>4. at + Len(p) <= Len(u) /\ at \in Nat
    BY <1>14, <2>1, <2>2
  <2>5. SubSeq(u, at + 1, at + Len(p)) = p
    BY <2>1, <2>2, <2>3, <2>4, PieceBetween
  <2> QED
    BY <2>2, <2>5 DEF u, p
<1> QED
  BY <1>3, <1>15 DEF f, at

-----------------------------------------------------------------------------
(* The two orders in which the caches are laid out.  Each goes through all *)
(* kinds of all bones, and through none twice.                             *)

LEMMA DivisionIs ==
  ASSUME NEW q \in Nat, NEW d \in Nat \ {0}, NEW r \in 0 .. d - 1
  PROVE  /\ q * d + r \in Nat
         /\ (q * d + r) \div d = q
         /\ (q * d + r) % d = r
BY Z3

LEMMA QuotientBelow ==
  ASSUME NEW m \in Nat, NEW d \in Nat \ {0}, NEW a \in Nat, m < a * d
  PROVE  m \div d \in 0 .. a - 1
<1> DEFINE q == m \div d
<1>1. q \in Nat /\ m % d \in 0 .. d - 1 /\ m = q * d + (m % d)
  BY DivisionFacts
<1> HIDE DEF q
<1>2. q * d < a * d
  <2>1. q * d \in Nat /\ a * d \in Nat
    BY <1>1
  <2> QED
    BY <1>1, <2>1
<1>3. q < a
  BY <1>1, <1>2, Z3
<1> QED
  BY <1>1, <1>3 DEF q

LEMMA BelowProduct ==
  ASSUME NEW a \in Nat, NEW d \in Nat, NEW q \in 0 .. a - 1, NEW r \in 0 .. d - 1
  PROVE  q * d + r \in 0 .. a * d - 1
BY Z3

IsSlots(slots, n) ==
  /\ slots \in Seq(Kinds \X (1 .. n))
  /\ \A i, j \in 1 .. Len(slots) : slots[i] = slots[j] => i = j
  /\ \A s \in Kinds \X (1 .. n) : \E j \in 1 .. Len(slots) : slots[j] = s

LEMMA KindOrderFacts ==
  /\ \A a \in 1 .. 4 : KindOrder[a] \in Kinds
  /\ \A a, b \in 1 .. 4 : KindOrder[a] = KindOrder[b] => a = b
  /\ \A k \in Kinds : \E a \in 1 .. 4 : KindOrder[a] = k
  /\ Kinds = {"cutout", "cutout_no_culling", "translucent", "translucent_culling"}
<1>1. DOMAIN KindOrder = 1 .. 4
  BY DEF KindOrder
<1>2. KindOrder[1] = "cutout" /\ KindOrder[2] = "cutout_no_culling" /\ KindOrder[3] = "translucent"
      /\ KindOrder[4] = "translucent_culling"
  BY DEF KindOrder
<1>3. \A a \in 1 .. 4 : a = 1 \/ a = 2 \/ a = 3 \/ a = 4
  OBVIOUS
<1>4. Kinds = {KindOrder[a] : a \in 1 .. 4}
  BY <1>1 DEF Kinds, Range
<1>5. 1 \in 1 .. 4 /\ 2 \in 1 .. 4 /\ 3 \in 1 .. 4 /\ 4 \in 1 .. 4
  OBVIOUS
<1>6. Kinds = {"cutout", "cutout_no_culling", "translucent", "translucent_culling"}
  BY <1>2, <1>3, <1>4, <1>5
<1>7. \A a, b \in 1 .. 4 : KindOrder[a] = KindOrder[b] => a = b
  BY <1>2, <1>3
<1> QED
  BY <1>4, <1>6, <1>7

LEMMA KindMajorIsSlots ==
  ASSUME NEW n \in Nat
  PROVE  IsSlots(KindMajor(n), n) /\ Len(KindMajor(n)) = 4 * n
<1> DEFINE slots == KindMajor(n)
           K(j) == ((j - 1) \div n) + 1
           B(j) == ((j - 1) % n) + 1
<1>1. 4 * n \in Nat
  OBVIOUS
<1>2. ASSUME NEW j \in 1 .. 4 * n
      PROVE  /\ n # 0 /\ K(j) \in 1 .. 4 /\ B(j) \in 1 .. n
             /\ j - 1 = (K(j) - 1) * n + (B(j) - 1)
  <2> DEFINE m == j - 1
  <2>1. n # 0 /\ m \in Nat /\ m < 4 * n
    BY <1>1
  <2> HIDE DEF m
  <2>2. m \div n \in 0 .. 4 - 1
    BY <2>1, QuotientBelow
  <2>3. m % n \in 0 .. n - 1 /\ m = (m \div n) * n + (m % n)
    BY <2>1, DivisionFacts
  <2> DEFINE q == m \div n
             r == m % n
  <2> HIDE DEF q, r
  <2>4. q \in 0 .. 3 /\ r \in 0 .. n - 1 /\ m = q * n + r
    BY <2>2, <2>3 DEF q, r
  <2>5. q + 1 \in 1 .. 4 /\ r + 1 \in 1 .. n /\ (q + 1) - 1 = q /\ (r + 1) - 1 = r
    BY <2>1, <2>4
  <2>6. K(j) = q + 1 /\ B(j) = r + 1
    BY DEF q, r, m
  <2> HIDE DEF K, B
  <2> QED
    BY <2>1, <2>4, <2>5, <2>6 DEF m
<1>3. slots = [j \in 1 .. 4 * n |-> <<KindOrder[K(j)], B(j)>>]
  BY DEF KindMajor
<1>4. \A j \in 1 .. 4 * n : slots[j] = <<KindOrder[K(j)], B(j)>>
  BY <1>3
<1> HIDE DEF K, B
<1>5. \A j \in 1 .. 4 * n : <<KindOrder[K(j)], B(j)>> \in Kinds \X (1 .. n)
  BY <1>2, KindOrderFacts
<1>6. slots \in Seq(Kinds \X (1 .. n)) /\ Len(slots) = 4 * n
  <2> HIDE DEF slots
  <2>1. slots \in [1 .. 4 * n -> Kinds \X (1 .. n)]
    BY <1>3, <1>5
  <2> QED
    BY <1>1, <2>1
<1>7. ASSUME NEW i \in 1 .. 4 * n, NEW j \in 1 .. 4 * n, slots[i] = slots[j]
      PROVE  i = j
  <2>1. KindOrder[K(i)] = KindOrder[K(j)] /\ B(i) = B(j)
    BY <1>4, <1>7
  <2>2. K(i) = K(j)
    BY <1>2, <2>1, KindOrderFacts
  <2>3. i - 1 = (K(i) - 1) * n + (B(i) - 1) /\ j - 1 = (K(j) - 1) * n + (B(j) - 1)
    BY <1>2
  <2>4. i - 1 = j - 1
    BY <2>1, <2>2, <2>3
  <2> QED
    BY <1>1, <2>4
<1>8. ASSUME NEW s \in Kinds \X (1 .. n)
      PROVE  \E j \in 1 .. 4 * n : slots[j] = s
  <2>1. PICK a \in 1 .. 4 : KindOrder[a] = s[1]
    BY KindOrderFacts
  <2> DEFINE q == a - 1
             r == s[2] - 1
             m == q * n + r
  <2>2. n \in Nat \ {0} /\ q \in Nat /\ q \in 0 .. 4 - 1 /\ r \in 0 .. n - 1
    OBVIOUS
  <2>3. q + 1 = a /\ r + 1 = s[2]
    OBVIOUS
  <2> HIDE DEF q, r
  <2>4. m \in Nat /\ m \div n = q /\ m % n = r
    BY <2>2, DivisionIs
  <2>5. m \in 0 .. 4 * n - 1
    BY <2>2, BelowProduct
  <2> HIDE DEF m
  <2>6. m + 1 \in 1 .. 4 * n /\ (m + 1) - 1 = m
    BY <1>1, <2>5
  <2>7. K(m + 1) = a /\ B(m + 1) = s[2]
    BY <2>3, <2>4, <2>6 DEF K, B
  <2>8. slots[m + 1] = <<KindOrder[a], s[2]>>
    BY <1>4, <2>6, <2>7
  <2>9. s = <<s[1], s[2]>>
    OBVIOUS
  <2> QED
    BY <2>1, <2>6, <2>8, <2>9
<1> QED
  BY <1>6, <1>7, <1>8 DEF IsSlots

LEMMA BoneMajorIsSlots ==
  ASSUME NEW n \in Nat
  PROVE  IsSlots(BoneMajor(n), n) /\ Len(BoneMajor(n)) = 4 * n
<1> DEFINE slots == BoneMajor(n)
           K(j) == ((j - 1) % 4) + 1
           B(j) == ((j - 1) \div 4) + 1
<1>1. 4 * n \in Nat /\ 4 * n = n * 4
  OBVIOUS
<1>2. ASSUME NEW j \in 1 .. 4 * n
      PROVE  K(j) \in 1 .. 4 /\ B(j) \in 1 .. n /\ j - 1 = (B(j) - 1) * 4 + (K(j) - 1)
  <2> DEFINE m == j - 1
  <2>1. m \in Nat /\ m < n * 4
    BY <1>1
  <2> HIDE DEF m
  <2>2. m \div 4 \in 0 .. n - 1
    BY <2>1, QuotientBelow
  <2>3. m % 4 \in 0 .. 4 - 1 /\ m = (m \div 4) * 4 + (m % 4)
    BY <2>1, DivisionFacts
  <2> DEFINE q == m \div 4
             r == m % 4
  <2> HIDE DEF q, r
  <2>4. q \in 0 .. n - 1 /\ r \in 0 .. 3 /\ m = q * 4 + r
    BY <2>2, <2>3 DEF q, r
  <2>5. r + 1 \in 1 .. 4 /\ q + 1 \in 1 .. n /\ (q + 1) - 1 = q /\ (r + 1) - 1 = r
    BY <2>1, <2>4
  <2>6. K(j) = r + 1 /\ B(j) = q + 1
    BY DEF q, r, m
  <2> HIDE DEF K, B
  <2> QED
    BY <2>1, <2>4, <2>5, <2>6 DEF m
<1>3. slots = [j \in 1 .. 4 * n |-> <<KindOrder[K(j)], B(j)>>]
  BY DEF BoneMajor
<1>4. \A j \in 1 .. 4 * n : slots[j] = <<KindOrder[K(j)], B(j)>>
  BY <1>3
<1> HIDE DEF K, B
<1>5. \A j \in 1 .. 4 * n : <<KindOrder[K(j)], B(j)>> \in Kinds \X (1 .. n)
  BY <1>2, KindOrderFacts
<1>6. slots \in Seq(Kinds \X (1 .. n)) /\ Len(slots) = 4 * n
  <2> HIDE DEF slots
  <2>1. slots \in [1 .. 4 * n -> Kinds \X (1 .. n)]
    BY <1>3, <1>5
  <2> QED
    BY <1>1, <2>1
<1>7. ASSUME NEW i \in 1 .. 4 * n, NEW j \in 1 .. 4 * n, slots[i] = slots[j]
      PROVE  i = j
  <2>1. KindOrder[K(i)] = KindOrder[K(j)] /\ B(i) = B(j)
    BY <1>4, <1>7
  <2>2. K(i) = K(j)
    BY <1>2, <2>1, KindOrderFacts
  <2>3. i - 1 = (B(i) - 1) * 4 + (K(i) - 1) /\ j - 1 = (B(j) - 1) * 4 + (K(j) - 1)
    BY <1>2
  <2>4. i - 1 = j - 1
    BY <2>1, <2>2, <2>3
  <2> QED
    BY <1>1, <2>4
<1>8. ASSUME NEW s \in Kinds \X (1 .. n)
      PROVE  \E j \in 1 .. 4 * n : slots[j] = s
  <2>1. PICK a \in 1 .. 4 : KindOrder[a] = s[1]
    BY KindOrderFacts
  <2> DEFINE r == a - 1
             q == s[2] - 1
             m == q * 4 + r
  <2>2. q \in Nat /\ q \in 0 .. n - 1 /\ r \in 0 .. 4 - 1
    OBVIOUS
  <2>3. r + 1 = a /\ q + 1 = s[2]
    OBVIOUS
  <2> HIDE DEF q, r
  <2>4. m \in Nat /\ m \div 4 = q /\ m % 4 = r
    BY <2>2, DivisionIs
  <2>5. m \in 0 .. n * 4 - 1
    BY <2>2, BelowProduct
  <2> HIDE DEF m
  <2>6. m + 1 \in 1 .. 4 * n /\ (m + 1) - 1 = m
    BY <1>1, <2>5
  <2>7. K(m + 1) = a /\ B(m + 1) = s[2]
    BY <2>3, <2>4, <2>6 DEF K, B
  <2>8. slots[m + 1] = <<KindOrder[a], s[2]>>
    BY <1>4, <2>6, <2>7
  <2>9. s = <<s[1], s[2]>>
    OBVIOUS
  <2> QED
    BY <2>1, <2>6, <2>8, <2>9
<1> QED
  BY <1>6, <1>7, <1>8 DEF IsSlots

-----------------------------------------------------------------------------
(* What a bone and kind finds in the two caches through its span.          *)

LEMMA SlotsFacts ==
  ASSUME NEW n \in Nat, NEW slots, IsSlots(slots, n)
  PROVE  /\ Len(slots) \in Nat
         /\ \A j \in 1 .. Len(slots) : slots[j] \in Kinds \X (1 .. n)
         /\ Range(slots) = Kinds \X (1 .. n)
<1> DEFINE D == Kinds \X (1 .. n)
<1>1. slots \in Seq(D) /\ \A s \in D : \E j \in 1 .. Len(slots) : slots[j] = s
  BY DEF IsSlots
<1> HIDE DEF D
<1>2. Len(slots) \in Nat /\ DOMAIN slots = 1 .. Len(slots)
  BY <1>1
<1>3. \A j \in 1 .. Len(slots) : slots[j] \in D
  BY <1>1, ElementOfSeq
<1>4. Range(slots) = D
  BY <1>1, <1>2, <1>3 DEF Range
<1> QED
  BY <1>2, <1>3, <1>4 DEF D

\* P gives every bone and kind a list of Ts, and size its length.
ArePieces(P, size, n, T) ==
  /\ P \in [Kinds \X (1 .. n) -> Seq(T)]
  /\ \A s \in Kinds \X (1 .. n) : size[s] = Len(P[s])

StartsAt(at, slots, size, j) == at = SumOf([i \in 1 .. j - 1 |-> size[slots[i]]])
Laid(P, slots) == FlattenSeq([i \in 1 .. Len(slots) |-> P[slots[i]]])

LEMMA PieceAt ==
  ASSUME NEW n \in Nat, NEW slots, IsSlots(slots, n), NEW T, NEW P, NEW size, ArePieces(P, size, n, T),
         NEW s, NEW at, NEW j \in 1 .. Len(slots), slots[j] = s,
         StartsAt(at, slots, size, j)
  PROVE  SubSeq(Laid(P, slots), at + 1, at + size[s]) = P[s]
<1> DEFINE N == Len(slots)
           pieces == [i \in 1 .. N |-> P[slots[i]]]
           lengths == [i \in 1 .. N |-> size[slots[i]]]
<1>1. N \in Nat /\ \A i \in 1 .. N : slots[i] \in Kinds \X (1 .. n)
  BY SlotsFacts
<1> HIDE DEF N
<1>2. \A i \in 1 .. N : P[slots[i]] \in Seq(T) /\ size[slots[i]] = Len(P[slots[i]])
  BY <1>1 DEF ArePieces
<1>3. pieces \in Seq(Seq(T)) /\ Len(pieces) = N /\ \A i \in 1 .. N : pieces[i] = P[slots[i]]
  BY <1>1, <1>2
<1>4. \A i \in 1 .. N : size[slots[i]] \in Nat
  BY <1>2
<1>5. lengths \in Seq(Nat) /\ Len(lengths) = N /\ \A i \in 1 .. N : lengths[i] = size[slots[i]]
  BY <1>1, <1>4, SMTT(30)
<1>6. j \in 1 .. N
  BY DEF N
<1> HIDE DEF pieces, lengths
<1>7. \A i \in 1 .. Len(pieces) : lengths[i] = Len(pieces[i])
  <2> SUFFICES ASSUME NEW i \in 1 .. N PROVE lengths[i] = Len(pieces[i])
    BY <1>3
  <2>1. lengths[i] = size[slots[i]] /\ pieces[i] = P[slots[i]]
    BY <1>3, <1>5
  <2> QED
    BY <1>2, <2>1
<1> DEFINE at2 == SumOf([i \in 1 .. j - 1 |-> lengths[i]])
<1>8. SubSeq(FlattenSeq(pieces), at2 + 1, at2 + lengths[j]) = pieces[j]
  <2>1. j \in 1 .. Len(pieces) /\ Len(lengths) = Len(pieces)
    BY <1>3, <1>5, <1>6
  <2> QED
    BY <1>3, <1>5, <1>7, <2>1, PiecesOfFlat
<1>9. at2 = at
  <2>1. \A i \in 1 .. j - 1 : i \in 1 .. N
    BY <1>1, <1>6
  <2>2. [i \in 1 .. j - 1 |-> lengths[i]] = [i \in 1 .. j - 1 |-> size[slots[i]]]
    BY <1>5, <2>1
  <2> QED
    BY <2>2 DEF StartsAt
<1>10. lengths[j] = size[s] /\ pieces[j] = P[s]
  BY <1>3, <1>5, <1>6
<1> HIDE DEF at2
<1> QED
  BY <1>8, <1>9, <1>10 DEF pieces, N, Laid

IsIndices(indices, n) == indices \in [Kinds -> [1 .. n -> Seq(Nat)]]

\* What a bone and kind finds in a model made from these groups and indices.
ModelHolds(m, n, gs, indices) ==
  /\ DOMAIN m.spans = Kinds \X (1 .. n)
  /\ m.totals = [s \in Kinds \X (1 .. n) |-> m.totals[s]]
  /\ \A s \in Kinds \X (1 .. n) :
       /\ m.spans[s].size = Len(indices[s[1]][s[2]])
       /\ Held(m, m.cube_indices_cache, s) = indices[s[1]][s[2]]
       /\ Held(m, m.cube_group_info_cache, s) = RunningSums(gs[s[1]], indices[s[1]][s[2]])
       /\ m.totals[s] = Totals(RunningSums(gs[s[1]], indices[s[1]][s[2]]))

\* A model whose caches are filled in the order of its spans.
LEMMA HeldOfModel ==
  ASSUME NEW n \in Nat, NEW slots, IsSlots(slots, n), NEW w, NEW bones, NEW sorted, NEW gs,
         NEW indices, IsIndices(indices, n),
         NEW m, m = Model(w, bones, sorted, gs, indices, slots, slots)
  PROVE  ModelHolds(m, n, gs, indices)
<1> DEFINE All == Kinds \X (1 .. n)
           N == Len(slots)
           P == [s \in All |-> indices[s[1]][s[2]]]
           Q == [s \in All |-> RunningSums(gs[s[1]], indices[s[1]][s[2]])]
           size == [s \in All |-> Len(indices[s[1]][s[2]])]
           first(s) == CHOOSE j \in 1 .. N : slots[j] = s
           at(s) == SumOf([i \in 1 .. first(s) - 1 |-> size[slots[i]]])
<1>1. \A s \in All : indices[s[1]][s[2]] \in Seq(Nat)
  BY DEF IsIndices
<1>2. N \in Nat /\ \A j \in 1 .. N : slots[j] \in All
  BY SlotsFacts
<1>3. \A s \in All : first(s) \in 1 .. N /\ slots[first(s)] = s
  BY DEF IsSlots
<1>4. Range(slots) = All
  BY SlotsFacts
<1>5. \A s \in All : P[s] = indices[s[1]][s[2]] /\ size[s] = Len(indices[s[1]][s[2]])
                     /\ Q[s] = RunningSums(gs[s[1]], indices[s[1]][s[2]])
  OBVIOUS
<1>6. /\ m.spans = Spans(slots, indices)
      /\ m.cube_indices_cache =
           FlattenSeq([j \in 1 .. N |-> indices[slots[j][1]][slots[j][2]]])
      /\ m.cube_group_info_cache =
           FlattenSeq([j \in 1 .. N |-> RunningSums(gs[slots[j][1]], indices[slots[j][1]][slots[j][2]])])
      /\ m.totals = [s \in All |-> Totals(RunningSums(gs[s[1]], indices[s[1]][s[2]]))]
  <2> HIDE DEF All
  <2> QED
    BY <1>4 DEF Model
<1>7. m.spans = [s \in All |-> [at |-> SumOf([i \in 1 .. first(s) - 1 |->
                                               Len(indices[slots[i][1]][slots[i][2]])]),
                                size |-> Len(indices[s[1]][s[2]])]]
  <2> HIDE DEF All
  <2> QED
    BY <1>4, <1>6 DEF Spans
<1> HIDE DEF P, Q, size, first, All
<1>8. ASSUME NEW s \in All
      PROVE  m.spans[s].at = at(s) /\ m.spans[s].size = size[s]
  <2>1. \A i \in 1 .. first(s) - 1 : i \in 1 .. N
    BY <1>2, <1>3
  <2>2. \A i \in 1 .. first(s) - 1 : size[slots[i]] = Len(indices[slots[i][1]][slots[i][2]])
    BY <1>2, <1>5, <2>1
  <2> DEFINE u == [i \in 1 .. first(s) - 1 |-> Len(indices[slots[i][1]][slots[i][2]])]
             v == [i \in 1 .. first(s) - 1 |-> size[slots[i]]]
  <2>3. u = v
    BY <2>2
  <2>4. m.spans[s] = [at |-> SumOf(u), size |-> Len(indices[s[1]][s[2]])]
    BY <1>7
  <2>5. at(s) = SumOf(v)
    OBVIOUS
  <2> HIDE DEF u, v, at
  <2> QED
    BY <1>5, <2>3, <2>4, <2>5
<1>9. [j \in 1 .. N |-> indices[slots[j][1]][slots[j][2]]] = [j \in 1 .. N |-> P[slots[j]]]
  BY <1>2, <1>5
<1>10. [j \in 1 .. N |-> RunningSums(gs[slots[j][1]], indices[slots[j][1]][slots[j][2]])]
       = [j \in 1 .. N |-> Q[slots[j]]]
  BY <1>2, <1>5
<1>11. ArePieces(P, size, n, Nat)
  <2>1. P = [s \in All |-> indices[s[1]][s[2]]]
    BY DEF P
  <2>2. P \in [All -> Seq(Nat)]
    BY <1>1, <2>1
  <2>3. \A s \in All : size[s] = Len(P[s])
    BY <1>5
  <2> QED
    BY <2>2, <2>3 DEF ArePieces, All
<1> DEFINE T == UNION {{Q[s][k] : k \in 1 .. Len(indices[s[1]][s[2]])} : s \in All}
<1>12. ArePieces(Q, size, n, T)
  <2>1. ASSUME NEW s \in All
        PROVE  Q[s] \in Seq(T) /\ Len(Q[s]) = size[s]
    <3> DEFINE L == Len(indices[s[1]][s[2]])
    <3>1. L \in Nat
      BY <1>1
    <3> HIDE DEF L
    <3>2. DOMAIN Q[s] = 1 .. L /\ Q[s] = [k \in 1 .. L |-> Q[s][k]]
      <4>1. Q[s] = RunningSums(gs[s[1]], indices[s[1]][s[2]])
        BY <1>5
      <4> QED
        BY <4>1 DEF RunningSums, L
    <3>3. \A k \in 1 .. L : Q[s][k] \in T
      BY DEF L
    <3> HIDE DEF T
    <3>4. Q[s] \in [1 .. L -> T]
      BY <3>2, <3>3
    <3>5. Q[s] \in Seq(T) /\ Len(Q[s]) = L
      BY <3>1, <3>4
    <3> QED
      BY <1>5, <3>5 DEF L
  <2>2. Q = [s \in All |-> RunningSums(gs[s[1]], indices[s[1]][s[2]])]
    BY DEF Q
  <2> HIDE DEF T
  <2>3. Q = [s \in All |-> Q[s]]
    BY <2>2
  <2>4. Q \in [All -> Seq(T)]
    BY <2>1, <2>3
  <2> QED
    BY <2>1, <2>4 DEF ArePieces, All
<1> HIDE DEF T
<1>13. ASSUME NEW s \in All
       PROVE  /\ Held(m, m.cube_indices_cache, s) = P[s]
              /\ Held(m, m.cube_group_info_cache, s) = Q[s]
  <2>1. first(s) \in 1 .. N /\ slots[first(s)] = s
    BY <1>3
  <2>2. StartsAt(at(s), slots, size, first(s))
    BY DEF StartsAt
  <2> DEFINE a == at(s)
             j == first(s)
  <2>3. j \in 1 .. Len(slots) /\ slots[j] = s /\ StartsAt(a, slots, size, j)
    BY <2>1, <2>2
  <2> HIDE DEF a, j, at
  <2>4. SubSeq(Laid(P, slots), a + 1, a + size[s]) = P[s]
    BY <1>11, <2>3, PieceAt
  <2>5. SubSeq(Laid(Q, slots), a + 1, a + size[s]) = Q[s]
    BY <1>12, <2>3, PieceAt
  <2>6. m.cube_indices_cache = Laid(P, slots) /\ m.cube_group_info_cache = Laid(Q, slots)
    BY <1>6, <1>9, <1>10 DEF Laid
  <2>7. m.spans[s].at = a /\ m.spans[s].size = size[s]
    BY <1>8 DEF a
  <2> QED
    BY <2>4, <2>5, <2>6, <2>7 DEF Held
<1>14. ASSUME NEW s \in All
       PROVE  m.totals[s] = Totals(RunningSums(gs[s[1]], indices[s[1]][s[2]]))
  BY <1>6
<1>15. DOMAIN m.spans = All /\ m.totals = [s \in All |-> m.totals[s]]
  BY <1>6, <1>7
<1>16. ASSUME NEW s \in All
       PROVE  /\ m.spans[s].size = Len(indices[s[1]][s[2]])
              /\ Held(m, m.cube_indices_cache, s) = indices[s[1]][s[2]]
              /\ Held(m, m.cube_group_info_cache, s) = RunningSums(gs[s[1]], indices[s[1]][s[2]])
  BY <1>5, <1>8, <1>13
<1>17. All = Kinds \X (1 .. n)
  BY DEF All
<1> QED
  BY <1>14, <1>15, <1>16, <1>17 DEF ModelHolds

-----------------------------------------------------------------------------
(* AddCube: the groups and the index lists of the one kind it touches.     *)

CubeFits(c) ==
  /\ IsFiniteSet(c.quads) /\ Cardinality(c.quads) \in 1 .. 6
  /\ c.culled <= Cardinality(c.quads) /\ c.inside

\* A list of indices holds, in order, numbers of groups of bone i.
ListsBone(gs, indices, i) ==
  /\ \A x \in 1 .. Len(indices) : indices[x] \in 1 .. Len(gs) /\ gs[indices[x]].bone_index = i
  /\ \A x, y \in 1 .. Len(indices) : x < y => indices[x] < indices[y]

GroupFits(gs, ixs, g, n, w) ==
  /\ gs[g].bone_index \in 1 .. n
  /\ Len(gs[g].cubes) \in 1 .. Capacity(w)
  /\ \A c \in 1 .. Len(gs[g].cubes) : CubeFits(gs[g].cubes[c])
  /\ \E x \in 1 .. Len(ixs[gs[g].bone_index]) : ixs[gs[g].bone_index][x] = g

KindTyped(gs, ixs, n) == gs \in Seq(GroupInFile) /\ ixs \in [1 .. n -> Seq(Nat)]
KindFits(gs, ixs, n, w) ==
  /\ KindTyped(gs, ixs, n)
  /\ \A g \in 1 .. Len(gs) : GroupFits(gs, ixs, g, n, w)
  /\ \A i \in 1 .. n : ListsBone(gs, ixs[i], i)

\* The two things AddCube does.
FillsGroup(gs, ixs, gs2, ixs2, bone, cube, w) ==
  /\ gs # <<>> /\ gs[Len(gs)].bone_index = bone /\ Len(gs[Len(gs)].cubes) < Capacity(w)
  /\ gs2 = [gs EXCEPT ![Len(gs)] = [bone_index |-> bone, cubes |-> Append(gs[Len(gs)].cubes, cube)]]
  /\ ixs2 = ixs
OpensGroup(gs, ixs, gs2, ixs2, bone, cube, w) ==
  /\ gs2 = Append(gs, [bone_index |-> bone, cubes |-> <<cube>>])
  /\ ixs2 = [ixs EXCEPT ![bone] = Append(ixs[bone], Len(gs) + 1)]

LEMMA AppendFacts ==
  ASSUME NEW T, NEW s \in Seq(T), NEW x \in T
  PROVE  /\ Append(s, x) \in Seq(T) /\ Len(Append(s, x)) = Len(s) + 1 /\ Len(s) \in Nat
         /\ \A i \in 1 .. Len(s) : Append(s, x)[i] = s[i]
         /\ Append(s, x)[Len(s) + 1] = x
OBVIOUS

LEMMA FillsFacts ==
  ASSUME NEW gs \in Seq(GroupInFile), NEW ixs, NEW gs2, NEW ixs2, NEW bone \in Nat,
         NEW cube \in CubeInFile, NEW w, FillsGroup(gs, ixs, gs2, ixs2, bone, cube, w)
  PROVE  LET L == Len(gs)
             C == Len(gs[L].cubes)
         IN /\ gs2 \in Seq(GroupInFile) /\ Len(gs2) = L /\ L \in Nat /\ L # 0 /\ C \in Nat
            /\ \A g \in 1 .. L : g # L => gs2[g] = gs[g]
            /\ gs[L].bone_index = bone /\ gs2[L].bone_index = bone
            /\ Len(gs2[L].cubes) = C + 1 /\ gs2[L].cubes[C + 1] = cube
            /\ \A c \in 1 .. C : gs2[L].cubes[c] = gs[L].cubes[c]
            /\ C < Capacity(w)
<1> DEFINE L == Len(gs)
           old == gs[L].cubes
           new == Append(old, cube)
           C == Len(old)
           group == [bone_index |-> bone, cubes |-> new]
<1>1. L \in Nat /\ L # 0 /\ L \in 1 .. L
  BY DEF FillsGroup
<1>2. gs[L] \in GroupInFile
  BY <1>1, ElementOfSeq
<1>3. old \in Seq(CubeInFile)
  BY <1>2 DEF GroupInFile
<1>4. gs[L].bone_index = bone /\ C < Capacity(w) /\ gs2 = [gs EXCEPT ![L] = group]
  BY DEF FillsGroup
<1> HIDE DEF old, L
<1>5. /\ new \in Seq(CubeInFile) /\ Len(new) = C + 1 /\ C \in Nat
      /\ \A c \in 1 .. C : new[c] = old[c]
      /\ new[C + 1] = cube
  BY <1>3, AppendFacts
<1> HIDE DEF new
<1>6. group \in GroupInFile /\ group.bone_index = bone /\ group.cubes = new
  BY <1>5 DEF GroupInFile
<1> HIDE DEF group
<1>7. gs2 \in Seq(GroupInFile) /\ Len(gs2) = L /\ gs2[L] = group
      /\ \A g \in 1 .. L : g # L => gs2[g] = gs[g]
  <2>1. gs2 \in [1 .. L -> GroupInFile] /\ DOMAIN gs = 1 .. L
    BY <1>1, <1>4, <1>6 DEF L
  <2>2. gs2 \in Seq(GroupInFile) /\ Len(gs2) = L
    BY <1>1, <2>1
  <2> QED
    BY <1>1, <1>4, <2>1, <2>2
<1> HIDE DEF C
<1> QED
  BY <1>1, <1>4, <1>5, <1>6, <1>7 DEF C, old, L

IsBone(bone, n) == bone \in 1 .. n

\* What OpensGroup says, entry by entry.
Opened(gs, ixs, gs2, ixs2, n, bone, cube) ==
  LET L == Len(gs)
      X == Len(ixs[bone])
  IN /\ KindTyped(gs2, ixs2, n) /\ L \in Nat /\ X \in Nat
     /\ Len(gs2) = L + 1
     /\ \A g \in 1 .. L : gs2[g] = gs[g]
     /\ gs2[L + 1].bone_index = bone /\ Len(gs2[L + 1].cubes) = 1 /\ gs2[L + 1].cubes[1] = cube
     /\ \A i \in 1 .. n : i # bone => ixs2[i] = ixs[i]
     /\ Len(ixs2[bone]) = X + 1 /\ ixs2[bone][X + 1] = L + 1
     /\ \A x \in 1 .. X : ixs2[bone][x] = ixs[bone][x]

LEMMA OpensFacts ==
  ASSUME NEW n \in Nat, NEW gs, NEW ixs, KindTyped(gs, ixs, n), NEW gs2, NEW ixs2,
         NEW bone, IsBone(bone, n), NEW cube \in CubeInFile, NEW w, OpensGroup(gs, ixs, gs2, ixs2, bone, cube, w)
  PROVE  Opened(gs, ixs, gs2, ixs2, n, bone, cube)
<1> DEFINE L == Len(gs)
           old == ixs[bone]
           X == Len(old)
           group == [bone_index |-> bone, cubes |-> <<cube>>]
<1>0. bone \in 1 .. n
  BY DEF IsBone
<1>1. L \in Nat /\ gs \in Seq(GroupInFile) /\ ixs \in [1 .. n -> Seq(Nat)] /\ old \in Seq(Nat)
  BY <1>0 DEF KindTyped
<1>2. gs2 = Append(gs, group) /\ ixs2 = [ixs EXCEPT ![bone] = Append(old, L + 1)]
  BY DEF OpensGroup
<1>3. group \in GroupInFile /\ group.bone_index = bone /\ Len(group.cubes) = 1 /\ group.cubes[1] = cube
  BY <1>0 DEF GroupInFile
<1> HIDE DEF group, old
<1>4. /\ gs2 \in Seq(GroupInFile) /\ Len(gs2) = L + 1 /\ gs2[L + 1] = group
      /\ \A g \in 1 .. L : gs2[g] = gs[g]
  BY <1>1, <1>2, <1>3, AppendFacts
<1> HIDE DEF L
<1>5. L + 1 \in Nat
  BY <1>1
<1> DEFINE new == Append(old, L + 1)
<1>6. /\ new \in Seq(Nat) /\ Len(new) = X + 1 /\ X \in Nat
      /\ \A x \in 1 .. X : new[x] = old[x]
      /\ new[X + 1] = L + 1
  BY <1>1, <1>5, AppendFacts
<1>7. ixs2 = [ixs EXCEPT ![bone] = new]
  BY <1>2
<1> HIDE DEF new, X
<1>8. ixs2 \in [1 .. n -> Seq(Nat)] /\ ixs2[bone] = new /\ \A i \in 1 .. n : i # bone => ixs2[i] = ixs[i]
  BY <1>0, <1>1, <1>6, <1>7
<1> QED
  BY <1>1, <1>3, <1>4, <1>6, <1>8 DEF KindTyped, L, X, old, Opened

LEMMA KindGrows ==
  ASSUME NEW n \in Nat, NEW gs, NEW ixs, NEW w, KindFits(gs, ixs, n, w), NEW gs2, NEW ixs2,
         NEW bone \in 1 .. n, NEW cube \in CubeInFile, CubeFits(cube), 1 <= Capacity(w),
         Capacity(w) \in Nat,
         FillsGroup(gs, ixs, gs2, ixs2, bone, cube, w) \/ OpensGroup(gs, ixs, gs2, ixs2, bone, cube, w)
  PROVE  KindFits(gs2, ixs2, n, w)
<1> DEFINE L == Len(gs)
<1>1. KindTyped(gs, ixs, n) /\ gs \in Seq(GroupInFile) /\ bone \in Nat /\ ixs \in [1 .. n -> Seq(Nat)]
  BY DEF KindFits, KindTyped
<1>2. \A g \in 1 .. L : GroupFits(gs, ixs, g, n, w)
  BY DEF KindFits
<1>3. \A i \in 1 .. n : ListsBone(gs, ixs[i], i)
  BY DEF KindFits
<1>4. CASE FillsGroup(gs, ixs, gs2, ixs2, bone, cube, w)
  <2> DEFINE C == Len(gs[L].cubes)
  <2>1. /\ gs2 \in Seq(GroupInFile) /\ Len(gs2) = L /\ L \in Nat /\ L # 0 /\ C \in Nat
        /\ \A g \in 1 .. L : g # L => gs2[g] = gs[g]
        /\ gs[L].bone_index = bone /\ gs2[L].bone_index = bone
        /\ Len(gs2[L].cubes) = C + 1 /\ gs2[L].cubes[C + 1] = cube
        /\ \A c \in 1 .. C : gs2[L].cubes[c] = gs[L].cubes[c]
        /\ C < Capacity(w)
    BY <1>1, <1>4, FillsFacts
  <2>2. ixs2 = ixs
    BY <1>4 DEF FillsGroup
  <2> HIDE DEF L, C
  <2>3. KindTyped(gs2, ixs2, n)
    BY <1>1, <2>1, <2>2 DEF KindTyped
  <2>4. \A g \in 1 .. L : gs2[g].bone_index = gs[g].bone_index
    BY <2>1
  <2>5. \A i \in 1 .. n : ListsBone(gs2, ixs2[i], i)
    BY <1>3, <2>1, <2>2, <2>4 DEF ListsBone, L
  <2>6. ASSUME NEW g \in 1 .. L PROVE GroupFits(gs2, ixs2, g, n, w)
    <3>1. CASE g # L
      BY <1>2, <2>1, <2>2, <3>1 DEF GroupFits
    <3>2. CASE g = L
      <4>1. \A c \in 1 .. C : CubeFits(gs2[L].cubes[c])
        BY <1>2, <2>1, <3>2 DEF GroupFits, C
      <4>2. \A c \in 1 .. C + 1 : c \in 1 .. C \/ c = C + 1
        BY <2>1
      <4>3. C + 1 \in 1 .. Capacity(w)
        BY <2>1
      <4>4. \A c \in 1 .. Len(gs2[L].cubes) : CubeFits(gs2[L].cubes[c])
        BY <2>1, <4>1, <4>2
      <4>5. gs2[L].bone_index \in 1 .. n
        BY <2>1
      <4>6. \E x \in 1 .. Len(ixs[bone]) : ixs[bone][x] = g
        BY <1>2, <2>1, <3>2, SMTT(30) DEF GroupFits
      <4> QED
        BY <2>1, <2>2, <3>2, <4>3, <4>4, <4>5, <4>6 DEF GroupFits
    <3> QED
      BY <3>1, <3>2
  <2> QED
    BY <2>1, <2>3, <2>5, <2>6 DEF KindFits
<1>5. CASE OpensGroup(gs, ixs, gs2, ixs2, bone, cube, w)
  <2> DEFINE X == Len(ixs[bone])
  <2>1. /\ KindTyped(gs2, ixs2, n) /\ L \in Nat /\ X \in Nat
        /\ Len(gs2) = L + 1
        /\ \A g \in 1 .. L : gs2[g] = gs[g]
        /\ gs2[L + 1].bone_index = bone /\ Len(gs2[L + 1].cubes) = 1 /\ gs2[L + 1].cubes[1] = cube
        /\ \A i \in 1 .. n : i # bone => ixs2[i] = ixs[i]
        /\ Len(ixs2[bone]) = X + 1 /\ ixs2[bone][X + 1] = L + 1
        /\ \A x \in 1 .. X : ixs2[bone][x] = ixs[bone][x]
    <3>1. KindTyped(gs, ixs, n) /\ OpensGroup(gs, ixs, gs2, ixs2, bone, cube, w) /\ IsBone(bone, n)
      BY <1>1, <1>5 DEF IsBone
    <3>2. Opened(gs, ixs, gs2, ixs2, n, bone, cube)
      BY <3>1, OpensFacts
    <3> QED
      BY <3>2 DEF Opened
  <2> HIDE DEF L, X
  <2>2. \A g \in 1 .. L + 1 : g \in 1 .. L \/ g = L + 1
    BY <2>1
  <2>3. \A g \in 1 .. L : g \in 1 .. L + 1 /\ g < L + 1
    BY <2>1
  <2>4. ASSUME NEW g \in 1 .. L + 1 PROVE GroupFits(gs2, ixs2, g, n, w)
    <3>1. CASE g \in 1 .. L
      <4>1. gs2[g] = gs[g] /\ GroupFits(gs, ixs, g, n, w)
        BY <1>2, <2>1, <3>1
      <4> DEFINE b == gs[g].bone_index
      <4>2. b \in 1 .. n /\ \E x \in 1 .. Len(ixs[b]) : ixs[b][x] = g
        BY <4>1 DEF GroupFits
      <4>3. \E x \in 1 .. Len(ixs2[b]) : ixs2[b][x] = g
        <5>1. CASE b # bone
          BY <2>1, <4>2, <5>1
        <5>2. CASE b = bone
          <6>1. PICK x \in 1 .. X : ixs[bone][x] = g
            BY <4>2, <5>2 DEF X
          <6>2. x \in 1 .. X + 1
            BY <2>1
          <6> HIDE DEF b
          <6> QED
            BY <2>1, <5>2, <6>1, <6>2
        <5> QED
          BY <5>1, <5>2
      <4> QED
        BY <4>1, <4>3 DEF GroupFits
    <3>2. CASE g = L + 1
      <4>1. X + 1 \in 1 .. Len(ixs2[bone])
        BY <2>1
      <4>2. \E x \in 1 .. Len(ixs2[bone]) : ixs2[bone][x] = g
        BY <2>1, <3>2, <4>1
      <4>3. \A c \in 1 .. Len(gs2[g].cubes) : CubeFits(gs2[g].cubes[c])
        <5>1. \A c \in 1 .. 1 : c = 1
          OBVIOUS
        <5> QED
          BY <2>1, <3>2, <5>1
      <4>4. 1 \in 1 .. Capacity(w)
        OBVIOUS
      <4> QED
        BY <2>1, <3>2, <4>2, <4>3, <4>4 DEF GroupFits
    <3> QED
      BY <2>2, <3>1, <3>2
  <2>5. ASSUME NEW i \in 1 .. n PROVE ListsBone(gs2, ixs2[i], i)
    <3>0. ListsBone(gs, ixs[i], i)
      BY <1>3
    <3>1. CASE i # bone
      <4>1. ixs2[i] = ixs[i]
        BY <2>1, <3>1
      <4> QED
        BY <2>1, <2>3, <3>0, <4>1 DEF ListsBone, L
    <3>2. CASE i = bone
      <4>1. \A x \in 1 .. X : /\ ixs2[i][x] \in 1 .. L /\ ixs2[i][x] = ixs[i][x]
                              /\ gs[ixs2[i][x]].bone_index = i
        BY <2>1, <3>0, <3>2, SMTT(30) DEF ListsBone, L, X
      <4>2. \A x \in 1 .. X + 1 : x \in 1 .. X \/ x = X + 1
        BY <2>1
      <4>3. ASSUME NEW x \in 1 .. X + 1
            PROVE  ixs2[i][x] \in 1 .. L + 1 /\ gs2[ixs2[i][x]].bone_index = i
        <5>1. CASE x \in 1 .. X
          BY <2>1, <2>3, <4>1, <5>1
        <5>2. CASE x = X + 1
          BY <2>1, <3>2, <5>2
        <5> QED
          BY <4>2, <5>1, <5>2
      <4>4. ASSUME NEW x \in 1 .. X + 1, NEW y \in 1 .. X + 1, x < y
            PROVE  ixs2[i][x] < ixs2[i][y]
        <5>1. x \in 1 .. X
          BY <2>1, <4>4
        <5>2. CASE y \in 1 .. X
          BY <3>0, <3>2, <4>1, <4>4, <5>1, <5>2 DEF ListsBone, X
        <5>3. CASE y = X + 1
          BY <2>1, <2>3, <3>2, <4>1, <5>1, <5>3
        <5> QED
          BY <4>2, <5>2, <5>3
      <4> QED
        BY <2>1, <3>2, <4>3, <4>4 DEF ListsBone
    <3> QED
      BY <3>1, <3>2
  <2> QED
    BY <2>1, <2>4, <2>5 DEF KindFits
<1> QED
  BY <1>4, <1>5

Outs(n) == [groups : [Kinds -> Seq(GroupInFile)], indices : [Kinds -> [1 .. n -> Seq(Nat)]]]
CubeOf(part) == [quads |-> part.quads, culled |-> part.culled, inside |-> TRUE]
Parts == [kind : Kinds, quads : SUBSET (Nat \X Nat), culled : Nat]

\* AddCube changes the groups and index lists of one kind.
Adds(out, new, n, bone, part) ==
  LET k == part.kind IN
  /\ new \in Outs(n)
  /\ \A j \in Kinds : j # k => new.groups[j] = out.groups[j] /\ new.indices[j] = out.indices[j]
  /\ \/ FillsGroup(out.groups[k], out.indices[k], new.groups[k], new.indices[k], bone, CubeOf(part), width)
     \/ OpensGroup(out.groups[k], out.indices[k], new.groups[k], new.indices[k], bone, CubeOf(part), width)

LEMMA OutTypes ==
  ASSUME NEW n \in Nat, NEW out \in Outs(n), NEW k \in Kinds
  PROVE  KindTyped(out.groups[k], out.indices[k], n)
BY DEF Outs, KindTyped

LEMMA GroupWithCubes ==
  ASSUME NEW r \in GroupInFile, NEW v
  PROVE  [r EXCEPT !.cubes = v] = [bone_index |-> r.bone_index, cubes |-> v]
BY DEF GroupInFile

LEMMA FillsGroups ==
  ASSUME NEW gs \in Seq(GroupInFile), NEW ixs, NEW gs2, NEW ixs2, NEW bone \in Nat,
         NEW cube \in CubeInFile, NEW w, FillsGroup(gs, ixs, gs2, ixs2, bone, cube, w)
  PROVE  gs2 \in Seq(GroupInFile)
BY FillsFacts

LEMMA EntryChanged ==
  ASSUME NEW K, NEW T, NEW f \in [K -> T], NEW k \in K, NEW x \in T
  PROVE  [f EXCEPT ![k] = x] \in [K -> T]
OBVIOUS

LEMMA AddCubeAdds ==
  ASSUME NEW n \in Nat, NEW out \in Outs(n), NEW bone, IsBone(bone, n), NEW part \in Parts
  PROVE  Adds(out, AddCube(out, bone, part), n, bone, part)
<1> DEFINE k == part.kind
           gs == out.groups[k]
           ixs == out.indices[k]
           cube == CubeOf(part)
           L == Len(gs)
           new == AddCube(out, bone, part)
<1>1. k \in Kinds /\ cube \in CubeInFile /\ bone \in Nat /\ bone \in 1 .. n
  BY DEF Parts, CubeOf, CubeInFile, IsBone
<1>2. gs \in Seq(GroupInFile) /\ ixs \in [1 .. n -> Seq(Nat)] /\ KindTyped(gs, ixs, n)
  BY <1>1, OutTypes DEF Outs
<1>3. CASE HasRoom(gs, bone)
  <2>1. gs # <<>> /\ gs[L].bone_index = bone /\ Len(gs[L].cubes) < Capacity(width)
    BY <1>3 DEF HasRoom, Last
  <2>2. L \in 1 .. L /\ L \in Nat
    BY <1>2, <2>1
  <2>3. gs[L] \in GroupInFile
    BY <1>2, <2>2, ElementOfSeq
  <2> DEFINE new1 == [gs EXCEPT ![L].cubes = Append(gs[L].cubes, cube)]
             new2 == [gs EXCEPT ![L] = [bone_index |-> bone, cubes |-> Append(gs[L].cubes, cube)]]
  <2>4. new1 = new2
    <3>1. [gs[L] EXCEPT !.cubes = Append(gs[L].cubes, cube)]
          = [bone_index |-> bone, cubes |-> Append(gs[L].cubes, cube)]
      BY <2>1, <2>3, GroupWithCubes
    <3> QED
      BY <3>1
  <2>5. new = [out EXCEPT !.groups = [out.groups EXCEPT ![k] = new1]]
    BY <1>3 DEF AddCube, CubeOf
  <2> HIDE DEF new, new1
  <2>6. new = [out EXCEPT !.groups = [out.groups EXCEPT ![k] = new2]]
    BY <2>4, <2>5
  <2>7. FillsGroup(gs, ixs, new2, ixs, bone, cube, width)
    BY <2>1 DEF FillsGroup
  <2>8. new2 \in Seq(GroupInFile)
    <3> HIDE DEF new2, gs, ixs, cube
    <3> QED
      BY <1>1, <1>2, <2>7, FillsGroups
  <2> HIDE DEF new2
  <2>9. /\ new.groups = [out.groups EXCEPT ![k] = new2] /\ new.indices = out.indices
        /\ new = [groups |-> new.groups, indices |-> new.indices]
    BY <2>6 DEF Outs
  <2>10. new \in Outs(n)
    BY <1>1, <2>8, <2>9 DEF Outs
  <2>11. new.groups[k] = new2 /\ new.indices[k] = ixs
         /\ \A j \in Kinds : j # k => new.groups[j] = out.groups[j] /\ new.indices[j] = out.indices[j]
    BY <1>1, <2>9 DEF Outs
  <2> QED
    BY <2>7, <2>10, <2>11 DEF Adds, new
<1>4. CASE ~HasRoom(gs, bone)
  <2> DEFINE new1 == Append(gs, [bone_index |-> bone, cubes |-> <<cube>>])
             new2 == [ixs EXCEPT ![bone] = Append(ixs[bone], L + 1)]
  <2>1. new = [out EXCEPT !.groups = [out.groups EXCEPT ![k] = new1],
                          !.indices = [out.indices EXCEPT ![k] = new2]]
    BY <1>4 DEF AddCube, CubeOf
  <2>2. OpensGroup(gs, ixs, new1, new2, bone, cube, width)
    BY DEF OpensGroup
  <2>3. KindTyped(new1, new2, n)
    <3>1. Opened(gs, ixs, new1, new2, n, bone, cube)
      <4> HIDE DEF new1, new2, gs, cube, ixs
      <4> QED
        BY <1>1, <1>2, <2>2, OpensFacts
    <3> QED
      BY <3>1 DEF Opened
  <2> HIDE DEF new, new1, new2
  <2>4. /\ new.groups = [out.groups EXCEPT ![k] = new1]
        /\ new.indices = [out.indices EXCEPT ![k] = new2]
        /\ new = [groups |-> new.groups, indices |-> new.indices]
    BY <2>1 DEF Outs
  <2>5. new \in Outs(n)
    <3>1. new1 \in Seq(GroupInFile) /\ new2 \in [1 .. n -> Seq(Nat)]
      BY <2>3 DEF KindTyped
    <3>2. out.groups \in [Kinds -> Seq(GroupInFile)] /\ out.indices \in [Kinds -> [1 .. n -> Seq(Nat)]]
      BY DEF Outs
    <3>3. new.groups \in [Kinds -> Seq(GroupInFile)]
      BY <1>1, <2>4, <3>1, <3>2, EntryChanged
    <3>4. new.indices \in [Kinds -> [1 .. n -> Seq(Nat)]]
      BY <1>1, <2>4, <3>1, <3>2, EntryChanged
    <3> QED
      BY <2>4, <3>3, <3>4 DEF Outs
  <2>6. new.groups[k] = new1 /\ new.indices[k] = new2
        /\ \A j \in Kinds : j # k => new.groups[j] = out.groups[j] /\ new.indices[j] = out.indices[j]
    BY <1>1, <2>4 DEF Outs
  <2> QED
    BY <2>2, <2>5, <2>6 DEF Adds, new
<1> QED
  BY <1>3, <1>4

OutFits(out, n) ==
  out \in Outs(n) /\ \A k \in Kinds : KindFits(out.groups[k], out.indices[k], n, width)

LEMMA CapacityIs == Capacity(width) \in Nat /\ 1 <= Capacity(width) /\ Capacity(width) <= 2
BY DEF Capacity

LEMMA AddsFits ==
  ASSUME NEW n \in Nat, NEW out, OutFits(out, n), NEW new, NEW bone, IsBone(bone, n),
         NEW part \in Parts, CubeFits(CubeOf(part)), Adds(out, new, n, bone, part)
  PROVE  OutFits(new, n)
<1> DEFINE k == part.kind
           cube == CubeOf(part)
<1>1. k \in Kinds /\ cube \in CubeInFile /\ bone \in 1 .. n
  BY DEF Parts, CubeOf, CubeInFile, IsBone
<1>2. new \in Outs(n)
  BY DEF Adds
<1>3. ASSUME NEW j \in Kinds PROVE KindFits(new.groups[j], new.indices[j], n, width)
  <2>1. KindFits(out.groups[j], out.indices[j], n, width)
    BY DEF OutFits
  <2>2. CASE j # k
    BY <2>1, <2>2 DEF Adds
  <2>3. CASE j = k
    <3> DEFINE gs == out.groups[j]
               ixs == out.indices[j]
               gs2 == new.groups[j]
               ixs2 == new.indices[j]
    <3>1. FillsGroup(gs, ixs, gs2, ixs2, bone, cube, width) \/ OpensGroup(gs, ixs, gs2, ixs2, bone, cube, width)
      BY <2>3 DEF Adds
    <3>2. CubeFits(cube)
      OBVIOUS
    <3> HIDE DEF gs, ixs, gs2, ixs2, cube
    <3>3. KindFits(gs2, ixs2, n, width)
      BY <1>1, <2>1, <3>1, <3>2, CapacityIs, KindGrows DEF gs, ixs
    <3> QED
      BY <3>3 DEF gs2, ixs2
  <2> QED
    BY <2>2, <2>3
<1> QED
  BY <1>2, <1>3 DEF OutFits

-----------------------------------------------------------------------------
(* Where quads end: one cube more holds its quads and no others.           *)

Cell(gs, g, c) == g \in 1 .. Len(gs) /\ c \in 1 .. Len(gs[g].cubes)

\* The groups of a kind after and before one cube was added: it is the last
\* cube of the last group, and all others are where they were.
OneCubeMore(gs, gs2, bone, cube) ==
  \E G, C \in Nat :
    /\ Cell(gs2, G, C) /\ ~Cell(gs, G, C)
    /\ gs2[G].bone_index = bone /\ gs2[G].cubes[C] = cube
    /\ \A g, c : Cell(gs2, g, c) /\ ~(g = G /\ c = C) => Cell(gs, g, c)
    /\ \A g, c : Cell(gs, g, c) =>
         /\ Cell(gs2, g, c)
         /\ gs2[g].bone_index = gs[g].bone_index /\ gs2[g].cubes[c] = gs[g].cubes[c]

LEMMA OneCube ==
  ASSUME NEW n \in Nat, NEW gs, NEW ixs, KindTyped(gs, ixs, n), NEW gs2, NEW ixs2,
         NEW bone, IsBone(bone, n), NEW cube \in CubeInFile, NEW w,
         FillsGroup(gs, ixs, gs2, ixs2, bone, cube, w) \/ OpensGroup(gs, ixs, gs2, ixs2, bone, cube, w)
  PROVE  OneCubeMore(gs, gs2, bone, cube)
<1> DEFINE L == Len(gs)
<1>1. gs \in Seq(GroupInFile) /\ bone \in Nat /\ L \in Nat
  BY DEF KindTyped, IsBone
<1>0. \A g \in 1 .. L : Len(gs[g].cubes) \in Nat
  <2> SUFFICES ASSUME NEW g \in 1 .. L PROVE Len(gs[g].cubes) \in Nat
    OBVIOUS
  <2>1. gs[g] \in GroupInFile
    BY <1>1, ElementOfSeq
  <2>2. gs[g].cubes \in Seq(CubeInFile)
    BY <2>1 DEF GroupInFile
  <2> QED
    BY <2>2
<1>2. CASE FillsGroup(gs, ixs, gs2, ixs2, bone, cube, w)
  <2> DEFINE C == Len(gs[L].cubes)
  <2>1. /\ gs2 \in Seq(GroupInFile) /\ Len(gs2) = L /\ L \in Nat /\ L # 0 /\ C \in Nat
        /\ \A g \in 1 .. L : g # L => gs2[g] = gs[g]
        /\ gs[L].bone_index = bone /\ gs2[L].bone_index = bone
        /\ Len(gs2[L].cubes) = C + 1 /\ gs2[L].cubes[C + 1] = cube
        /\ \A c \in 1 .. C : gs2[L].cubes[c] = gs[L].cubes[c]
        /\ C < Capacity(w)
    BY <1>1, <1>2, FillsFacts
  <2>2. \A g, c : Cell(gs, g, c) <=> g \in 1 .. L /\ c \in 1 .. Len(gs[g].cubes)
    BY DEF Cell
  <2>3. Len(gs[L].cubes) = C
    OBVIOUS
  <2> HIDE DEF L, C
  <2>4. \A g, c : Cell(gs2, g, c) <=> g \in 1 .. L /\ c \in 1 .. Len(gs2[g].cubes)
    BY <2>1 DEF Cell
  <2> DEFINE D == C + 1
  <2>5. D \in Nat /\ Cell(gs2, L, D) /\ ~Cell(gs, L, D)
    BY <2>1, <2>2, <2>3, <2>4
  <2>6. ASSUME NEW g, NEW c, Cell(gs, g, c)
        PROVE  /\ Cell(gs2, g, c)
               /\ gs2[g].bone_index = gs[g].bone_index /\ gs2[g].cubes[c] = gs[g].cubes[c]
    <3>1. g \in 1 .. L /\ c \in 1 .. Len(gs[g].cubes)
      BY <2>2, <2>6
    <3>2. CASE g # L
      BY <2>1, <2>4, <3>1, <3>2
    <3>3. CASE g = L
      <4>1. c \in 1 .. C /\ c \in 1 .. C + 1
        BY <2>1, <2>3, <3>1, <3>3
      <4> QED
        BY <2>1, <2>4, <3>1, <3>3, <4>1
    <3> QED
      BY <3>2, <3>3
  <2>7. ASSUME NEW g, NEW c, Cell(gs2, g, c), ~(g = L /\ c = D)
        PROVE  Cell(gs, g, c)
    <3>1. g \in 1 .. L /\ c \in 1 .. Len(gs2[g].cubes)
      BY <2>4, <2>7
    <3>2. CASE g # L
      BY <2>1, <2>2, <3>1, <3>2
    <3>3. CASE g = L
      <4>1. c \in 1 .. C
        BY <2>1, <2>7, <3>1, <3>3
      <4> QED
        BY <2>2, <2>3, <3>1, <3>3, <4>1
    <3> QED
      BY <3>2, <3>3
  <2>8. gs2[L].cubes[D] = cube /\ gs2[L].bone_index = bone
    BY <2>1
  <2> HIDE DEF D
  <2> QED
    BY <2>1, <2>5, <2>6, <2>7, <2>8 DEF OneCubeMore
<1>3. CASE OpensGroup(gs, ixs, gs2, ixs2, bone, cube, w)
  <2>1. /\ Len(gs2) = L + 1
        /\ \A g \in 1 .. L : gs2[g] = gs[g]
        /\ gs2[L + 1].bone_index = bone /\ Len(gs2[L + 1].cubes) = 1 /\ gs2[L + 1].cubes[1] = cube
    <3>1. Opened(gs, ixs, gs2, ixs2, n, bone, cube)
      BY <1>3, OpensFacts
    <3> QED
      BY <3>1 DEF Opened
  <2> HIDE DEF L
  <2> DEFINE G == L + 1
  <2>2. \A g, c : Cell(gs, g, c) <=> g \in 1 .. L /\ c \in 1 .. Len(gs[g].cubes)
    BY DEF Cell, L
  <2>3. \A g, c : Cell(gs2, g, c) <=> g \in 1 .. L + 1 /\ c \in 1 .. Len(gs2[g].cubes)
    BY <2>1 DEF Cell
  <2>4. \A g \in 1 .. L + 1 : g \in 1 .. L \/ g = G
    BY <1>1
  <2>5. G \in Nat /\ 1 \in Nat /\ G \in 1 .. L + 1 /\ 1 \in 1 .. 1 /\ G \notin 1 .. L
    BY <1>1
  <2>6. \A c \in 1 .. 1 : c = 1
    OBVIOUS
  <2>7. \A g \in 1 .. L : g \in 1 .. L + 1
    BY <1>1
  <2>8. gs2[G].bone_index = bone /\ Len(gs2[G].cubes) = 1 /\ gs2[G].cubes[1] = cube
    BY <2>1
  <2> HIDE DEF G
  <2>9. Cell(gs2, G, 1) /\ ~Cell(gs, G, 1)
    BY <2>2, <2>3, <2>5, <2>8
  <2>10. \A g, c : Cell(gs2, g, c) /\ ~(g = G /\ c = 1) => Cell(gs, g, c)
    BY <2>1, <2>2, <2>3, <2>4, <2>6, <2>8
  <2>11. \A g, c : Cell(gs, g, c) =>
           /\ Cell(gs2, g, c)
           /\ gs2[g].bone_index = gs[g].bone_index /\ gs2[g].cubes[c] = gs[g].cubes[c]
    BY <2>1, <2>2, <2>3, <2>7
  <2> QED
    BY <2>5, <2>8, <2>9, <2>10, <2>11 DEF OneCubeMore
<1> QED
  BY <1>2, <1>3

Holds(out, k, g, c, q) ==
  k \in Kinds /\ Cell(out.groups[k], g, c) /\ q \in out.groups[k][g].cubes[c].quads

\* A quad of kind k in a group of bone b is of that bone and to be drawn so.
InPlace(k, b, q) ==
  /\ k \in {"translucent", "translucent_culling"} <=> Translucent(q)
  /\ q[1] \in CubesOf(sorted_bone_indices[b])

\* The quads of D are held, each once and where it belongs, and no others.
HoldsExactly(out, D) ==
  /\ \A k, g, c, q : Holds(out, k, g, c, q) => q \in D /\ InPlace(k, out.groups[k][g].bone_index, q)
  /\ \A q, k, g, c, j, h, d : Holds(out, k, g, c, q) /\ Holds(out, j, h, d, q) => k = j /\ g = h /\ c = d
  /\ \A q \in D : \E k, g, c : Holds(out, k, g, c, q)

LEMMA AddsHolds ==
  ASSUME NEW n \in Nat, NEW out \in Outs(n), NEW new, NEW bone, IsBone(bone, n),
         NEW part \in Parts, Adds(out, new, n, bone, part),
         NEW D, HoldsExactly(out, D),
         \A q \in part.quads : q \notin D /\ InPlace(part.kind, bone, q)
  PROVE  HoldsExactly(new, D \cup part.quads)
<1> DEFINE K == part.kind
           cube == CubeOf(part)
           Q == part.quads
<1>1. K \in Kinds /\ cube \in CubeInFile /\ cube.quads = Q
  BY DEF Parts, CubeOf, CubeInFile
<1>2. KindTyped(out.groups[K], out.indices[K], n)
  BY <1>1, OutTypes
<1>3. OneCubeMore(out.groups[K], new.groups[K], bone, cube)
  <2> DEFINE gs == out.groups[K]
             ixs == out.indices[K]
             gs2 == new.groups[K]
             ixs2 == new.indices[K]
  <2>1. FillsGroup(gs, ixs, gs2, ixs2, bone, cube, width) \/ OpensGroup(gs, ixs, gs2, ixs2, bone, cube, width)
    BY DEF Adds
  <2>2. KindTyped(gs, ixs, n) /\ cube \in CubeInFile
    BY <1>1, <1>2
  <2> HIDE DEF gs, ixs, gs2, ixs2, cube
  <2>3. OneCubeMore(gs, gs2, bone, cube)
    BY <2>1, <2>2, OneCube
  <2> QED
    BY <2>3 DEF gs, gs2
<1> HIDE DEF cube
<1>4. PICK G, C \in Nat :
        /\ Cell(new.groups[K], G, C) /\ ~Cell(out.groups[K], G, C)
        /\ new.groups[K][G].bone_index = bone /\ new.groups[K][G].cubes[C] = cube
        /\ \A g, c : Cell(new.groups[K], g, c) /\ ~(g = G /\ c = C) => Cell(out.groups[K], g, c)
        /\ \A g, c : Cell(out.groups[K], g, c) =>
             /\ Cell(new.groups[K], g, c)
             /\ new.groups[K][g].bone_index = out.groups[K][g].bone_index
             /\ new.groups[K][g].cubes[c] = out.groups[K][g].cubes[c]
  BY <1>3 DEF OneCubeMore
<1>5. \A j \in Kinds : j # K => new.groups[j] = out.groups[j]
  BY DEF Adds
<1> HIDE DEF K
<1>6. ASSUME NEW k, NEW g, NEW c, NEW q, Holds(new, k, g, c, q)
      PROVE  \/ /\ Holds(out, k, g, c, q)
                /\ new.groups[k][g].bone_index = out.groups[k][g].bone_index
             \/ k = K /\ g = G /\ c = C /\ q \in Q /\ new.groups[k][g].bone_index = bone
  <2>1. CASE k # K
    BY <1>5, <1>6, <2>1 DEF Holds
  <2>2. CASE k = K /\ g = G /\ c = C
    BY <1>1, <1>4, <1>6, <2>2 DEF Holds
  <2>3. CASE k = K /\ ~(g = G /\ c = C)
    BY <1>4, <1>6, <2>3 DEF Holds
  <2> QED
    BY <2>1, <2>2, <2>3
<1>7. ASSUME NEW k, NEW g, NEW c, NEW q, Holds(out, k, g, c, q)
      PROVE  Holds(new, k, g, c, q)
  <2>1. CASE k # K
    BY <1>5, <1>7, <2>1 DEF Holds
  <2>2. CASE k = K
    BY <1>4, <1>7, <2>2 DEF Holds
  <2> QED
    BY <2>1, <2>2
<1>8. \A q : ~Holds(out, K, G, C, q)
  BY <1>4 DEF Holds
<1>9. \A q \in Q : Holds(new, K, G, C, q)
  BY <1>1, <1>4 DEF Holds
<1>10. \A q \in Q : q \notin D /\ InPlace(K, bone, q)
  BY DEF K
<1> HIDE DEF Q
<1>11. /\ \A k, g, c, q : Holds(out, k, g, c, q) => q \in D /\ InPlace(k, out.groups[k][g].bone_index, q)
       /\ \A q, k, g, c, j, h, d : Holds(out, k, g, c, q) /\ Holds(out, j, h, d, q) => k = j /\ g = h /\ c = d
       /\ \A q \in D : \E k, g, c : Holds(out, k, g, c, q)
  BY DEF HoldsExactly
<1>12. \A k, g, c, q : Holds(new, k, g, c, q) => q \in D \cup Q /\ InPlace(k, new.groups[k][g].bone_index, q)
  BY <1>6, <1>10, <1>11
<1>13. ASSUME NEW q, NEW k, NEW g, NEW c, NEW j, NEW h, NEW d,
              Holds(new, k, g, c, q), Holds(new, j, h, d, q)
       PROVE  k = j /\ g = h /\ c = d
  <2>1. CASE q \in Q
    <3>1. q \notin D
      BY <1>10, <2>1
    <3>2. ~Holds(out, k, g, c, q) /\ ~Holds(out, j, h, d, q)
      BY <1>11, <3>1
    <3> QED
      BY <1>6, <1>13, <3>2
  <2>2. CASE q \notin Q
    <3>1. Holds(out, k, g, c, q) /\ Holds(out, j, h, d, q)
      BY <1>6, <1>13, <2>2
    <3> QED
      BY <1>11, <3>1
  <2> QED
    BY <2>1, <2>2
<1>14. \A q \in D \cup Q : \E k, g, c : Holds(new, k, g, c, q)
  BY <1>7, <1>9, <1>11
<1> QED
  BY <1>12, <1>13, <1>14 DEF HoldsExactly, Q

-----------------------------------------------------------------------------
(* AddProcessedCube, and the cubes of a bone one after the other.          *)

Visible(c) == CutoutQuads(c) \cup TranslucentQuads(c)

LEMMA FacesAre ==
  ASSUME source \in Sources, Prepared, NEW c \in 1 .. Len(source.cubes)
  PROVE  /\ Faces(c) \in SUBSET (Nat \X Nat) /\ IsFiniteSet(Faces(c))
         /\ Cardinality(Faces(c)) \in Nat /\ Cardinality(Faces(c)) <= 6
         /\ \A q \in Faces(c) : q[1] = c
<1> DEFINE cube == source.cubes[c]
           m == Len(cube.quads)
<1>1. source.cubes \in Seq(CubeInSource)
      /\ \A d \in Range(source.cubes) : IF d.inverted THEN Len(d.quads) = 6 ELSE Len(d.quads) <= 6
  BY SourcesAssumption DEF Prepared
<1>2. cube \in CubeInSource /\ cube \in Range(source.cubes)
  BY <1>1, ElementOfSeq DEF Range
<1>3. cube.quads \in Seq(QuadTypes) /\ cube.inverted \in BOOLEAN
  BY <1>2 DEF CubeInSource
<1>5. Faces(c) = {c} \X (1 .. m)
  BY DEF Faces
<1> HIDE DEF cube
<1>4. m \in Nat /\ m <= 6
  <2>1. IF cube.inverted THEN m = 6 ELSE m <= 6
    BY <1>1, <1>2
  <2>2. m \in Nat
    BY <1>3
  <2> HIDE DEF m
  <2> QED
    BY <2>1, <2>2
<1> HIDE DEF m
<1> DEFINE f == [i \in 1 .. m |-> <<c, i>>]
           T == {c} \X (1 .. m)
<1>6. f \in [1 .. m -> T] /\ \A q \in T : \E i \in 1 .. m : f[i] = q
  OBVIOUS
<1>7. f \in Surjection(1 .. m, T)
  BY <1>6 DEF Surjection
<1>8. IsFiniteSet(1 .. m) /\ Cardinality(1 .. m) = m
  <2>1. 1 \in Int /\ m \in Int
    BY <1>4
  <2>2. IsFiniteSet(1 .. m) /\ Cardinality(1 .. m) = IF 1 > m THEN 0 ELSE m - 1 + 1
    BY <2>1, FS_Interval
  <2> QED
    BY <1>4, <2>2
<1> HIDE DEF f, T
<1>9. IsFiniteSet(T) /\ Cardinality(T) <= m
  BY <1>7, <1>8, FS_Surjection
<1>10. Cardinality(T) \in Nat
  BY <1>9, FS_CardinalityType
<1>11. Cardinality(T) <= 6
  BY <1>4, <1>9, <1>10
<1> QED
  BY <1>4, <1>5, <1>9, <1>10, <1>11 DEF T

LEMMA PartFits ==
  ASSUME source \in Sources, Prepared, NEW c \in 1 .. Len(source.cubes), NEW kind \in Kinds,
         NEW quads \in SUBSET Faces(c)
  PROVE  /\ Part(c, kind, quads) \in Parts
         /\ quads # {} => CubeFits(CubeOf(Part(c, kind, quads)))
         /\ Part(c, kind, quads).quads = quads /\ Part(c, kind, quads).kind = kind
<1> DEFINE N == Cardinality(quads)
           M == Cardinality(Faces(c))
           culled == Least(IF source.cubes[c].inverted THEN 5 ELSE 3, N)
<1>1. IsFiniteSet(quads) /\ N \in Nat /\ M \in Nat /\ N <= M /\ M <= 6
  <2>1. IsFiniteSet(Faces(c)) /\ M \in Nat /\ M <= 6
    BY FacesAre
  <2>2. IsFiniteSet(quads) /\ N <= M
    BY <2>1, FS_Subset
  <2> QED
    BY <2>1, <2>2, FS_CardinalityType
<1>2. quads # {} => N # 0
  BY <1>1, FS_EmptySet
<1>3. quads \in SUBSET (Nat \X Nat)
  BY FacesAre
<1> HIDE DEF N, M
<1>4. culled \in Nat /\ culled <= N
  BY <1>1 DEF Least
<1>5. Part(c, kind, quads) = [kind |-> kind, quads |-> quads, culled |-> culled]
  BY DEF Part, N
<1> HIDE DEF culled
<1>6. Part(c, kind, quads) \in Parts
  BY <1>3, <1>4, <1>5 DEF Parts
<1>7. quads # {} => N \in 1 .. 6
  BY <1>1, <1>2
<1> QED
  BY <1>1, <1>4, <1>5, <1>6, <1>7 DEF CubeFits, CubeOf, N

LEMMA AddPartAdds ==
  ASSUME NEW n \in Nat, NEW out \in Outs(n), NEW bone, IsBone(bone, n), NEW part \in Parts
  PROVE  /\ AddPart(out, bone, part) \in Outs(n)
         /\ OutFits(out, n) /\ (part.quads # {} => CubeFits(CubeOf(part)))
              => OutFits(AddPart(out, bone, part), n)
         /\ \A D : HoldsExactly(out, D)
                   /\ (\A q \in part.quads : q \notin D /\ InPlace(part.kind, bone, q))
                     => HoldsExactly(AddPart(out, bone, part), D \cup part.quads)
<1>1. CASE part.quads = {}
  <2>1. AddPart(out, bone, part) = out
    BY <1>1 DEF AddPart
  <2>2. \A D : D \cup part.quads = D
    BY <1>1
  <2> QED
    BY <2>1, <2>2
<1>2. CASE part.quads # {}
  <2> DEFINE new == AddCube(out, bone, part)
  <2>1. AddPart(out, bone, part) = new
    BY <1>2 DEF AddPart
  <2>2. Adds(out, new, n, bone, part)
    BY AddCubeAdds
  <2> HIDE DEF new
  <2>3. new \in Outs(n)
    BY <2>2 DEF Adds
  <2>4. OutFits(out, n) /\ CubeFits(CubeOf(part)) => OutFits(new, n)
    BY <2>2, AddsFits
  <2>5. \A D : HoldsExactly(out, D)
               /\ (\A q \in part.quads : q \notin D /\ InPlace(part.kind, bone, q))
                 => HoldsExactly(new, D \cup part.quads)
    BY <2>2, AddsHolds
  <2> QED
    BY <1>2, <2>1, <2>3, <2>4, <2>5
<1> QED
  BY <1>1, <1>2

LEMMA ProcessedCubeAdds ==
  ASSUME source \in Sources, Prepared, NEW c \in 1 .. Len(source.cubes),
         NEW n \in Nat, NEW out \in Outs(n), NEW bone, IsBone(bone, n)
  PROVE  /\ AddProcessedCube(out, bone, c) \in Outs(n)
         /\ OutFits(out, n) => OutFits(AddProcessedCube(out, bone, c), n)
         /\ \A D : HoldsExactly(out, D) /\ (\A q \in D : q[1] # c)
                   /\ c \in CubesOf(sorted_bone_indices[bone])
                     => HoldsExactly(AddProcessedCube(out, bone, c), D \cup Visible(c))
<1> DEFINE part1 == CutoutPart(c)
           part2 == TranslucentPart(c)
           mid == AddPart(out, bone, part1)
           new == AddPart(mid, bone, part2)
<1>1. AddProcessedCube(out, bone, c) = new
  BY DEF AddProcessedCube
<1>2. /\ part1 \in Parts /\ part1.quads = CutoutQuads(c)
      /\ part1.kind \in {"cutout", "cutout_no_culling"}
      /\ (part1.quads # {} => CubeFits(CubeOf(part1)))
  <2> DEFINE kind == IF IsCulling(c) \/ Cardinality(CutoutQuads(c)) = 6 THEN "cutout"
                     ELSE "cutout_no_culling"
             quads == CutoutQuads(c)
  <2>1. kind \in Kinds /\ kind \in {"cutout", "cutout_no_culling"} /\ quads \in SUBSET Faces(c)
    BY KindOrderFacts DEF CutoutQuads
  <2>2. part1 = Part(c, kind, quads)
    BY DEF CutoutPart
  <2> HIDE DEF part1, kind, quads
  <2> QED
    BY <2>1, <2>2, PartFits DEF quads
<1>3. /\ part2 \in Parts /\ part2.quads = TranslucentQuads(c)
      /\ part2.kind \in {"translucent", "translucent_culling"}
      /\ (part2.quads # {} => CubeFits(CubeOf(part2)))
  <2> DEFINE kind == IF IsCulling(c) THEN "translucent_culling" ELSE "translucent"
             quads == TranslucentQuads(c)
  <2>1. kind \in Kinds /\ kind \in {"translucent", "translucent_culling"} /\ quads \in SUBSET Faces(c)
    BY KindOrderFacts DEF TranslucentQuads
  <2>2. part2 = Part(c, kind, quads)
    BY DEF TranslucentPart
  <2> HIDE DEF part2, kind, quads
  <2> QED
    BY <2>1, <2>2, PartFits DEF quads
<1> HIDE DEF part1, part2
<1>4. mid \in Outs(n) /\ (OutFits(out, n) => OutFits(mid, n))
  BY <1>2, AddPartAdds
<1>5. ASSUME NEW D, HoldsExactly(out, D), \A q \in D : q[1] # c, c \in CubesOf(sorted_bone_indices[bone])
      PROVE  HoldsExactly(new, D \cup Visible(c))
  <2>1. \A q \in Faces(c) : q[1] = c
    BY FacesAre
  <2>2. \A q \in part1.quads : q \in Faces(c) /\ ~Translucent(q)
    BY <1>2 DEF CutoutQuads, Cutout, Translucent
  <2>3. \A q \in part2.quads : q \in Faces(c) /\ Translucent(q)
    BY <1>3 DEF TranslucentQuads
  <2>4. \A q \in part1.quads : q \notin D /\ InPlace(part1.kind, bone, q)
    BY <1>2, <1>5, <2>1, <2>2 DEF InPlace
  <2>5. HoldsExactly(mid, D \cup part1.quads)
    BY <1>2, <1>5, <2>4, AddPartAdds
  <2>6. \A q \in part2.quads : q \notin D \cup part1.quads /\ InPlace(part2.kind, bone, q)
    BY <1>3, <1>5, <2>1, <2>2, <2>3 DEF InPlace
  <2> DEFINE E == D \cup part1.quads
  <2>7. HoldsExactly(mid, E) /\ \A q \in part2.quads : q \notin E /\ InPlace(part2.kind, bone, q)
    BY <2>5, <2>6
  <2> HIDE DEF mid, E
  <2>8. HoldsExactly(new, E \cup part2.quads)
    BY <1>3, <1>4, <2>7, AddPartAdds
  <2>9. E \cup part2.quads = D \cup Visible(c)
    BY <1>2, <1>3 DEF Visible, E
  <2> QED
    BY <2>8, <2>9
<1> HIDE DEF mid
<1>6. new \in Outs(n) /\ (OutFits(mid, n) => OutFits(new, n))
  BY <1>3, <1>4, AddPartAdds
<1> HIDE DEF new
<1> QED
  BY <1>1, <1>4, <1>5, <1>6

VisibleIn(first, count) == UNION {Visible(first + j) : j \in 1 .. count}

LEMMA AddCubesAdds ==
  ASSUME source \in Sources, Prepared, NEW n \in Nat, NEW out \in Outs(n), NEW bone, IsBone(bone, n),
         NEW first \in Nat, NEW count \in Nat, first + count <= Len(source.cubes)
  PROVE  /\ AddCubes(out, bone, first, count) \in Outs(n)
         /\ OutFits(out, n) => OutFits(AddCubes(out, bone, first, count), n)
         /\ \A D : HoldsExactly(out, D) /\ (\A q \in D : q[1] \notin first + 1 .. first + count)
                   /\ (\A c \in first + 1 .. first + count : c \in CubesOf(sorted_bone_indices[bone]))
                     => HoldsExactly(AddCubes(out, bone, first, count), D \cup VisibleIn(first, count))
<1> DEFINE T == Outs(n)
           step == [x \in Nat \X T |-> IF x[1] \in 1 .. count
                                       THEN AddProcessedCube(x[2], bone, first + x[1]) ELSE x[2]]
           Is(f) == f = [k \in 0 .. count |->
                          IF k = 0 THEN out ELSE AddProcessedCube(f[k - 1], bone, first + k)]
<1>1. \A k \in 1 .. count : first + k \in 1 .. Len(source.cubes)
  <2>1. source.cubes \in Seq(CubeInSource)
    BY SourcesAssumption
  <2>2. Len(source.cubes) \in Nat
    BY <2>1
  <2> QED
    BY <2>2
<1>2. \A i \in Nat, x \in T : step[<<i, x>>] = IF i \in 1 .. count
                                               THEN AddProcessedCube(x, bone, first + i) ELSE x
  OBVIOUS
<1> HIDE DEF step
<1>3. \A k \in 1 .. count, x \in T : AddProcessedCube(x, bone, first + k) \in T
  BY <1>1, ProcessedCubeAdds
<1> HIDE DEF T
<1>4. \A i \in Nat, x \in T : step[<<i, x>>] \in T
  BY <1>2, <1>3
<1>5. \A i \in 1 .. count, x \in T : step[<<i, x>>] = AddProcessedCube(x, bone, first + i)
  <2> SUFFICES ASSUME NEW i \in 1 .. count, NEW x \in T
               PROVE  step[<<i, x>>] = AddProcessedCube(x, bone, first + i)
    OBVIOUS
  <2>1. i \in Nat
    OBVIOUS
  <2> QED
    BY <1>2, <2>1
<1>6. PICK g \in [0 .. count -> T] : Recursion(g, count, out, step)
  <2>1. out \in T
    BY DEF T
  <2> QED
    BY <1>4, <2>1, RecursionExists
<1>7. Is(g)
  <2>1. g = [k \in 0 .. count |-> IF k = 0 THEN out ELSE step[<<k, g[k - 1]>>]]
    BY <1>6 DEF Recursion
  <2>2. ASSUME NEW k \in 0 .. count, k # 0
        PROVE  step[<<k, g[k - 1]>>] = AddProcessedCube(g[k - 1], bone, first + k)
    <3>1. k \in 1 .. count /\ k - 1 \in 0 .. count
      BY <2>2
    <3>2. g[k - 1] \in T
      BY <1>6, <3>1
    <3> QED
      BY <1>5, <3>1, <3>2
  <2> QED
    BY <2>1, <2>2
<1> DEFINE h == CHOOSE h : Is(h)
<1>8. Is(h) /\ AddCubes(out, bone, first, count) = h[count]
  <2>1. Is(h)
    BY <1>7
  <2> QED
    BY <2>1 DEF AddCubes
<1> HIDE DEF h
<1>9. h[0] = out /\ \A k \in 1 .. count : h[k] = AddProcessedCube(h[k - 1], bone, first + k)
  <2>1. 0 \in 0 .. count /\ \A k \in 1 .. count : k \in 0 .. count /\ k # 0
    OBVIOUS
  <2> QED
    BY <1>8, <2>1
<1> HIDE DEF Is
<1>10. ASSUME NEW k \in Nat, k + 1 <= count
       PROVE  /\ h[k + 1] = AddProcessedCube(h[k], bone, first + (k + 1))
              /\ first + (k + 1) \in 1 .. Len(source.cubes)
              /\ first + (k + 1) \in first + 1 .. first + count
  <2>1. k + 1 \in 1 .. count /\ (k + 1) - 1 = k
    BY <1>10
  <2> QED
    BY <1>1, <1>9, <2>1
<1>11. \A k \in 0 .. count : h[k] \in T
  <2> DEFINE S == {k \in Nat : k <= count => h[k] \in T}
  <2>1. 0 \in S
    BY <1>9 DEF T
  <2>2. ASSUME NEW k \in Nat, k \in S PROVE k + 1 \in S
    <3> SUFFICES ASSUME k + 1 <= count PROVE h[k + 1] \in T
      OBVIOUS
    <3>1. h[k] \in T
      BY <2>2
    <3> QED
      BY <1>10, <3>1, ProcessedCubeAdds DEF T
  <2> HIDE DEF S
  <2>3. Nat \subseteq S
    BY <2>1, <2>2, SetInduction
  <2> QED
    BY <2>3 DEF S
<1>12. ASSUME OutFits(out, n) PROVE OutFits(h[count], n)
  <2> DEFINE S == {k \in Nat : k <= count => OutFits(h[k], n)}
  <2>1. 0 \in S
    BY <1>9, <1>12
  <2>2. ASSUME NEW k \in Nat, k \in S PROVE k + 1 \in S
    <3> SUFFICES ASSUME k + 1 <= count PROVE OutFits(h[k + 1], n)
      OBVIOUS
    <3>1. h[k] \in Outs(n) /\ OutFits(h[k], n)
      BY <1>11, <2>2 DEF T
    <3> QED
      BY <1>10, <3>1, ProcessedCubeAdds
  <2> HIDE DEF S
  <2>3. Nat \subseteq S
    BY <2>1, <2>2, SetInduction
  <2> QED
    BY <2>3 DEF S
<1>13. ASSUME NEW D, HoldsExactly(out, D), \A q \in D : q[1] \notin first + 1 .. first + count,
              \A c \in first + 1 .. first + count : c \in CubesOf(sorted_bone_indices[bone])
       PROVE  HoldsExactly(h[count], D \cup VisibleIn(first, count))
  <2> DEFINE S == {k \in Nat : k <= count => HoldsExactly(h[k], D \cup VisibleIn(first, k))}
  <2>1. 0 \in S
    <3>1. VisibleIn(first, 0) = {}
      BY DEF VisibleIn
    <3>2. D \cup VisibleIn(first, 0) = D
      BY <3>1
    <3> QED
      BY <1>9, <1>13, <3>2
  <2>2. ASSUME NEW k \in Nat, k \in S PROVE k + 1 \in S
    <3> SUFFICES ASSUME k + 1 <= count
                 PROVE  HoldsExactly(h[k + 1], D \cup VisibleIn(first, k + 1))
      OBVIOUS
    <3> DEFINE E == D \cup VisibleIn(first, k)
               c == first + (k + 1)
    <3>1. h[k] \in Outs(n) /\ HoldsExactly(h[k], E)
      BY <1>11, <2>2 DEF T
    <3>2. h[k + 1] = AddProcessedCube(h[k], bone, c) /\ c \in 1 .. Len(source.cubes)
          /\ c \in first + 1 .. first + count
      BY <1>10
    <3>3. \A q \in E : q[1] # c
      <4>1. \A j \in 1 .. k : first + j \in 1 .. Len(source.cubes) /\ first + j # c
        BY <1>1
      <4>2. \A j \in 1 .. k : \A q \in Visible(first + j) : q[1] = first + j
        <5> SUFFICES ASSUME NEW j \in 1 .. k, NEW q \in Visible(first + j) PROVE q[1] = first + j
          OBVIOUS
        <5>1. q \in Faces(first + j)
          BY DEF Visible, CutoutQuads, TranslucentQuads
        <5> QED
          BY <4>1, <5>1, FacesAre
      <4>3. \A q \in VisibleIn(first, k) : q[1] # c
        <5> HIDE DEF c
        <5> QED
          BY <4>1, <4>2 DEF VisibleIn
      <4>4. \A q \in D : q[1] # c
        BY <1>13, <3>2
      <4> QED
        BY <4>3, <4>4
    <3>4. c \in CubesOf(sorted_bone_indices[bone])
      BY <1>13, <3>2
    <3>5. VisibleIn(first, k + 1) = VisibleIn(first, k) \cup Visible(c)
      <4>1. \A j \in 1 .. k + 1 : j \in 1 .. k \/ j = k + 1
        OBVIOUS
      <4>2. (\A j \in 1 .. k : j \in 1 .. k + 1) /\ k + 1 \in 1 .. k + 1
        OBVIOUS
      <4> QED
        BY <4>1, <4>2 DEF VisibleIn
    <3> HIDE DEF E, c
    <3>6. HoldsExactly(h[k + 1], E \cup Visible(c))
      BY <3>1, <3>2, <3>3, <3>4, ProcessedCubeAdds
    <3>7. E \cup Visible(c) = D \cup VisibleIn(first, k + 1)
      BY <3>5 DEF E
    <3> QED
      BY <3>6, <3>7
  <2> HIDE DEF S
  <2>3. Nat \subseteq S
    BY <2>1, <2>2, SetInduction
  <2>4. count \in S /\ count <= count
    BY <2>3
  <2> QED
    BY <2>4 DEF S
<1>14. h[count] \in Outs(n)
  BY <1>11 DEF T
<1> QED
  BY <1>8, <1>12, <1>13, <1>14

\* The cubes of a bone are where those of the bones ahead of it end, and all
\* of them are cubes of the source.
LEMMA CubeOffsets ==
  ASSUME source \in Sources, Prepared, NEW i \in Bones
  PROVE  /\ CubeOffset(i) \in Nat /\ source.bones[i].cubeCount \in Nat
         /\ CubeOffset(i) + source.bones[i].cubeCount <= Len(source.cubes)
         /\ \A j \in Bones : i < j => CubeOffset(i) + source.bones[i].cubeCount <= CubeOffset(j)
<1> DEFINE n == BoneCount
           t == [j \in 1 .. n |-> source.bones[j].cubeCount]
<1>1. n \in Nat /\ Bones = 1 .. n /\ source.bones \in Seq(BoneInSource) /\ n = Len(source.bones)
  BY SourcesAssumption, SourceFacts DEF Bones, BoneCount
<1>2. \A j \in 1 .. n : source.bones[j].cubeCount \in Nat
  <2> SUFFICES ASSUME NEW j \in 1 .. n PROVE source.bones[j].cubeCount \in Nat
    OBVIOUS
  <2>1. source.bones[j] \in BoneInSource
    BY <1>1, ElementOfSeq
  <2> QED
    BY <2>1 DEF BoneInSource
<1> HIDE DEF n
<1>3. t \in Seq(Nat) /\ Len(t) = n /\ \A j \in 1 .. n : t[j] = source.bones[j].cubeCount
  BY <1>1, <1>2
<1> HIDE DEF t
<1>4. PICK h : /\ IsRunningSum(t, h)
               /\ \A m \in 0 .. Len(t) : SumOf([j \in 1 .. m |-> t[j]]) = h[m]
  BY <1>3, SumsOfBeginnings
<1>5. h \in [0 .. n -> Nat] /\ \A j \in 1 .. n : h[j] = h[j - 1] + t[j]
  BY <1>3, <1>4 DEF IsRunningSum
<1>6. ASSUME NEW j \in 1 .. n + 1
      PROVE  CubeOffset(j) = h[j - 1] /\ j - 1 \in 0 .. n
  <2>1. j - 1 \in 0 .. n /\ \A x \in 1 .. j - 1 : x \in 1 .. n
    BY <1>1
  <2>2. [x \in 1 .. j - 1 |-> source.bones[x].cubeCount] = [x \in 1 .. j - 1 |-> t[x]]
    BY <1>3, <2>1
  <2>3. SumOf([x \in 1 .. j - 1 |-> t[x]]) = h[j - 1]
    BY <1>3, <1>4, <2>1
  <2> QED
    BY <2>1, <2>2, <2>3 DEF CubeOffset
<1>7. \A a, b \in 0 .. n : a <= b => h[a] <= h[b]
  <2> SUFFICES ASSUME NEW a \in 0 .. n, NEW b \in 0 .. n, a <= b PROVE h[a] <= h[b]
    OBVIOUS
  <2>1. a \in 0 .. Len(t) /\ b \in a .. Len(t)
    BY <1>1, <1>3
  <2> QED
    BY <1>3, <1>4, <2>1, RunningSumGrows
<1>8. i \in 1 .. n /\ i \in 1 .. n + 1 /\ n + 1 \in 1 .. n + 1 /\ (n + 1) - 1 = n /\ i - 1 \in 0 .. n
      /\ i \in 0 .. n /\ n \in 0 .. n /\ i <= n
  BY <1>1
<1>9. CubeOffset(i) = h[i - 1] /\ h[i - 1] \in Nat /\ h[i] = h[i - 1] + source.bones[i].cubeCount
      /\ source.bones[i].cubeCount \in Nat
  BY <1>2, <1>3, <1>5, <1>6, <1>8
<1>10. h[n] = Len(source.cubes)
  <2>1. CubeOffset(n + 1) = h[n]
    BY <1>6, <1>8
  <2> QED
    BY <2>1 DEF Prepared, n
<1>11. h[i] <= h[n]
  BY <1>7, <1>8
<1>12. ASSUME NEW j \in Bones, i < j
       PROVE  h[i] <= CubeOffset(j)
  <2>1. j \in 1 .. n + 1 /\ j - 1 \in 0 .. n /\ i <= j - 1
    BY <1>1, <1>8, <1>12
  <2> QED
    BY <1>6, <1>7, <1>8, <2>1
<1> QED
  BY <1>9, <1>10, <1>11, <1>12

\* No cube is of two bones.
LEMMA CubesAreDisjoint ==
  ASSUME source \in Sources, Prepared, NEW i \in Bones, NEW j \in Bones,
         NEW c \in CubesOf(i), c \in CubesOf(j)
  PROVE  i = j
<1>1. ASSUME NEW a \in Bones, NEW b \in Bones, a < b, c \in CubesOf(a), c \in CubesOf(b)
      PROVE  FALSE
  <2>1. /\ CubeOffset(a) \in Nat /\ source.bones[a].cubeCount \in Nat
        /\ CubeOffset(a) + source.bones[a].cubeCount <= CubeOffset(b)
        /\ CubeOffset(b) \in Nat /\ source.bones[b].cubeCount \in Nat
    BY <1>1, CubeOffsets
  <2>2. c \in CubeOffset(a) + 1 .. CubeOffset(a) + source.bones[a].cubeCount
        /\ c \in CubeOffset(b) + 1 .. CubeOffset(b) + source.bones[b].cubeCount
    BY <1>1 DEF CubesOf
  <2> QED
    BY <2>1, <2>2
<1>2. i \in Nat /\ j \in Nat
  BY SourceFacts
<1>3. ~(i < j) /\ ~(j < i)
  BY <1>1
<1> QED
  BY <1>2, <1>3

-----------------------------------------------------------------------------
(* The bake.                                                               *)

Output       == [groups |-> groups, indices |-> cube_indices]
DoneCubes(m) == UNION {CubesOf(sorted_bone_indices[i]) : i \in 1 .. m}
DoneQuads(m) == UNION {Visible(c) : c \in DoneCubes(m)}

OutputFits  == OutFits(Output, Len(list))
OutputHolds == HoldsExactly(Output, DoneQuads(next_bone - 1))
BakingOK ==
  /\ next_bone \in 1 .. Len(list) + 1
  /\ solid \in [1 .. Len(list) -> BOOLEAN]
  /\ OutputFits /\ OutputHolds

BonesMade ==
  [i \in 1 .. Len(list) |->
    [parent_index |-> list[i].parent_index, subtree_end |-> list[i].subtree_end,
     depth |-> list[i].depth, solid |-> solid[i], finite |-> TRUE]]
ModelMade ==
  Model(width, BonesMade, sorted_bone_indices, groups, cube_indices,
        KindMajor(Len(list)), KindMajor(Len(list)))

FileOf(m) ==
  [width |-> m.width, groups |-> m.groups, sorted |-> m.sorted, list |-> m.list,
   index_count |-> IndexCount(Len(m.list), [s \in DOMAIN m.spans |-> m.spans[s].size]),
   indices |-> [k \in Kinds |-> [i \in 1 .. Len(m.list) |-> Held(m, m.cube_indices_cache, <<k, i>>)]],
   end |-> "exact"]
Accepts(f, w) == Deserializes(f, w) /\ ValidHierarchy(f) /\ ValidPartitions(f)
ReadOf(f, w) ==
  IF Accepts(f, w)
  THEN Model(w, f.list, f.sorted, f.groups, f.indices, BoneMajor(Len(f.list)), FillOrder(Len(f.list)))
  ELSE None

BakeInv ==
  /\ stage \in {"prepare", "walk", "bake", "refused", "baked", "stored", "loaded", "corrupt"}
  /\ stage \in {"prepare", "walk", "bake", "refused"} => baked = None
  /\ stage \in {"prepare", "walk"} => next_bone = 1 /\ groups = [k \in Kinds |-> <<>>]
  /\ stage \in {"prepare", "walk", "bake", "baked"} => source # None
  /\ stage = "bake" => BakingOK
  /\ stage = "baked" => baked # None
  /\ baked # None =>
       source # None /\ BakingOK /\ next_bone = Len(list) + 1 /\ baked = ModelMade
  /\ stage \in {"stored", "loaded", "corrupt"} =>
       IF baked = None THEN file \in Files ELSE file = FileOf(baked)
  /\ stage \in {"loaded", "corrupt"} =>
       /\ loaded = ReadOf(file, reader)
       /\ stage = IF loaded = None THEN "corrupt" ELSE "loaded"

LEMMA SameQuads ==
  ASSUME UNCHANGED <<source, options, sorted_bone_indices>>
  PROVE  /\ \A q : Translucent(q)' = Translucent(q) /\ Cutout(q)' = Cutout(q)
         /\ \A i : CubesOf(i)' = CubesOf(i)
         /\ \A c : Visible(c)' = Visible(c)
         /\ \A m : DoneQuads(m)' = DoneQuads(m)
         /\ \A k, b, q : InPlace(k, b, q)' <=> InPlace(k, b, q)
<1>1. \A q : Translucent(q)' = Translucent(q) /\ Cutout(q)' = Cutout(q)
  BY DEF Translucent, Cutout, TypeOf
<1>2. \A i : CubesOf(i)' = CubesOf(i)
  BY DEF CubesOf, CubeOffset
<1>3. \A c : Faces(c)' = Faces(c)
  BY DEF Faces
<1>4. \A c : Visible(c)' = Visible(c)
  BY <1>1, <1>3 DEF Visible, CutoutQuads, TranslucentQuads
<1>5. \A m : DoneCubes(m)' = DoneCubes(m)
  BY <1>2 DEF DoneCubes
<1>6. \A m : DoneQuads(m)' = DoneQuads(m)
  BY <1>4, <1>5 DEF DoneQuads
<1>7. \A k, b, q : InPlace(k, b, q)' <=> InPlace(k, b, q)
  BY <1>1, <1>2 DEF InPlace
<1> QED
  BY <1>1, <1>2, <1>4, <1>6, <1>7

LEMMA SameHolds ==
  ASSUME UNCHANGED <<source, options, sorted_bone_indices>>
  PROVE  \A out, D : HoldsExactly(out, D)' <=> HoldsExactly(out, D)
BY SameQuads DEF HoldsExactly, Holds

LEMMA SameBaking ==
  ASSUME UNCHANGED <<source, options, width, list, sorted_bone_indices, baker>>
  PROVE  (BakingOK' <=> BakingOK) /\ ModelMade' = ModelMade
<1>1. Output' = Output
  BY DEF Output, baker
<1>2. OutputFits' <=> OutputFits
  BY <1>1 DEF OutputFits, OutFits
<1>3. OutputHolds' <=> OutputHolds
  BY <1>1, SameQuads, SameHolds DEF OutputHolds, baker
<1> QED
  BY <1>2, <1>3 DEF BakingOK, baker, ModelMade, BonesMade

\* The list that is baked.
LEMMA BakedList ==
  ASSUME HierarchyInv, source # None, stage \notin {"prepare", "walk", "refused"}
  PROVE  /\ source \in Sources /\ Prepared
         /\ Len(list) \in Nat /\ Bones = 1 .. Len(list)
         /\ \A i \in Bones : sorted_bone_indices[i] \in Bones
         /\ \A i, j \in Bones : sorted_bone_indices[i] = sorted_bone_indices[j] => i = j
<1>1. source \in Sources /\ Accepted /\ Len(list) = BoneCount /\ WalkInv
  BY DEF HierarchyInv
<1>2. Prepared /\ BoneCount \in Nat /\ Bones = 1 .. Len(list)
  BY <1>1, SourceFacts DEF Accepted, Bones
<1>3. sorted_bone_indices \in Seq(Bones) /\ Len(sorted_bone_indices) = Len(list)
      /\ \A i, j \in 1 .. Len(list) : sorted_bone_indices[i] = sorted_bone_indices[j] => i = j
  BY <1>1 DEF WalkInv, ListOK, VisitedAreListed
<1>4. \A i \in Bones : sorted_bone_indices[i] \in Bones
  BY <1>2, <1>3, ElementOfSeq
<1> QED
  BY <1>1, <1>2, <1>3, <1>4

LEMMA CubesAreOfSource ==
  ASSUME source \in Sources, Prepared, NEW i \in Bones, NEW c \in CubesOf(i)
  PROVE  c \in 1 .. Len(source.cubes) /\ \A q \in Faces(c) : q[1] = c
<1>1. /\ CubeOffset(i) \in Nat /\ source.bones[i].cubeCount \in Nat
      /\ CubeOffset(i) + source.bones[i].cubeCount <= Len(source.cubes)
  BY CubeOffsets
<1>2. source.cubes \in Seq(CubeInSource)
  BY SourcesAssumption
<1>3. Len(source.cubes) \in Nat
  BY <1>2
<1>4. c \in 1 .. Len(source.cubes)
  BY <1>1, <1>3 DEF CubesOf
<1> QED
  BY <1>4, FacesAre

LEMMA EndHierarchyBakes ==
  ASSUME BakeInv, HierarchyInv, EndHierarchy, stage' = "bake"
  PROVE  BakingOK'
<1> DEFINE n == Len(list)
<1>1. /\ next_bone' = 1 /\ groups' = [k \in Kinds |-> <<>>] /\ list' = list
      /\ cube_indices' = [k \in Kinds |-> [i \in 1 .. n |-> <<>>]]
      /\ solid' = [i \in 1 .. n |-> TRUE] /\ AllReached
  BY DEF BakeInv, EndHierarchy, hierarchy
<1>2. source # None /\ stage = "walk"
  BY DEF BakeInv, EndHierarchy
<1>3. n \in Nat
  BY <1>1, <1>2, SourceFacts DEF HierarchyInv, AllReached
<1> DEFINE out == Output'
<1>4. out.groups = [k \in Kinds |-> <<>>] /\ out.indices = [k \in Kinds |-> [i \in 1 .. n |-> <<>>]]
  BY <1>1 DEF Output
<1>5. out = [groups |-> out.groups, indices |-> out.indices]
  BY DEF Output
<1> HIDE DEF out
<1>6. out \in Outs(n)
  <2>1. <<>> \in Seq(GroupInFile) /\ <<>> \in Seq(Nat)
    OBVIOUS
  <2>2. out.groups \in [Kinds -> Seq(GroupInFile)] /\ out.indices \in [Kinds -> [1 .. n -> Seq(Nat)]]
    BY <1>4, <2>1
  <2> QED
    BY <1>5, <2>2 DEF Outs
<1>7. \A k \in Kinds : out.groups[k] = <<>> /\ \A i \in 1 .. n : out.indices[k][i] = <<>>
  BY <1>4
<1>8. \A k \in Kinds : Len(out.groups[k]) = 0 /\ \A i \in 1 .. n : Len(out.indices[k][i]) = 0
  BY <1>7
<1>9. \A k \in Kinds : \A w : KindFits(out.groups[k], out.indices[k], n, w)
  <2> SUFFICES ASSUME NEW k \in Kinds, NEW w PROVE KindFits(out.groups[k], out.indices[k], n, w)
    OBVIOUS
  <2>1. KindTyped(out.groups[k], out.indices[k], n)
    BY <1>3, <1>6, OutTypes
  <2> QED
    BY <1>8, <2>1 DEF KindFits, ListsBone
<1>10. OutputFits'
  BY <1>1, <1>6, <1>9 DEF OutputFits, OutFits, out
<1>11. \A k, g, c, q : ~Holds(out, k, g, c, q)
  BY <1>8 DEF Holds, Cell
<1>12. DoneQuads(0) = {}
  BY DEF DoneQuads, DoneCubes
<1>14. OutputHolds'
  <2>1. UNCHANGED <<source, options, sorted_bone_indices>>
    BY DEF EndHierarchy, arguments, hierarchy
  <2>2. HoldsExactly(Output, {})'
    BY <1>11 DEF HoldsExactly, out
  <2>3. DoneQuads(next_bone - 1)' = {}
    BY <1>1, <1>12, <2>1, SameQuads
  <2> QED
    BY <2>2, <2>3 DEF OutputHolds
<1> QED
  BY <1>1, <1>3, <1>10, <1>14 DEF BakingOK

LEMMA AddBoneBakes ==
  ASSUME BakeInv, HierarchyInv, AddBone
  PROVE  BakingOK'
<1> DEFINE n == Len(list)
           m == next_bone
           original == sorted_bone_indices[m]
           first == CubeOffset(original)
           count == source.bones[original].cubeCount
           out == AddCubes(Output, m, first, count)
<1>1. stage = "bake" /\ BakingOK /\ source # None
  BY DEF BakeInv, AddBone
<1>2. /\ source \in Sources /\ Prepared
      /\ n \in Nat /\ Bones = 1 .. n
      /\ \A i \in Bones : sorted_bone_indices[i] \in Bones
      /\ \A i, j \in Bones : sorted_bone_indices[i] = sorted_bone_indices[j] => i = j
  BY <1>1, BakedList
<1>3. m \in 1 .. n /\ m \in Nat
  BY <1>1, <1>2 DEF AddBone, BakingOK
<1>4. original \in Bones
  BY <1>2, <1>3
<1>5. /\ groups' = out.groups /\ cube_indices' = out.indices /\ next_bone' = m + 1
      /\ solid' = [solid EXCEPT ![m] = solid'[m]] /\ solid'[m] \in BOOLEAN
      /\ UNCHANGED <<source, options, width, list, sorted_bone_indices>>
  BY <1>1, <1>3 DEF AddBone, Output, BakingOK, arguments, hierarchy
<1>6. OutFits(Output, n) /\ HoldsExactly(Output, DoneQuads(m - 1)) /\ Output \in Outs(n)
  BY <1>1 DEF BakingOK, OutputFits, OutputHolds, OutFits
<1>7. first \in Nat /\ count \in Nat /\ first + count <= Len(source.cubes)
  BY <1>2, <1>4, CubeOffsets
<1>8. IsBone(m, n) /\ CubesOf(original) = first + 1 .. first + count
  BY <1>3 DEF IsBone, CubesOf
<1>9. \A q \in DoneQuads(m - 1) : q[1] \notin CubesOf(original)
  <2> SUFFICES ASSUME NEW q \in DoneQuads(m - 1) PROVE q[1] \notin CubesOf(original)
    OBVIOUS
  <2>1. PICK i \in 1 .. m - 1 : \E c \in CubesOf(sorted_bone_indices[i]) : q \in Visible(c)
    BY DEF DoneQuads, DoneCubes
  <2>2. PICK c \in CubesOf(sorted_bone_indices[i]) : q \in Visible(c)
    BY <2>1
  <2>3. i \in Bones /\ m \in Bones /\ i # m
    BY <1>2, <1>3
  <2>4. sorted_bone_indices[i] \in Bones /\ sorted_bone_indices[i] # original
    BY <1>2, <2>3
  <2>5. q \in Faces(c)
    BY <2>2 DEF Visible, CutoutQuads, TranslucentQuads
  <2>6. q[1] = c
    BY <1>2, <2>4, <2>5, CubesAreOfSource
  <2> QED
    BY <1>2, <1>4, <2>2, <2>4, <2>6, CubesAreDisjoint
<1>10. DoneQuads(m - 1) \cup VisibleIn(first, count) = DoneQuads(m)
  <2>1. \A i \in 1 .. m : i \in 1 .. m - 1 \/ i = m
    BY <1>3
  <2>2. (\A i \in 1 .. m - 1 : i \in 1 .. m) /\ m \in 1 .. m
    BY <1>3
  <2>3. DoneCubes(m) = DoneCubes(m - 1) \cup CubesOf(original)
    BY <2>1, <2>2 DEF DoneCubes
  <2>4. \A c \in CubesOf(original) : \E j \in 1 .. count : c = first + j
    <3> SUFFICES ASSUME NEW c \in first + 1 .. first + count PROVE \E j \in 1 .. count : c = first + j
      BY <1>8
    <3> HIDE DEF first, count
    <3>1. c - first \in 1 .. count /\ c = first + (c - first)
      BY <1>7
    <3> QED
      BY <3>1
  <2>5. \A j \in 1 .. count : first + j \in CubesOf(original)
    <3> HIDE DEF first, count
    <3> QED
      BY <1>7, <1>8
  <2> HIDE DEF first, count, original
  <2>6. VisibleIn(first, count) = UNION {Visible(c) : c \in CubesOf(original)}
    BY <2>4, <2>5 DEF VisibleIn
  <2> QED
    BY <2>3, <2>6 DEF DoneQuads
<1>11. /\ out \in Outs(n) /\ OutFits(out, n)
       /\ HoldsExactly(out, DoneQuads(m - 1) \cup VisibleIn(first, count))
  <2>1. \A q \in DoneQuads(m - 1) : q[1] \notin first + 1 .. first + count
    BY <1>8, <1>9
  <2>2. \A c \in first + 1 .. first + count : c \in CubesOf(sorted_bone_indices[m])
    BY <1>8
  <2> DEFINE x == Output
             D == DoneQuads(m - 1)
  <2>3. x \in Outs(n) /\ OutFits(x, n) /\ HoldsExactly(x, D) /\ IsBone(m, n)
        /\ \A q \in D : q[1] \notin first + 1 .. first + count
    BY <1>6, <1>8, <2>1
  <2>4. out = AddCubes(x, m, first, count)
    OBVIOUS
  <2> HIDE DEF x, D, out, first, count, original, n
  <2>5. n \in Nat
    BY <1>2
  <2>6. /\ AddCubes(x, m, first, count) \in Outs(n)
        /\ OutFits(x, n) => OutFits(AddCubes(x, m, first, count), n)
        /\ HoldsExactly(x, D) /\ (\A q \in D : q[1] \notin first + 1 .. first + count)
           /\ (\A c \in first + 1 .. first + count : c \in CubesOf(sorted_bone_indices[m]))
             => HoldsExactly(AddCubes(x, m, first, count), D \cup VisibleIn(first, count))
    BY <1>2, <1>7, <2>3, <2>5, AddCubesAdds
  <2> QED
    BY <2>2, <2>3, <2>4, <2>6 DEF D
<1>12. HoldsExactly(out, DoneQuads(m))
  BY <1>10, <1>11
<1> HIDE DEF out, first, count, original
<1>13. Output' = out
  <2>1. out = [groups |-> out.groups, indices |-> out.indices]
    BY <1>11 DEF Outs
  <2> QED
    BY <1>5, <2>1 DEF Output
<1>14. OutputFits'
  BY <1>5, <1>11, <1>13 DEF OutputFits, OutFits
<1>15. OutputHolds'
  <2>1. (next_bone - 1)' = m
    BY <1>3, <1>5
  <2>2. DoneQuads(next_bone - 1)' = DoneQuads(m)
    BY <1>5, <2>1, SameQuads
  <2> QED
    BY <1>5, <1>12, <1>13, <2>2, SameHolds DEF OutputHolds
<1>16. solid' \in [1 .. n -> BOOLEAN]
  BY <1>1, <1>3, <1>5 DEF BakingOK
<1>17. next_bone' \in 1 .. n + 1
  BY <1>3, <1>5
<1> QED
  BY <1>5, <1>14, <1>15, <1>16, <1>17 DEF BakingOK

LEMMA InitBake == Init => BakeInv
<1> SUFFICES ASSUME Init PROVE BakeInv
  OBVIOUS
<1>1. CASE stage = "prepare" /\ source \in Sources
  <2>1. source # None
    <3>1. source \in [texture : BOOLEAN, bones : Seq(BoneInSource), cubes : Seq(CubeInSource)]
      BY <1>1, SourcesAssumption
    <3> QED
      BY <3>1 DEF None
  <2> QED
    BY <1>1, <2>1 DEF Init, BakeInv
<1>2. CASE stage = "stored" /\ file \in Files
  BY <1>2 DEF Init, BakeInv
<1> QED
  BY <1>1, <1>2 DEF Init

LEMMA ModelIsSomething ==
  ASSUME NEW w, NEW bones, NEW sorted, NEW gs, NEW indices, NEW slots, NEW filled
  PROVE  Model(w, bones, sorted, gs, indices, slots, filled) # None
BY DEF Model, None

LEMMA BakeStep ==
  ASSUME BakeInv, HierarchyInv, [Next]_vars
  PROVE  BakeInv'
<1>1. CASE Prepare
  BY <1>1 DEF BakeInv, Prepare, arguments, baker
<1>2. CASE EnterRoot
  BY <1>2 DEF BakeInv, EnterRoot, arguments, baker
<1>3. CASE EnterChild
  BY <1>3 DEF BakeInv, EnterChild, arguments, baker
<1>4. CASE LeaveBone
  BY <1>4 DEF BakeInv, LeaveBone, arguments, baker
<1>5. CASE EndHierarchy
  <2>1. stage = "walk" /\ baked = None /\ source # None /\ UNCHANGED <<source, baked>>
        /\ stage' \in {"bake", "refused"}
    BY <1>5 DEF BakeInv, EndHierarchy, arguments
  <2>2. stage' = "bake" => BakingOK'
    BY <1>5, EndHierarchyBakes
  <2> QED
    BY <2>1, <2>2 DEF BakeInv
<1>6. CASE AddBone
  <2>1. stage = "bake" /\ baked = None /\ source # None /\ UNCHANGED <<source, baked, stage>>
    BY <1>6 DEF BakeInv, AddBone, arguments
  <2>2. BakingOK'
    BY <1>6, AddBoneBakes
  <2> QED
    BY <2>1, <2>2 DEF BakeInv
<1>7. CASE Finish
  <2>1. /\ stage = "bake" /\ next_bone > Len(list) /\ stage' = "baked" /\ source # None
        /\ UNCHANGED <<source, options, width, list, sorted_bone_indices, baker>>
        /\ BakingOK /\ baked' = ModelMade
    BY <1>7 DEF BakeInv, Finish, arguments, hierarchy, ModelMade, BonesMade
  <2>2. BakingOK' /\ ModelMade' = ModelMade
    BY <2>1, SameBaking
  <2>3. baked' # None
    BY <2>1, ModelIsSomething DEF ModelMade
  <2>4. Len(list) \in Nat
    BY <2>1, BakedList
  <2>5. next_bone' = Len(list)' + 1
    BY <2>1, <2>4 DEF BakingOK, baker
  <2> QED
    BY <2>1, <2>2, <2>3, <2>5 DEF BakeInv
<1>8. CASE Serialize
  <2>1. /\ stage = "baked" /\ baked # None /\ stage' = "stored"
        /\ UNCHANGED <<source, options, width, list, sorted_bone_indices, baker, baked>>
        /\ source # None /\ BakingOK /\ next_bone = Len(list) + 1 /\ baked = ModelMade
    BY <1>8 DEF BakeInv, Serialize, arguments, hierarchy
  <2>2. BakingOK' /\ ModelMade' = ModelMade
    BY <2>1, SameBaking
  <2>3. file' = FileOf(baked)
    BY <1>8 DEF Serialize, FileOf
  <2>4. next_bone' = Len(list)' + 1
    BY <2>1 DEF baker
  <2> QED
    BY <2>1, <2>2, <2>3, <2>4 DEF BakeInv
<1>9. CASE ReadBakedModel
  <2>1. /\ stage = "stored" /\ UNCHANGED <<source, options, width, reader, list, sorted_bone_indices,
                                           baker, baked, file>>
        /\ loaded' = ReadOf(file, reader)
        /\ stage' = IF loaded' = None THEN "corrupt" ELSE "loaded"
    BY <1>9 DEF ReadBakedModel, arguments, hierarchy, ReadOf, Accepts
  <2>2. (BakingOK' <=> BakingOK) /\ ModelMade' = ModelMade
    BY <2>1, SameBaking
  <2>3. baked # None => next_bone' = Len(list)' + 1
    BY <2>1 DEF baker, BakeInv
  <2>4. stage' \in {"loaded", "corrupt"}
    BY <2>1
  <2>5. baked' # None =>
          source' # None /\ BakingOK' /\ next_bone' = Len(list)' + 1 /\ baked' = ModelMade'
    BY <2>1, <2>2, <2>3 DEF BakeInv
  <2>6. IF baked' = None THEN file' \in Files ELSE file' = FileOf(baked')
    BY <2>1 DEF BakeInv
  <2>7. loaded' = ReadOf(file', reader') /\ stage' = IF loaded' = None THEN "corrupt" ELSE "loaded"
    BY <2>1
  <2> QED
    BY <2>4, <2>5, <2>6, <2>7 DEF BakeInv
<1>10. CASE UNCHANGED vars
  <2>1. UNCHANGED <<source, options, width, reader, list, sorted_bone_indices, baker, baked, file,
                    loaded, stage, groups, next_bone>>
    BY <1>10 DEF vars, arguments, hierarchy, baker
  <2>2. (BakingOK' <=> BakingOK) /\ ModelMade' = ModelMade
    BY <2>1, SameBaking
  <2> QED
    BY <2>1, <2>2 DEF BakeInv
<1> QED
  BY <1>1, <1>2, <1>3, <1>4, <1>5, <1>6, <1>7, <1>8, <1>9, <1>10 DEF Next, Done

LEMMA AlwaysBake == Spec => [](HierarchyInv /\ BakeInv)
<1>1. Init => HierarchyInv /\ BakeInv
  BY InitHierarchy, InitBake
<1>2. HierarchyInv /\ BakeInv /\ [Next]_vars => (HierarchyInv /\ BakeInv)'
  BY HierarchyStep, BakeStep
<1> QED
  BY <1>1, <1>2, PTL DEF Spec

\* What was baked, span by span.
LEMMA BakedHolds ==
  ASSUME HierarchyInv, BakeInv, baked # None
  PROVE  /\ source \in Sources /\ Prepared /\ Len(list) \in Nat /\ Bones = 1 .. Len(list)
         /\ IsIndices(cube_indices, Len(list)) /\ IsSlots(KindMajor(Len(list)), Len(list))
         /\ \A k \in Kinds : KindFits(groups[k], cube_indices[k], Len(list), width)
         /\ HoldsExactly(Output, DoneQuads(Len(list)))
         /\ solid \in [1 .. Len(list) -> BOOLEAN]
         /\ baked = ModelMade /\ baked.groups = groups /\ baked.width = width
         /\ baked.sorted = sorted_bone_indices /\ baked.list = BonesMade
         /\ stage \notin {"prepare", "walk", "refused"} /\ source # None
<1> DEFINE n == Len(list)
<1>1. source # None /\ BakingOK /\ next_bone = n + 1 /\ baked = ModelMade
      /\ stage \notin {"prepare", "walk", "refused"}
  BY DEF BakeInv
<1>2. source \in Sources /\ Prepared /\ n \in Nat /\ Bones = 1 .. n
  BY <1>1, BakedList
<1>3. OutFits(Output, n) /\ HoldsExactly(Output, DoneQuads(next_bone - 1)) /\ Output \in Outs(n)
      /\ solid \in [1 .. n -> BOOLEAN]
  BY <1>1 DEF BakingOK, OutputFits, OutputHolds, OutFits
<1>4. Output.groups = groups /\ Output.indices = cube_indices
  BY DEF Output
<1>5. IsIndices(cube_indices, n)
  BY <1>3, <1>4 DEF IsIndices, Outs
<1>6. \A k \in Kinds : KindFits(groups[k], cube_indices[k], n, width)
  BY <1>3, <1>4 DEF OutFits
<1>7. IsSlots(KindMajor(n), n)
  BY <1>2, KindMajorIsSlots
<1>8. next_bone - 1 = n
  BY <1>1, <1>2
<1>9. baked.groups = groups /\ baked.width = width /\ baked.sorted = sorted_bone_indices
      /\ baked.list = BonesMade
  BY <1>1 DEF ModelMade, Model
<1> QED
  BY <1>1, <1>2, <1>3, <1>5, <1>6, <1>7, <1>8, <1>9

LEMMA BakedSums ==
  ASSUME HierarchyInv, BakeInv, baked # None
  PROVE  SumsHold(baked)
<1> DEFINE n == Len(list)
<1>1. n \in Nat /\ IsIndices(cube_indices, n) /\ IsSlots(KindMajor(n), n) /\ baked = ModelMade
      /\ baked.groups = groups /\ \A k \in Kinds : KindFits(groups[k], cube_indices[k], n, width)
  BY BakedHolds
<1>2. baked = Model(width, BonesMade, sorted_bone_indices, groups, cube_indices, KindMajor(n), KindMajor(n))
  BY <1>1 DEF ModelMade
<1> DEFINE slots == KindMajor(n)
<1> HIDE DEF n, slots
<1>10. ModelHolds(baked, n, groups, cube_indices)
  <2>1. IsSlots(slots, n)
    BY <1>1 DEF slots
  <2>2. baked = Model(width, BonesMade, sorted_bone_indices, groups, cube_indices, slots, slots)
    BY <1>2 DEF slots
  <2> QED
    BY <1>1, <2>1, <2>2, HeldOfModel
<1>3. /\ DOMAIN baked.spans = Kinds \X (1 .. n)
      /\ \A s \in Kinds \X (1 .. n) :
           /\ Held(baked, baked.cube_indices_cache, s) = cube_indices[s[1]][s[2]]
           /\ Held(baked, baked.cube_group_info_cache, s) = RunningSums(groups[s[1]], cube_indices[s[1]][s[2]])
           /\ baked.totals[s] = Totals(RunningSums(groups[s[1]], cube_indices[s[1]][s[2]]))
  BY <1>10 DEF ModelHolds
<1>4. ASSUME NEW k \in Kinds, NEW i \in 1 .. n
      PROVE  /\ \A g \in 1 .. Len(groups[k]) :
                  g \in Range(cube_indices[k][i]) <=> groups[k][g].bone_index = i
             /\ IsInjective(cube_indices[k][i])
  <2> DEFINE gs == groups[k]
             ix == cube_indices[k][i]
  <2>1. KindFits(gs, cube_indices[k], n, width)
    BY <1>1
  <2>2. cube_indices[k] \in [1 .. n -> Seq(Nat)] /\ ListsBone(gs, ix, i)
    BY <2>1 DEF KindFits, KindTyped
  <2>3. ix \in Seq(Nat)
    BY <2>2
  <2>4. DOMAIN ix = 1 .. Len(ix) /\ Len(ix) \in Nat
    BY <2>3
  <2>5. \A x \in 1 .. Len(ix) : ix[x] \in Nat
    BY <2>3, ElementOfSeq
  <2>6. IsInjective(ix)
    <3> SUFFICES ASSUME NEW x \in 1 .. Len(ix), NEW y \in 1 .. Len(ix), ix[x] = ix[y] PROVE x = y
      BY <2>4 DEF IsInjective
    <3>1. ~(x < y) /\ ~(y < x)
      BY <2>2, <2>5 DEF ListsBone
    <3> HIDE DEF ix
    <3> QED
      BY <2>4, <3>1
  <2>7. \A g \in 1 .. Len(gs) : g \in Range(ix) => gs[g].bone_index = i
    BY <2>2, <2>4 DEF ListsBone, Range
  <2>8. ASSUME NEW g \in 1 .. Len(gs), gs[g].bone_index = i PROVE g \in Range(ix)
    <3>1. GroupFits(gs, cube_indices[k], g, n, width)
      BY <2>1 DEF KindFits
    <3>2. \E x \in 1 .. Len(ix) : ix[x] = g
      BY <2>8, <3>1 DEF GroupFits
    <3> QED
      BY <2>4, <3>2 DEF Range
  <2> QED
    BY <2>6, <2>7, <2>8
<1> SUFFICES ASSUME NEW s \in Kinds \X (1 .. n)
             PROVE  LET held == Held(baked, baked.cube_indices_cache, s)
                        sums == RunningSums(baked.groups[s[1]], held)
                    IN /\ \A g \in 1 .. Len(baked.groups[s[1]]) :
                            g \in Range(held) <=> baked.groups[s[1]][g].bone_index = s[2]
                       /\ IsInjective(held)
                       /\ Held(baked, baked.cube_group_info_cache, s) = sums
                       /\ baked.totals[s] = Totals(sums)
  BY <1>3 DEF SumsHold
<1>5. s[1] \in Kinds /\ s[2] \in 1 .. n
  OBVIOUS
<1> QED
  BY <1>1, <1>3, <1>4, <1>5

LEMMA Places ==
  ASSUME HierarchyInv, BakeInv, baked # None, NEW q
  PROVE  \A p : p \in PlacesOf(baked, q) <=>
                  \E k, g, c : p = <<k, g, c>> /\ Holds(Output, k, g, c, q)
<1>1. baked.groups = groups /\ Output.groups = groups
      /\ \A k \in Kinds : KindFits(groups[k], cube_indices[k], Len(list), width)
  BY BakedHolds DEF Output
<1>2. ASSUME NEW p, p \in PlacesOf(baked, q)
      PROVE  \E k, g, c : p = <<k, g, c>> /\ Holds(Output, k, g, c, q)
  <2>1. PICK k \in Kinds : p \in {k} \X (1 .. Len(groups[k])) \X {1, 2}
    BY <1>1, <1>2 DEF PlacesOf
  <2>2. p = <<k, p[2], p[3]>> /\ p[1] = k /\ p[2] \in 1 .. Len(groups[k]) /\ p[3] \in {1, 2}
    BY <2>1
  <2>3. p[3] <= Len(groups[k][p[2]].cubes) /\ q \in groups[k][p[2]].cubes[p[3]].quads
    BY <1>1, <1>2, <2>2 DEF PlacesOf
  <2>4. GroupFits(groups[k], cube_indices[k], p[2], Len(list), width)
    BY <1>1, <2>2 DEF KindFits
  <2>5. Len(groups[k][p[2]].cubes) \in Nat
    BY <2>4, CapacityIs, SMTT(30) DEF GroupFits
  <2>6. p[3] \in 1 .. Len(groups[k][p[2]].cubes)
    BY <2>2, <2>3, <2>5
  <2>7. Holds(Output, k, p[2], p[3], q)
    BY <1>1, <2>2, <2>3, <2>6 DEF Holds, Cell
  <2> QED
    BY <2>2, <2>7
<1>3. ASSUME NEW k, NEW g, NEW c, Holds(Output, k, g, c, q)
      PROVE  <<k, g, c>> \in PlacesOf(baked, q)
  <2>1. k \in Kinds /\ g \in 1 .. Len(groups[k]) /\ c \in 1 .. Len(groups[k][g].cubes)
        /\ q \in groups[k][g].cubes[c].quads
    BY <1>1, <1>3 DEF Holds, Cell
  <2>2. GroupFits(groups[k], cube_indices[k], g, Len(list), width)
    BY <1>1, <2>1 DEF KindFits
  <2>3. Len(groups[k][g].cubes) \in Nat /\ Len(groups[k][g].cubes) <= 2
    BY <2>2, CapacityIs, SMTT(30) DEF GroupFits
  <2>4. c \in {1, 2} /\ c <= Len(groups[k][g].cubes)
    BY <2>1, <2>3
  <2>5. <<k, g, c>> \in {k} \X (1 .. Len(groups[k])) \X {1, 2}
    BY <2>1, <2>4
  <2> QED
    BY <1>1, <2>1, <2>4, <2>5 DEF PlacesOf
<1> QED
  BY <1>2, <1>3

\* Every visible quad ends in exactly one cube of one group, of the bone it
\* belongs to and of a kind that draws it as it must be drawn, an invisible
\* one nowhere, and the sums and totals of each bone and kind are those of the
\* groups it holds.
THEOREM QuadsBakedOnce == Spec => []EveryQuadOnce
<1>1. ASSUME HierarchyInv, BakeInv
      PROVE  EveryQuadOnce
  <2> SUFFICES ASSUME baked # None
               PROVE  /\ SumsHold(baked)
                      /\ \A i \in Bones : \A c \in CubesOf(sorted_bone_indices[i]) : \A q \in Faces(c) :
                           /\ Cardinality(PlacesOf(baked, q)) = IF Translucent(q) \/ Cutout(q) THEN 1 ELSE 0
                           /\ \A p \in PlacesOf(baked, q) :
                                /\ baked.groups[p[1]][p[2]].bone_index = i
                                /\ p[1] \in {"translucent", "translucent_culling"} <=> Translucent(q)
    BY DEF EveryQuadOnce
  <2>1. SumsHold(baked)
    BY <1>1, BakedSums
  <2> SUFFICES ASSUME NEW i \in Bones, NEW c \in CubesOf(sorted_bone_indices[i]), NEW q \in Faces(c)
               PROVE  /\ Cardinality(PlacesOf(baked, q)) = IF Translucent(q) \/ Cutout(q) THEN 1 ELSE 0
                      /\ \A p \in PlacesOf(baked, q) :
                           /\ baked.groups[p[1]][p[2]].bone_index = i
                           /\ p[1] \in {"translucent", "translucent_culling"} <=> Translucent(q)
    BY <2>1
  <2> DEFINE n == Len(list)
             all == DoneQuads(n)
  <2>2. /\ source \in Sources /\ Prepared /\ n \in Nat /\ Bones = 1 .. n
        /\ baked.groups = groups /\ HoldsExactly(Output, all) /\ source # None
        /\ \A k \in Kinds : KindFits(groups[k], cube_indices[k], n, width)
        /\ stage \notin {"prepare", "walk", "refused"}
    BY <1>1, BakedHolds
  <2>3. /\ \A j \in Bones : sorted_bone_indices[j] \in Bones
        /\ \A j, h \in Bones : sorted_bone_indices[j] = sorted_bone_indices[h] => j = h
    BY <1>1, <2>2, BakedList
  <2>4. q[1] = c
    BY <2>2, <2>3, CubesAreOfSource
  <2>5. q \in all <=> Translucent(q) \/ Cutout(q)
    <3>1. ASSUME q \in all PROVE Translucent(q) \/ Cutout(q)
      BY <3>1 DEF DoneQuads, Visible, CutoutQuads, TranslucentQuads
    <3>2. ASSUME Translucent(q) \/ Cutout(q) PROVE q \in all
      <4>1. q \in Visible(c)
        BY <3>2 DEF Visible, CutoutQuads, TranslucentQuads
      <4>2. c \in DoneCubes(n)
        BY <2>2 DEF DoneCubes
      <4> QED
        BY <4>1, <4>2 DEF DoneQuads
    <3> QED
      BY <3>1, <3>2
  <2> HIDE DEF all
  <2>6. \A p : p \in PlacesOf(baked, q) <=> \E k, g, d : p = <<k, g, d>> /\ Holds(Output, k, g, d, q)
    BY <1>1, Places
  <2>7. ASSUME NEW p \in PlacesOf(baked, q)
        PROVE  /\ baked.groups[p[1]][p[2]].bone_index = i
               /\ p[1] \in {"translucent", "translucent_culling"} <=> Translucent(q)
    <3>1. PICK k, g, d : p = <<k, g, d>> /\ Holds(Output, k, g, d, q)
      BY <2>6, <2>7
    <3> DEFINE b == groups[k][g].bone_index
    <3>2. InPlace(k, b, q)
      BY <2>2, <3>1 DEF HoldsExactly, Output
    <3>3. k \in Kinds /\ g \in 1 .. Len(groups[k])
      BY <3>1 DEF Holds, Cell, Output
    <3>4. GroupFits(groups[k], cube_indices[k], g, n, width)
      BY <2>2, <3>3 DEF KindFits
    <3>5. b \in Bones
      BY <2>2, <3>4 DEF GroupFits
    <3>6. c \in CubesOf(sorted_bone_indices[b])
      BY <2>4, <3>2 DEF InPlace
    <3> HIDE DEF b
    <3>7. sorted_bone_indices[b] = sorted_bone_indices[i]
      BY <2>2, <2>3, <3>5, <3>6, CubesAreDisjoint
    <3>8. b = i
      BY <2>3, <3>5, <3>7
    <3>9. p[1] = k /\ p[2] = g
      BY <3>1
    <3> QED
      BY <2>2, <3>2, <3>8, <3>9 DEF b, InPlace
  <2>8. CASE q \in all
    <3>1. PICK k, g, d : Holds(Output, k, g, d, q)
      BY <2>2, <2>8 DEF HoldsExactly
    <3>2. \A j, h, e : Holds(Output, j, h, e, q) => j = k /\ h = g /\ e = d
      BY <2>2, <3>1 DEF HoldsExactly
    <3>3. PlacesOf(baked, q) = {<<k, g, d>>}
      <4>1. \A p \in PlacesOf(baked, q) : p = <<k, g, d>>
        BY <2>6, <3>2
      <4>2. <<k, g, d>> \in PlacesOf(baked, q)
        BY <2>6, <3>1
      <4> QED
        BY <4>1, <4>2
    <3>4. Cardinality(PlacesOf(baked, q)) = 1
      BY <3>3, FS_Singleton
    <3> QED
      BY <2>5, <2>7, <2>8, <3>4
  <2>9. CASE q \notin all
    <3>1. \A k, g, d : ~Holds(Output, k, g, d, q)
      BY <2>2, <2>9 DEF HoldsExactly
    <3>2. PlacesOf(baked, q) = {}
      BY <2>6, <3>1
    <3>3. Cardinality(PlacesOf(baked, q)) = 0
      BY <3>2, FS_EmptySet
    <3> QED
      BY <2>5, <2>7, <2>9, <3>3
  <2> QED
    BY <2>8, <2>9
<1> QED
  BY <1>1, AlwaysBake, PTL

-----------------------------------------------------------------------------
(* Reading a cache file.                                                   *)

Increasing(s) == \A a, b \in 1 .. Len(s) : a < b => s[a] < s[b]

\* Neighbours in ascending order are enough.
LEMMA AscendingIs ==
  ASSUME NEW s \in Seq(Nat)
  PROVE  Ascending(s) <=> Increasing(s)
<1> DEFINE n == Len(s)
<1>1. n \in Nat /\ \A i \in 1 .. n : s[i] \in Nat
  BY ElementOfSeq
<1>2. ASSUME Increasing(s) PROVE Ascending(s)
  <2> SUFFICES ASSUME NEW k \in 2 .. n PROVE s[k - 1] < s[k]
    BY DEF Ascending
  <2>1. k - 1 \in 1 .. n /\ k \in 1 .. n /\ k - 1 < k
    BY <1>1
  <2> QED
    BY <1>2, <2>1 DEF Increasing
<1>3. ASSUME Ascending(s) PROVE Increasing(s)
  <2> DEFINE S == {m \in Nat : m <= n => \A a \in 1 .. m : a < m => s[a] < s[m]}
  <2>1. 0 \in S
    OBVIOUS
  <2>2. ASSUME NEW m \in Nat, m \in S PROVE m + 1 \in S
    <3> SUFFICES ASSUME m + 1 <= n, NEW a \in 1 .. m + 1, a < m + 1
                 PROVE  s[a] < s[m + 1]
      OBVIOUS
    <3>1. a \in 1 .. m /\ m \in 1 .. n /\ m + 1 \in 2 .. n /\ (m + 1) - 1 = m /\ m <= n
          /\ m + 1 \in 1 .. n /\ a \in 1 .. n
      BY <1>1
    <3>2. s[m] < s[m + 1]
      BY <1>3, <3>1 DEF Ascending
    <3>3. CASE a = m
      BY <3>2, <3>3
    <3>4. CASE a # m
      <4>1. a < m
        BY <3>1, <3>4
      <4>2. s[a] < s[m]
        BY <2>2, <3>1, <4>1
      <4>3. s[a] \in Nat /\ s[m] \in Nat /\ s[m + 1] \in Nat
        BY <1>1, <3>1
      <4> QED
        BY <3>2, <4>2, <4>3
    <3> QED
      BY <3>3, <3>4
  <2> HIDE DEF S
  <2>3. Nat \subseteq S
    BY <2>1, <2>2, SetInduction
  <2> SUFFICES ASSUME NEW a \in 1 .. n, NEW b \in 1 .. n, a < b
               PROVE  s[a] < s[b]
    BY DEF Increasing
  <2>4. b \in S /\ b <= n /\ a \in 1 .. b
    BY <1>1, <2>3
  <2> QED
    BY <2>4 DEF S
<1> QED
  BY <1>2, <1>3

FileTyped(f) ==
  /\ f.list \in Seq(BoneInFile) /\ f.sorted \in Seq(Nat)
  /\ \A k \in Kinds : KindTyped(f.groups[k], f.indices[k], Len(f.list))

\* What WellFormed says of the groups and of the lists of a file.
ListsAreOwn(f) ==
  \A k \in Kinds : \A i \in 1 .. Len(f.list) :
    LET held == f.indices[k][i] IN
    /\ \A g \in Range(held) : g \in 1 .. Len(f.groups[k]) /\ f.groups[k][g].bone_index = i
    /\ \A a, b \in 1 .. Len(held) : a < b => held[a] < held[b]
GroupsAreValid(f) == \A k \in Kinds : \A g \in Range(f.groups[k]) : ValidGroup(f, g)

LEMMA PartitionsAreOwn ==
  ASSUME NEW f, FileTyped(f)
  PROVE  ValidPartitions(f) <=> GroupsAreValid(f) /\ ListsAreOwn(f)
<1>1. ASSUME NEW k \in Kinds, NEW i \in 1 .. Len(f.list)
      PROVE  Ascending(f.indices[k][i]) <=> Increasing(f.indices[k][i])
  <2>1. f.indices[k][i] \in Seq(Nat)
    BY DEF FileTyped, KindTyped
  <2> QED
    BY <2>1, AscendingIs
<1>2. ListsAreOwn(f) <=> \A k \in Kinds : \A i \in 1 .. Len(f.list) : ValidPartition(f, k, i)
  BY <1>1 DEF ListsAreOwn, ValidPartition, Increasing
<1> QED
  BY <1>2 DEF ValidPartitions, GroupsAreValid

LEMMA AcceptsIsWellFormed ==
  ASSUME NEW f, FileTyped(f)
  PROVE  Accepts(f, reader) <=> WellFormed(f)
<1>1. ValidHierarchy(f) <=>
        Permutation(f.sorted, Len(f.list)) /\ Preorder(f.list) /\ \A b \in Range(f.list) : b.finite
  BY HierarchyCheckIsExact DEF FileTyped
<1>2. ValidPartitions(f) <=> GroupsAreValid(f) /\ ListsAreOwn(f)
  BY PartitionsAreOwn
<1>3. WellFormed(f) <=>
        /\ f.width = reader /\ f.end = "exact" /\ GroupsReadable(f, reader)
        /\ f.index_count = IndexCount(Len(f.list), Sizes(f.indices))
        /\ Permutation(f.sorted, Len(f.list)) /\ Preorder(f.list) /\ \A b \in Range(f.list) : b.finite
        /\ GroupsAreValid(f) /\ ListsAreOwn(f)
  BY DEF WellFormed, GroupsAreValid, ListsAreOwn
<1> QED
  BY <1>1, <1>2, <1>3 DEF Accepts, Deserializes

\* The file a bake writes.
FileHasBake(f) ==
  /\ f.width = width /\ f.groups = groups /\ f.sorted = sorted_bone_indices /\ f.list = BonesMade
  /\ f.indices = cube_indices /\ f.end = "exact" /\ Len(f.list) = Len(list)
  /\ f.index_count = IndexCount(Len(f.list), Sizes(f.indices))

LEMMA WiderSeq ==
  ASSUME NEW S, NEW T, S \subseteq T, NEW s \in Seq(S)
  PROVE  s \in Seq(T)
<1>1. Len(s) \in Nat /\ s \in [1 .. Len(s) -> S]
  OBVIOUS
<1>2. s \in [1 .. Len(s) -> T]
  BY <1>1
<1> QED
  BY <1>1, <1>2

LEMMA BonesMadeFacts ==
  ASSUME HierarchyInv, BakeInv, baked # None
  PROVE  /\ BonesMade \in Seq(BoneInFile) /\ Len(BonesMade) = Len(list)
         /\ \A b \in Range(BonesMade) : b.finite
         /\ sorted_bone_indices \in Seq(Nat)
         /\ Permutation(sorted_bone_indices, Len(BonesMade)) /\ Typed(BonesMade) /\ Nested(BonesMade)
<1> DEFINE n == Len(list)
<1>1. source \in Sources /\ n \in Nat /\ solid \in [1 .. n -> BOOLEAN]
      /\ stage \notin {"prepare", "walk", "refused"} /\ source # None
  BY BakedHolds
<1>2. Accepted /\ Ended /\ n = BoneCount /\ WalkInv
  BY <1>1 DEF HierarchyInv
<1>3. Permutation(sorted_bone_indices, n) /\ Typed(list) /\ Nested(list)
  BY <1>1, <1>2, WalkedIsPreorder DEF Accepted
<1>4. sorted_bone_indices \in Seq(Bones) /\ Bones \subseteq Nat
  BY <1>1, <1>2 DEF WalkInv, ListOK, Bones
<1>5. sorted_bone_indices \in Seq(Nat)
  BY <1>4, WiderSeq
<1> HIDE DEF n
<1>6. \A i \in 1 .. n : list[i].parent_index \in Nat /\ list[i].subtree_end \in Nat /\ list[i].depth \in Nat
  BY <1>3 DEF Typed, n
<1>7. BonesMade = [i \in 1 .. n |->
        [parent_index |-> list[i].parent_index, subtree_end |-> list[i].subtree_end,
         depth |-> list[i].depth, solid |-> solid[i], finite |-> TRUE]]
  BY DEF BonesMade, n
<1>8. \A i \in 1 .. n : BonesMade[i] \in BoneInFile
  BY <1>1, <1>6, <1>7 DEF BoneInFile
<1>9. BonesMade = [i \in 1 .. n |-> BonesMade[i]]
  BY <1>7
<1>10. \A i \in 1 .. n : /\ BonesMade[i].parent_index = list[i].parent_index
                         /\ BonesMade[i].subtree_end = list[i].subtree_end
                         /\ BonesMade[i].depth = list[i].depth /\ BonesMade[i].finite
  BY <1>7
<1>11. BonesMade \in Seq(BoneInFile) /\ Len(BonesMade) = n /\ DOMAIN BonesMade = 1 .. n
  <2>1. BonesMade \in [1 .. n -> BoneInFile]
    BY <1>8, <1>9
  <2> QED
    BY <1>1, <2>1
<1>12. \A b \in Range(BonesMade) : b.finite
  BY <1>10, <1>11 DEF Range
<1>13. Typed(BonesMade)
  BY <1>1, <1>6, <1>10, <1>11 DEF Typed
<1>14. Nested(BonesMade)
  <2> SUFFICES ASSUME NEW i \in 1 .. n PROVE BoneFits(BonesMade, i) /\ SubtreeFits(BonesMade, i)
    BY <1>11 DEF Nested
  <2>1. BoneFits(list, i) /\ SubtreeFits(list, i)
    BY <1>3 DEF Nested, n
  <2>2. list[i].parent_index \in Nat /\ list[i].parent_index < i
    BY <1>6, <2>1 DEF BoneFits
  <2>3. list[i].parent_index # 0 => list[i].parent_index \in 1 .. n
    BY <1>1, <2>2
  <2>4. BoneFits(BonesMade, i)
    <3>1. BonesMade[i].depth =
            IF BonesMade[i].parent_index = 0 THEN 0 ELSE BonesMade[BonesMade[i].parent_index].depth + 1
      BY <1>10, <2>1, <2>3 DEF BoneFits
    <3> QED
      BY <1>10, <1>11, <2>1, <3>1 DEF BoneFits, n
  <2>5. SubtreeFits(BonesMade, i)
    <3> SUFFICES ASSUME NEW j \in i + 1 .. n
                 PROVE  IF j <= BonesMade[i].subtree_end THEN i <= BonesMade[j].parent_index
                        ELSE BonesMade[j].parent_index \notin i .. BonesMade[i].subtree_end
      BY <1>11 DEF SubtreeFits
    <3>1. j \in 1 .. n
      BY <1>1
    <3>2. IF j <= list[i].subtree_end THEN i <= list[j].parent_index
          ELSE list[j].parent_index \notin i .. list[i].subtree_end
      BY <2>1 DEF SubtreeFits, n
    <3> QED
      BY <1>10, <3>1, <3>2
  <2> QED
    BY <2>4, <2>5
<1> QED
  BY <1>3, <1>5, <1>11, <1>12, <1>13, <1>14 DEF n

LEMMA BakeIsInFile ==
  ASSUME HierarchyInv, BakeInv, baked # None, NEW f, f = FileOf(baked)
  PROVE  FileHasBake(f) /\ FileTyped(f)
<1> DEFINE n == Len(list)
<1>1. /\ n \in Nat /\ IsIndices(cube_indices, n) /\ IsSlots(KindMajor(n), n)
      /\ baked = ModelMade /\ baked.groups = groups /\ baked.width = width
      /\ baked.sorted = sorted_bone_indices /\ baked.list = BonesMade
      /\ \A k \in Kinds : KindFits(groups[k], cube_indices[k], n, width)
  BY BakedHolds
<1>2. BonesMade \in Seq(BoneInFile) /\ Len(BonesMade) = n /\ sorted_bone_indices \in Seq(Nat)
  BY BonesMadeFacts
<1>3. baked = Model(width, BonesMade, sorted_bone_indices, groups, cube_indices, KindMajor(n), KindMajor(n))
  BY <1>1 DEF ModelMade
<1> DEFINE slots == KindMajor(n)
<1> HIDE DEF n, slots
<1>4. ModelHolds(baked, n, groups, cube_indices)
  <2>1. IsSlots(slots, n)
    BY <1>1 DEF slots
  <2>2. baked = Model(width, BonesMade, sorted_bone_indices, groups, cube_indices, slots, slots)
    BY <1>3 DEF slots
  <2> QED
    BY <1>1, <2>1, <2>2, HeldOfModel
<1>5. /\ f.width = width /\ f.groups = groups /\ f.sorted = sorted_bone_indices /\ f.list = BonesMade
      /\ f.end = "exact" /\ Len(f.list) = n
      /\ f.index_count = IndexCount(n, [s \in DOMAIN baked.spans |-> baked.spans[s].size])
      /\ f.indices = [k \in Kinds |-> [i \in 1 .. n |-> Held(baked, baked.cube_indices_cache, <<k, i>>)]]
  BY <1>1, <1>2 DEF FileOf
<1>6. f.indices = cube_indices
  <2>1. ASSUME NEW k \in Kinds, NEW i \in 1 .. n
        PROVE  Held(baked, baked.cube_indices_cache, <<k, i>>) = cube_indices[k][i]
    BY <1>4 DEF ModelHolds
  <2>2. cube_indices = [k \in Kinds |-> cube_indices[k]]
    BY <1>1 DEF IsIndices
  <2>3. ASSUME NEW k \in Kinds
        PROVE  cube_indices[k] = [i \in 1 .. n |-> Held(baked, baked.cube_indices_cache, <<k, i>>)]
    <3>1. cube_indices[k] \in [1 .. n -> Seq(Nat)]
      BY <1>1 DEF IsIndices
    <3>2. cube_indices[k] = [i \in 1 .. n |-> cube_indices[k][i]]
      BY <3>1
    <3> QED
      BY <2>1, <3>2
  <2> QED
    BY <1>5, <2>2, <2>3
<1>7. Sizes(cube_indices) = [s \in DOMAIN baked.spans |-> baked.spans[s].size]
  <2> DEFINE All == Kinds \X (1 .. n)
  <2>1. DOMAIN baked.spans = All
    BY <1>4 DEF ModelHolds
  <2>2. \A s \in All : baked.spans[s].size = Len(cube_indices[s[1]][s[2]])
    BY <1>4 DEF ModelHolds
  <2>3. \A k \in Kinds : DOMAIN cube_indices[k] = 1 .. n
    BY <1>1 DEF IsIndices
  <2>4. UNION {{k} \X DOMAIN cube_indices[k] : k \in Kinds} = All
    <3>1. UNION {{k} \X DOMAIN cube_indices[k] : k \in Kinds} = UNION {{k} \X (1 .. n) : k \in Kinds}
      BY <2>3
    <3> DEFINE D == 1 .. n
    <3> HIDE DEF D
    <3>2. UNION {{k} \X D : k \in Kinds} = Kinds \X D
      OBVIOUS
    <3> QED
      BY <3>1, <3>2 DEF D
  <2>5. Sizes(cube_indices) = [s \in All |-> Len(cube_indices[s[1]][s[2]])]
    BY <2>4 DEF Sizes
  <2> HIDE DEF All
  <2> QED
    BY <2>1, <2>2, <2>5
<1>8. f.index_count = IndexCount(Len(f.list), Sizes(f.indices))
  BY <1>5, <1>6, <1>7
<1>9. FileHasBake(f)
  BY <1>5, <1>6, <1>8 DEF FileHasBake, n
<1>10. FileTyped(f)
  <2>1. \A k \in Kinds : KindTyped(groups[k], cube_indices[k], n)
    BY <1>1 DEF KindFits
  <2> QED
    BY <1>2, <1>5, <1>6, <2>1 DEF FileTyped
<1> QED
  BY <1>9, <1>10

LEMMA ListsBoneOwns ==
  ASSUME NEW gs, NEW ixs \in Seq(Nat), NEW i, ListsBone(gs, ixs, i)
  PROVE  /\ \A g \in Range(ixs) : g \in 1 .. Len(gs) /\ gs[g].bone_index = i
         /\ \A a, b \in 1 .. Len(ixs) : a < b => ixs[a] < ixs[b]
<1>1. DOMAIN ixs = 1 .. Len(ixs)
  OBVIOUS
<1> QED
  BY <1>1 DEF ListsBone, Range

\* A file that was baked is refused for its width alone.
LEMMA BakeIsWellFormed ==
  ASSUME HierarchyInv, BakeInv, baked # None, NEW f, FileHasBake(f), FileTyped(f)
  PROVE  WellFormed(f) <=> reader = width
<1> DEFINE n == Len(list)
<1>1. n \in Nat /\ \A k \in Kinds : KindFits(groups[k], cube_indices[k], n, width)
  BY BakedHolds
<1>2. /\ f.width = width /\ f.groups = groups /\ f.sorted = sorted_bone_indices /\ f.list = BonesMade
      /\ f.indices = cube_indices /\ f.end = "exact" /\ Len(f.list) = n
      /\ f.index_count = IndexCount(Len(f.list), Sizes(f.indices))
  BY DEF FileHasBake
<1>3. /\ Permutation(f.sorted, Len(f.list)) /\ Preorder(f.list)
      /\ \A b \in Range(f.list) : b.finite
  <2>1. Permutation(sorted_bone_indices, Len(BonesMade)) /\ Typed(BonesMade) /\ Nested(BonesMade)
        /\ \A b \in Range(BonesMade) : b.finite
    BY BonesMadeFacts
  <2> QED
    BY <1>2, <2>1, PreorderIsNested
<1>4. ListsAreOwn(f)
  <2> SUFFICES ASSUME NEW k \in Kinds, NEW i \in 1 .. n
               PROVE  LET held == cube_indices[k][i]
                      IN /\ \A g \in Range(held) : g \in 1 .. Len(groups[k]) /\ groups[k][g].bone_index = i
                         /\ \A a, b \in 1 .. Len(held) : a < b => held[a] < held[b]
    BY <1>2 DEF ListsAreOwn
  <2>1. cube_indices[k][i] \in Seq(Nat) /\ ListsBone(groups[k], cube_indices[k][i], i)
    BY <1>1 DEF KindFits, KindTyped
  <2> QED
    BY <2>1, ListsBoneOwns
<1>5. ASSUME NEW k \in Kinds, NEW g \in Range(groups[k])
      PROVE  /\ g.bone_index \in 1 .. n
             /\ Len(g.cubes) \in 1 .. Capacity(width)
             /\ \A c \in Range(g.cubes) : CubeFits(c)
  <2>1. groups[k] \in Seq(GroupInFile)
    BY <1>1 DEF KindFits, KindTyped
  <2>2. PICK j \in 1 .. Len(groups[k]) : groups[k][j] = g
    BY <2>1 DEF Range
  <2>3. GroupFits(groups[k], cube_indices[k], j, n, width)
    BY <1>1 DEF KindFits
  <2>4. g.cubes \in Seq(CubeInFile)
    <3>1. g \in GroupInFile
      BY <2>1, <2>2, ElementOfSeq
    <3> QED
      BY <3>1 DEF GroupInFile
  <2>5. DOMAIN g.cubes = 1 .. Len(g.cubes)
    BY <2>4
  <2> QED
    BY <2>2, <2>3, <2>5 DEF GroupFits, Range
<1>6. GroupsAreValid(f)
  BY <1>2, <1>5 DEF GroupsAreValid, ValidGroup, CubeFits
<1>7. GroupsReadable(f, width)
  BY <1>2, <1>5 DEF GroupsReadable, CubeFits
<1>8. WellFormed(f) <=> f.width = reader /\ GroupsReadable(f, reader)
  BY <1>2, <1>3, <1>4, <1>6 DEF WellFormed, GroupsAreValid, ListsAreOwn
<1> QED
  BY <1>2, <1>7, <1>8

LEMMA ModelFields ==
  ASSUME NEW w, NEW bones, NEW sorted, NEW gs, NEW indices, NEW slots, NEW filled
  PROVE  LET m == Model(w, bones, sorted, gs, indices, slots, filled)
         IN m.list = bones /\ m.sorted = sorted /\ m.groups = gs
BY DEF Model

LEMMA ReadHoldsBake ==
  ASSUME HierarchyInv, BakeInv, baked # None, NEW f, FileHasBake(f), reader = width,
         NEW m, m = Model(reader, f.list, f.sorted, f.groups, f.indices,
                          BoneMajor(Len(f.list)), FillOrder(Len(f.list)))
  PROVE  /\ m.list = baked.list /\ m.sorted = baked.sorted /\ m.groups = baked.groups
         /\ m.totals = baked.totals
         /\ \A s \in DOMAIN baked.spans :
              /\ Held(m, m.cube_indices_cache, s) = Held(baked, baked.cube_indices_cache, s)
              /\ Held(m, m.cube_group_info_cache, s) = Held(baked, baked.cube_group_info_cache, s)
<1> DEFINE n == Len(list)
           all == Kinds \X (1 .. n)
<1>1. /\ n \in Nat /\ IsIndices(cube_indices, n) /\ IsSlots(KindMajor(n), n)
      /\ baked = ModelMade /\ baked.groups = groups
      /\ baked.sorted = sorted_bone_indices /\ baked.list = BonesMade
  BY BakedHolds
<1>2. baked = Model(width, BonesMade, sorted_bone_indices, groups, cube_indices, KindMajor(n), KindMajor(n))
  BY <1>1 DEF ModelMade
<1>3. f.list = BonesMade /\ f.sorted = sorted_bone_indices /\ f.groups = groups
      /\ f.indices = cube_indices /\ Len(f.list) = n
  BY DEF FileHasBake
<1>4. m = Model(reader, BonesMade, sorted_bone_indices, groups, cube_indices, BoneMajor(n), BoneMajor(n))
  BY <1>3 DEF FillOrder
<1>5. IsSlots(BoneMajor(n), n)
  BY <1>1, BoneMajorIsSlots
<1> DEFINE kinds == KindMajor(n)
           bones == BoneMajor(n)
<1>6. IsSlots(kinds, n) /\ IsSlots(bones, n)
      /\ baked = Model(width, BonesMade, sorted_bone_indices, groups, cube_indices, kinds, kinds)
      /\ m = Model(reader, BonesMade, sorted_bone_indices, groups, cube_indices, bones, bones)
  BY <1>1, <1>2, <1>4, <1>5
<1> HIDE DEF kinds, bones, n
<1>7. ModelHolds(baked, n, groups, cube_indices)
  BY <1>1, <1>6, HeldOfModel
<1>8. ModelHolds(m, n, groups, cube_indices)
  BY <1>1, <1>6, HeldOfModel
<1>9. m.list = BonesMade /\ m.sorted = sorted_bone_indices /\ m.groups = groups
  BY <1>6, ModelFields
<1>10. m.totals = baked.totals
  <2>1. m.totals = [s \in all |-> m.totals[s]] /\ baked.totals = [s \in all |-> baked.totals[s]]
    BY <1>7, <1>8 DEF ModelHolds
  <2>2. \A s \in all : m.totals[s] = baked.totals[s]
    BY <1>7, <1>8 DEF ModelHolds
  <2> HIDE DEF all
  <2> QED
    BY <2>1, <2>2
<1>11. DOMAIN baked.spans = all
  BY <1>7 DEF ModelHolds
<1>12. \A s \in all :
         /\ Held(m, m.cube_indices_cache, s) = Held(baked, baked.cube_indices_cache, s)
         /\ Held(m, m.cube_group_info_cache, s) = Held(baked, baked.cube_group_info_cache, s)
  BY <1>7, <1>8 DEF ModelHolds
<1> QED
  BY <1>1, <1>9, <1>10, <1>11, <1>12

\* A cache file is accepted exactly when it is well formed, whatever file is
\* found; a bake is read back as it was by a machine of its own width and by no
\* other, however differently the two lay their caches out.
THEOREM CacheIsExact == Spec => []CacheReadIsExact
<1>1. ASSUME HierarchyInv, BakeInv
      PROVE  CacheReadIsExact
  <2> SUFFICES ASSUME stage \in {"loaded", "corrupt"}
               PROVE  /\ stage = "loaded" <=> WellFormed(file)
                      /\ baked # None => CacheReadsBack
    BY DEF CacheReadIsExact
  <2>1. /\ IF baked = None THEN file \in Files ELSE file = FileOf(baked)
        /\ loaded = ReadOf(file, reader)
        /\ stage = IF loaded = None THEN "corrupt" ELSE "loaded"
    BY <1>1 DEF BakeInv
  <2>2. FileTyped(file)
    <3>1. CASE baked = None
      BY <2>1, <3>1, FilesAssumption DEF FileTyped, KindTyped
    <3>2. CASE baked # None
      BY <1>1, <2>1, <3>2, BakeIsInFile
    <3> QED
      BY <3>1, <3>2
  <2>3. Accepts(file, reader) <=> WellFormed(file)
    BY <2>2, AcceptsIsWellFormed
  <2>4. stage = "loaded" <=> Accepts(file, reader)
    BY <2>1, ModelIsSomething DEF ReadOf
  <2>5. ASSUME baked # None PROVE CacheReadsBack
    <3>1. FileHasBake(file) /\ FileTyped(file)
      BY <1>1, <2>1, <2>5, BakeIsInFile
    <3>2. WellFormed(file) <=> reader = width
      BY <1>1, <2>5, <3>1, BakeIsWellFormed
    <3>3. stage = "loaded" <=> reader = width
      BY <2>3, <2>4, <3>2
    <3>4. ASSUME stage = "loaded"
          PROVE  loaded = Model(reader, file.list, file.sorted, file.groups, file.indices,
                                BoneMajor(Len(file.list)), FillOrder(Len(file.list)))
      BY <2>1, <2>4, <3>4 DEF ReadOf
    <3> QED
      BY <1>1, <2>5, <3>1, <3>3, <3>4, ReadHoldsBake DEF CacheReadsBack
  <2> QED
    BY <2>3, <2>4, <2>5
<1> QED
  BY <1>1, AlwaysBake, PTL

\* What the proofs about ModelState assume of a baked model's bones.
TraversedByDepth ==
  /\ baked # None => ByDepth(baked.list)
  /\ stage = "loaded" => ByDepth(loaded.list)

\* Whatever is baked, and whatever is read from any file, is what ModelState
\* expects to traverse: a bone's subtree is the run of deeper bones behind it,
\* up to its subtree_end, and no bone is more than one level below the one
\* before it.
THEOREM ModelsAreTraversable == Spec => []TraversedByDepth
<1>1. ASSUME HierarchyInv, BakeInv
      PROVE  TraversedByDepth
  <2>1. ASSUME baked # None PROVE ByDepth(baked.list)
    <3>1. baked.list = BonesMade
      BY <1>1, <2>1, BakedHolds
    <3>2. Typed(BonesMade) /\ Nested(BonesMade)
      BY <1>1, <2>1, BonesMadeFacts
    <3> QED
      BY <3>1, <3>2, NestedByDepth
  <2>2. ASSUME stage = "loaded" PROVE ByDepth(loaded.list)
    <3>1. /\ IF baked = None THEN file \in Files ELSE file = FileOf(baked)
          /\ loaded = ReadOf(file, reader) /\ loaded # None
      BY <1>1, <2>2 DEF BakeInv
    <3>2. FileTyped(file)
      <4>1. CASE baked = None
        BY <3>1, <4>1, FilesAssumption DEF FileTyped, KindTyped
      <4>2. CASE baked # None
        BY <1>1, <3>1, <4>2, BakeIsInFile
      <4> QED
        BY <4>1, <4>2
    <3>3. /\ Accepts(file, reader)
          /\ loaded = Model(reader, file.list, file.sorted, file.groups, file.indices,
                            BoneMajor(Len(file.list)), FillOrder(Len(file.list)))
      BY <3>1 DEF ReadOf
    <3>4. loaded.list = file.list
      BY <3>3, ModelFields
    <3>5. Preorder(file.list) /\ file.list \in Seq(BoneInFile)
      BY <3>2, <3>3, HierarchyCheckIsExact DEF Accepts, FileTyped
    <3>6. Typed(file.list)
      <4>1. \A i \in 1 .. Len(file.list) : file.list[i] \in BoneInFile
        BY <3>5, ElementOfSeq
      <4>2. Len(file.list) \in Nat
        BY <3>5
      <4> QED
        BY <4>1, <4>2 DEF Typed, BoneInFile
    <3> QED
      BY <3>4, <3>5, <3>6, PreorderIsNested, NestedByDepth
  <2> QED
    BY <2>1, <2>2 DEF TraversedByDepth
<1> QED
  BY <1>1, AlwaysBake, PTL
=============================================================================
