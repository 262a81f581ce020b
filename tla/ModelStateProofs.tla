-------------------------- MODULE ModelStateProofs --------------------------
(***************************************************************************)
(* For every set of models, attributes and counts: a valid ModelState has  *)
(* a fresh schedule and is valid exactly when Java was told of a success;  *)
(* and what an extraction lists, locates and poses, and what nRender draws *)
(* of it, is the model as its attributes show it.                          *)
(*                                                                         *)
(* ScheduleIsFresh is not inductive.  While a traversal overwrites the     *)
(* list, the schedule it may reuse is the one of the list as long as no    *)
(* difference was seen: a bone written over an equal one changes nothing,  *)
(* and any other write clears `unchanged'.  That the list is only cut to   *)
(* its old length rests on its length not having changed either.           *)
(*                                                                         *)
(* DrawsTheModel follows the one loop of the traversal.  The bones below   *)
(* the next one, visited or skipped, are those that are listed (SeenUpTo); *)
(* a bone the loop jumps over is under a closed one, and the bone it goes  *)
(* on to is reached (NextBone).  The stack of poses holds one pose for     *)
(* each ancestor of the next bone, at the ancestor's level (StackFits),    *)
(* whatever is above it from other branches or from calls that broke off:  *)
(* a bone of a preorder has a parent exactly one level up (Parent), so     *)
(* cutting the stack to the bone's level leaves its parent's pose on top.  *)
(***************************************************************************)
EXTENDS ModelState, TaskRangeProofs, SequenceTheorems, TLAPS

Running   == {"checks", "visit", "schedule"}
Published == {"publish_locators", "publish_output"}

\* Types the argument needs.
ListOK ==
  /\ at \in {"idle"} \cup Running \cup Published
  /\ render_bone_indices_ \in Seq(Nat)
  /\ {bone_index, bone_index_count} \subseteq Nat
  /\ at = "visit" => /\ bone_index_count <= Len(render_bone_indices_)
                     /\ unchanged => Len(render_bone_indices_) = previous_bone_index_count
  /\ at = "visit" /\ kLocal => root < BoneCount(model)
  /\ at # "idle" => model \in Models /\ baked_model_ = model /\ root \in Nat

ScheduleOK ==
  /\ schedule_valid_ => schedule_ = Built(baked_model_, render_bone_indices_)
  /\ at \in Running => ~schedule_valid_ /\ ~valid_
  /\ at \in Published => schedule_valid_ /\ valid_
  /\ valid_ => schedule_valid_
  /\ at = "checks" /\ reusable => schedule_ = Built(model, render_bone_indices_)
  /\ at \in {"visit", "schedule"} /\ reusable /\ unchanged =>
       schedule_ = Built(model, render_bone_indices_)

IInv == ListOK /\ ScheduleOK /\ ValidWhenPublished

-----------------------------------------------------------------------------

LEMMA SubtreeEnds ==
  ASSUME NEW m \in Models, NEW i \in 1 .. BoneCount(m)
  PROVE  Bones[m][i].subtree_end \in i .. BoneCount(m)
BY PreorderAssumption

LEMMA BoneCounts ==
  ASSUME NEW m \in Models
  PROVE  BoneCount(m) \in Nat
BY BonesAssumption DEF BoneCount

\* The traversal stays within the bones of the model.
LEMMA InBounds ==
  ASSUME ListOK, Visiting
  PROVE  bone_index + 1 \in 1 .. BoneCount(model)
<1>1. model \in Models /\ root \in Nat /\ bone_index \in Nat
  BY DEF ListOK, Visiting
<1>2. BoneCount(model) \in Nat
  BY <1>1, BoneCounts
<1>3. CASE kLocal
  <2>1. root + 1 \in 1 .. BoneCount(model)
    BY <1>1, <1>2, <1>3 DEF ListOK, Visiting
  <2>2. Bones[model][root + 1].subtree_end \in root + 1 .. BoneCount(model)
    BY <1>1, <2>1, SubtreeEnds
  <2> QED
    BY <1>1, <1>2, <1>3, <2>2 DEF Visiting, End
<1>4. CASE ~kLocal
  BY <1>1, <1>2, <1>4 DEF Visiting, End
<1> QED
  BY <1>3, <1>4

LEMMA AfterPrunedNat ==
  ASSUME ListOK, Visiting
  PROVE  TheBone.subtree_end \in Nat
<1>1. model \in Models
  BY DEF ListOK, Visiting
<1>2. BoneCount(model) \in Nat
  BY <1>1, BoneCounts
<1>3. TheBone.subtree_end \in bone_index + 1 .. BoneCount(model)
  BY <1>1, InBounds, SubtreeEnds DEF TheBone
<1> QED
  BY <1>2, <1>3 DEF ListOK

LEMMA InitIInv == Init => IInv
BY DEF Init, IInv, ListOK, ScheduleOK, ValidWhenPublished, Running, Published

\* Overwriting an element of the list with itself changes nothing.
LEMMA OverwriteSame ==
  ASSUME NEW s \in Seq(Nat), NEW k \in 1 .. Len(s)
  PROVE  [s EXCEPT ![k] = s[k]] = s
OBVIOUS

LEMMA CutWhole ==
  ASSUME NEW s \in Seq(Nat)
  PROVE  SubSeq(s, 1, Len(s)) = s
OBVIOUS

\* A call that ends: only the flags and the schedule are left to check.
LEMMA FailKeeps ==
  ASSUME IInv, NEW stack, Fail(stack), UNCHANGED <<baked_model_, render_bone_indices_, schedule_valid_>>,
         UNCHANGED schedule_ \/ ~schedule_valid_
  PROVE  IInv'
BY DEF IInv, ListOK, ScheduleOK, ValidWhenPublished, Fail, Return, Running, Published

LEMMA ExtractKeeps ==
  ASSUME IInv, NEW m \in Models, NEW a \in Attributes[m], NEW local \in BOOLEAN, NEW r \in Int,
         r >= 0, Extract(m, a, local, r)
  PROVE  IInv'
<1>1. ListOK'
  BY DEF IInv, ListOK, Extract, Running, Published
<1>2. reusable' => schedule_valid_ /\ baked_model_ = m
  <2>1. reusable' = (schedule_valid_ /\ baked_model_ = m)
    BY DEF Extract
  <2>2. CASE ~(schedule_valid_ /\ baked_model_ = m)
    <3>1. reusable' = FALSE
      BY <2>1, <2>2
    <3> QED
      BY <3>1
  <2> QED
    BY <2>2
<1>3. reusable' => schedule_' = Built(m, render_bone_indices_)
  BY <1>2 DEF IInv, ScheduleOK, Extract
<1>4. ScheduleOK'
  BY <1>3 DEF ScheduleOK, Extract, DroppedSchedule, Running, Published
<1>5. ValidWhenPublished'
  BY DEF ValidWhenPublished, Extract
<1> QED
  BY <1>1, <1>4, <1>5 DEF IInv

LEMMA StepIInv == IInv /\ [Next]_vars => IInv'
<1> SUFFICES ASSUME IInv, [Next]_vars PROVE IInv'
  OBVIOUS
<1> USE DEF IInv, ListOK, ScheduleOK, ValidWhenPublished, Running, Published
<1>1. CASE \E m \in Models : \E a \in Attributes[m] :
             \/ Extract(m, a, FALSE, 0)
             \/ \E r \in 0 .. BoneCount(m) : Extract(m, a, TRUE, r)
  <2>0. PICK m \in Models : \E a \in Attributes[m] :
             \/ Extract(m, a, FALSE, 0)
             \/ \E r \in 0 .. BoneCount(m) : Extract(m, a, TRUE, r)
    BY <1>1
  <2>1. PICK a \in Attributes[m] :
             \/ Extract(m, a, FALSE, 0)
             \/ \E r \in 0 .. BoneCount(m) : Extract(m, a, TRUE, r)
    BY <2>0
  <2>2. CASE Extract(m, a, FALSE, 0)
    <3>1. 0 \in Int /\ 0 >= 0
      OBVIOUS
    <3> QED
      BY <2>2, <3>1, ExtractKeeps, Zenon
  <2>3. CASE \E r \in 0 .. BoneCount(m) : Extract(m, a, TRUE, r)
    <3>1. PICK r \in 0 .. BoneCount(m) : Extract(m, a, TRUE, r)
      BY <2>3
    <3>2. r \in Int /\ r >= 0
      BY BoneCounts
    <3> QED
      BY <3>1, <3>2, ExtractKeeps
  <2> QED
    BY <2>1, <2>2, <2>3
<1>2. CASE RejectArguments
  BY <1>2 DEF RejectArguments, Return
<1>3. CASE nInvalidate
  BY <1>3 DEF nInvalidate, Return
<1>4. CASE \E count \in Counts : nRender(count)
  BY <1>4 DEF nRender, state, args, locals
<1>5. CASE RejectBuffers
  BY <1>5, FailKeeps DEF RejectBuffers
<1>6. CASE RejectRoot
  BY <1>6, FailKeeps DEF RejectRoot
<1>7. CASE StartTraversal
  BY <1>7 DEF StartTraversal, args, java
<1>8. CASE VisitInvalid
  <2>1. Fail(Parented) /\ UNCHANGED <<baked_model_, render_bone_indices_, schedule_, schedule_valid_>>
    BY <1>8 DEF VisitInvalid
  <2> QED
    BY <2>1, FailKeeps
<1>9. CASE VisitPruned
  <2>1. TheBone.subtree_end \in Nat
    BY <1>9, AfterPrunedNat DEF VisitPruned
  <2> QED
    BY <1>9, <2>1 DEF VisitPruned, AfterPruned, Visiting, state, args, java
<1>10. CASE VisitVisible
  <2>1. TheBone.subtree_end \in Nat
    BY <1>10, AfterPrunedNat DEF VisitVisible
  <2>2. bone_index' \in Nat
    BY <1>10, <2>1 DEF VisitVisible, AfterHidden
  <2>3. CASE ~(~Attribute.cubes_hidden /\ TheBone.geometry)
    BY <1>10, <2>2, <2>3 DEF VisitVisible, Visiting, args
  <2>4. CASE /\ ~Attribute.cubes_hidden /\ TheBone.geometry
             /\ bone_index_count = Len(render_bone_indices_)
    <3>1. /\ render_bone_indices_' = Append(render_bone_indices_, bone_index)
          /\ bone_index_count' = bone_index_count + 1
          /\ unchanged' = FALSE
      BY <1>10, <2>4 DEF VisitVisible
    <3>2. /\ UNCHANGED <<at, args, baked_model_, schedule_, schedule_valid_, valid_, status>>
          /\ at = "visit" /\ bone_index \in Nat
      BY <1>10 DEF VisitVisible, Visiting, java
    <3>3. /\ render_bone_indices_' \in Seq(Nat)
          /\ bone_index_count' <= Len(render_bone_indices_')
          /\ bone_index_count' \in Nat
      BY <2>4, <3>1, <3>2
    <3>4. ListOK' /\ ValidWhenPublished'
      BY <2>2, <3>1, <3>2, <3>3 DEF args
    <3>5. ScheduleOK'
      BY <3>1, <3>2 DEF args
    <3> QED
      BY <3>4, <3>5
  <2>5. CASE /\ ~Attribute.cubes_hidden /\ TheBone.geometry
             /\ bone_index_count # Len(render_bone_indices_)
    <3>1. bone_index_count + 1 \in 1 .. Len(render_bone_indices_)
      BY <1>10, <2>5 DEF VisitVisible, Visiting
    <3>2. unchanged' => unchanged /\ UNCHANGED render_bone_indices_
      BY <1>10, <2>5, <3>1, OverwriteSame DEF VisitVisible
    <3>3. /\ render_bone_indices_' = [render_bone_indices_ EXCEPT ![bone_index_count + 1] = bone_index]
          /\ bone_index \in Nat
      BY <1>10, <2>5 DEF VisitVisible
    <3>4. /\ render_bone_indices_' \in Seq(Nat)
          /\ Len(render_bone_indices_') = Len(render_bone_indices_)
      BY <3>1, <3>3
    <3> QED
      BY <1>10, <2>2, <2>5, <3>1, <3>2, <3>4 DEF VisitVisible, Visiting, args
  <2> QED
    BY <2>3, <2>4, <2>5
<1>11. CASE FinishTraversal
  <2>1. unchanged' => unchanged /\ bone_index_count = Len(render_bone_indices_)
    BY <1>11 DEF FinishTraversal, SameCount
  <2>2. unchanged' => unchanged /\ UNCHANGED render_bone_indices_
    BY <1>11, <2>1, CutWhole DEF FinishTraversal
  <2>3. render_bone_indices_' \in Seq(Nat)
    BY <1>11 DEF FinishTraversal
  <2>4. ListOK'
    BY <1>11, <2>3 DEF FinishTraversal, args
  <2>5. ScheduleOK'
    BY <1>11, <2>2 DEF FinishTraversal, args
  <2>6. ValidWhenPublished'
    BY <1>11 DEF FinishTraversal
  <2> QED
    BY <2>4, <2>5, <2>6
<1>12. CASE ReuseSchedule
  BY <1>12 DEF ReuseSchedule, UpdateSchedule, Extracted, args, java, locals
<1>13. CASE RebuildSchedule
  BY <1>13 DEF RebuildSchedule, Extracted, args, java, locals
<1>14. CASE ScheduleFails
  BY <1>14, FailKeeps DEF ScheduleFails
<1>15. CASE PublishLocators
  BY <1>15 DEF PublishLocators, state, args, locals
<1>16. CASE PublishOutput
  BY <1>16 DEF PublishOutput, Return, args
<1>17. CASE PublishFails
  BY <1>17 DEF PublishFails, Return, GuardRuns
<1>18. CASE UNCHANGED vars
  BY <1>18 DEF vars, state, args, locals, java
<1> QED
  BY <1>1, <1>2, <1>3, <1>4, <1>5, <1>6, <1>7, <1>8, <1>9, <1>10, <1>11, <1>12, <1>13, <1>14,
     <1>15, <1>16, <1>17, <1>18 DEF Next, Run

LEMMA Invariance == Spec => []IInv
BY InitIInv, StepIInv, PTL DEF Spec

\* Whatever failed before, a valid state's schedule is the schedule of its
\* model and its list of bones.
THEOREM FreshSchedule == Spec => []ScheduleIsFresh
<1>1. IInv => ScheduleIsFresh
  BY DEF IInv, ScheduleOK, ScheduleIsFresh
<1> QED
  BY <1>1, Invariance, PTL

\* Between calls a state is valid exactly when the last call was an
\* extraction that told Java of its success.
THEOREM ValidityPublished == Spec => []ValidWhenPublished
<1>1. IInv => ValidWhenPublished
  BY DEF IInv
<1> QED
  BY <1>1, Invariance, PTL

-----------------------------------------------------------------------------
(* Lists of the members of a set of naturals.                              *)

IsListing(g, S, n) ==
  g = [i \in 0 .. n |-> IF i = 0 THEN <<>>
                        ELSE IF i - 1 \in S THEN Append(g[i - 1], i - 1) ELSE g[i - 1]]

\* The sets S and T have the same members below n.
SameBelow(S, T, n) == \A i \in Nat : i < n => (i \in S <=> i \in T)

\* The recursive function of Listed exists.
LEMMA ListingExists ==
  ASSUME NEW S
  PROVE  \A n \in Nat : \E g : IsListing(g, S, n)
<1> DEFINE D == {n \in Nat : \E g : IsListing(g, S, n)}
<1>1. 0 \in D
  <2> DEFINE g == [i \in 0 .. 0 |-> <<>>]
  <2>1. IsListing(g, S, 0)
    BY DEF IsListing
  <2> QED
    BY <2>1
<1>2. ASSUME NEW n \in Nat, n \in D
      PROVE  n + 1 \in D
  <2>1. PICK g : IsListing(g, S, n)
    BY <1>2
  <2> DEFINE Next1(f, i) == IF i = 0 THEN <<>>
                           ELSE IF i - 1 \in S THEN Append(f[i - 1], i - 1) ELSE f[i - 1]
             h == [i \in 0 .. n + 1 |-> Next1(g, i)]
  <2>2. \A i \in 0 .. n : h[i] = g[i]
    <3>1. g = [i \in 0 .. n |-> Next1(g, i)]
      BY <2>1 DEF IsListing
    <3> HIDE DEF Next1
    <3> QED
      BY <3>1
  <2>3. ASSUME NEW i \in 0 .. n + 1
        PROVE  Next1(g, i) = Next1(h, i)
    <3>1. CASE i = 0
      BY <3>1
    <3>2. CASE i # 0
      <4>1. i - 1 \in 0 .. n
        BY <3>2
      <4>2. h[i - 1] = g[i - 1]
        BY <2>2, <4>1
      <4> HIDE DEF h
      <4> QED
        BY <3>2, <4>2
    <3> QED
      BY <3>1, <3>2
  <2>4. h = [i \in 0 .. n + 1 |-> Next1(h, i)]
    BY <2>3
  <2>5. IsListing(h, S, n + 1)
    BY <2>4 DEF IsListing
  <2> QED
    BY <2>5
<1> HIDE DEF D
<1>3. Nat \subseteq D
  BY <1>1, <1>2, SetInduction
<1> QED
  BY <1>3 DEF D

\* Its values, one by one.
LEMMA ListingAt ==
  ASSUME NEW S, NEW n \in Nat, NEW g, IsListing(g, S, n)
  PROVE  /\ g[0] = <<>>
         /\ \A i \in Nat : i + 1 <= n =>
              g[i + 1] = IF i \in S THEN Append(g[i], i) ELSE g[i]
<1> DEFINE At(i) == IF i = 0 THEN <<>>
                    ELSE IF i - 1 \in S THEN Append(g[i - 1], i - 1) ELSE g[i - 1]
<1>1. g = [i \in 0 .. n |-> At(i)]
  BY DEF IsListing
<1> HIDE DEF At
<1>2. \A i \in 0 .. n : g[i] = At(i)
  BY <1>1
<1>3. g[0] = <<>>
  BY <1>2 DEF At
<1>4. ASSUME NEW i \in Nat, i + 1 <= n
      PROVE  g[i + 1] = IF i \in S THEN Append(g[i], i) ELSE g[i]
  <2>1. i + 1 \in 0 .. n /\ (i + 1) - 1 = i /\ i + 1 # 0
    BY <1>4
  <2>2. g[i + 1] = At(i + 1)
    BY <1>2, <2>1
  <2> QED
    BY <2>1, <2>2 DEF At
<1> QED
  BY <1>3, <1>4

\* Two lists of sets that agree do, as far as both go.
LEMMA ListingsAgree ==
  ASSUME NEW S, NEW T, NEW a \in Nat, NEW b \in Nat, a <= b,
         NEW g, NEW h, IsListing(g, S, a), IsListing(h, T, b), SameBelow(S, T, a)
  PROVE  \A n \in 0 .. a : g[n] = h[n]
<1> DEFINE D == {n \in Nat : n <= a => g[n] = h[n]}
<1>1. 0 \in D
  BY DEF IsListing
<1>2. ASSUME NEW n \in Nat, n \in D
      PROVE  n + 1 \in D
  <2>1. n + 1 <= a => g[n + 1] = IF n \in S THEN Append(g[n], n) ELSE g[n]
    BY ListingAt
  <2>2. n + 1 <= a => h[n + 1] = IF n \in T THEN Append(h[n], n) ELSE h[n]
    <3>1. n + 1 <= a => n + 1 <= b
      OBVIOUS
    <3> QED
      BY <3>1, ListingAt
  <2>3. n + 1 <= a => (n \in S <=> n \in T)
    BY DEF SameBelow
  <2> QED
    BY <1>2, <2>1, <2>2, <2>3
<1> HIDE DEF D
<1>3. Nat \subseteq D
  BY <1>1, <1>2, SetInduction
<1> QED
  BY <1>3 DEF D

\* Listed computes it.
LEMMA ListedIsListing ==
  ASSUME NEW S, NEW n \in Nat
  PROVE  \E g : IsListing(g, S, n) /\ Listed(S, n) = g[n]
<1> DEFINE g == CHOOSE g : IsListing(g, S, n)
<1>1. IsListing(g, S, n)
  BY ListingExists
<1>2. Listed(S, n) = g[n]
  BY DEF Listed, IsListing
<1> QED
  BY <1>1, <1>2

\* The list of nothing, and of one number more.
LEMMA ListedStep ==
  ASSUME NEW S, NEW n \in Nat
  PROVE  /\ Listed(S, 0) = <<>>
         /\ Listed(S, n + 1) = IF n \in S THEN Append(Listed(S, n), n) ELSE Listed(S, n)
<1>1. PICK g : IsListing(g, S, 0) /\ Listed(S, 0) = g[0]
  BY ListedIsListing
<1>2. PICK h : IsListing(h, S, n) /\ Listed(S, n) = h[n]
  BY ListedIsListing
<1>3. PICK e : IsListing(e, S, n + 1) /\ Listed(S, n + 1) = e[n + 1]
  <2>1. n + 1 \in Nat
    OBVIOUS
  <2> QED
    BY <2>1, ListedIsListing
<1>4. h[n] = e[n]
  <2>1. SameBelow(S, S, n)
    BY DEF SameBelow
  <2> QED
    BY <1>2, <1>3, <2>1, ListingsAgree
<1>5. e[n + 1] = IF n \in S THEN Append(e[n], n) ELSE e[n]
  <2>1. n + 1 \in Nat
    OBVIOUS
  <2> QED
    BY <1>3, <2>1, ListingAt
<1>6. g[0] = <<>>
  BY <1>1 DEF IsListing
<1> QED
  BY <1>1, <1>2, <1>3, <1>4, <1>5, <1>6

\* A list has no more elements than there are numbers below its bound.
LEMMA ListedFacts ==
  ASSUME NEW S
  PROVE  \A n \in Nat : Listed(S, n) \in Seq(Nat) /\ Len(Listed(S, n)) <= n
<1> DEFINE D == {n \in Nat : Listed(S, n) \in Seq(Nat) /\ Len(Listed(S, n)) <= n}
<1>1. 0 \in D
  <2>1. 0 \in Nat
    OBVIOUS
  <2>2. Listed(S, 0) = <<>>
    BY <2>1, ListedStep
  <2>3. <<>> \in Seq(Nat) /\ Len(<<>>) = 0
    BY EmptySeq
  <2>4. 0 \in Nat /\ Listed(S, 0) \in Seq(Nat) /\ Len(Listed(S, 0)) = 0
    BY <2>1, <2>2, <2>3, Zenon
  <2>5. Len(Listed(S, 0)) <= 0
    BY <2>4
  <2> QED
    BY <2>4, <2>5, Zenon
<1>2. ASSUME NEW n \in Nat, n \in D
      PROVE  n + 1 \in D
  <2> DEFINE s == Listed(S, n)
  <2>1. s \in Seq(Nat) /\ Len(s) <= n /\ Len(s) \in Nat
    BY <1>2
  <2>2. Listed(S, n + 1) = s \/ Listed(S, n + 1) = Append(s, n)
    BY ListedStep
  <2> HIDE DEF s
  <2>3. Append(s, n) \in Seq(Nat) /\ Len(Append(s, n)) = Len(s) + 1
    BY <2>1
  <2> QED
    BY <2>1, <2>2, <2>3
<1> HIDE DEF D
<1>3. Nat \subseteq D
  BY <1>1, <1>2, SetInduction
<1> QED
  BY <1>3 DEF D

\* Sets with the same members have the same list.
LEMMA ListedSame ==
  ASSUME NEW S, NEW T, NEW n \in Nat, SameBelow(S, T, n)
  PROVE  Listed(S, n) = Listed(T, n)
<1>1. PICK g : IsListing(g, S, n) /\ Listed(S, n) = g[n]
  BY ListedIsListing
<1>2. PICK h : IsListing(h, T, n) /\ Listed(T, n) = h[n]
  BY ListedIsListing
<1>3. g[n] = h[n]
  BY <1>1, <1>2, ListingsAgree
<1> QED
  BY <1>1, <1>2, <1>3

\* Numbers that are not in the set do not matter.
LEMMA ListedSkips ==
  ASSUME NEW S, NEW m \in Nat, NEW n \in Nat, m <= n, \A i \in Nat : m <= i /\ i < n => i \notin S
  PROVE  Listed(S, n) = Listed(S, m)
<1> DEFINE D == {d \in Nat : m + d <= n => Listed(S, m + d) = Listed(S, m)}
<1>1. 0 \in D
  OBVIOUS
<1>2. ASSUME NEW d \in Nat, d \in D
      PROVE  d + 1 \in D
  <2>1. m + d \in Nat /\ m + (d + 1) = (m + d) + 1
    OBVIOUS
  <2>2. m + (d + 1) <= n => m + d \notin S
    OBVIOUS
  <2>3. m + (d + 1) <= n => Listed(S, (m + d) + 1) = Listed(S, m + d)
    BY <2>1, <2>2, ListedStep
  <2> QED
    BY <1>2, <2>1, <2>3
<1> HIDE DEF D
<1>3. Nat \subseteq D
  BY <1>1, <1>2, SetInduction
<1>4. n - m \in Nat /\ m + (n - m) = n
  OBVIOUS
<1>5. n - m \in D
  BY <1>3, <1>4
<1> QED
  BY <1>4, <1>5 DEF D

-----------------------------------------------------------------------------
(* The hierarchy of the bones an extraction is asked for.                  *)

CallArgs ==
  /\ model \in Models /\ attributes \in Attributes[model]
  /\ root \in Nat /\ kLocal \in BOOLEAN
  /\ kLocal => root < BoneCount(model)

DepthOf(b) == Bones[model][b + 1].depth
EndOf(b)   == Bones[model][b + 1].subtree_end
Level(b)   == DepthOf(b) - RootDepth

\* The assumption on baked models, counting bones from 0.
LEMMA PreorderFacts ==
  ASSUME CallArgs
  PROVE  /\ BoneCount(model) \in Nat
         /\ \A b \in 0 .. BoneCount(model) - 1 :
              /\ DepthOf(b) \in Nat /\ EndOf(b) \in b + 1 .. BoneCount(model)
              /\ \A c \in b + 1 .. EndOf(b) - 1 : DepthOf(c) > DepthOf(b)
              /\ EndOf(b) < BoneCount(model) => DepthOf(EndOf(b)) <= DepthOf(b)
              /\ b = 0 => DepthOf(b) = 0
              /\ b # 0 => DepthOf(b) <= DepthOf(b - 1) + 1
<1> DEFINE n == BoneCount(model)
<1>1. model \in Models /\ n \in Nat
  BY BonesAssumption DEF CallArgs, BoneCount
<1>2. Bones[model] \in Seq(Bone) /\ Len(Bones[model]) = n
  BY <1>1, BonesAssumption DEF BoneCount
<1> HIDE DEF n
<1>3. ASSUME NEW b \in 0 .. n - 1
      PROVE  /\ DepthOf(b) \in Nat /\ EndOf(b) \in b + 1 .. n
             /\ \A c \in b + 1 .. EndOf(b) - 1 : DepthOf(c) > DepthOf(b)
             /\ EndOf(b) < n => DepthOf(EndOf(b)) <= DepthOf(b)
             /\ b = 0 => DepthOf(b) = 0
             /\ b # 0 => DepthOf(b) <= DepthOf(b - 1) + 1
  <2> DEFINE i == b + 1
  <2>1. i \in 1 .. n /\ i - 1 = b
    BY <1>1
  <2>2. Bones[model][i] \in Bone
    BY <1>2, <2>1, ElementOfSeq
  <2>3. DepthOf(b) \in Nat
    BY <2>2 DEF DepthOf, Bone
  <2>4. /\ Bones[model][i].subtree_end \in i .. n
        /\ \A j \in i + 1 .. Bones[model][i].subtree_end :
             Bones[model][j].depth > Bones[model][i].depth
        /\ Bones[model][i].subtree_end < n =>
             Bones[model][Bones[model][i].subtree_end + 1].depth <= Bones[model][i].depth
        /\ Bones[model][i].depth <= IF i = 1 THEN 0 ELSE Bones[model][i - 1].depth + 1
    BY <1>1, <2>1, PreorderAssumption DEF n
  <2>5. EndOf(b) \in b + 1 .. n
    BY <2>4 DEF EndOf
  <2>6. ASSUME NEW c \in b + 1 .. EndOf(b) - 1
        PROVE  DepthOf(c) > DepthOf(b)
    <3>1. c + 1 \in i + 1 .. Bones[model][i].subtree_end
      BY <1>1, <2>5 DEF EndOf
    <3> QED
      BY <2>4, <3>1 DEF DepthOf
  <2>7. EndOf(b) < n => DepthOf(EndOf(b)) <= DepthOf(b)
    BY <2>4 DEF EndOf, DepthOf
  <2>8. b = 0 => DepthOf(b) = 0
    BY <2>3, <2>4 DEF DepthOf
  <2>9. b # 0 => DepthOf(b) <= DepthOf(b - 1) + 1
    <3>1. b # 0 => i # 1 /\ i - 1 = (b - 1) + 1
      BY <2>1
    <3> QED
      BY <2>4, <3>1 DEF DepthOf
  <2> QED
    BY <2>3, <2>5, <2>6, <2>7, <2>8, <2>9
<1> QED
  BY <1>1, <1>3 DEF n

\* A bone within the subtree of another has its own subtree there.
LEMMA Nested ==
  ASSUME CallArgs, NEW a \in 0 .. BoneCount(model) - 1, NEW b \in a + 1 .. EndOf(a) - 1
  PROVE  b \in 0 .. BoneCount(model) - 1 /\ DepthOf(a) < DepthOf(b) /\ EndOf(b) <= EndOf(a)
<1> DEFINE n == BoneCount(model)
<1>1. /\ n \in Nat /\ EndOf(a) \in a + 1 .. n /\ DepthOf(a) \in Nat
      /\ \A c \in a + 1 .. EndOf(a) - 1 : DepthOf(c) > DepthOf(a)
      /\ EndOf(a) < n => DepthOf(EndOf(a)) <= DepthOf(a)
  BY PreorderFacts
<1>2. b \in 0 .. n - 1
  BY <1>1
<1>3. /\ EndOf(b) \in b + 1 .. n /\ DepthOf(b) \in Nat
      /\ \A c \in b + 1 .. EndOf(b) - 1 : DepthOf(c) > DepthOf(b)
  BY <1>2, PreorderFacts
<1>4. DepthOf(a) < DepthOf(b)
  BY <1>1, <1>3
<1>5. SUFFICES ASSUME EndOf(a) < EndOf(b) PROVE FALSE
  BY <1>1, <1>2, <1>3, <1>4
<1>6. EndOf(a) \in b + 1 .. EndOf(b) - 1 /\ EndOf(a) < n
  BY <1>1, <1>3, <1>5
<1>7. DepthOf(EndOf(a)) > DepthOf(b) /\ DepthOf(EndOf(a)) <= DepthOf(a)
  BY <1>1, <1>3, <1>6
<1>8. EndOf(a) \in 0 .. n - 1
  BY <1>1, <1>6
<1>9. DepthOf(EndOf(a)) \in Nat
  BY <1>8, PreorderFacts
<1> QED
  BY <1>1, <1>3, <1>4, <1>7, <1>9

\* The bones an extraction is asked for: with each bone its subtree.
LEMMA ScopeFacts ==
  ASSUME CallArgs
  PROVE  /\ Begin \in Nat /\ End \in Nat /\ Begin <= End /\ End <= BoneCount(model)
         /\ BoneCount(model) \in Nat
         /\ \A b \in Scope : /\ b \in 0 .. BoneCount(model) - 1
                             /\ Level(b) \in Nat /\ EndOf(b) \in b + 1 .. End
                             /\ DepthOf(b) \in Nat
         /\ RootDepth \in Nat
         /\ Begin < End => Level(Begin) = 0
<1> DEFINE n == BoneCount(model)
<1>1. n \in Nat
  BY PreorderFacts
<1>2. CASE kLocal
  <2>1. Begin = root /\ End = EndOf(root) /\ RootDepth = DepthOf(root) /\ root \in 0 .. n - 1
    BY <1>1, <1>2 DEF Begin, End, RootDepth, CallArgs, EndOf, DepthOf
  <2>2. /\ EndOf(root) \in root + 1 .. n /\ DepthOf(root) \in Nat
    BY <2>1, PreorderFacts
  <2>3. ASSUME NEW b \in Scope
        PROVE  /\ b \in 0 .. n - 1 /\ Level(b) \in Nat
               /\ EndOf(b) \in b + 1 .. End /\ DepthOf(b) \in Nat
    <3>1. b \in root .. EndOf(root) - 1 /\ b \in 0 .. n - 1
      BY <1>1, <2>1, <2>2 DEF Scope
    <3>2. DepthOf(b) \in Nat /\ EndOf(b) \in b + 1 .. n
      BY <3>1, PreorderFacts
    <3>3. CASE b = root
      BY <2>1, <2>2, <3>1, <3>2, <3>3 DEF Level
    <3>4. CASE b # root
      <4>1. b \in root + 1 .. EndOf(root) - 1
        BY <2>1, <2>2, <3>1, <3>4
      <4>2. DepthOf(root) < DepthOf(b) /\ EndOf(b) <= EndOf(root)
        BY <2>1, <4>1, Nested
      <4> QED
        BY <2>1, <2>2, <3>1, <3>2, <4>2 DEF Level
    <3> QED
      BY <3>3, <3>4
  <2>4. Level(Begin) = 0
    BY <2>1, <2>2 DEF Level
  <2> QED
    BY <1>1, <2>1, <2>2, <2>3, <2>4
<1>3. CASE ~kLocal
  <2>1. Begin = 0 /\ End = n /\ RootDepth = 0
    BY <1>3 DEF Begin, End, RootDepth
  <2>2. ASSUME NEW b \in Scope
        PROVE  /\ b \in 0 .. n - 1 /\ Level(b) \in Nat
               /\ EndOf(b) \in b + 1 .. End /\ DepthOf(b) \in Nat
    <3>1. b \in 0 .. n - 1
      BY <1>1, <2>1 DEF Scope
    <3>2. DepthOf(b) \in Nat /\ EndOf(b) \in b + 1 .. n
      BY <3>1, PreorderFacts
    <3> QED
      BY <2>1, <3>1, <3>2 DEF Level
  <2>3. Begin < End => Level(Begin) = 0
    <3>1. SUFFICES ASSUME 0 < n PROVE Level(0) = 0
      BY <2>1
    <3>2. 0 \in 0 .. n - 1
      BY <1>1, <3>1
    <3>3. DepthOf(0) = 0
      BY <3>2, PreorderFacts
    <3> QED
      BY <2>1, <3>3 DEF Level
  <2> QED
    BY <1>1, <2>1, <2>2, <2>3
<1> QED
  BY <1>2, <1>3

\* Who a bone is drawn under.
LEMMA AncestorFacts ==
  ASSUME CallArgs, NEW a, NEW b \in Scope, a \in Ancestors(b), a # b
  PROVE  /\ a \in Scope /\ a < b /\ b < EndOf(a) /\ EndOf(b) <= EndOf(a)
         /\ DepthOf(a) < DepthOf(b) /\ Level(a) < Level(b)
<1>1. a \in Scope /\ a <= b /\ b < EndOf(a)
  BY DEF Ancestors, EndOf
<1>2. a \in 0 .. BoneCount(model) - 1 /\ b \in Int /\ DepthOf(a) \in Nat /\ DepthOf(b) \in Nat
      /\ EndOf(a) \in Int /\ RootDepth \in Nat
  BY <1>1, ScopeFacts
<1>3. b \in a + 1 .. EndOf(a) - 1
  BY <1>1, <1>2
<1>4. DepthOf(a) < DepthOf(b) /\ EndOf(b) <= EndOf(a)
  BY <1>2, <1>3, Nested
<1> QED
  BY <1>1, <1>2, <1>3, <1>4 DEF Level

\* A bone above the first level has a parent, one level up, and is drawn under
\* the parent's ancestors and itself.
LEMMA Parent ==
  ASSUME CallArgs, NEW c \in Scope, Level(c) # 0
  PROVE  \E p \in Ancestors(c) : /\ p # c /\ Level(p) = Level(c) - 1
                                 /\ Ancestors(c) = Ancestors(p) \cup {c}
<1> DEFINE n == BoneCount(model)
           T == {d \in Nat : d <= c /\ c - d \in Scope /\ DepthOf(c - d) < DepthOf(c)}
<1>1. /\ Begin \in Nat /\ End \in Nat /\ End <= n /\ n \in Nat /\ c \in Nat /\ c < End
      /\ Begin <= c /\ DepthOf(c) \in Nat /\ RootDepth \in Nat /\ Level(c) \in Nat
      /\ Level(Begin) = 0
  BY ScopeFacts DEF Scope
<1>2. c - Begin \in T
  <2>1. c - Begin \in Nat /\ c - (c - Begin) = Begin /\ Begin \in Scope
    BY <1>1 DEF Scope
  <2>2. DepthOf(Begin) < DepthOf(c)
    <3>1. DepthOf(Begin) \in Nat
      BY <2>1, ScopeFacts
    <3> QED
      BY <1>1, <3>1 DEF Level
  <2> QED
    BY <1>1, <2>1, <2>2
<1>3. PICK d \in T : \A e \in T : d <= e
  <2>1. T \subseteq Nat /\ T # {}
    BY <1>2
  <2> HIDE DEF T
  <2> QED
    BY <2>1, LeastNat
<1> DEFINE p == c - d
<1>4. d \in Nat /\ d <= c /\ p \in Scope /\ DepthOf(p) < DepthOf(c)
  BY <1>3
<1>5. p \in Nat /\ p <= c /\ d = c - p
  BY <1>1, <1>4
<1>6. DepthOf(p) \in Nat /\ EndOf(p) \in p + 1 .. End /\ p \in 0 .. n - 1
  BY <1>4, ScopeFacts
<1>7. p < c
  BY <1>1, <1>4, <1>5, <1>6
<1>8. ASSUME NEW x \in p + 1 .. c
      PROVE  x \in Scope /\ DepthOf(x) >= DepthOf(c) /\ DepthOf(x) \in Nat
  <2>1. x \in Nat /\ c - x \in Nat /\ c - x < d /\ c - (c - x) = x /\ c - x <= c
    BY <1>1, <1>5
  <2>2. x \in Scope
    BY <1>1, <1>4, <1>5 DEF Scope
  <2>3. c - x \notin T
    BY <1>3, <1>4, <2>1
  <2>4. ~(DepthOf(x) < DepthOf(c))
    BY <2>1, <2>2, <2>3
  <2>5. DepthOf(x) \in Nat
    BY <2>2, ScopeFacts
  <2> QED
    BY <1>1, <2>2, <2>4, <2>5
<1> HIDE DEF T, p
<1>9. DepthOf(p) = DepthOf(c) - 1
  <2>1. p + 1 \in p + 1 .. c /\ p + 1 # 0 /\ (p + 1) - 1 = p
    BY <1>1, <1>5, <1>7
  <2>2. p + 1 \in Scope /\ DepthOf(p + 1) >= DepthOf(c) /\ DepthOf(p + 1) \in Nat
    BY <1>8, <2>1
  <2>3. p + 1 \in 0 .. n - 1
    BY <2>2, ScopeFacts
  <2>4. DepthOf(p + 1) <= DepthOf(p) + 1
    BY <2>1, <2>3, PreorderFacts
  <2> QED
    BY <1>1, <1>4, <1>6, <2>2, <2>4
<1>10. c < EndOf(p)
  <2>1. SUFFICES ASSUME EndOf(p) <= c PROVE FALSE
    BY <1>1, <1>6
  <2>2. EndOf(p) \in p + 1 .. c /\ EndOf(p) < n
    BY <1>1, <1>6, <2>1
  <2>3. DepthOf(EndOf(p)) >= DepthOf(c) /\ DepthOf(EndOf(p)) \in Nat
    BY <1>8, <2>2
  <2>4. DepthOf(EndOf(p)) <= DepthOf(p)
    BY <1>6, <2>2, PreorderFacts
  <2> QED
    BY <1>1, <1>4, <1>6, <2>3, <2>4
<1>11. p \in Ancestors(c)
  <2>1. p <= c /\ c < EndOf(p) /\ p \in Scope
    BY <1>4, <1>5, <1>10
  <2> QED
    BY <2>1 DEF Ancestors, EndOf
<1>12. Level(p) = Level(c) - 1
  BY <1>1, <1>6, <1>9 DEF Level
<1>13. ASSUME NEW a \in Ancestors(c), a # c
       PROVE  a \in Ancestors(p)
  <2>1. a \in Scope /\ a < c /\ c < EndOf(a) /\ DepthOf(a) < DepthOf(c)
    BY <1>13, AncestorFacts
  <2>2. a \in Nat /\ DepthOf(a) \in Nat /\ EndOf(a) \in Nat
    BY <1>1, <2>1, ScopeFacts
  <2>3. a <= p
    <3>1. SUFFICES ASSUME p < a PROVE FALSE
      BY <1>5, <2>2
    <3>2. a \in p + 1 .. c
      BY <1>1, <1>5, <2>1, <2>2, <3>1
    <3>3. DepthOf(a) >= DepthOf(c)
      BY <1>8, <3>2
    <3> QED
      BY <1>1, <2>1, <2>2, <3>3
  <2>4. p < EndOf(a)
    BY <1>1, <1>5, <1>7, <2>1, <2>2
  <2> QED
    BY <2>1, <2>3, <2>4 DEF Ancestors, EndOf
<1>14. ASSUME NEW a \in Ancestors(p)
       PROVE  a \in Ancestors(c)
  <2>1. CASE a = p
    BY <1>11, <2>1
  <2>2. CASE a # p
    <3>1. a \in Scope /\ a < p /\ EndOf(p) <= EndOf(a)
      BY <1>4, <2>2, AncestorFacts
    <3>2. a \in Nat /\ EndOf(a) \in Nat
      BY <1>1, <3>1, ScopeFacts
    <3>3. a <= c /\ c < EndOf(a)
      BY <1>1, <1>5, <1>6, <1>7, <1>10, <3>1, <3>2
    <3> QED
      BY <3>1, <3>3 DEF Ancestors, EndOf
  <2> QED
    BY <2>1, <2>2
<1>15. c \in Ancestors(c)
  <2>1. EndOf(c) \in c + 1 .. End
    BY ScopeFacts
  <2>2. c < EndOf(c)
    BY <1>1, <2>1
  <2> QED
    BY <1>1, <2>2 DEF Ancestors, EndOf
<1>16. Ancestors(c) = Ancestors(p) \cup {c}
  BY <1>13, <1>14, <1>15
<1> QED
  BY <1>1, <1>5, <1>7, <1>11, <1>12, <1>16

\* The list of a set and of one greater number.
LEMMA ListedAdds ==
  ASSUME NEW S, NEW c \in Nat, NEW n \in Nat, c < n, \A i \in Nat : i \in S => i < c
  PROVE  Listed(S \cup {c}, n) = Append(Listed(S, n), c)
<1> DEFINE T == S \cup {c}
<1>1. c + 1 \in Nat /\ c + 1 <= n /\ c <= n
  OBVIOUS
<1>2. \A i \in Nat : c + 1 <= i /\ i < n => i \notin T
  OBVIOUS
<1>3. \A i \in Nat : c <= i /\ i < n => i \notin S
  OBVIOUS
<1>4. SameBelow(T, S, c)
  BY DEF SameBelow
<1>5. c \in T
  OBVIOUS
<1> HIDE DEF T
<1>6. Listed(T, n) = Listed(T, c + 1)
  BY <1>1, <1>2, ListedSkips
<1>7. Listed(T, c + 1) = Append(Listed(T, c), c)
  BY <1>5, ListedStep
<1>8. Listed(T, c) = Listed(S, c)
  BY <1>4, ListedSame
<1>9. Listed(S, n) = Listed(S, c)
  BY <1>1, <1>3, ListedSkips
<1> QED
  BY <1>6, <1>7, <1>8, <1>9 DEF T

\* A pose is composed of its parent's and of the bone's own.
LEMMA ComposedStep ==
  ASSUME CallArgs, NEW c \in Scope
  PROVE  /\ Level(c) = 0 => ComposedOf(c) = Append(<<>>, c)
         /\ Level(c) # 0 => \E p \in Ancestors(c) :
                              /\ p # c /\ Level(p) = Level(c) - 1
                              /\ ComposedOf(c) = Append(ComposedOf(p), c)
<1>1. c \in Nat /\ End \in Nat /\ c < End /\ c < EndOf(c)
  <2>1. Begin \in Nat /\ End \in Nat /\ EndOf(c) \in c + 1 .. End
    BY ScopeFacts
  <2> QED
    BY <2>1 DEF Scope
<1>2. ASSUME Level(c) = 0
      PROVE  ComposedOf(c) = Append(<<>>, c)
  <2>1. Ancestors(c) = {} \cup {c}
    <3>1. ASSUME NEW a \in Ancestors(c), a # c
          PROVE  FALSE
      <4>1. a \in Scope /\ Level(a) < Level(c)
        BY <3>1, AncestorFacts
      <4>2. Level(a) \in Nat
        BY <4>1, ScopeFacts
      <4> QED
        BY <1>2, <4>1, <4>2
    <3>2. c \in Ancestors(c)
      BY <1>1 DEF Ancestors, EndOf
    <3> QED
      BY <3>1, <3>2
  <2>2. Listed({}, End) = <<>>
    <3>1. 0 \in Nat /\ 0 <= End
      BY <1>1
    <3>2. Listed({}, End) = Listed({}, 0)
      BY <1>1, <3>1, ListedSkips
    <3> QED
      BY <3>1, <3>2, ListedStep
  <2>3. Listed({} \cup {c}, End) = Append(Listed({}, End), c)
    BY <1>1, ListedAdds
  <2> QED
    BY <2>1, <2>2, <2>3 DEF ComposedOf
<1>3. ASSUME Level(c) # 0
      PROVE  \E p \in Ancestors(c) : /\ p # c /\ Level(p) = Level(c) - 1
                                     /\ ComposedOf(c) = Append(ComposedOf(p), c)
  <2>1. PICK p \in Ancestors(c) : /\ p # c /\ Level(p) = Level(c) - 1
                                  /\ Ancestors(c) = Ancestors(p) \cup {c}
    BY <1>3, Parent
  <2>2. p \in Scope /\ p < c
    BY <2>1, AncestorFacts
  <2>3. \A i \in Nat : i \in Ancestors(p) => i < c
    <3>1. p \in Nat
      BY <2>2, ScopeFacts
    <3>2. \A i \in Ancestors(p) : i <= p
      BY DEF Ancestors
    <3> QED
      BY <1>1, <2>2, <3>1, <3>2
  <2>4. Listed(Ancestors(p) \cup {c}, End) = Append(Listed(Ancestors(p), End), c)
    BY <1>1, <2>3, ListedAdds
  <2> QED
    BY <2>1, <2>4 DEF ComposedOf
<1> QED
  BY <1>2, <1>3

\* Where the traversal goes from a bone c: into its subtree, or past it.
Follows(n, c) == \/ ~Open(c) /\ n = EndOf(c)
                 \/ Open(c) /\ n = c + 1

\* The bones it leaves out are not reached, the next one is.
LEMMA NextBone ==
  ASSUME CallArgs, NEW c \in Scope, Reached(c), NEW n, Follows(n, c)
  PROVE  /\ n \in c + 1 .. End
         /\ \A b \in c + 1 .. n - 1 : ~Reached(b)
         /\ n < End => /\ n \in Scope /\ Reached(n) /\ Level(n) <= Level(c) + 1
                       /\ \A a \in Ancestors(n) \ {n} :
                            a \in Ancestors(c) /\ (a = c => Open(c))
<1>1. /\ Begin \in Nat /\ End \in Nat /\ End <= BoneCount(model) /\ BoneCount(model) \in Nat
      /\ c \in Nat /\ Begin <= c /\ c < End /\ EndOf(c) \in c + 1 .. End
      /\ c \in 0 .. BoneCount(model) - 1 /\ DepthOf(c) \in Nat /\ RootDepth \in Nat
  BY ScopeFacts DEF Scope
<1>2. n \in c + 1 .. End /\ n \in Nat
  BY <1>1 DEF Follows
<1>3. ASSUME NEW b \in c + 1 .. n - 1
      PROVE  ~Reached(b)
  <2>1. ~Open(c) /\ n = EndOf(c)
    BY <1>1, <1>2 DEF Follows
  <2>2. c <= b /\ b < EndOf(c) /\ c # b
    BY <1>1, <1>2, <2>1
  <2>3. c \in Ancestors(b) \ {b}
    BY <2>2 DEF Ancestors, EndOf
  <2> QED
    BY <2>1, <2>3 DEF Reached
<1>4. ASSUME n < End
      PROVE  /\ n \in Scope /\ Reached(n) /\ Level(n) <= Level(c) + 1
             /\ \A a \in Ancestors(n) \ {n} : a \in Ancestors(c) /\ (a = c => Open(c))
  <2>1. n \in Scope /\ n \in 0 .. BoneCount(model) - 1
    BY <1>1, <1>2, <1>4 DEF Scope
  <2>2. ASSUME NEW a \in Ancestors(n) \ {n}
        PROVE  a \in Ancestors(c) /\ (a = c => Open(c))
    <3>1. a \in Scope /\ a < n /\ n < EndOf(a)
      BY <2>1, AncestorFacts
    <3>2. a \in 0 .. BoneCount(model) - 1 /\ EndOf(a) \in a + 1 .. End
      BY <3>1, ScopeFacts
    <3>3. a <= c
      <4>1. SUFFICES ASSUME c < a PROVE FALSE
        BY <1>1, <3>2
      <4>2. n = EndOf(c)
        BY <1>1, <1>2, <3>1, <3>2, <4>1 DEF Follows
      <4>3. a \in c + 1 .. EndOf(c) - 1
        BY <1>1, <1>2, <3>1, <3>2, <4>1, <4>2
      <4>4. EndOf(a) <= EndOf(c)
        BY <1>1, <4>3, Nested
      <4> QED
        BY <1>1, <1>2, <3>1, <3>2, <4>2, <4>4
    <3>4. c < EndOf(a)
      BY <1>1, <1>2, <3>1, <3>2
    <3>5. a \in Ancestors(c)
      BY <3>1, <3>3, <3>4 DEF Ancestors, EndOf
    <3>6. a = c => Open(c)
      BY <1>1, <1>2, <3>1 DEF Follows
    <3> QED
      BY <3>5, <3>6
  <2>3. Reached(n)
    BY <2>2 DEF Reached
  <2>4. DepthOf(n) \in Nat /\ DepthOf(n) <= DepthOf(c) + 1
    <3>1. CASE n = c + 1
      <4>1. n # 0 /\ n - 1 = c
        BY <1>1, <3>1
      <4> QED
        BY <2>1, <4>1, PreorderFacts
    <3>2. CASE n = EndOf(c)
      <4>1. DepthOf(EndOf(c)) <= DepthOf(c)
        BY <1>1, <1>4, <3>2, PreorderFacts
      <4>2. DepthOf(n) \in Nat
        BY <2>1, PreorderFacts
      <4> QED
        BY <1>1, <3>2, <4>1, <4>2
    <3> QED
      BY <3>1, <3>2 DEF Follows
  <2>5. Level(n) <= Level(c) + 1
    BY <1>1, <2>4 DEF Level
  <2> QED
    BY <2>1, <2>2, <2>3, <2>5
<1> QED
  BY <1>2, <1>3, <1>4

\* What was listed before the next bone: this one or nothing more.
LEMMA ListedNext ==
  ASSUME CallArgs, NEW c \in Scope, Reached(c), NEW n, Follows(n, c),
         NEW S, \A b \in S : b \in Nat => Reached(b)
  PROVE  Listed(S, n) = IF c \in S THEN Append(Listed(S, c), c) ELSE Listed(S, c)
<1>1. n \in c + 1 .. End /\ \A b \in c + 1 .. n - 1 : ~Reached(b)
  BY NextBone
<1>2. c \in Nat /\ n \in Nat /\ c + 1 \in Nat /\ c + 1 <= n
  <2>1. c \in Nat /\ End \in Nat
    BY ScopeFacts
  <2> QED
    BY <1>1, <2>1
<1>3. \A i \in Nat : c + 1 <= i /\ i < n => i \notin S
  BY <1>1, <1>2
<1>4. Listed(S, n) = Listed(S, c + 1)
  BY <1>2, <1>3, ListedSkips
<1> QED
  BY <1>2, <1>4, ListedStep

-----------------------------------------------------------------------------
(* A list that starts with another.                                        *)

Starts(s, t) == Len(t) <= Len(s) /\ \A i \in 1 .. Len(t) : s[i] = t[i]

LEMMA StartsWhole ==
  ASSUME NEW s \in Seq(Nat), NEW t \in Seq(Nat), Starts(s, t)
  PROVE  SubSeq(s, 1, Len(t)) = t
  BY DEF Starts

\* One more element at the end of the start.
LEMMA StartsMore ==
  ASSUME NEW s \in Seq(Nat), NEW t \in Seq(Nat), Starts(s, t), NEW x \in Nat, Len(t) < Len(s)
  PROVE  /\ Starts([s EXCEPT ![Len(t) + 1] = x], Append(t, x))
         /\ [s EXCEPT ![Len(t) + 1] = x] \in Seq(Nat)
         /\ Len([s EXCEPT ![Len(t) + 1] = x]) = Len(s)
         /\ Len(Append(t, x)) = Len(t) + 1
<1> DEFINE r == [s EXCEPT ![Len(t) + 1] = x]
           e == Append(t, x)
<1>1. Len(t) \in Nat /\ Len(s) \in Nat /\ Len(t) + 1 \in 1 .. Len(s)
  OBVIOUS
<1>2. r \in Seq(Nat) /\ Len(r) = Len(s)
      /\ \A i \in 1 .. Len(s) : r[i] = IF i = Len(t) + 1 THEN x ELSE s[i]
  BY <1>1, ExceptSeq
<1>3. Len(e) = Len(t) + 1 /\ \A i \in 1 .. Len(t) + 1 : e[i] = IF i = Len(t) + 1 THEN x ELSE t[i]
  OBVIOUS
<1> HIDE DEF r, e
<1>4. Starts(r, e)
  <2>1. Len(e) <= Len(r)
    BY <1>1, <1>2, <1>3
  <2>2. ASSUME NEW i \in 1 .. Len(t) + 1
        PROVE  r[i] = e[i]
    <3>1. i \in 1 .. Len(s)
      BY <1>1
    <3>2. CASE i = Len(t) + 1
      BY <1>2, <1>3, <3>1, <3>2
    <3>3. CASE i # Len(t) + 1
      <4>1. i \in 1 .. Len(t)
        BY <1>1, <3>3
      <4>2. s[i] = t[i]
        BY <4>1 DEF Starts
      <4> QED
        BY <1>2, <1>3, <3>1, <3>3, <4>2
    <3> QED
      BY <3>2, <3>3
  <2> QED
    BY <1>3, <2>1, <2>2 DEF Starts
<1> QED
  BY <1>2, <1>3, <1>4 DEF r, e

LEMMA StartsEnd ==
  ASSUME NEW s \in Seq(Nat), NEW t \in Seq(Nat), Starts(s, t), NEW x \in Nat, Len(t) = Len(s)
  PROVE  /\ Starts(Append(s, x), Append(t, x))
         /\ Append(s, x) \in Seq(Nat) /\ Len(Append(t, x)) = Len(t) + 1
         /\ Len(Append(s, x)) = Len(s) + 1
  BY DEF Starts

-----------------------------------------------------------------------------
(* The stack of poses.                                                     *)

StackOK == pose_stack \in Seq(Seq(Nat)) /\ Len(pose_stack) > 0 /\ pose_stack[1] = <<>>

\* A stack holds the poses the bone b is composed from, one a level.
StackFits(stack, b) ==
  /\ Level(b) < Len(stack)
  /\ \A a \in Ancestors(b) \ {b} : stack[Level(a) + 2] = ComposedOf(a)

\* What a visit leaves on the stack.
LEMMA StackAt ==
  ASSUME CallArgs, StackOK, bone_index \in Scope, StackFits(pose_stack, bone_index)
  PROVE  /\ Parented \in Seq(Seq(Nat)) /\ Len(Parented) = Level(bone_index) + 2
         /\ Applied \in Seq(Seq(Nat)) /\ Len(Applied) = Level(bone_index) + 2
         /\ \A i \in 1 .. Level(bone_index) + 1 : /\ Parented[i] = pose_stack[i]
                                                  /\ Applied[i] = pose_stack[i]
         /\ Top(Applied) = ComposedOf(bone_index)
         /\ Applied[Level(bone_index) + 2] = ComposedOf(bone_index)
         /\ ComposedOf(bone_index) \in Seq(Nat)
<1> DEFINE c == bone_index
           d == Level(c)
           cut == SubSeq(pose_stack, 1, d + 1)
           top == pose_stack[d + 1]
<1>1. d \in Nat /\ c \in Nat
  <2>1. Level(c) \in Nat /\ c \in 0 .. BoneCount(model) - 1
    BY ScopeFacts
  <2> QED
    BY <2>1
<1>2. d + 1 \in 1 .. Len(pose_stack) /\ ~(d + 1 > Len(pose_stack)) /\ top \in Seq(Nat)
  <2>1. d < Len(pose_stack) /\ Len(pose_stack) \in Nat /\ pose_stack \in Seq(Seq(Nat))
    BY DEF StackOK, StackFits
  <2> HIDE DEF d
  <2>2. d + 1 \in 1 .. Len(pose_stack) /\ ~(d + 1 > Len(pose_stack))
    BY <1>1, <2>1
  <2> QED
    BY <2>1, <2>2, ElementOfSeq
<1>3. PopPose(pose_stack, TheBone.depth - RootDepth) = cut
  <2>1. TheBone.depth - RootDepth = d
    BY DEF TheBone, Level, DepthOf
  <2> QED
    BY <1>2, <2>1 DEF PopPose
<1>4. Append(top, c) = ComposedOf(c)
  <2>1. CASE d = 0
    <3>1. ComposedOf(c) = Append(<<>>, c)
      BY <2>1, ComposedStep
    <3>2. top = <<>>
      BY <2>1 DEF StackOK
    <3> QED
      BY <3>1, <3>2
  <2>2. CASE d # 0
    <3>1. PICK p \in Ancestors(c) : /\ p # c /\ Level(p) = d - 1
                                    /\ ComposedOf(c) = Append(ComposedOf(p), c)
      BY <2>2, ComposedStep
    <3>2. Level(p) + 2 = d + 1
      BY <1>1, <3>1
    <3>3. pose_stack[Level(p) + 2] = ComposedOf(p)
      BY <3>1 DEF StackFits
    <3> QED
      BY <3>1, <3>2, <3>3
  <2> QED
    BY <2>1, <2>2
<1>5. /\ cut \in Seq(Seq(Nat)) /\ Len(cut) = d + 1
      /\ \A i \in 1 .. d + 1 : cut[i] = pose_stack[i]
  <2>1. pose_stack \in Seq(Seq(Nat)) /\ d + 1 <= Len(pose_stack) /\ d + 1 \in Nat
    BY <1>1, <1>2 DEF StackOK
  <2> HIDE DEF d
  <2> QED
    BY <2>1
<1>6. Parented = Append(cut, top)
  <2>1. Parented = Append(cut, cut[Len(cut)])
    BY <1>3 DEF Parented, PushPose, Top
  <2>2. d + 1 \in 1 .. d + 1
    BY <1>1
  <2> QED
    BY <1>5, <2>1, <2>2
<1> HIDE DEF cut, top
<1>7. /\ Parented \in Seq(Seq(Nat)) /\ Len(Parented) = d + 2
      /\ \A i \in 1 .. d + 1 : Parented[i] = pose_stack[i]
      /\ Parented[d + 2] = top
  <2>1. Len(cut) + 1 = d + 2 /\ d + 2 \notin 1 .. d + 1
    BY <1>1, <1>5
  <2> HIDE DEF d
  <2> QED
    BY <1>1, <1>2, <1>5, <1>6, <2>1
<1> DEFINE pose == Append(top, c)
<1>8. Applied = [Parented EXCEPT ![d + 2] = pose]
  BY <1>7 DEF Applied, ApplyLocalState
<1>9. pose \in Seq(Nat)
  BY <1>1, <1>2
<1>10. d + 2 \in 1 .. Len(Parented)
  BY <1>1, <1>7
<1> HIDE DEF pose
<1>11. /\ Applied \in Seq(Seq(Nat)) /\ Len(Applied) = d + 2 /\ Applied[d + 2] = pose
       /\ \A i \in 1 .. Len(Parented) : i # d + 2 => Applied[i] = Parented[i]
  <2> HIDE DEF d
  <2> QED
    BY <1>7, <1>8, <1>9, <1>10, ExceptSeq
<1>12. \A i \in 1 .. d + 1 : Applied[i] = pose_stack[i]
  <2> HIDE DEF d
  <2> QED
    BY <1>1, <1>7, <1>11
<1> QED
  BY <1>4, <1>7, <1>9, <1>11, <1>12 DEF Top, pose

\* It fits the next bone.
LEMMA StackNext ==
  ASSUME CallArgs, StackOK, bone_index \in Scope, StackFits(pose_stack, bone_index),
         Reached(bone_index), NEW n, Follows(n, bone_index), n < End,
         NEW stack \in {Parented, Applied}, Open(bone_index) => stack = Applied
  PROVE  StackFits(stack, n)
<1> DEFINE c == bone_index
           d == Level(c)
<1>1. /\ n \in Scope /\ Level(n) <= d + 1
      /\ \A a \in Ancestors(n) \ {n} : a \in Ancestors(c) /\ (a = c => Open(c))
  BY NextBone
<1>2. /\ Len(stack) = d + 2
      /\ \A i \in 1 .. d + 1 : stack[i] = pose_stack[i]
      /\ stack = Applied => stack[d + 2] = ComposedOf(c)
  BY StackAt
<1>3. d \in Nat /\ Level(n) \in Nat
  BY <1>1, ScopeFacts
<1>4. ASSUME NEW a \in Ancestors(n) \ {n}
      PROVE  stack[Level(a) + 2] = ComposedOf(a)
  <2>1. a \in Ancestors(c) /\ (a = c => Open(c))
    BY <1>1
  <2>2. CASE a = c
    BY <1>2, <2>1, <2>2
  <2>3. CASE a # c
    <3>1. a \in Scope /\ Level(a) < d
      BY <2>1, <2>3, AncestorFacts
    <3>2. Level(a) \in Nat
      BY <3>1, ScopeFacts
    <3>3. Level(a) + 2 \in 1 .. d + 1
      BY <1>3, <3>1, <3>2
    <3>4. pose_stack[Level(a) + 2] = ComposedOf(a)
      BY <2>1, <2>3 DEF StackFits
    <3> QED
      BY <1>2, <3>3, <3>4
  <2> QED
    BY <2>2, <2>3
<1>5. Level(n) < Len(stack)
  BY <1>1, <1>2, <1>3
<1> QED
  BY <1>4, <1>5 DEF StackFits

-----------------------------------------------------------------------------
(* What an extraction has seen of the model.                               *)

\* The bones below n, visited or not, as they are listed, located and posed.
SeenUpTo(n) ==
  /\ bone_index_count = Len(Listed(ShownBones, n))
  /\ Starts(render_bone_indices_, Listed(ShownBones, n))
  /\ locator_count = Len(Listed(ShownLocators, n))
  /\ Starts(locator_bone_indices_scratch_, Listed(ShownLocators, n))
  /\ \A b \in Begin .. n - 1 :
       /\ Reached(b) => attributes[b + 1].fate \notin {"bad_packed", "bad_locator"}
       /\ Shown(b) => bone_poses_[b + 1] = ComposedOf(b)

Called == at # "idle" \/ status = "ok"

CallOK ==
  Called =>
    /\ model \in Models /\ attributes \in Attributes[model]
    /\ root \in Nat /\ kLocal \in BOOLEAN
    /\ baked_model_ = model
    /\ locator_bone_indices_scratch_ \in Seq(Nat)
    /\ Len(locator_bone_indices_scratch_) = BoneCount(model)
    /\ at # "checks" => /\ kLocal => root < BoneCount(model)
                        /\ bone_poses_ \in Seq(Seq(Nat))
                        /\ Len(bone_poses_) = BoneCount(model)

TraversalOK ==
  at = "visit" =>
    /\ bone_index \in Begin .. End
    /\ SeenUpTo(bone_index)
    /\ bone_index < End => Reached(bone_index) /\ StackFits(pose_stack, bone_index)

FinishedOK ==
  at \in {"schedule"} \cup Published =>
    /\ SeenUpTo(End)
    /\ Len(render_bone_indices_) = bone_index_count
    /\ at = "publish_output" => locators = Listed(ShownLocators, End)

JavaOK ==
  /\ at # "idle" => status = "none" /\ rendered = "none"
  /\ status = "ok" => output = [bones |-> Len(render_bone_indices_), locators |-> Len(locators),
                                vertices |-> schedule_.vertex_count]

Traced == CallOK /\ StackOK /\ TraversalOK /\ FinishedOK /\ JavaOK /\ DrawsTheModel

\* A step that keeps the arguments keeps what they ask for.
LEMMA ArgsSame ==
  ASSUME UNCHANGED args
  PROVE  /\ Begin' = Begin /\ End' = End /\ Scope' = Scope
         /\ ShownBones' = ShownBones /\ ShownLocators' = ShownLocators
         /\ \A b : /\ Reached(b)' = Reached(b) /\ Shown(b)' = Shown(b) /\ Level(b)' = Level(b)
                   /\ Ancestors(b)' = Ancestors(b) /\ ComposedOf(b)' = ComposedOf(b)
<1> USE DEF args
<1>1. Begin' = Begin /\ End' = End
  BY DEF Begin, End
<1>2. Scope' = Scope
  BY <1>1 DEF Scope
<1>3. \A b : Ancestors(b)' = Ancestors(b)
  BY <1>2 DEF Ancestors
<1>4. \A b : Open(b)' = Open(b)
  BY DEF Open
<1>5. \A b : Reached(b)' = Reached(b)
  BY <1>3, <1>4 DEF Reached
<1>6. \A b : Shown(b)' = Shown(b)
  BY <1>5 DEF Shown
<1>7. ShownBones' = ShownBones
  BY <1>2, <1>6 DEF ShownBones
<1>8. ShownLocators' = ShownLocators
  BY <1>2, <1>6 DEF ShownLocators
<1>9. \A b : ComposedOf(b)' = ComposedOf(b)
  BY <1>1, <1>3 DEF ComposedOf
<1>10. \A b : Level(b)' = Level(b)
  BY DEF Level, DepthOf, RootDepth
<1> QED
  BY <1>1, <1>2, <1>3, <1>5, <1>6, <1>7, <1>8, <1>9, <1>10

\* So does what was seen of them, if the lists and the poses stay.
LEMMA SeenSame ==
  ASSUME UNCHANGED args, NEW n, SeenUpTo(n),
         UNCHANGED <<bone_index_count, locator_count, locator_bone_indices_scratch_,
                     bone_poses_, render_bone_indices_>>
  PROVE  SeenUpTo(n)'
<1>1. /\ Begin' = Begin /\ ShownBones' = ShownBones /\ ShownLocators' = ShownLocators
      /\ \A b : /\ Reached(b)' = Reached(b) /\ Shown(b)' = Shown(b)
                /\ ComposedOf(b)' = ComposedOf(b)
  BY ArgsSame
<1> QED
  BY <1>1 DEF SeenUpTo, args

-----------------------------------------------------------------------------
(* What was seen is kept, one action after the other.                      *)

\* Between the steps of an extraction its arguments are within the model.
LEMMA RunningArgs ==
  ASSUME Traced, at \notin {"idle", "checks"}
  PROVE  /\ CallArgs /\ status = "none" /\ rendered = "none"
         /\ End \in Nat /\ End <= BoneCount(model)
<1>1. CallArgs
  BY DEF Traced, CallOK, Called, CallArgs
<1> QED
  BY <1>1, ScopeFacts DEF Traced, JavaOK

\* A call that ends without success leaves nothing to say but the types.
LEMMA ReturnTraced ==
  ASSUME NEW s, s # "ok", NEW stack \in Seq(Seq(Nat)), Len(stack) > 0, Return(s, stack),
         rendered' = "none"
  PROVE  Traced'
<1>1. StackOK'
  <2> DEFINE e(i) == IF i = 1 THEN <<>> ELSE Stale
  <2>1. pose_stack' = [i \in 1 .. Len(stack) |-> e(i)] /\ Len(stack) \in Nat
    BY DEF Return
  <2>2. \A i \in 1 .. Len(stack) : e(i) \in Seq(Nat)
    BY DEF Stale
  <2>3. e(1) = <<>>
    OBVIOUS
  <2> HIDE DEF e
  <2>4. pose_stack' \in Seq(Seq(Nat)) /\ Len(pose_stack') = Len(stack) /\ pose_stack'[1] = e(1)
    BY <2>1, <2>2
  <2> QED
    BY <2>3, <2>4 DEF StackOK
<1>2. at' = "idle" /\ status' # "ok"
  BY DEF Return
<1>3. CallOK' /\ TraversalOK' /\ FinishedOK' /\ JavaOK'
  BY <1>2 DEF CallOK, Called, TraversalOK, FinishedOK, JavaOK, Published
<1>4. DrawsTheModel'
  BY <1>2 DEF DrawsTheModel, ListsTheShown, DrawsTheList
<1> QED
  BY <1>1, <1>3, <1>4 DEF Traced

LEMMA InitTraced == Init => Traced
<1> SUFFICES ASSUME Init PROVE Traced
  OBVIOUS
<1>1. StackOK
  BY DEF Init, StackOK
<1>2. at = "idle" /\ status # "ok" /\ rendered = "none"
  BY DEF Init
<1> QED
  BY <1>1, <1>2 DEF Traced, CallOK, Called, TraversalOK, FinishedOK, JavaOK, Published,
                   DrawsTheModel, ListsTheShown, DrawsTheList

LEMMA ExtractTraced ==
  ASSUME Traced, NEW m \in Models, NEW a \in Attributes[m], NEW local \in BOOLEAN, NEW r \in Nat,
         Extract(m, a, local, r)
  PROVE  Traced'
<1>1. StackOK'
  BY DEF Traced, StackOK, Extract
<1>2. CallOK'
  <2> DEFINE e == [i \in 1 .. BoneCount(m) |-> 65536]
  <2>1. BoneCount(m) \in Nat
    BY BoneCounts
  <2>2. e \in Seq(Nat) /\ Len(e) = BoneCount(m)
    BY <2>1
  <2> HIDE DEF e
  <2>3. locator_bone_indices_scratch_' = e /\ model' = m
    BY DEF Extract, e
  <2>4. BoneCount(model)' = BoneCount(m)
    BY <2>3 DEF BoneCount
  <2> QED
    BY <2>2, <2>3, <2>4 DEF CallOK, Called, Extract
<1>3. TraversalOK' /\ FinishedOK' /\ JavaOK'
  BY DEF TraversalOK, FinishedOK, JavaOK, Published, Extract
<1>4. DrawsTheModel'
  BY DEF DrawsTheModel, ListsTheShown, DrawsTheList, Extract
<1> QED
  BY <1>1, <1>2, <1>3, <1>4 DEF Traced

LEMMA FailTraced ==
  ASSUME Traced, at # "idle", NEW stack \in Seq(Seq(Nat)), Len(stack) > 0, Fail(stack)
  PROVE  Traced'
<1>1. rendered' = "none" /\ Return("error", stack)
  BY DEF Fail, Traced, JavaOK
<1> QED
  BY <1>1, ReturnTraced

LEMMA StartTraced ==
  ASSUME IInv, Traced, StartTraversal
  PROVE  Traced'
<1>1. at' = "visit" /\ at = "checks" /\ UNCHANGED args /\ UNCHANGED java
  BY DEF StartTraversal
<1>2. CallArgs
  BY <1>1 DEF Traced, CallOK, Called, CallArgs, StartTraversal
<1>3. /\ Begin \in Nat /\ End \in Nat /\ Begin <= End /\ BoneCount(model) \in Nat
      /\ Begin < End => Level(Begin) = 0
  BY <1>2, ScopeFacts
<1>4. pose_stack' \in Seq(Seq(Nat)) /\ Len(pose_stack') = 1 /\ pose_stack'[1] = <<>>
  <2>1. pose_stack' = IF 1 > Len(pose_stack) THEN pose_stack ELSE SubSeq(pose_stack, 1, 1)
    BY DEF StartTraversal, PopPose
  <2>2. pose_stack \in Seq(Seq(Nat)) /\ Len(pose_stack) > 0 /\ pose_stack[1] = <<>>
    BY DEF Traced, StackOK
  <2> QED
    BY <2>1, <2>2
<1>5. StackOK'
  BY <1>4 DEF StackOK
<1>6. CallOK'
  <2> DEFINE e == [i \in 1 .. BoneCount(model) |-> Stale]
  <2>1. e \in Seq(Seq(Nat)) /\ Len(e) = BoneCount(model)
    <3>1. Stale \in Seq(Nat)
      BY DEF Stale
    <3> QED
      BY <1>3, <3>1
  <2> HIDE DEF e
  <2>2. bone_poses_' = e
    BY DEF StartTraversal, e
  <2> QED
    BY <1>1, <1>2, <2>1, <2>2 DEF CallOK, Called, CallArgs, Traced, StartTraversal, args, BoneCount
<1>7. /\ Begin' = Begin /\ End' = End
      /\ ShownBones' = ShownBones /\ ShownLocators' = ShownLocators
      /\ \A b : /\ Reached(b)' = Reached(b) /\ Level(b)' = Level(b)
                /\ Ancestors(b)' = Ancestors(b) /\ ComposedOf(b)' = ComposedOf(b)
  BY <1>1, ArgsSame
<1>8. bone_index' = Begin
  BY DEF StartTraversal, Begin
<1>9. Ancestors(Begin) \subseteq {Begin}
  <2>1. \A a \in Scope : Begin <= a /\ a \in Nat
    BY <1>3 DEF Scope
  <2>2. \A a \in Ancestors(Begin) : a \in Scope /\ a <= Begin
    BY DEF Ancestors
  <2> QED
    BY <1>3, <2>1, <2>2
<1>10. Listed(ShownBones, Begin) = <<>> /\ Listed(ShownLocators, Begin) = <<>>
  <2>1. ASSUME NEW S, S \subseteq Scope
        PROVE  Listed(S, Begin) = <<>>
    <3>1. \A i \in Nat : 0 <= i /\ i < Begin => i \notin S
      BY <1>3, <2>1 DEF Scope
    <3>2. 0 \in Nat /\ 0 <= Begin
      BY <1>3
    <3>3. Listed(S, Begin) = Listed(S, 0)
      BY <1>3, <3>1, <3>2, ListedSkips
    <3> QED
      BY <3>2, <3>3, ListedStep
  <2> QED
    BY <2>1 DEF ShownBones, ShownLocators
<1>11. Reached(Begin) /\ (Begin < End => StackFits(pose_stack', Begin))
  <2>1. Reached(Begin)
    BY <1>9 DEF Reached
  <2> QED
    BY <1>3, <1>4, <1>9, <2>1 DEF StackFits
<1>12. PICK n : n = Begin
  OBVIOUS
<1>13. TraversalOK'
  <2>1. SeenUpTo(n)'
    <3>1. Listed(ShownBones', n) = <<>> /\ Listed(ShownLocators', n) = <<>>
      BY <1>7, <1>10, <1>12
    <3>2. bone_index_count' = 0 /\ locator_count' = 0
      BY DEF StartTraversal
    <3>3. Begin' .. n - 1 = {}
      BY <1>3, <1>7, <1>12
    <3>4. /\ Starts(render_bone_indices_, <<>>)'
          /\ Starts(locator_bone_indices_scratch_, <<>>)'
      <4>1. /\ Len(<<>>) = 0 /\ Len(render_bone_indices_') \in Nat
            /\ Len(locator_bone_indices_scratch_') \in Nat
        BY <1>1 DEF IInv, ListOK, Traced, CallOK, Called, StartTraversal
      <4> QED
        BY <4>1 DEF Starts
    <3> QED
      BY <3>1, <3>2, <3>3, <3>4 DEF SeenUpTo
  <2>2. Reached(n)' /\ (n < End' => StackFits(pose_stack, n)')
    BY <1>7, <1>11, <1>12 DEF StackFits
  <2> QED
    BY <1>3, <1>7, <1>8, <1>12, <2>1, <2>2 DEF TraversalOK
<1>14. FinishedOK' /\ JavaOK'
  BY <1>1 DEF FinishedOK, JavaOK, Published, Traced, java
<1>15. DrawsTheModel'
  BY <1>1 DEF DrawsTheModel, ListsTheShown, DrawsTheList, Traced, JavaOK, java
<1> QED
  BY <1>5, <1>6, <1>13, <1>14, <1>15 DEF Traced

\* A visited bone and its attribute.
LEMMA VisitFacts ==
  ASSUME Traced, Visiting
  PROVE  /\ CallArgs /\ bone_index \in Scope /\ bone_index \in Nat /\ bone_index < BoneCount(model)
         /\ BoneCount(model) \in Nat
         /\ Reached(bone_index) /\ StackFits(pose_stack, bone_index) /\ SeenUpTo(bone_index)
         /\ StackOK /\ status = "none" /\ rendered = "none"
         /\ Attribute = attributes[bone_index + 1] /\ Attribute \in BoneAttribute
         /\ TheBone.subtree_end = EndOf(bone_index)
         /\ Begin \in Nat /\ End \in Nat /\ End <= BoneCount(model)
<1>1. at = "visit" /\ bone_index < End
  BY DEF Visiting
<1>2. CallArgs /\ status = "none" /\ rendered = "none"
  BY <1>1, RunningArgs
<1>3. /\ bone_index \in Begin .. End
      /\ Reached(bone_index) /\ StackFits(pose_stack, bone_index) /\ SeenUpTo(bone_index) /\ StackOK
  BY <1>1 DEF Traced, TraversalOK
<1>4. Begin \in Nat /\ End \in Nat /\ End <= BoneCount(model) /\ BoneCount(model) \in Nat
  BY <1>2, ScopeFacts
<1>5. bone_index \in Scope /\ bone_index \in Nat /\ bone_index < BoneCount(model)
  BY <1>1, <1>3, <1>4 DEF Scope
<1>6. attributes[bone_index + 1] \in BoneAttribute
  <2>1. attributes \in [1 .. BoneCount(model) -> BoneAttribute]
    BY <1>2, AttributesAssumption DEF CallArgs
  <2>2. bone_index + 1 \in 1 .. BoneCount(model)
    BY <1>4, <1>5
  <2> QED
    BY <2>1, <2>2
<1> QED
  BY <1>2, <1>3, <1>4, <1>5, <1>6 DEF Attribute, TheBone, EndOf

LEMMA InvalidTraced ==
  ASSUME Traced, VisitInvalid
  PROVE  Traced'
<1>1. Visiting /\ Fail(Parented)
  BY DEF VisitInvalid
<1>2. Parented \in Seq(Seq(Nat)) /\ Len(Parented) > 0
  <2>1. /\ CallArgs /\ StackOK /\ bone_index \in Scope /\ StackFits(pose_stack, bone_index)
    BY <1>1, VisitFacts
  <2>2. Parented \in Seq(Seq(Nat)) /\ Len(Parented) = Level(bone_index) + 2
    BY <2>1, StackAt
  <2>3. Level(bone_index) \in Nat
    BY <2>1, ScopeFacts
  <2> QED
    BY <2>2, <2>3
<1>3. at # "idle"
  BY <1>1 DEF Visiting
<1> QED
  BY <1>1, <1>2, <1>3, FailTraced

\* A visit goes on to a bone that is reached, with a stack that fits it.
LEMMA VisitGoesOn ==
  ASSUME Traced, Visiting, at' = "visit", UNCHANGED args,
         Follows(bone_index', bone_index), pose_stack' \in {Parented, Applied},
         Open(bone_index) => pose_stack' = Applied,
         SeenUpTo(bone_index)'
  PROVE  TraversalOK' /\ StackOK'
<1> DEFINE n == bone_index'
           stack == pose_stack'
           c == bone_index
<1>1. /\ CallArgs /\ StackOK /\ c \in Scope /\ StackFits(pose_stack, c) /\ Reached(c)
      /\ Begin \in Nat /\ End \in Nat
  BY VisitFacts
<1>2. /\ n \in c + 1 .. End
      /\ n < End => Reached(n)
  BY <1>1, NextBone
<1>3. n < End => StackFits(stack, n)
  BY <1>1, StackNext
<1>4. n \in Begin .. End
  BY <1>1, <1>2 DEF Scope
<1>5. /\ Begin' = Begin /\ End' = End
      /\ \A b : /\ Reached(b)' = Reached(b) /\ Level(b)' = Level(b)
                /\ Ancestors(b)' = Ancestors(b) /\ ComposedOf(b)' = ComposedOf(b)
  BY ArgsSame
<1>6. PICK k : k = n
  OBVIOUS
<1>7. k < End' => Reached(k)' /\ StackFits(pose_stack, k)'
  BY <1>2, <1>3, <1>5, <1>6 DEF StackFits
<1>8. TraversalOK'
  BY <1>4, <1>5, <1>6, <1>7 DEF TraversalOK
<1>9. StackOK'
  <2>1. /\ Parented \in Seq(Seq(Nat)) /\ Len(Parented) = Level(c) + 2
        /\ Applied \in Seq(Seq(Nat)) /\ Len(Applied) = Level(c) + 2
        /\ \A i \in 1 .. Level(c) + 1 : Parented[i] = pose_stack[i] /\ Applied[i] = pose_stack[i]
    BY <1>1, StackAt
  <2>2. Level(c) \in Nat
    BY <1>1, ScopeFacts
  <2>3. 1 \in 1 .. Level(c) + 1
    BY <2>2
  <2>4. stack \in Seq(Seq(Nat)) /\ Len(stack) = Level(c) + 2 /\ stack[1] = <<>>
    BY <1>1, <2>1, <2>3 DEF StackOK
  <2> QED
    BY <2>2, <2>4 DEF StackOK
<1> QED
  BY <1>8, <1>9

\* What was seen with a bone c, if nothing is listed of it.
LEMMA SeenMore ==
  ASSUME CallArgs, NEW c \in Scope, Reached(c), NEW n, Follows(n, c),
         NEW S, \A b \in S : Reached(b)
  PROVE  /\ c \notin S => Listed(S, n) = Listed(S, c)
         /\ c \in S => Listed(S, n) = Append(Listed(S, c), c)
         /\ Listed(S, c) \in Seq(Nat) /\ Len(Listed(S, c)) <= c
<1>1. Listed(S, n) = IF c \in S THEN Append(Listed(S, c), c) ELSE Listed(S, c)
  BY ListedNext
<1>2. c \in Nat
  BY ScopeFacts
<1> QED
  BY <1>1, <1>2, ListedFacts

\* The shown ones are reached.
LEMMA ShownReached ==
  /\ \A b \in ShownBones : Reached(b) /\ Shown(b)
  /\ \A b \in ShownLocators : Reached(b) /\ Shown(b)
BY DEF ShownBones, ShownLocators, Shown

\* What holds of the bones before c, and of c, holds of those before the next.
LEMMA BonesSeen ==
  ASSUME CallArgs, NEW c \in Scope, Reached(c), NEW n, Follows(n, c), NEW b \in Begin .. n - 1,
         Reached(b)
  PROVE  b \in Begin .. c - 1 \/ b = c
<1>1. n \in c + 1 .. End /\ \A x \in c + 1 .. n - 1 : ~Reached(x)
  BY NextBone
<1>2. c \in Nat /\ Begin \in Nat /\ End \in Nat
  BY ScopeFacts
<1> QED
  BY <1>1, <1>2

LEMMA PrunedTraced ==
  ASSUME Traced, VisitPruned
  PROVE  Traced'
<1> DEFINE c == bone_index
<1>1. /\ Visiting /\ at = "visit" /\ at' = "visit" /\ UNCHANGED args /\ UNCHANGED java
      /\ UNCHANGED <<bone_index_count, locator_count, locator_bone_indices_scratch_,
                     bone_poses_, render_bone_indices_, baked_model_>>
      /\ pose_stack' \in {Parented, Applied}
      /\ Attribute.fate \in {"not_finite", "pose_not_finite"}
  BY DEF VisitPruned, Visiting, state
<1>2. /\ CallArgs /\ c \in Scope /\ Reached(c) /\ SeenUpTo(c)
      /\ Attribute = attributes[c + 1] /\ TheBone.subtree_end = EndOf(c)
      /\ status = "none" /\ rendered = "none"
  BY <1>1, VisitFacts
<1>3. PICK n : n = bone_index'
  OBVIOUS
<1>4. ~Open(c) /\ Follows(n, c)
  BY <1>1, <1>2, <1>3 DEF Open, Follows, VisitPruned, AfterPruned
<1>5. /\ Begin' = Begin
      /\ ShownBones' = ShownBones /\ ShownLocators' = ShownLocators
      /\ \A b : /\ Reached(b)' = Reached(b) /\ Shown(b)' = Shown(b)
                /\ ComposedOf(b)' = ComposedOf(b)
  BY <1>1, ArgsSame
<1>6. ~Shown(c)
  BY <1>1, <1>2 DEF Shown
<1>7. PICK k : k = c
  OBVIOUS
<1>8. Listed(ShownBones, n) = Listed(ShownBones, c)
  BY <1>2, <1>4, <1>6, <1>7, SeenMore, ShownReached
<1>9. Listed(ShownLocators, n) = Listed(ShownLocators, c)
  BY <1>2, <1>4, <1>6, <1>7, SeenMore, ShownReached
<1>10. SeenUpTo(n)'
  <2>1. ASSUME NEW b \in Begin .. n - 1
        PROVE  /\ Reached(b) => attributes[b + 1].fate \notin {"bad_packed", "bad_locator"}
               /\ Shown(b) => bone_poses_[b + 1] = ComposedOf(b)
    <3>1. SUFFICES ASSUME Reached(b)
                   PROVE  /\ attributes[b + 1].fate \notin {"bad_packed", "bad_locator"}
                          /\ Shown(b) => bone_poses_[b + 1] = ComposedOf(b)
      BY DEF Shown
    <3>2. b \in Begin .. c - 1 \/ b = c
      BY <1>2, <1>4, <3>1, BonesSeen
    <3> QED
      BY <1>1, <1>2, <1>6, <3>1, <3>2 DEF SeenUpTo
  <2> QED
    BY <1>1, <1>2, <1>5, <1>8, <1>9, <2>1 DEF SeenUpTo, args
<1>11. SeenUpTo(bone_index)'
  BY <1>3, <1>10 DEF SeenUpTo
<1>12. TraversalOK' /\ StackOK'
  BY <1>1, <1>3, <1>4, <1>11, VisitGoesOn
<1>13. CallOK'
  BY <1>1 DEF Traced, CallOK, Called, args, BoneCount
<1>14. FinishedOK' /\ JavaOK' /\ DrawsTheModel'
  BY <1>1, <1>2 DEF FinishedOK, JavaOK, Published, DrawsTheModel, ListsTheShown, DrawsTheList, java
<1> QED
  BY <1>12, <1>13, <1>14 DEF Traced

LEMMA VisibleTraced ==
  ASSUME IInv, Traced, VisitVisible
  PROVE  Traced'
<1> DEFINE c == bone_index
           list == render_bone_indices_
           located == locator_bone_indices_scratch_
           drawn == Listed(ShownBones, c)
           found == Listed(ShownLocators, c)
<1>1. /\ Visiting /\ at = "visit" /\ at' = "visit" /\ UNCHANGED args /\ UNCHANGED java
      /\ UNCHANGED baked_model_
      /\ pose_stack' = Applied
      /\ Attribute.fate = "fine"
  BY DEF VisitVisible, Visiting
<1>2. /\ CallArgs /\ c \in Scope /\ Reached(c) /\ SeenUpTo(c) /\ StackOK
      /\ StackFits(pose_stack, c)
      /\ Attribute = attributes[c + 1] /\ TheBone.subtree_end = EndOf(c)
      /\ status = "none" /\ rendered = "none"
      /\ Attribute.cubes_hidden \in BOOLEAN /\ Attribute.children_hidden \in BOOLEAN
      /\ c \in Nat /\ c < BoneCount(model) /\ BoneCount(model) \in Nat /\ Begin \in Nat
  BY <1>1, VisitFacts DEF BoneAttribute
<1>3. PICK n : n = bone_index'
  OBVIOUS
<1>4. Follows(n, c)
  <2>1. n = IF Attribute.children_hidden THEN EndOf(c) ELSE c + 1
    BY <1>2, <1>3 DEF VisitVisible, AfterHidden
  <2> QED
    BY <1>1, <1>2, <2>1 DEF Follows, Open
<1>5. /\ Begin' = Begin
      /\ ShownBones' = ShownBones /\ ShownLocators' = ShownLocators
      /\ \A b : /\ Reached(b)' = Reached(b) /\ Shown(b)' = Shown(b)
                /\ ComposedOf(b)' = ComposedOf(b)
  BY <1>1, ArgsSame
<1>6. /\ Shown(c) <=> ~Attribute.cubes_hidden
      /\ c \in ShownBones <=> ~Attribute.cubes_hidden /\ TheBone.geometry
      /\ c \in ShownLocators <=> ~Attribute.cubes_hidden /\ Attribute.locator
  BY <1>1, <1>2 DEF Shown, ShownBones, ShownLocators, TheBone
<1>7. PICK k : k = c
  OBVIOUS
<1>8. /\ c \notin ShownBones => Listed(ShownBones, n) = drawn
      /\ c \in ShownBones => Listed(ShownBones, n) = Append(drawn, c)
      /\ drawn \in Seq(Nat)
  BY <1>2, <1>4, <1>7, SeenMore, ShownReached
<1>9. /\ c \notin ShownLocators => Listed(ShownLocators, n) = found
      /\ c \in ShownLocators => Listed(ShownLocators, n) = Append(found, c)
      /\ found \in Seq(Nat) /\ Len(found) <= c
  BY <1>2, <1>4, <1>7, SeenMore, ShownReached
<1>10. /\ bone_index_count = Len(drawn) /\ Starts(list, drawn)
       /\ locator_count = Len(found) /\ Starts(located, found)
       /\ list \in Seq(Nat) /\ located \in Seq(Nat) /\ Len(located) = BoneCount(model)
       /\ bone_poses_ \in Seq(Seq(Nat)) /\ Len(bone_poses_) = BoneCount(model)
  BY <1>1, <1>2 DEF SeenUpTo, IInv, ListOK, Traced, CallOK, Called
<1>11. /\ bone_index_count' = Len(Listed(ShownBones, n))
       /\ Starts(list', Listed(ShownBones, n))
  <2> HIDE DEF drawn
  <2>1. CASE c \notin ShownBones
    BY <1>6, <1>8, <1>10, <2>1 DEF VisitVisible
  <2>2. CASE c \in ShownBones /\ bone_index_count = Len(list)
    <3>1. bone_index_count' = bone_index_count + 1 /\ list' = Append(list, c)
      BY <1>6, <2>2 DEF VisitVisible
    <3>2. Starts(Append(list, c), Append(drawn, c)) /\ Len(Append(drawn, c)) = Len(drawn) + 1
      <4>1. list \in Seq(Nat) /\ drawn \in Seq(Nat) /\ Starts(list, drawn) /\ Len(drawn) = Len(list)
        BY <1>8, <1>10, <2>2
      <4>2. c \in Nat
        BY <1>2
      <4> QED
        BY <4>1, <4>2, StartsEnd
    <3> QED
      BY <1>8, <1>10, <2>2, <3>1, <3>2
  <2>3. CASE c \in ShownBones /\ bone_index_count # Len(list)
    <3>1. /\ bone_index_count' = bone_index_count + 1
          /\ list' = [list EXCEPT ![bone_index_count + 1] = c]
      BY <1>6, <2>3 DEF VisitVisible
    <3>2. Len(drawn) < Len(list)
      <4>1. Len(drawn) <= Len(list) /\ Len(drawn) # Len(list)
        BY <1>10, <2>3 DEF Starts
      <4>2. Len(drawn) \in Nat /\ Len(list) \in Nat
        BY <1>8, <1>10
      <4> QED
        BY <4>1, <4>2
    <3>3. /\ Starts([list EXCEPT ![Len(drawn) + 1] = c], Append(drawn, c))
          /\ Len(Append(drawn, c)) = Len(drawn) + 1
      BY <1>2, <1>8, <1>10, <3>2, StartsMore
    <3> QED
      BY <1>8, <1>10, <2>3, <3>1, <3>3
  <2> QED
    BY <2>1, <2>2, <2>3
<1>12. /\ locator_count' = Len(Listed(ShownLocators, n))
       /\ Starts(located', Listed(ShownLocators, n))
       /\ located' \in Seq(Nat) /\ Len(located') = BoneCount(model)
  <2> HIDE DEF found
  <2>1. CASE c \notin ShownLocators
    BY <1>6, <1>9, <1>10, <2>1 DEF VisitVisible
  <2>2. CASE c \in ShownLocators
    <3>1. /\ locator_count' = locator_count + 1
          /\ located' = [located EXCEPT ![locator_count + 1] = c]
      BY <1>6, <2>2 DEF VisitVisible
    <3>2. Len(found) < Len(located)
      <4>1. Len(found) \in Nat
        BY <1>9
      <4> QED
        BY <1>2, <1>9, <1>10, <4>1
    <3>3. /\ Starts([located EXCEPT ![Len(found) + 1] = c], Append(found, c))
          /\ [located EXCEPT ![Len(found) + 1] = c] \in Seq(Nat)
          /\ Len([located EXCEPT ![Len(found) + 1] = c]) = Len(located)
          /\ Len(Append(found, c)) = Len(found) + 1
      BY <1>2, <1>9, <1>10, <3>2, StartsMore
    <3> QED
      BY <1>9, <1>10, <2>2, <3>1, <3>3
  <2> QED
    BY <2>1, <2>2
<1>13. /\ bone_poses_' \in Seq(Seq(Nat)) /\ Len(bone_poses_') = BoneCount(model)
       /\ bone_poses_'[c + 1] = ComposedOf(c)
       /\ \A i \in 1 .. BoneCount(model) : i # c + 1 => bone_poses_'[i] = bone_poses_[i]
  <2> DEFINE pose == Top(Applied)
  <2>1. pose = ComposedOf(c) /\ pose \in Seq(Nat)
    BY <1>2, StackAt
  <2>2. bone_poses_' = [bone_poses_ EXCEPT ![c + 1] = pose]
    BY DEF VisitVisible
  <2>3. c + 1 \in 1 .. Len(bone_poses_)
    BY <1>2, <1>10
  <2> HIDE DEF pose
  <2>4. /\ bone_poses_' \in Seq(Seq(Nat)) /\ Len(bone_poses_') = Len(bone_poses_)
        /\ \A i \in 1 .. Len(bone_poses_) :
             bone_poses_'[i] = IF i = c + 1 THEN pose ELSE bone_poses_[i]
    BY <1>10, <2>1, <2>2, <2>3, ExceptSeq
  <2> QED
    BY <1>10, <2>1, <2>3, <2>4
<1>14. SeenUpTo(n)'
  <2>1. ASSUME NEW b \in Begin .. n - 1
        PROVE  /\ Reached(b) => attributes[b + 1].fate \notin {"bad_packed", "bad_locator"}
               /\ Shown(b) => bone_poses_'[b + 1] = ComposedOf(b)
    <3>1. SUFFICES ASSUME Reached(b)
                   PROVE  /\ attributes[b + 1].fate \notin {"bad_packed", "bad_locator"}
                          /\ Shown(b) => bone_poses_'[b + 1] = ComposedOf(b)
      BY DEF Shown
    <3>2. b \in Begin .. c - 1 \/ b = c
      BY <1>2, <1>4, <3>1, BonesSeen
    <3>3. CASE b = c
      BY <1>1, <1>2, <1>13, <3>3
    <3>4. CASE b \in Begin .. c - 1
      <4>1. b + 1 \in 1 .. BoneCount(model) /\ b + 1 # c + 1
        BY <1>2, <3>4
      <4>2. bone_poses_'[b + 1] = bone_poses_[b + 1]
        BY <1>13, <4>1
      <4> QED
        BY <1>2, <3>1, <3>4, <4>2 DEF SeenUpTo
    <3> QED
      BY <3>2, <3>3, <3>4
  <2>2. /\ (Listed(ShownBones, n))' = Listed(ShownBones, n)
        /\ (Listed(ShownLocators, n))' = Listed(ShownLocators, n)
    BY <1>5
  <2> QED
    BY <1>1, <1>5, <1>11, <1>12, <2>1, <2>2 DEF SeenUpTo, args
<1>15. SeenUpTo(bone_index)'
  BY <1>3, <1>14 DEF SeenUpTo
<1>16. TraversalOK' /\ StackOK'
  BY <1>1, <1>3, <1>4, <1>15, VisitGoesOn
<1>17. CallOK'
  BY <1>1, <1>12, <1>13 DEF Traced, CallOK, Called, args, BoneCount
<1>18. FinishedOK' /\ JavaOK' /\ DrawsTheModel'
  BY <1>1, <1>2 DEF FinishedOK, JavaOK, Published, DrawsTheModel, ListsTheShown, DrawsTheList, java
<1> QED
  BY <1>16, <1>17, <1>18 DEF Traced

LEMMA FinishTraced ==
  ASSUME IInv, Traced, FinishTraversal
  PROVE  Traced'
<1>1. /\ at = "visit" /\ at' = "schedule" /\ UNCHANGED args /\ UNCHANGED java
      /\ UNCHANGED <<bone_index_count, locator_count, locator_bone_indices_scratch_,
                     bone_poses_, baked_model_, pose_stack>>
      /\ render_bone_indices_' = SubSeq(render_bone_indices_, 1, bone_index_count)
      /\ bone_index >= End
  BY DEF FinishTraversal
<1>2. CallArgs /\ status = "none" /\ rendered = "none" /\ End \in Nat
  BY <1>1, RunningArgs
<1>3. SeenUpTo(End)
  <2>1. bone_index \in Begin .. End /\ SeenUpTo(bone_index)
    BY <1>1 DEF Traced, TraversalOK
  <2>2. Begin \in Nat
    BY <1>2, ScopeFacts
  <2>3. bone_index = End
    BY <1>1, <1>2, <2>1, <2>2
  <2> QED
    BY <2>1, <2>3
<1>4. PICK n : n = End
  OBVIOUS
<1> DEFINE drawn == Listed(ShownBones, n)
<1>5. drawn \in Seq(Nat)
  BY <1>2, <1>4, ListedFacts
<1>6. /\ bone_index_count = Len(drawn) /\ Starts(render_bone_indices_, drawn)
      /\ render_bone_indices_ \in Seq(Nat)
  BY <1>3, <1>4 DEF SeenUpTo, IInv, ListOK
<1>7. render_bone_indices_' = drawn
  <2> HIDE DEF drawn
  <2> QED
    BY <1>1, <1>5, <1>6, StartsWhole
<1>8. Starts(drawn, drawn)
  <2> HIDE DEF drawn
  <2>1. Len(drawn) \in Nat
    BY <1>5
  <2> QED
    BY <2>1 DEF Starts
<1>9. /\ Begin' = Begin /\ End' = End
      /\ ShownBones' = ShownBones /\ ShownLocators' = ShownLocators
      /\ \A b : /\ Reached(b)' = Reached(b) /\ Shown(b)' = Shown(b)
                /\ ComposedOf(b)' = ComposedOf(b)
  BY <1>1, ArgsSame
<1>10. SeenUpTo(n)'
  <2>1. /\ (Listed(ShownBones, n))' = Listed(ShownBones, n)
        /\ (Listed(ShownLocators, n))' = Listed(ShownLocators, n)
    BY <1>9
  <2> QED
    BY <1>1, <1>3, <1>4, <1>6, <1>7, <1>8, <1>9, <2>1 DEF SeenUpTo, args
<1>11. SeenUpTo(End)'
  BY <1>4, <1>9, <1>10 DEF SeenUpTo
<1>12. FinishedOK'
  BY <1>1, <1>6, <1>7, <1>11 DEF FinishedOK, Published
<1>13. CallOK'
  BY <1>1 DEF Traced, CallOK, Called, args, BoneCount
<1>14. StackOK' /\ TraversalOK' /\ JavaOK' /\ DrawsTheModel'
  BY <1>1, <1>2 DEF Traced, StackOK, TraversalOK, JavaOK, Published, DrawsTheModel, ListsTheShown,
                    DrawsTheList, java
<1> QED
  BY <1>12, <1>13, <1>14 DEF Traced

\* After the traversal its results stay.
LEMMA FinishedSame ==
  ASSUME UNCHANGED args, SeenUpTo(End),
         UNCHANGED <<bone_index_count, locator_count, locator_bone_indices_scratch_,
                     bone_poses_, render_bone_indices_>>
  PROVE  SeenUpTo(End)'
<1>1. PICK n : n = End
  OBVIOUS
<1>2. End' = End
  BY ArgsSame
<1>3. SeenUpTo(n)'
  BY <1>1, SeenSame
<1> QED
  BY <1>1, <1>2, <1>3 DEF SeenUpTo

LEMMA ScheduledTraced ==
  ASSUME Traced, at = "schedule", Extracted
  PROVE  Traced'
<1>1. /\ at' = "publish_locators" /\ UNCHANGED args /\ UNCHANGED java
      /\ UNCHANGED <<bone_index_count, locator_count, locator_bone_indices_scratch_,
                     bone_poses_, render_bone_indices_, baked_model_, pose_stack>>
  BY DEF Extracted, locals
<1>2. SeenUpTo(End) /\ Len(render_bone_indices_) = bone_index_count
  BY DEF Traced, FinishedOK
<1>3. status = "none" /\ rendered = "none"
  BY RunningArgs
<1>4. SeenUpTo(End)'
  BY <1>1, <1>2, FinishedSame
<1>5. FinishedOK'
  BY <1>1, <1>2, <1>4 DEF FinishedOK
<1>6. CallOK'
  BY <1>1 DEF Traced, CallOK, Called, args, BoneCount
<1>7. StackOK' /\ TraversalOK' /\ JavaOK' /\ DrawsTheModel'
  BY <1>1, <1>3 DEF Traced, StackOK, TraversalOK, JavaOK, DrawsTheModel, ListsTheShown,
                    DrawsTheList, java
<1> QED
  BY <1>5, <1>6, <1>7 DEF Traced

LEMMA LocatorsTraced ==
  ASSUME Traced, PublishLocators
  PROVE  Traced'
<1>1. /\ at = "publish_locators" /\ at' = "publish_output" /\ UNCHANGED args
      /\ UNCHANGED <<bone_index_count, locator_count, locator_bone_indices_scratch_,
                     bone_poses_, render_bone_indices_, baked_model_, pose_stack>>
      /\ UNCHANGED <<status, rendered>>
      /\ locators' = SubSeq(locator_bone_indices_scratch_, 1, locator_count)
  BY DEF PublishLocators, state, locals
<1>2. SeenUpTo(End) /\ Len(render_bone_indices_) = bone_index_count
  BY <1>1 DEF Traced, FinishedOK, Published
<1>3. status = "none" /\ rendered = "none" /\ End \in Nat
  BY <1>1, RunningArgs
<1> DEFINE found == Listed(ShownLocators, End)
<1>4. found \in Seq(Nat)
  BY <1>3, ListedFacts
<1>5. /\ locator_count = Len(found) /\ Starts(locator_bone_indices_scratch_, found)
      /\ locator_bone_indices_scratch_ \in Seq(Nat)
  BY <1>1, <1>2 DEF SeenUpTo, Traced, CallOK, Called
<1>6. locators' = found
  <2> HIDE DEF found
  <2> QED
    BY <1>1, <1>4, <1>5, StartsWhole
<1>7. SeenUpTo(End)'
  BY <1>1, <1>2, FinishedSame
<1>8. (Listed(ShownLocators, End))' = found
  BY <1>1, ArgsSame
<1>9. FinishedOK'
  BY <1>1, <1>2, <1>6, <1>7, <1>8 DEF FinishedOK
<1>10. CallOK'
  BY <1>1 DEF Traced, CallOK, Called, args, BoneCount
<1>11. StackOK' /\ TraversalOK' /\ JavaOK' /\ DrawsTheModel'
  BY <1>1, <1>3 DEF Traced, StackOK, TraversalOK, JavaOK, DrawsTheModel, ListsTheShown,
                    DrawsTheList
<1> QED
  BY <1>9, <1>10, <1>11 DEF Traced

LEMMA OutputTraced ==
  ASSUME IInv, Traced, PublishOutput
  PROVE  Traced'
<1>1. /\ at = "publish_output" /\ at' = "idle" /\ status' = "ok" /\ UNCHANGED args
      /\ UNCHANGED <<locators, locator_bone_indices_scratch_, bone_poses_,
                     render_bone_indices_, baked_model_, schedule_, rendered>>
      /\ output' = [bones |-> Len(render_bone_indices_), locators |-> locator_count,
                    vertices |-> schedule_.vertex_count]
      /\ Return("ok", pose_stack)
  BY DEF PublishOutput, Return
<1>2. /\ SeenUpTo(End) /\ Len(render_bone_indices_) = bone_index_count
      /\ locators = Listed(ShownLocators, End)
  BY <1>1 DEF Traced, FinishedOK, Published
<1>3. CallArgs /\ rendered = "none" /\ End \in Nat
  BY <1>1, RunningArgs
<1> DEFINE drawn == Listed(ShownBones, End)
<1>4. drawn \in Seq(Nat)
  BY <1>3, ListedFacts
<1>5. /\ Starts(render_bone_indices_, drawn) /\ render_bone_indices_ \in Seq(Nat)
      /\ Len(render_bone_indices_) = Len(drawn) /\ locator_count = Len(locators)
  BY <1>2 DEF SeenUpTo, IInv, ListOK
<1>6. render_bone_indices_ = drawn
  <2> HIDE DEF drawn
  <2>1. SubSeq(render_bone_indices_, 1, Len(drawn)) = drawn
    BY <1>4, <1>5, StartsWhole
  <2>2. SubSeq(render_bone_indices_, 1, Len(render_bone_indices_)) = render_bone_indices_
    BY <1>5, CutWhole
  <2> QED
    BY <1>5, <2>1, <2>2
<1>7. /\ \A b \in Scope :
           Reached(b) => attributes[b + 1].fate \notin {"bad_packed", "bad_locator"}
      /\ \A b \in ShownBones : bone_poses_[b + 1] = ComposedOf(b)
  BY <1>2 DEF SeenUpTo, Scope, ShownBones
<1>8. /\ Scope' = Scope /\ ShownBones' = ShownBones
      /\ (Listed(ShownBones, End))' = drawn
      /\ (Listed(ShownLocators, End))' = Listed(ShownLocators, End)
      /\ \A b : Reached(b)' = Reached(b) /\ ComposedOf(b)' = ComposedOf(b)
  BY <1>1, ArgsSame
<1>9. ListsTheShown'
  BY <1>1, <1>2, <1>6, <1>7, <1>8 DEF ListsTheShown, args
<1>10. DrawsTheModel' /\ JavaOK' /\ TraversalOK' /\ FinishedOK'
  BY <1>1, <1>3, <1>5, <1>9 DEF DrawsTheModel, DrawsTheList, JavaOK, TraversalOK, FinishedOK,
                                Published
<1>11. CallOK'
  BY <1>1 DEF Traced, CallOK, Called, args, BoneCount
<1>12. StackOK'
  <2> DEFINE e(i) == IF i = 1 THEN <<>> ELSE Stale
  <2>1. pose_stack' = [i \in 1 .. Len(pose_stack) |-> e(i)] /\ Len(pose_stack) \in Nat
    BY <1>1 DEF Return, Traced, StackOK
  <2>2. \A i \in 1 .. Len(pose_stack) : e(i) \in Seq(Nat)
    BY DEF Stale
  <2>3. e(1) = <<>> /\ Len(pose_stack) > 0
    BY DEF Traced, StackOK
  <2> HIDE DEF e
  <2>4. /\ pose_stack' \in Seq(Seq(Nat)) /\ Len(pose_stack') = Len(pose_stack)
        /\ pose_stack'[1] = e(1)
    BY <2>1, <2>2, <2>3
  <2> QED
    BY <2>3, <2>4 DEF StackOK
<1> QED
  BY <1>10, <1>11, <1>12 DEF Traced

LEMMA RenderTraced ==
  ASSUME IInv, Traced, NEW count \in Counts, nRender(count)
  PROVE  Traced'
<1>1. /\ at = "idle" /\ UNCHANGED at /\ UNCHANGED args /\ UNCHANGED pose_stack
      /\ UNCHANGED <<status, locators, output, schedule_>>
      /\ UNCHANGED <<locator_bone_indices_scratch_, bone_poses_, render_bone_indices_,
                     baked_model_>>
      /\ rendered' = IF ~MayRender(count) THEN "rejected"
                     ELSE IF count = 0 THEN "nothing" ELSE "drawn"
  BY DEF nRender, state
<1>2. /\ Scope' = Scope /\ ShownBones' = ShownBones
      /\ (Listed(ShownBones, End))' = Listed(ShownBones, End)
      /\ (Listed(ShownLocators, End))' = Listed(ShownLocators, End)
      /\ \A b : Reached(b)' = Reached(b) /\ ComposedOf(b)' = ComposedOf(b)
  BY <1>1, ArgsSame
<1>3. ListsTheShown'
  BY <1>1, <1>2 DEF Traced, DrawsTheModel, ListsTheShown, args
<1>4. DrawsTheList'
  <2>1. SUFFICES ASSUME MayRender(count), rendered' = IF count = 0 THEN "nothing" ELSE "drawn"
                 PROVE  DrawsTheList'
    BY <1>1 DEF DrawsTheList
  <2>2. valid_ /\ count = schedule_.vertex_count
    BY <2>1 DEF MayRender
  <2>3. status = "ok" /\ schedule_ = Built(baked_model_, render_bone_indices_)
    BY <1>1, <2>2 DEF IInv, ValidWhenPublished, ScheduleOK
  <2>4. /\ baked_model_ = model
        /\ output = [bones |-> Len(render_bone_indices_), locators |-> Len(locators),
                     vertices |-> schedule_.vertex_count]
    BY <2>3 DEF Traced, CallOK, Called, JavaOK
  <2>5. schedule_.vertex_count = VertexCountOf(model, render_bone_indices_)
    BY <2>3, <2>4 DEF Built
  <2>6. count \in Nat
    BY MaxVerticesAssumption
  <2>7. VertexCountOf(model, render_bone_indices_)' = VertexCountOf(model, render_bone_indices_)
    BY <1>1 DEF args
  <2>8. /\ output.vertices = count
        /\ rendered' = "drawn" <=> count > 0
    BY <2>1, <2>2, <2>4, <2>6
  <2> QED
    BY <1>1, <2>3, <2>4, <2>5, <2>7, <2>8 DEF DrawsTheList
<1>5. CallOK'
  BY <1>1 DEF Traced, CallOK, Called, args, BoneCount
<1>6. StackOK' /\ TraversalOK' /\ FinishedOK' /\ JavaOK'
  BY <1>1 DEF Traced, StackOK, TraversalOK, FinishedOK, JavaOK, Published
<1> QED
  BY <1>3, <1>4, <1>5, <1>6 DEF Traced, DrawsTheModel

LEMMA SameTraced ==
  ASSUME Traced, UNCHANGED vars
  PROVE  Traced'
<1>1. UNCHANGED state /\ UNCHANGED pose_stack /\ UNCHANGED at /\ UNCHANGED args
      /\ UNCHANGED locals /\ UNCHANGED java
  BY DEF vars
<1>2. /\ Begin' = Begin /\ End' = End /\ Scope' = Scope
      /\ ShownBones' = ShownBones /\ ShownLocators' = ShownLocators
      /\ \A b : /\ Reached(b)' = Reached(b) /\ Shown(b)' = Shown(b) /\ Level(b)' = Level(b)
                /\ Ancestors(b)' = Ancestors(b) /\ ComposedOf(b)' = ComposedOf(b)
      /\ (Listed(ShownBones, End))' = Listed(ShownBones, End)
      /\ (Listed(ShownLocators, End))' = Listed(ShownLocators, End)
  BY <1>1, ArgsSame
<1>3. CallOK' /\ StackOK' /\ JavaOK'
  BY <1>1 DEF Traced, CallOK, Called, StackOK, JavaOK, state, args, java, BoneCount
<1>4. TraversalOK'
  <2>1. PICK n : n = bone_index
    OBVIOUS
  <2>2. /\ UNCHANGED <<bone_index_count, locator_count, locator_bone_indices_scratch_,
                       bone_poses_, render_bone_indices_>>
        /\ bone_index' = bone_index /\ at' = at /\ pose_stack' = pose_stack
    BY <1>1 DEF state, locals
  <2>3. SeenUpTo(n) => SeenUpTo(n)'
    BY <1>1, <2>2, SeenSame
  <2>4. SeenUpTo(bone_index) => SeenUpTo(bone_index)'
    BY <2>1, <2>2, <2>3 DEF SeenUpTo
  <2>5. /\ Reached(n)' = Reached(n)
        /\ StackFits(pose_stack, n) => StackFits(pose_stack, n)'
    BY <1>2, <2>2 DEF StackFits
  <2> QED
    BY <1>2, <2>1, <2>2, <2>4, <2>5 DEF Traced, TraversalOK
<1>5. FinishedOK'
  <2>1. SeenUpTo(End) => SeenUpTo(End)'
    BY <1>1, FinishedSame DEF state, locals
  <2> QED
    BY <1>1, <1>2, <2>1 DEF Traced, FinishedOK, Published, state, locals, java
<1>6. DrawsTheModel'
  <2>1. ListsTheShown'
    BY <1>1, <1>2 DEF Traced, DrawsTheModel, ListsTheShown, state, args, java
  <2>2. DrawsTheList'
    BY <1>1 DEF Traced, DrawsTheModel, DrawsTheList, state, args, java
  <2> QED
    BY <2>1, <2>2 DEF DrawsTheModel
<1> QED
  BY <1>3, <1>4, <1>5, <1>6 DEF Traced

LEMMA StepTraced == IInv /\ Traced /\ [Next]_vars => Traced'
<1> SUFFICES ASSUME IInv, Traced, [Next]_vars PROVE Traced'
  OBVIOUS
<1>0. pose_stack \in Seq(Seq(Nat)) /\ Len(pose_stack) > 0
  BY DEF Traced, StackOK
<1>1. CASE \E m \in Models : \E a \in Attributes[m] :
             \/ Extract(m, a, FALSE, 0)
             \/ \E r \in 0 .. BoneCount(m) : Extract(m, a, TRUE, r)
  <2>0. PICK m \in Models : \E a \in Attributes[m] :
             \/ Extract(m, a, FALSE, 0)
             \/ \E r \in 0 .. BoneCount(m) : Extract(m, a, TRUE, r)
    BY <1>1
  <2>1. PICK a \in Attributes[m] :
             \/ Extract(m, a, FALSE, 0)
             \/ \E r \in 0 .. BoneCount(m) : Extract(m, a, TRUE, r)
    BY <2>0
  <2>2. CASE Extract(m, a, FALSE, 0)
    <3>1. 0 \in Nat
      OBVIOUS
    <3> QED
      BY <2>2, <3>1, ExtractTraced, Zenon
  <2>3. CASE \E r \in 0 .. BoneCount(m) : Extract(m, a, TRUE, r)
    <3>1. PICK r \in 0 .. BoneCount(m) : Extract(m, a, TRUE, r)
      BY <2>3
    <3>2. r \in Nat
      BY BoneCounts
    <3> QED
      BY <3>1, <3>2, ExtractTraced
  <2> QED
    BY <2>1, <2>2, <2>3
<1>2. CASE RejectArguments
  BY <1>0, <1>2, ReturnTraced DEF RejectArguments
<1>3. CASE nInvalidate
  BY <1>0, <1>3, ReturnTraced DEF nInvalidate
<1>4. CASE \E count \in Counts : nRender(count)
  BY <1>4, RenderTraced
<1>5. CASE RejectBuffers
  BY <1>0, <1>5, FailTraced DEF RejectBuffers
<1>6. CASE RejectRoot
  BY <1>0, <1>6, FailTraced DEF RejectRoot
<1>7. CASE StartTraversal
  BY <1>7, StartTraced
<1>8. CASE VisitInvalid
  BY <1>8, InvalidTraced
<1>9. CASE VisitPruned
  BY <1>9, PrunedTraced
<1>10. CASE VisitVisible
  BY <1>10, VisibleTraced
<1>11. CASE FinishTraversal
  BY <1>11, FinishTraced
<1>12. CASE ReuseSchedule
  BY <1>12, ScheduledTraced DEF ReuseSchedule
<1>13. CASE RebuildSchedule
  BY <1>13, ScheduledTraced DEF RebuildSchedule
<1>14. CASE ScheduleFails
  BY <1>0, <1>14, FailTraced DEF ScheduleFails
<1>15. CASE PublishLocators
  BY <1>15, LocatorsTraced
<1>16. CASE PublishOutput
  BY <1>16, OutputTraced
<1>17. CASE PublishFails
  <2>1. Return("error", pose_stack) /\ rendered' = "none"
    BY <1>17, RunningArgs DEF PublishFails
  <2> QED
    BY <1>0, <2>1, ReturnTraced
<1>18. CASE UNCHANGED vars
  BY <1>18, SameTraced
<1> QED
  BY <1>1, <1>2, <1>3, <1>4, <1>5, <1>6, <1>7, <1>8, <1>9, <1>10, <1>11, <1>12, <1>13, <1>14,
     <1>15, <1>16, <1>17, <1>18 DEF Next, Run

\* What an extraction published, and what is drawn of it, is the model as the
\* last attributes show it, whatever an earlier call left in the list, the
\* poses and the schedule.
THEOREM ModelDrawn == Spec => []DrawsTheModel
<1>1. Spec => []Traced
  BY InitTraced, StepTraced, Invariance, PTL DEF Spec
<1>2. Traced => DrawsTheModel
  BY DEF Traced
<1> QED
  BY <1>1, <1>2, PTL
=============================================================================
