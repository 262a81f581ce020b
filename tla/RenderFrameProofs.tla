------------------------- MODULE RenderFrameProofs -------------------------
(***************************************************************************)
(* What a frame reads and what it leaves behind, for two to eight workers  *)
(* (the limits of the code), any number of bones, groups and quads, and    *)
(* every mode of the schedule.                                             *)
(*                                                                         *)
(* None of the properties is inductive: each speaks of one moment, a       *)
(* worker that draws or a call that has returned.  The invariant says what *)
(* each worker has done by the place it has reached: the bones of its      *)
(* share it has computed, whether its flag is up, what its result says     *)
(* about the bones behind it, how far its partitions are written; and what *)
(* the caller knows once they have all come back.  The step from the       *)
(* workers to the whole buffer is the tiling of the layout: the ranges of  *)
(* the tasks cover every quad of a kind, and the sums of quads are         *)
(* recursive functions, so the lemmas about them come first.               *)
(***************************************************************************)
EXTENDS RenderFrame, TaskRangeProofs, FiniteSetTheorems

Spin   == mode = "WorkerReadySpin"
Places == {"out", "update", "publish", "partition", "wait", "draw", "done"}
Later  == {"partition", "wait", "draw", "done"}
Keys   == {0, Invalid} \cup Depths

TypeOK ==
  /\ mode \in Modes /\ fault \in [Bones -> Results] /\ sorted \in BOOLEAN
  /\ early \in {"none", "state", "input", "composition"}
  /\ cpc \in {"idle", "checks", "update", "wake", "fork", "join", "flush"}
  /\ result \in Results /\ status \in {"none", "ok", "error"} /\ scope \in BOOLEAN
  /\ bone_states \in [Bones -> [fresh : BOOLEAN, result : Results]]
  /\ ready_flags \in [Ids -> BOOLEAN]
  /\ out \in [1 .. OpaqueQuads + TranslucentQuads -> {"old", "drawn", "zero"}]
  /\ proxy \in [1 .. TranslucentQuads -> {"old", "drawn", "zero"}]
  /\ keys \in [1 .. TranslucentQuads -> Keys]
  /\ pc \in [Ids -> Places]
  /\ next \in [Ids -> Nat] /\ kind \in [Ids -> 1 .. 5] /\ quad_ptr \in [Ids -> Nat]
  /\ worker_results \in [Ids -> Results]
  /\ ready_mask \in [Ids -> SUBSET Ids]

Share(w) == TaskRange(w, TaskCount, BoneCount)
Updated  == {"wake", "fork", "join", "flush"}

\* The caller: what it has established by the time it gets there.
CallerOK ==
  /\ cpc \in {"update"} \cup Updated => early = "none"
  /\ ~Spin /\ cpc \in Updated =>
       \A b \in Bones : bone_states[b].fresh /\ fault[b] = "Success"
  /\ \A b \in Bones : bone_states[b].fresh => bone_states[b].result = fault[b]

\* Where a worker is: only while Execute runs, and inside its ranges.
PlaceAt(w) ==
  /\ pc[w] # "out" <=> cpc = "join" /\ w \in Active
  /\ pc[w] \in {"update", "publish"} => Spin
  /\ pc[w] = "update" =>
       next[w] \in Split(w, TaskCount, BoneCount) .. Split(w + 1, TaskCount, BoneCount)
  /\ pc[w] \in {"wait", "draw"} => kind[w] \in 1 .. 4 /\ next[w] \in First(w, K(w)) .. End(w, K(w))
  /\ pc[w] = "draw" => next[w] < End(w, K(w))

\* The bones of its share are computed before its flag goes up, and the flag
\* stays up: what another worker has read in its mask is still true.
BonesAt(w) ==
  /\ pc[w] = "update" =>
       \A b \in Split(w, TaskCount, BoneCount) .. next[w] - 1 : bone_states[b].fresh
  /\ pc[w] \in {"publish"} \cup Later => \A b \in Share(w) : bone_states[b].fresh
  /\ Spin /\ cpc \in {"update", "wake", "fork", "join"} /\ ready_flags[w] => pc[w] \in Later
  /\ Spin /\ pc[w] # "out" => \A v \in ready_mask[w] : ready_flags[v]
  /\ Spin /\ pc[w] = "draw" => ready_flags[Owner(BoneOf(w))]

\* A result r that does not hide the failure f.
Covers(r, f) ==
  /\ f = "StateInvalid" => r = "StateInvalid"
  /\ f = "OutputRejected" => r # "Success"

\* Its result is the fault of a bone, and no fault behind it is forgotten.
ResultsAt(w) ==
  /\ pc[w] # "out" /\ worker_results[w] # "Success" =>
       \E b \in Bones : fault[b] = worker_results[w]
  /\ pc[w] = "update" =>
       \A b \in Split(w, TaskCount, BoneCount) .. next[w] - 1 : Covers(worker_results[w], fault[b])
  /\ pc[w] \in {"publish"} \cup Later =>
       \A b \in Share(w) : Covers(worker_results[w], fault[b])
  /\ pc[w] = "done" /\ worker_results[w] = "Success" => kind[w] = 5

\* A quad of the proxy buffer and its depth key are written together.
KeysOK ==
  cpc # "idle" =>
    \A q \in DOMAIN keys : /\ keys[q] = 0 <=> proxy[q] = "old"
                           /\ keys[q] \notin {0, Invalid} => proxy[q] = "drawn"

\* The first n quads of the range of w for kind k.
Written(w, k, n) ==
  \A q \in Offset(w, k) + 1 .. Offset(w, k) + n :
    /\ k \in Opaque /\ q \in DOMAIN out => out[q] # "old"
    /\ k \notin Opaque /\ q \in DOMAIN proxy => proxy[q] # "old"

\* The partitions behind it are written, the one it is in as far as it got.
QuadsAt(w) ==
  pc[w] # "out" =>
    /\ \A i \in 1 .. 4 : i < kind[w] => Written(w, KindOrder[i], Expected(w, KindOrder[i]))
    /\ pc[w] \in {"wait", "draw"} => Written(w, K(w), quad_ptr[w])

WorkerOK(w) == PlaceAt(w) /\ BonesAt(w) /\ ResultsAt(w) /\ QuadsAt(w)
WorkersOK == \A w \in Ids : WorkerOK(w)

\* The caller, when all workers came back with success.
FlushOK ==
  cpc = "flush" =>
    /\ \A b \in Bones : fault[b] = "Success"
    /\ \A q \in DOMAIN out : q <= OpaqueQuads => out[q] # "old"
    /\ \A q \in DOMAIN proxy : proxy[q] # "old"

ReturnOK == SuccessIsComplete /\ OutcomeIsDeterministic /\ FarToNear

IInv == TypeOK /\ CallerOK /\ WorkersOK /\ KeysOK /\ FlushOK /\ ReturnOK

-----------------------------------------------------------------------------
(* Sums of quads, which the model defines as recursive functions.           *)

IsSum(g, k, a, b) ==
  g = [n \in 0 .. b |-> IF n <= a THEN 0 ELSE g[n - 1] + QuadsOf(k, n - 1)]

\* The running sum of a kind exists: each group adds to the one before.
LEMMA SumExists ==
  ASSUME NEW k, NEW a \in Nat
  PROVE  \A b \in Nat : \E g : IsSum(g, k, a, b)
  <1> DEFINE S == {b \in Nat : \E g : IsSum(g, k, a, b)}
  <1>1. 0 \in S
    <2> DEFINE g == [n \in 0 .. 0 |-> 0]
    <2>1. IsSum(g, k, a, 0)
      BY DEF IsSum
    <2> QED
      BY <2>1
  <1>2. ASSUME NEW b \in Nat, b \in S
        PROVE  b + 1 \in S
    <2>1. PICK g : IsSum(g, k, a, b)
      BY <1>2
    <2> DEFINE h == [n \in 0 .. b + 1 |->
                       IF n <= a THEN 0 ELSE g[n - 1] + QuadsOf(k, n - 1)]
    <2>2. \A n \in 0 .. b : h[n] = g[n]
      BY <2>1 DEF IsSum
    <2>3. \A n \in 0 .. b + 1 : h[n] = IF n <= a THEN 0 ELSE h[n - 1] + QuadsOf(k, n - 1)
      <3>1. TAKE n \in 0 .. b + 1
      <3>2. CASE n <= a
        BY <3>1, <3>2
      <3>3. CASE ~(n <= a)
        <4>1. n - 1 \in 0 .. b
          BY <3>1, <3>3
        <4>2. h[n - 1] = g[n - 1]
          BY <2>2, <4>1
        <4>3. h[n] = g[n - 1] + QuadsOf(k, n - 1)
          BY <3>1, <3>3
        <4> HIDE DEF h
        <4> QED
          BY <3>3, <4>2, <4>3
      <3> QED
        BY <3>2, <3>3
    <2>4. IsSum(h, k, a, b + 1)
      BY <2>3 DEF IsSum
    <2> QED
      BY <2>4
  <1> HIDE DEF S
  <1>3. Nat \subseteq S
    BY <1>1, <1>2, SetInduction
  <1> QED
    BY <1>3 DEF S

\* Two running sums agree as far as both go.
LEMMA SumsAgree ==
  ASSUME NEW k, NEW a \in Nat, NEW b \in Nat, NEW c \in Nat, b <= c,
         NEW g, NEW h, IsSum(g, k, a, b), IsSum(h, k, a, c)
  PROVE  \A n \in 0 .. b : g[n] = h[n]
  <1> DEFINE S == {n \in Nat : n <= b => g[n] = h[n]}
  <1>1. 0 \in S
    BY DEF IsSum
  <1>2. ASSUME NEW n \in Nat, n \in S
        PROVE  n + 1 \in S
    <2>1. n + 1 <= b => g[n + 1] = IF n + 1 <= a THEN 0 ELSE g[n] + QuadsOf(k, n)
      BY DEF IsSum
    <2>2. n + 1 <= b => h[n + 1] = IF n + 1 <= a THEN 0 ELSE h[n] + QuadsOf(k, n)
      BY DEF IsSum
    <2> QED
      BY <1>2, <2>1, <2>2
  <1> HIDE DEF S
  <1>3. Nat \subseteq S
    BY <1>1, <1>2, SetInduction
  <1> QED
    BY <1>3 DEF S

\* QuadsFrom is the last value of such a sum.
LEMMA QuadsFromIsSum ==
  ASSUME NEW k, NEW a \in Nat, NEW b \in Nat
  PROVE  \E g : IsSum(g, k, a, b) /\ QuadsFrom(k, a, b) = g[b]
  <1> DEFINE g == CHOOSE f : IsSum(f, k, a, b)
  <1>1. IsSum(g, k, a, b)
    BY SumExists
  <1>2. QuadsFrom(k, a, b) = g[b]
    BY DEF QuadsFrom, IsSum
  <1> QED
    BY <1>1, <1>2

\* How the sum over a range of groups grows with the range.
LEMMA QuadsFromStep ==
  ASSUME NEW k, NEW a \in Nat, NEW b \in Nat
  PROVE  /\ b <= a => QuadsFrom(k, a, b) = 0
         /\ b >= a => QuadsFrom(k, a, b + 1) = QuadsFrom(k, a, b) + QuadsOf(k, b)
  <1>1. PICK g : IsSum(g, k, a, b) /\ QuadsFrom(k, a, b) = g[b]
    BY QuadsFromIsSum
  <1>2. PICK h : IsSum(h, k, a, b + 1) /\ QuadsFrom(k, a, b + 1) = h[b + 1]
    <2>1. b + 1 \in Nat
      OBVIOUS
    <2> QED
      BY <2>1, QuadsFromIsSum
  <1>3. g[b] = h[b]
    <2>1. b + 1 \in Nat /\ b <= b + 1 /\ b \in 0 .. b
      OBVIOUS
    <2> QED
      BY <1>1, <1>2, <2>1, SumsAgree
  <1>4. b <= a => g[b] = 0
    BY <1>1 DEF IsSum
  <1>5. b >= a => h[b + 1] = h[b] + QuadsOf(k, b)
    BY <1>2 DEF IsSum
  <1> QED
    BY <1>1, <1>2, <1>3, <1>4, <1>5

\* An element of a sequence.
LEMMA ElementOfSeq ==
  ASSUME NEW T, NEW s \in Seq(T), NEW j \in 1 .. Len(s)
  PROVE  s[j] \in T
  OBVIOUS

\* What the groups of a kind hold.
LEMMA QuadsOfIsNat ==
  ASSUME NEW k \in Kinds
  PROVE  /\ Len(Groups[k]) \in Nat
         /\ \A i \in 0 .. Len(Groups[k]) - 1 :
              QuadsOf(k, i) \in Nat /\ Groups[k][i + 1].bone \in Bones
  <1>1. Groups[k] \in Seq([bone : Bones, quads : Nat, culled : Nat])
    BY GroupsAssumption
  <1>2. ASSUME NEW i \in 0 .. Len(Groups[k]) - 1
        PROVE  Groups[k][i + 1] \in [bone : Bones, quads : Nat, culled : Nat]
    <2>1. Len(Groups[k]) \in Nat
      BY <1>1
    <2>2. i + 1 \in 1 .. Len(Groups[k])
      BY <2>1
    <2> QED
      BY <1>1, <2>2, ElementOfSeq
  <1>3. ASSUME NEW i \in 0 .. Len(Groups[k]) - 1
        PROVE  QuadsOf(k, i) \in Nat /\ Groups[k][i + 1].bone \in Bones
    BY <1>2 DEF QuadsOf
  <1>4. Len(Groups[k]) \in Nat
    BY <1>1
  <1> QED
    BY <1>3, <1>4

\* A range of groups has a number of quads.
LEMMA QuadsFromIsNat ==
  ASSUME NEW k \in Kinds, NEW a \in Nat, NEW b \in 0 .. Len(Groups[k])
  PROVE  QuadsFrom(k, a, b) \in Nat
  <1> DEFINE S == {n \in Nat : n <= Len(Groups[k]) => QuadsFrom(k, a, n) \in Nat}
  <1>0. Len(Groups[k]) \in Nat
    BY QuadsOfIsNat
  <1>1. 0 \in S
    <2>1. 0 \in Nat /\ 0 <= a
      OBVIOUS
    <2>2. QuadsFrom(k, a, 0) = 0
      BY <2>1, QuadsFromStep
    <2> QED
      BY <2>2
  <1>2. ASSUME NEW n \in Nat, n \in S
        PROVE  n + 1 \in S
    <2> SUFFICES ASSUME n + 1 <= Len(Groups[k]) PROVE QuadsFrom(k, a, n + 1) \in Nat
      OBVIOUS
    <2>1. n \in 0 .. Len(Groups[k]) - 1 /\ QuadsFrom(k, a, n) \in Nat
      BY <1>0, <1>2
    <2>2. QuadsOf(k, n) \in Nat
      BY <2>1, QuadsOfIsNat
    <2>3. CASE n >= a
      BY <2>1, <2>2, <2>3, QuadsFromStep
    <2>4. CASE n + 1 <= a
      <3>1. n + 1 \in Nat
        OBVIOUS
      <3>2. QuadsFrom(k, a, n + 1) = 0
        BY <2>4, <3>1, QuadsFromStep
      <3> QED
        BY <3>2
    <2> QED
      BY <2>3, <2>4
  <1> HIDE DEF S
  <1>3. Nat \subseteq S
    BY <1>1, <1>2, SetInduction
  <1> QED
    BY <1>0, <1>3 DEF S

\* Two ranges that meet add up.
LEMMA QuadsFromAdds ==
  ASSUME NEW k \in Kinds, NEW b \in 0 .. Len(Groups[k]), NEW a \in 0 .. b
  PROVE  QuadsFrom(k, 0, b) = QuadsFrom(k, 0, a) + QuadsFrom(k, a, b)
  <1> DEFINE S == {n \in Nat : a <= n /\ n <= Len(Groups[k]) =>
                     QuadsFrom(k, 0, n) = QuadsFrom(k, 0, a) + QuadsFrom(k, a, n)}
  <1>0. Len(Groups[k]) \in Nat /\ a \in Nat /\ a \in 0 .. Len(Groups[k])
    BY QuadsOfIsNat
  <1>9. QuadsFrom(k, 0, a) \in Nat /\ QuadsFrom(k, a, a) = 0
    <2>1. QuadsFrom(k, 0, a) \in Nat
      BY <1>0, QuadsFromIsNat
    <2>2. a <= a
      BY <1>0
    <2>3. QuadsFrom(k, a, a) = 0
      BY <1>0, <2>2, QuadsFromStep
    <2> QED
      BY <2>1, <2>3
  <1>1. 0 \in S
    <2> SUFFICES ASSUME a <= 0 PROVE QuadsFrom(k, 0, 0) = QuadsFrom(k, 0, a) + QuadsFrom(k, a, 0)
      OBVIOUS
    <2>1. a = 0
      BY <1>0
    <2> QED
      BY <1>9, <2>1
  <1>2. ASSUME NEW n \in Nat, n \in S
        PROVE  n + 1 \in S
    <2> SUFFICES ASSUME a <= n + 1, n + 1 <= Len(Groups[k])
                 PROVE  QuadsFrom(k, 0, n + 1) = QuadsFrom(k, 0, a) + QuadsFrom(k, a, n + 1)
      OBVIOUS
    <2>1. n \in 0 .. Len(Groups[k]) - 1 /\ n \in 0 .. Len(Groups[k])
      BY <1>0
    <2>2. QuadsOf(k, n) \in Nat /\ QuadsFrom(k, a, n) \in Nat /\ QuadsFrom(k, 0, n) \in Nat
      BY <1>0, <2>1, QuadsOfIsNat, QuadsFromIsNat
    <2>3. CASE n >= a
      <3>1. QuadsFrom(k, a, n + 1) = QuadsFrom(k, a, n) + QuadsOf(k, n)
        BY <1>0, <2>3, QuadsFromStep
      <3>2. QuadsFrom(k, 0, n + 1) = QuadsFrom(k, 0, n) + QuadsOf(k, n)
        BY QuadsFromStep
      <3>3. QuadsFrom(k, 0, n) = QuadsFrom(k, 0, a) + QuadsFrom(k, a, n)
        BY <1>0, <1>2, <2>1, <2>3
      <3> QED
        BY <1>9, <2>2, <3>1, <3>2, <3>3
    <2>4. CASE n + 1 = a
      BY <1>9, <2>4
    <2> QED
      BY <1>0, <2>3, <2>4
  <1> HIDE DEF S
  <1>3. Nat \subseteq S
    BY <1>1, <1>2, SetInduction
  <1> QED
    BY <1>0, <1>3 DEF S

-----------------------------------------------------------------------------
(* The layout: the ranges of the tasks tile the buffers.                    *)

\* The four kinds.
LEMMA KindsListed ==
  /\ \A i \in 1 .. 4 : KindOrder[i] \in Kinds
  /\ \A k \in Kinds : \E i \in 1 .. 4 : k = KindOrder[i]
  /\ Kinds = {"cutout", "cutout_no_culling", "translucent", "translucent_culling"}
  BY DEF Kinds, KindOrder

\* The numbers of the schedule.
LEMMA TaskCounts ==
  /\ Workers \in Nat \ {0} /\ BoneCount \in Nat
  /\ TaskCount \in Nat \ {0} /\ TaskCount <= Workers
  /\ Active \subseteq Ids /\ Active = {w \in Nat : w < TaskCount}
  /\ Ids \subseteq Nat
  BY WorkersAssumption, BoneCountAssumption DEF TaskCount, Active, Ids

\* A kind has a number of quads.
LEMMA TotalIsNat ==
  ASSUME NEW k \in Kinds
  PROVE  Total(k) \in Nat
  <1>1. Len(Groups[k]) \in 0 .. Len(Groups[k])
    BY QuadsOfIsNat
  <1> QED
    BY <1>1, QuadsFromIsNat DEF Total

\* So has each buffer.
LEMMA TotalsAreNat == OpaqueQuads \in Nat /\ TranslucentQuads \in Nat
  BY TotalIsNat, KindsListed DEF OpaqueQuads, TranslucentQuads

\* Where the partition of a task lies.
LEMMA TaskEnds ==
  ASSUME NEW w \in Active, NEW k \in Kinds
  PROVE  /\ First(w, k) \in 0 .. Len(Groups[k]) /\ End(w, k) \in 0 .. Len(Groups[k])
         /\ First(w, k) <= End(w, k)
         /\ Expected(w, k) \in Nat /\ Offset(w, k) \in Nat
  <1> DEFINE n == Len(Groups[k])
  <1>1. n \in Nat /\ w \in Nat /\ w + 1 \in Nat /\ w + 1 <= TaskCount /\ w <= TaskCount
    BY TaskCounts, QuadsOfIsNat
  <1> HIDE DEF n
  <1>2. /\ Split(w, TaskCount, n) <= Split(w + 1, TaskCount, n)
        /\ Split(w + 1, TaskCount, n) <= Split(TaskCount, TaskCount, n)
    BY <1>1, TaskCounts, SplitIsMonotone
  <1>3. /\ Split(w, TaskCount, n) \in Nat /\ Split(w + 1, TaskCount, n) \in Nat
        /\ Split(TaskCount, TaskCount, n) = n
    BY <1>1, TaskCounts, SplitIsNat, SplitEnds
  <1>4. /\ First(w, k) \in 0 .. n /\ End(w, k) \in 0 .. n /\ First(w, k) <= End(w, k)
    BY <1>1, <1>2, <1>3 DEF First, End, n
  <1>5. Expected(w, k) \in Nat /\ QuadsFrom(k, 0, First(w, k)) \in Nat
    BY <1>1, <1>4, QuadsFromIsNat DEF Expected, n
  <1>6. Total("cutout") \in Nat /\ Total("translucent") \in Nat
    BY TotalIsNat, KindsListed
  <1>7. Offset(w, k) \in Nat
    BY <1>5, <1>6 DEF Offset
  <1> QED
    BY <1>4, <1>5, <1>7 DEF n

\* Every quad of a kind lies in the range of a task.
LEMMA TasksCoverKind ==
  ASSUME TaskCount \in Nat \ {0}, NEW k \in Kinds, NEW q \in 1 .. Total(k)
  PROVE  \E w \in Active : /\ QuadsFrom(k, 0, First(w, k)) < q
                           /\ q <= QuadsFrom(k, 0, First(w, k)) + Expected(w, k)
  <1> DEFINE n == Len(Groups[k])
             Upto(w) == QuadsFrom(k, 0, Split(w, TaskCount, n))
             Reach == {w \in Nat : w <= TaskCount /\ q <= Upto(w)}
  <1>0. n \in Nat
    BY QuadsOfIsNat
  <1>1. Upto(TaskCount) = Total(k) /\ Upto(0) = 0
    <2>1. Split(TaskCount, TaskCount, n) = n /\ Split(0, TaskCount, n) = 0
      BY <1>0, SplitEnds
    <2>2. QuadsFrom(k, 0, 0) = 0
      BY QuadsFromStep
    <2> QED
      BY <2>1, <2>2 DEF Total
  <1>2. TaskCount \in Reach
    BY <1>1
  <1>3. PICK v \in Reach : \A u \in Reach : v <= u
    <2>1. Reach \subseteq Nat /\ Reach # {}
      BY <1>2
    <2> HIDE DEF Reach
    <2> QED
      BY <2>1, LeastNat
  <1>4. v \in Nat /\ v <= TaskCount /\ q <= Upto(v)
    BY <1>3
  <1>5. v # 0
    BY <1>1, <1>4
  <1> DEFINE w == v - 1
  <1>6. w \in Active /\ w \in Nat /\ w + 1 = v /\ w <= TaskCount /\ w < v
    BY <1>4, <1>5, TaskCounts
  <1>7. w \notin Reach
    BY <1>3, <1>6
  <1>8. Upto(w) = QuadsFrom(k, 0, First(w, k)) /\ Upto(v) = QuadsFrom(k, 0, End(w, k))
    BY <1>6 DEF First, End
  <1>9. First(w, k) \in 0 .. End(w, k) /\ End(w, k) \in 0 .. n /\ First(w, k) \in 0 .. n
    BY <1>0, <1>6, TaskEnds
  <1>10. Upto(v) = Upto(w) + Expected(w, k) /\ Upto(w) \in Nat
    <2>1. QuadsFrom(k, 0, End(w, k)) = QuadsFrom(k, 0, First(w, k)) + Expected(w, k)
      BY <1>9, QuadsFromAdds DEF Expected
    <2>2. QuadsFrom(k, 0, First(w, k)) \in Nat
      BY <1>9, QuadsFromIsNat
    <2> QED
      BY <1>8, <2>1, <2>2
  <1>11. Upto(w) < q
    BY <1>6, <1>7, <1>10
  <1> QED
    BY <1>4, <1>6, <1>8, <1>10, <1>11

\* When every task has written its partitions, the buffers are full.
LEMMA TasksCoverBuffers ==
  ASSUME TypeOK,
         \A w \in Active, i \in 1 .. 4 : Written(w, KindOrder[i], Expected(w, KindOrder[i]))
  PROVE  /\ \A q \in DOMAIN out : q <= OpaqueQuads => out[q] # "old"
         /\ \A q \in DOMAIN proxy : proxy[q] # "old"
  <1>1. \A k \in Kinds : Total(k) \in Nat
    BY TotalIsNat
  <1> DEFINE Base(k) == CASE k = "cutout_no_culling" -> Total("cutout")
                          [] k = "translucent_culling" -> Total("translucent")
                          [] OTHER -> 0
  <1>2. ASSUME NEW k \in Kinds, NEW p \in 1 .. Total(k)
        PROVE  /\ k \in Opaque /\ Base(k) + p \in DOMAIN out => out[Base(k) + p] # "old"
               /\ k \notin Opaque /\ Base(k) + p \in DOMAIN proxy => proxy[Base(k) + p] # "old"
    <2>1. TaskCount \in Nat \ {0}
      BY TaskCounts
    <2>2. PICK w \in Active : /\ QuadsFrom(k, 0, First(w, k)) < p
                              /\ p <= QuadsFrom(k, 0, First(w, k)) + Expected(w, k)
      BY <2>1, TasksCoverKind
    <2>3. PICK i \in 1 .. 4 : k = KindOrder[i]
      BY KindsListed
    <2>4. Written(w, k, Expected(w, k))
      BY <2>3
    <2>5. Offset(w, k) = QuadsFrom(k, 0, First(w, k)) + Base(k)
      BY DEF Offset
    <2>6. /\ First(w, k) \in 0 .. Len(Groups[k]) /\ Expected(w, k) \in Nat
          /\ QuadsFrom(k, 0, First(w, k)) \in Nat
      BY TaskEnds, QuadsFromIsNat
    <2>7. Base(k) \in Nat
      BY <1>1, KindsListed
    <2> HIDE DEF Base
    <2>8. Base(k) + p \in Offset(w, k) + 1 .. Offset(w, k) + Expected(w, k)
      BY <1>1, <2>2, <2>5, <2>6, <2>7
    <2> QED
      BY <2>4, <2>8 DEF Written
  <1>3. ASSUME NEW q \in DOMAIN out, q <= OpaqueQuads
        PROVE  out[q] # "old"
    <2>1. q \in Nat /\ q >= 1 /\ q <= Total("cutout") + Total("cutout_no_culling")
      BY <1>3 DEF TypeOK, OpaqueQuads
    <2>2. CASE q <= Total("cutout")
      <3>1. "cutout" \in Kinds /\ "cutout" \in Opaque /\ Base("cutout") = 0
        BY KindsListed DEF Opaque
      <3>2. q \in 1 .. Total("cutout") /\ Base("cutout") + q = q
        BY <1>1, <2>1, <2>2, <3>1
      <3> QED
        BY <1>2, <3>1, <3>2
    <2>3. CASE q > Total("cutout")
      <3> DEFINE p == q - Total("cutout")
      <3>1. /\ "cutout_no_culling" \in Kinds /\ "cutout_no_culling" \in Opaque
            /\ Base("cutout_no_culling") = Total("cutout") /\ Total("cutout") \in Nat
            /\ Total("cutout_no_culling") \in Nat
        BY <1>1, KindsListed DEF Opaque
      <3>2. p \in 1 .. Total("cutout_no_culling") /\ Total("cutout") + p = q
        BY <2>1, <2>3, <3>1
      <3> QED
        BY <1>2, <3>1, <3>2
    <2> QED
      BY <1>1, <2>1, <2>2, <2>3, KindsListed
  <1>4. ASSUME NEW q \in DOMAIN proxy
        PROVE  proxy[q] # "old"
    <2>1. q \in Nat /\ q >= 1 /\ q <= Total("translucent") + Total("translucent_culling")
      BY <1>1, <1>4, KindsListed DEF TypeOK, TranslucentQuads
    <2>2. CASE q <= Total("translucent")
      <3>1. "translucent" \in Kinds /\ "translucent" \notin Opaque /\ Base("translucent") = 0
        BY KindsListed DEF Opaque
      <3>2. q \in 1 .. Total("translucent") /\ Base("translucent") + q = q
        BY <1>1, <2>1, <2>2, <3>1
      <3> QED
        BY <1>2, <1>4, <3>1, <3>2
    <2>3. CASE q > Total("translucent")
      <3> DEFINE p == q - Total("translucent")
      <3>1. /\ "translucent_culling" \in Kinds /\ "translucent_culling" \notin Opaque
            /\ Base("translucent_culling") = Total("translucent") /\ Total("translucent") \in Nat
            /\ Total("translucent_culling") \in Nat
        BY <1>1, KindsListed DEF Opaque
      <3>2. p \in 1 .. Total("translucent_culling") /\ Total("translucent") + p = q
        BY <2>1, <2>3, <3>1
      <3> QED
        BY <1>2, <1>4, <3>1, <3>2
    <2> QED
      BY <1>1, <2>1, <2>2, <2>3, KindsListed
  <1> QED
    BY <1>3, <1>4

-----------------------------------------------------------------------------
(* The order of the translucent quads.                                     *)

Before(q) == {p \in DOMAIN keys : keys[p] < keys[q] \/ (keys[p] = keys[q] /\ p < q)}

\* Ranks are places, and a quad that goes before another has a lower one.
LEMMA RanksOrdered ==
  ASSUME NEW n \in Nat, keys \in [1 .. n -> Int]
  PROVE  /\ \A q \in 1 .. n : Rank(q) \in 1 .. n
         /\ \A p, q \in 1 .. n : p \in Before(q) => Rank(p) < Rank(q)
         /\ \A p, q \in 1 .. n : p = q \/ p \in Before(q) \/ q \in Before(p)
  <1>0. \A q : Rank(q) = Cardinality(Before(q)) + 1
    BY DEF Rank, Before
  <1>1. IsFiniteSet(1 .. n) /\ Cardinality(1 .. n) = n
    BY FS_Interval
  <1>2. \A q \in 1 .. n : Before(q) \subseteq (1 .. n) \ {q}
    BY DEF Before
  <1>3. ASSUME NEW q \in 1 .. n
        PROVE  /\ IsFiniteSet(Before(q)) /\ Cardinality(Before(q)) \in Nat
               /\ Cardinality(Before(q)) <= n - 1
    <2>1. IsFiniteSet((1 .. n) \ {q}) /\ Cardinality((1 .. n) \ {q}) = n - 1
      BY <1>1, FS_RemoveElement
    <2> QED
      BY <1>2, <2>1, FS_Subset, FS_CardinalityType
  <1>4. ASSUME NEW p \in 1 .. n, NEW q \in 1 .. n, p \in Before(q)
        PROVE  Rank(p) < Rank(q)
    <2>1. Before(p) \subseteq Before(q) \ {p}
      BY <1>4 DEF Before
    <2>2. IsFiniteSet(Before(q) \ {p}) /\ Cardinality(Before(q) \ {p}) = Cardinality(Before(q)) - 1
      BY <1>3, <1>4, FS_RemoveElement
    <2>3. Cardinality(Before(p)) <= Cardinality(Before(q)) - 1
      BY <2>1, <2>2, FS_Subset
    <2>4. Cardinality(Before(p)) \in Nat /\ Cardinality(Before(q)) \in Nat
      BY <1>3
    <2> QED
      BY <1>0, <2>3, <2>4
  <1>5. ASSUME NEW q \in 1 .. n
        PROVE  Rank(q) \in 1 .. n
    <2> DEFINE c == Cardinality(Before(q))
    <2>1. c \in Nat /\ c <= n - 1
      BY <1>3
    <2>2. Rank(q) = c + 1
      BY <1>0
    <2> HIDE DEF c
    <2> QED
      BY <2>1, <2>2
  <1>6. ASSUME NEW p \in 1 .. n, NEW q \in 1 .. n, p # q
        PROVE  p \in Before(q) \/ q \in Before(p)
    BY <1>6 DEF Before
  <1> QED
    BY <1>4, <1>5, <1>6

\* Sorting moves every quad to a place of its own and leaves none empty.
LEMMA PlacesFilled ==
  ASSUME NEW n \in Nat, keys \in [1 .. n -> Int]
  PROVE  \A i \in 1 .. n : \E q \in 1 .. n : Place(q) = i
  <1> DEFINE f == [q \in 1 .. n |-> Place(q)]
  <1>1. f \in [1 .. n -> 1 .. n]
    BY RanksOrdered DEF Place
  <1>2. \A p, q \in 1 .. n : f[p] = f[q] => p = q
    <2>1. ASSUME NEW p \in 1 .. n, NEW q \in 1 .. n, p # q
          PROVE  Rank(p) # Rank(q)
      <3>1. Rank(p) \in 1 .. n /\ Rank(q) \in 1 .. n
        BY RanksOrdered
      <3>2. Rank(p) < Rank(q) \/ Rank(q) < Rank(p)
        BY <2>1, RanksOrdered
      <3> QED
        BY <3>1, <3>2
    <2> QED
      BY <2>1 DEF Place
  <1> HIDE DEF f
  <1>3. f \in Injection(1 .. n, 1 .. n)
    BY <1>1, <1>2 DEF Injection, IsInjective
  <1>4. IsFiniteSet(1 .. n)
    BY FS_Interval
  <1>5. f \in Surjection(1 .. n, 1 .. n)
    BY <1>3, <1>4, FS_Injection
  <1>6. \A i \in 1 .. n : \E q \in 1 .. n : f[q] = i
    BY <1>5 DEF Surjection
  <1> QED
    BY <1>6 DEF f

-----------------------------------------------------------------------------
(* What steps leave alone.                                                 *)

\* The layout depends on the mode of the call alone.
LEMMA LayoutKept ==
  ASSUME mode' = mode
  PROVE  /\ TaskCount' = TaskCount /\ Active' = Active /\ (Spin <=> Spin')
         /\ \A w, k : /\ First(w, k)' = First(w, k) /\ End(w, k)' = End(w, k)
                      /\ Expected(w, k)' = Expected(w, k) /\ Offset(w, k)' = Offset(w, k)
         /\ \A b : Owner(b)' = Owner(b)
         /\ \A w : Share(w)' = Share(w)
  BY DEF TaskCount, Active, Spin, First, End, Expected, Offset, Owner, Share

\* What is written stays written while the buffers stay.
LEMMA WrittenKept ==
  ASSUME mode' = mode, out' = out, proxy' = proxy
  PROVE  \A w, k, n : Written(w, k, n) <=> Written(w, k, n)'
  BY LayoutKept DEF Written

\* The share of a worker is a range of the visible bones.
LEMMA SharesInBones ==
  ASSUME NEW w \in Active
  PROVE  /\ Split(w, TaskCount, BoneCount) \in Nat
         /\ Split(w + 1, TaskCount, BoneCount) \in Nat
         /\ Split(w, TaskCount, BoneCount) <= Split(w + 1, TaskCount, BoneCount)
         /\ Split(w + 1, TaskCount, BoneCount) <= BoneCount
         /\ Share(w) \subseteq Bones
  <1>1. w \in Nat /\ w + 1 \in Nat /\ w + 1 <= TaskCount /\ w <= w + 1
    BY TaskCounts
  <1>2. Split(w, TaskCount, BoneCount) \in Nat /\ Split(w + 1, TaskCount, BoneCount) \in Nat
    BY <1>1, TaskCounts, SplitIsNat
  <1>3. /\ Split(w, TaskCount, BoneCount) <= Split(w + 1, TaskCount, BoneCount)
        /\ Split(w + 1, TaskCount, BoneCount) <= Split(TaskCount, TaskCount, BoneCount)
    BY <1>1, TaskCounts, SplitIsMonotone
  <1>4. Split(TaskCount, TaskCount, BoneCount) = BoneCount
    BY TaskCounts, SplitEnds
  <1> QED
    BY <1>2, <1>3, <1>4, TaskCounts DEF Share, TaskRange, Bones

\* Every visible bone is in the share of a worker.
LEMMA SharesCover ==
  ASSUME NEW b \in Bones
  PROVE  \E w \in Active : b \in Share(w)
  <1>1. \E w \in 0 .. TaskCount - 1 : b \in TaskRange(w, TaskCount, BoneCount)
    BY TaskCounts, RangesCover DEF Bones
  <1> QED
    BY <1>1 DEF Active, Share

\* Its owner is that worker.
LEMMA OwnerOfShare ==
  ASSUME NEW b \in Bones
  PROVE  Owner(b) \in Active /\ b \in Share(Owner(b))
  BY SharesCover DEF Owner, Share

\* An update succeeds when every bone does.
LEMMA AllFine ==
  ASSUME fault \in [Bones -> Results]
  PROVE  UpdateResult(Bones) = "Success" <=> \A b \in Bones : fault[b] = "Success"
  BY DEF UpdateResult, Results

-----------------------------------------------------------------------------
\* The invariant holds at first.
LEMMA InitIInv == Init => IInv
  <1> SUFFICES ASSUME Init PROVE IInv
    OBVIOUS
  <1>1. TypeOK
    <2>1. /\ mode \in Modes /\ fault \in [Bones -> Results] /\ sorted \in BOOLEAN
          /\ bone_states \in [Bones -> [fresh : BOOLEAN, result : Results]]
      BY DEF Init, Modes, Results
    <2>2. /\ ready_flags \in [Ids -> BOOLEAN] /\ pc \in [Ids -> Places]
          /\ next \in [Ids -> Nat] /\ kind \in [Ids -> 1 .. 5] /\ quad_ptr \in [Ids -> Nat]
          /\ worker_results \in [Ids -> Results] /\ ready_mask \in [Ids -> SUBSET Ids]
      BY DEF Init, Results, Places
    <2>3. /\ out \in [1 .. OpaqueQuads + TranslucentQuads -> {"old", "drawn", "zero"}]
          /\ proxy \in [1 .. TranslucentQuads -> {"old", "drawn", "zero"}]
          /\ keys \in [1 .. TranslucentQuads -> Keys]
      BY DEF Init, Keys
    <2>4. /\ result \in Results /\ early = "none" /\ cpc = "idle" /\ status = "none"
          /\ scope = FALSE
      BY DEF Init, Results
    <2> QED
      BY <2>1, <2>2, <2>3, <2>4 DEF TypeOK
  <1>2. CallerOK /\ KeysOK /\ FlushOK
    BY DEF Init, CallerOK, KeysOK, FlushOK, Updated
  <1>3. ReturnOK
    BY DEF Init, ReturnOK, SuccessIsComplete, OutcomeIsDeterministic, FarToNear, Returned
  <1>4. WorkersOK
    BY DEF Init, WorkersOK, WorkerOK, PlaceAt, BonesAt, ResultsAt, QuadsAt, Later
  <1> QED
    BY <1>1, <1>2, <1>3, <1>4 DEF IInv

\* Outside Execute no worker is anywhere.
LEMMA NobodyWorks ==
  ASSUME WorkersOK, cpc # "join"
  PROVE  \A w \in Ids : pc[w] = "out"
  BY DEF WorkersOK, WorkerOK, PlaceAt

\* Nothing about the workers changes while they are not running.
LEMMA QuietWorkers ==
  ASSUME WorkersOK, cpc # "join", cpc' # "join", UNCHANGED pc,
         Spin' /\ cpc' \in {"update", "wake", "fork"} => \A w \in Ids : ~ready_flags'[w]
  PROVE  WorkersOK'
  <1> SUFFICES ASSUME NEW w \in Ids PROVE WorkerOK(w)'
    BY DEF WorkersOK
  <1>1. pc'[w] = "out"
    BY NobodyWorks
  <1> QED
    BY <1>1 DEF WorkerOK, PlaceAt, BonesAt, ResultsAt, QuadsAt, Later

\* A call begins.
LEMMA RenderKeeps ==
  ASSUME IInv, NEW m \in Modes, NEW f \in [Bones -> Results], NEW s \in BOOLEAN,
         NEW e \in {"none", "state", "input", "composition"}, Render(m, f, e, s)
  PROVE  IInv'
  <1> USE DEF Render
  <1>1. TypeOK'
    <2>1. /\ out' \in [1 .. OpaqueQuads + TranslucentQuads -> {"old", "drawn", "zero"}]
          /\ proxy' \in [1 .. TranslucentQuads -> {"old", "drawn", "zero"}]
          /\ keys' \in [1 .. TranslucentQuads -> Keys]
      BY DEF IInv, TypeOK, Keys
    <2>2. /\ bone_states' \in [Bones -> [fresh : BOOLEAN, result : Results]]
          /\ ready_flags' \in [Ids -> BOOLEAN]
      BY DEF IInv, TypeOK
    <2> QED
      BY <2>1, <2>2 DEF IInv, TypeOK, worker, Results
  <1>2. CallerOK' /\ FlushOK'
    BY DEF IInv, TypeOK, CallerOK, FlushOK, Updated
  <1>3. KeysOK'
    BY DEF IInv, TypeOK, KeysOK
  <1>4. ReturnOK'
    BY DEF ReturnOK, SuccessIsComplete, OutcomeIsDeterministic, FarToNear, Returned
  <1>5. WorkersOK'
    <2>1. cpc # "join" /\ cpc' = "checks" /\ UNCHANGED pc
      BY DEF worker
    <2> QED
      BY <2>1, QuietWorkers DEF IInv
  <1> QED
    BY <1>1, <1>2, <1>3, <1>4, <1>5 DEF IInv

\* A return that is no success is an answer the input alone decides.
LEMMA ErrorReturns ==
  ASSUME NEW r \in {"StateInvalid", "OutputRejected"}, Return(r), UNCHANGED call,
         r = CASE early = "state" -> "StateInvalid"
               [] early \in {"input", "composition"} -> "OutputRejected"
               [] OTHER -> UpdateResult(Bones)
  PROVE  ReturnOK'
  BY DEF Return, call, ReturnOK, SuccessIsComplete, OutcomeIsDeterministic, FarToNear, Returned,
         UpdateResult

\* A check rejects the call.
LEMMA RejectCallKeeps ==
  ASSUME IInv, RejectCall
  PROVE  IInv'
  <1> USE DEF RejectCall
  <1>1. TypeOK'
    BY DEF IInv, TypeOK, worker, call, buffers, Return, Results
  <1>2. CallerOK' /\ FlushOK' /\ KeysOK'
    BY DEF IInv, CallerOK, FlushOK, KeysOK, Updated, Return, call, Spin
  <1>3. ReturnOK'
    BY ErrorReturns
  <1>4. WorkersOK'
    BY QuietWorkers DEF IInv, Return, worker
  <1> QED
    BY <1>1, <1>2, <1>3, <1>4 DEF IInv

\* UpdateCommon, which clears the flags of an earlier frame.
LEMMA UpdateCommonKeeps ==
  ASSUME IInv, UpdateCommon
  PROVE  IInv'
  <1> USE DEF UpdateCommon
  <1>1. TypeOK'
    BY DEF IInv, TypeOK, worker, call, buffers, Return, Results, ClearedFlags
  <1>2. CallerOK' /\ FlushOK' /\ KeysOK'
    BY DEF IInv, TypeOK, CallerOK, FlushOK, KeysOK, Updated, Return, call, buffers, Spin
  <1>3. ReturnOK'
    <2>1. CASE early = "composition"
      BY <2>1, ErrorReturns
    <2>2. CASE early # "composition"
      BY <2>2 DEF ReturnOK, SuccessIsComplete, OutcomeIsDeterministic, FarToNear, Returned
    <2> QED
      BY <2>1, <2>2
  <1>4. WorkersOK'
    <2>1. cpc # "join" /\ cpc' # "join" /\ UNCHANGED pc
      BY DEF Return, worker
    <2>2. Spin' => \A w \in Ids : ~ready_flags'[w]
      BY DEF Spin, ClearedFlags, call
    <2> QED
      BY <2>1, <2>2, QuietWorkers DEF IInv
  <1> QED
    BY <1>1, <1>2, <1>3, <1>4 DEF IInv

\* The caller updates every bone itself.
LEMMA SerialUpdateKeeps ==
  ASSUME IInv, SerialUpdate
  PROVE  IInv'
  <1> USE DEF SerialUpdate
  <1>0. UpdateResult(Bones) \in Results
    BY DEF UpdateResult, Results
  <1>1. TypeOK'
    BY <1>0 DEF IInv, TypeOK, worker, call, buffers, Return, FreshBone
  <1>2. CallerOK'
    <2>1. \A b \in Bones : bone_states'[b].fresh /\ bone_states'[b].result = fault[b]
      BY DEF FreshBone
    <2>2. cpc' \in Updated => \A b \in Bones : fault[b] = "Success"
      BY AllFine DEF IInv, TypeOK, Updated, Return
    <2>3. UNCHANGED <<fault, mode, early>> /\ early = "none"
      BY DEF call, IInv, CallerOK
    <2> QED
      BY <2>1, <2>2, <2>3 DEF CallerOK
  <1>3. FlushOK' /\ KeysOK'
    BY DEF IInv, TypeOK, FlushOK, KeysOK, Return, buffers
  <1>4. ReturnOK'
    <2>1. CASE UpdateResult(Bones) = "Success"
      BY <2>1 DEF ReturnOK, SuccessIsComplete, OutcomeIsDeterministic, FarToNear, Returned
    <2>2. CASE UpdateResult(Bones) # "Success"
      <3>1. early = "none"
        BY DEF IInv, CallerOK
      <3>2. UpdateResult(Bones) \in {"StateInvalid", "OutputRejected"}
        BY <1>0, <2>2 DEF Results
      <3> QED
        BY <2>2, <3>1, <3>2, ErrorReturns
    <2> QED
      BY <2>1, <2>2
  <1>5. WorkersOK'
    BY QuietWorkers DEF IInv, Return, worker, Spin, call
  <1> QED
    BY <1>1, <1>2, <1>3, <1>4, <1>5 DEF IInv

\* The caller leaves the update to the workers.
LEMMA SkipUpdateKeeps ==
  ASSUME IInv, SkipUpdate
  PROVE  IInv'
  <1> USE DEF SkipUpdate
  <1>1. TypeOK'
    BY DEF IInv, TypeOK, worker, call, buffers
  <1>2. CallerOK' /\ FlushOK' /\ KeysOK'
    BY DEF IInv, CallerOK, FlushOK, KeysOK, Updated, call, buffers, Spin
  <1>3. ReturnOK'
    BY DEF ReturnOK, SuccessIsComplete, OutcomeIsDeterministic, FarToNear, Returned
  <1>4. WorkersOK'
    <2>1. \A w \in Ids : ~ready_flags[w]
      BY NobodyWorks DEF IInv, WorkersOK, WorkerOK, BonesAt, Spin, Later
    <2> QED
      BY <2>1, QuietWorkers DEF IInv, worker
  <1> QED
    BY <1>1, <1>2, <1>3, <1>4 DEF IInv

\* The executor is woken if it was not.
LEMMA LateWakeKeeps ==
  ASSUME IInv, LateWake
  PROVE  IInv'
  <1> USE DEF LateWake
  <1>1. TypeOK'
    BY DEF IInv, TypeOK, worker, call, buffers, NeedsScope
  <1>2. CallerOK' /\ FlushOK' /\ KeysOK'
    BY DEF IInv, CallerOK, FlushOK, KeysOK, Updated, call, buffers, Spin
  <1>3. ReturnOK'
    BY DEF ReturnOK, SuccessIsComplete, OutcomeIsDeterministic, FarToNear, Returned
  <1>4. WorkersOK'
    <2>1. Spin => \A w \in Ids : ~ready_flags[w]
      BY NobodyWorks DEF IInv, WorkersOK, WorkerOK, BonesAt, Later
    <2> QED
      BY <2>1, QuietWorkers DEF IInv, worker, call, Spin
  <1> QED
    BY <1>1, <1>2, <1>3, <1>4 DEF IInv

\* Execute starts every worker.
LEMMA ForkKeeps ==
  ASSUME IInv, Fork
  PROVE  IInv'
  <1> USE DEF Fork
  <1>0. mode' = mode
    BY DEF call
  <1>1. TypeOK'
    <2>1. \A w \in Active : Split(w, TaskCount, BoneCount) \in Nat
      BY SharesInBones
    <2>2. next' \in [Ids -> Nat]
      BY <2>1
    <2>3. pc' \in [Ids -> Places] /\ kind' \in [Ids -> 1 .. 5] /\ quad_ptr' \in [Ids -> Nat]
      BY DEF Places
    <2>4. worker_results' \in [Ids -> Results] /\ ready_mask' \in [Ids -> SUBSET Ids]
      BY DEF Results
    <2>5. /\ UNCHANGED <<mode, fault, early, sorted, result, status, scope, bone_states>>
          /\ UNCHANGED <<ready_flags, out, proxy, keys>>
      BY DEF call, buffers
    <2> QED
      BY <2>2, <2>3, <2>4, <2>5 DEF IInv, TypeOK
  <1>2. CallerOK' /\ FlushOK' /\ KeysOK'
    BY DEF IInv, CallerOK, FlushOK, KeysOK, Updated, call, buffers, Spin
  <1>3. ReturnOK'
    BY DEF ReturnOK, SuccessIsComplete, OutcomeIsDeterministic, FarToNear, Returned
  <1>4. ASSUME NEW w \in Ids
        PROVE  WorkerOK(w)'
    <2>1. CASE w \notin Active
      <3>1. pc'[w] = "out" /\ w \notin Active' /\ ~(Spin /\ ready_flags[w])
        BY <1>0, <2>1, LayoutKept, NobodyWorks
           DEF IInv, WorkersOK, WorkerOK, BonesAt, Later
      <3> QED
        BY <1>0, <3>1, LayoutKept DEF WorkerOK, PlaceAt, BonesAt, ResultsAt, QuadsAt, Later
    <2>2. CASE w \in Active
      <3>1. /\ pc'[w] = IF Spin THEN "update" ELSE "partition"
            /\ next'[w] = Split(w, TaskCount, BoneCount) /\ kind'[w] = 1
            /\ worker_results'[w] = "Success" /\ ready_mask'[w] = {}
        BY <2>2 DEF Spin
      <3>2. Spin => ~ready_flags[w]
        BY NobodyWorks DEF IInv, WorkersOK, WorkerOK, BonesAt, Later
      <3>3. Split(w, TaskCount, BoneCount) .. Split(w, TaskCount, BoneCount) - 1 = {}
        BY <2>2, SharesInBones
      <3>4. ~Spin => \A b \in Bones : bone_states[b].fresh /\ fault[b] = "Success"
        BY DEF IInv, CallerOK, Updated
      <3>5. UNCHANGED <<mode, fault, bone_states, ready_flags>> /\ cpc' = "join"
        BY DEF call
      <3>6. PlaceAt(w)'
        BY <1>0, <2>2, <3>1, LayoutKept, SharesInBones DEF PlaceAt
      <3>7. BonesAt(w)'
        BY <1>0, <2>2, <3>1, <3>2, <3>3, <3>4, <3>5, LayoutKept, SharesInBones DEF BonesAt, Later
      <3>8. ResultsAt(w)'
        BY <1>0, <2>2, <3>1, <3>3, <3>4, <3>5, LayoutKept, SharesInBones DEF ResultsAt, Later, Covers
      <3>9. QuadsAt(w)'
        BY <3>1 DEF QuadsAt
      <3> QED
        BY <3>6, <3>7, <3>8, <3>9 DEF WorkerOK
    <2> QED
      BY <2>1, <2>2
  <1> QED
    BY <1>1, <1>2, <1>3, <1>4 DEF IInv, WorkersOK

-----------------------------------------------------------------------------
(* What Join makes of the workers' results.                                *)

IsMerge(g, n) ==
  g = [i \in 0 .. n |-> IF i = 0 THEN "Success" ELSE MergeRenderResult(g[i - 1], worker_results[i - 1])]

\* Results merged one after the other.
LEMMA MergeExists == \A n \in Nat : \E g : IsMerge(g, n)
  <1> DEFINE S == {n \in Nat : \E g : IsMerge(g, n)}
  <1>1. 0 \in S
    <2> DEFINE g == [i \in 0 .. 0 |-> "Success"]
    <2>1. IsMerge(g, 0)
      BY DEF IsMerge
    <2> QED
      BY <2>1
  <1>2. ASSUME NEW n \in Nat, n \in S
        PROVE  n + 1 \in S
    <2>1. PICK g : IsMerge(g, n)
      BY <1>2
    <2> DEFINE h == [i \in 0 .. n + 1 |-> IF i = 0 THEN "Success"
                                          ELSE MergeRenderResult(g[i - 1], worker_results[i - 1])]
    <2>2. \A i \in 0 .. n : h[i] = g[i]
      BY <2>1 DEF IsMerge
    <2>3. ASSUME NEW i \in 0 .. n + 1
          PROVE  h[i] = IF i = 0 THEN "Success"
                        ELSE MergeRenderResult(h[i - 1], worker_results[i - 1])
      <3>1. CASE i = 0
        BY <3>1
      <3>2. CASE i # 0
        <4>1. i - 1 \in 0 .. n
          BY <3>2
        <4>2. h[i - 1] = g[i - 1]
          BY <2>2, <4>1
        <4>3. h[i] = MergeRenderResult(g[i - 1], worker_results[i - 1])
          BY <3>2
        <4> HIDE DEF h
        <4> QED
          BY <3>2, <4>2, <4>3
      <3> QED
        BY <3>1, <3>2
    <2>4. IsMerge(h, n + 1)
      BY <2>3 DEF IsMerge
    <2> QED
      BY <2>4
  <1> HIDE DEF S
  <1>3. Nat \subseteq S
    BY <1>1, <1>2, SetInduction
  <1> QED
    BY <1>3 DEF S

\* The worst of the workers' results, whatever their order.
LEMMA MergedIsWorst ==
  ASSUME TypeOK
  PROVE  /\ Merged \in Results
         /\ Merged = "StateInvalid" <=> \E w \in Active : worker_results[w] = "StateInvalid"
         /\ Merged = "Success" <=> \A w \in Active : worker_results[w] = "Success"
  <1>0. TaskCount \in Nat /\ Active = {w \in Nat : w < TaskCount} /\ Active \subseteq Ids
    BY TaskCounts
  <1> DEFINE g == CHOOSE f : IsMerge(f, TaskCount)
  <1>1. IsMerge(g, TaskCount)
    BY <1>0, MergeExists
  <1>2. Merged = g[TaskCount]
    BY DEF Merged, IsMerge
  <1> HIDE DEF g
  <1> DEFINE S == {n \in Nat : n <= TaskCount =>
       /\ g[n] \in Results
       /\ g[n] = "StateInvalid" <=> \E w \in 0 .. n - 1 : worker_results[w] = "StateInvalid"
       /\ g[n] = "Success" <=> \A w \in 0 .. n - 1 : worker_results[w] = "Success"}
  <1>3. 0 \in S
    <2>1. g[0] = "Success"
      BY <1>0, <1>1 DEF IsMerge
    <2> QED
      BY <2>1 DEF Results
  <1>4. ASSUME NEW n \in Nat, n \in S
        PROVE  n + 1 \in S
    <2> SUFFICES ASSUME n + 1 <= TaskCount
                 PROVE  /\ g[n + 1] \in Results
                        /\ g[n + 1] = "StateInvalid" <=>
                             \E w \in 0 .. n : worker_results[w] = "StateInvalid"
                        /\ g[n + 1] = "Success" <=> \A w \in 0 .. n : worker_results[w] = "Success"
      OBVIOUS
    <2>1. g[n + 1] = MergeRenderResult(g[n], worker_results[n])
      BY <1>0, <1>1 DEF IsMerge
    <2>2. worker_results[n] \in Results
      BY <1>0 DEF TypeOK
    <2>3. /\ g[n] \in Results
          /\ g[n] = "StateInvalid" <=> \E w \in 0 .. n - 1 : worker_results[w] = "StateInvalid"
          /\ g[n] = "Success" <=> \A w \in 0 .. n - 1 : worker_results[w] = "Success"
      BY <1>0, <1>4
    <2>4. 0 .. n = (0 .. n - 1) \cup {n}
      OBVIOUS
    <2>5. /\ g[n + 1] \in Results
          /\ g[n + 1] = "StateInvalid" <=>
               g[n] = "StateInvalid" \/ worker_results[n] = "StateInvalid"
          /\ g[n + 1] = "Success" <=> g[n] = "Success" /\ worker_results[n] = "Success"
      BY <2>1, <2>2, <2>3 DEF MergeRenderResult, Results
    <2> QED
      BY <2>3, <2>4, <2>5
  <1> HIDE DEF S
  <1>5. TaskCount \in S
    BY <1>0, <1>3, <1>4, SetInduction
  <1>6. 0 .. TaskCount - 1 = Active
    BY DEF Active
  <1> QED
    BY <1>0, <1>2, <1>5, <1>6 DEF S

\* Execute returns: the results decide, and success means that all is written.
LEMMA JoinKeeps ==
  ASSUME IInv, Join
  PROVE  IInv'
  <1> USE DEF Join
  <1>0. /\ mode' = mode /\ Active \subseteq Ids /\ Merged \in Results /\ early = "none"
        /\ fault \in [Bones -> Results] /\ TypeOK
    BY TaskCounts, MergedIsWorst DEF call, IInv, TypeOK, CallerOK, Updated
  <1>1. TypeOK'
    <2>1. pc' \in [Ids -> Places] /\ kind' \in [Ids -> 1 .. 5] /\ quad_ptr' \in [Ids -> Nat]
      BY DEF Places
    <2>2. worker_results' \in [Ids -> Results] /\ ready_mask' \in [Ids -> SUBSET Ids]
      BY DEF Results
    <2>3. UNCHANGED <<mode, fault, early, sorted, bone_states, ready_flags, out, proxy, keys>>
      BY DEF call, buffers
    <2>4. /\ cpc' \in {"idle", "flush"} /\ result' \in Results /\ status' \in {"none", "ok", "error"}
          /\ scope' \in BOOLEAN
      BY <1>0 DEF Return, TypeOK, Results
    <2> QED
      BY <1>0, <2>1, <2>2, <2>3, <2>4 DEF TypeOK
  <1>2. CallerOK' /\ KeysOK'
    BY DEF IInv, CallerOK, KeysOK, Updated, call, buffers, Spin, Return
  <1>3. \A w \in Active : WorkerOK(w) /\ pc[w] = "done"
    BY <1>0 DEF IInv, WorkersOK
  <1>4. \A b \in Bones : \E w \in Active : Covers(worker_results[w], fault[b])
    BY <1>3, SharesCover DEF WorkerOK, ResultsAt, Later
  <1>5. \A w \in Active : worker_results[w] # "Success" =>
          \E b \in Bones : fault[b] = worker_results[w]
    BY <1>3 DEF WorkerOK, ResultsAt
  <1>6. Merged = UpdateResult(Bones)
    <2>1. CASE Merged = "StateInvalid"
      <3>1. \E b \in Bones : fault[b] = "StateInvalid"
        BY <1>0, <1>5, <2>1, MergedIsWorst
      <3> QED
        BY <2>1, <3>1 DEF UpdateResult
    <2>2. CASE Merged = "OutputRejected"
      <3>1. \A b \in Bones : fault[b] # "StateInvalid"
        BY <1>0, <1>4, <2>2, MergedIsWorst DEF Covers
      <3>2. PICK w \in Active : worker_results[w] # "Success"
        BY <1>0, <2>2, MergedIsWorst
      <3>3. worker_results[w] # "StateInvalid" /\ worker_results[w] \in Results
        BY <1>0, <2>2, MergedIsWorst DEF TypeOK
      <3>4. \E b \in Bones : fault[b] = "OutputRejected"
        BY <1>5, <3>2, <3>3 DEF Results
      <3> QED
        BY <2>2, <3>1, <3>4 DEF UpdateResult
    <2>3. CASE Merged = "Success"
      <3>1. \A b \in Bones : fault[b] \notin {"StateInvalid", "OutputRejected"}
        BY <1>0, <1>4, <2>3, MergedIsWorst DEF Covers
      <3> QED
        BY <2>3, <3>1 DEF UpdateResult
    <2> QED
      BY <1>0, <2>1, <2>2, <2>3 DEF Results
  <1>7. ReturnOK'
    <2>1. CASE Merged = "Success"
      BY <2>1 DEF ReturnOK, SuccessIsComplete, OutcomeIsDeterministic, FarToNear, Returned
    <2>2. CASE Merged # "Success"
      <3>1. Merged \in {"StateInvalid", "OutputRejected"} /\ Return(Merged) /\ UNCHANGED call
        BY <1>0, <2>2 DEF Results
      <3> QED
        BY <1>0, <1>6, <3>1, ErrorReturns
    <2> QED
      BY <2>1, <2>2
  <1>8. FlushOK'
    <2> SUFFICES ASSUME Merged = "Success" PROVE FlushOK'
      BY DEF FlushOK, Return
    <2>1. \A b \in Bones : fault[b] = "Success"
      BY <1>0, <1>6, AllFine
    <2>2. ASSUME NEW w \in Active, NEW i \in 1 .. 4
          PROVE  Written(w, KindOrder[i], Expected(w, KindOrder[i]))
      <3>1. worker_results[w] = "Success"
        BY <1>0, MergedIsWorst
      <3>2. kind[w] = 5
        BY <1>3, <3>1 DEF WorkerOK, ResultsAt
      <3> QED
        BY <1>3, <3>2 DEF WorkerOK, QuadsAt
    <2>3. /\ \A q \in DOMAIN out : q <= OpaqueQuads => out[q] # "old"
          /\ \A q \in DOMAIN proxy : proxy[q] # "old"
      BY <1>0, <2>2, TasksCoverBuffers
    <2> QED
      BY <2>1, <2>3 DEF FlushOK, call, buffers
  <1>9. WorkersOK'
    <2> SUFFICES ASSUME NEW w \in Ids PROVE WorkerOK(w)'
      BY DEF WorkersOK
    <2>1. pc'[w] = "out" /\ cpc' \in {"idle", "flush"}
      BY DEF Return
    <2> QED
      BY <2>1 DEF WorkerOK, PlaceAt, BonesAt, ResultsAt, QuadsAt, Later
  <1> QED
    BY <1>1, <1>2, <1>7, <1>8, <1>9 DEF IInv

\* Flush puts the translucent quads in their order.
LEMMA FlushKeeps ==
  ASSUME IInv, Flush
  PROVE  IInv'
  <1> DEFINE n == TranslucentQuads
             from == [i \in DOMAIN keys |-> CHOOSE q \in DOMAIN keys : Place(q) = i]
  <1>0. /\ TypeOK /\ n \in Nat /\ OpaqueQuads \in Nat /\ DOMAIN keys = 1 .. n
        /\ DOMAIN proxy = 1 .. n /\ DOMAIN out = 1 .. OpaqueQuads + n
        /\ early = "none"
    BY TotalsAreNat DEF IInv, TypeOK, CallerOK, Updated, Flush
  <1>1. keys \in [1 .. n -> Int]
    <2>1. Keys \subseteq Int
      BY DepthsAssumption DEF Keys, Invalid
    <2> QED
      BY <1>0, <2>1 DEF TypeOK
  <1>2. \A i \in 1 .. n : from[i] \in 1 .. n /\ Place(from[i]) = i
    <2> HIDE DEF n
    <2> QED
      BY <1>0, <1>1, PlacesFilled
  <1>3. /\ out' = [q \in DOMAIN out |-> IF q <= OpaqueQuads THEN out[q]
                                        ELSE proxy[from[q - OpaqueQuads]]]
        /\ keys' = [i \in DOMAIN keys |-> keys[from[i]]]
        /\ Return("Success")
        /\ UNCHANGED <<mode, fault, early, sorted, bone_states, ready_flags, proxy>>
        /\ UNCHANGED <<pc, next, kind, quad_ptr, worker_results, ready_mask>>
    BY DEF Flush, call, worker
  <1> HIDE DEF from, n
  <1>4. \A q \in DOMAIN out : ~(q <= OpaqueQuads) => q - OpaqueQuads \in 1 .. n
    BY <1>0
  <1>5. TypeOK'
    <2>1. out' \in [DOMAIN out -> {"old", "drawn", "zero"}]
      BY <1>0, <1>2, <1>3, <1>4 DEF TypeOK
    <2>2. keys' \in [1 .. n -> Keys]
      BY <1>0, <1>2, <1>3 DEF TypeOK, n
    <2>3. out' \in [1 .. OpaqueQuads + TranslucentQuads -> {"old", "drawn", "zero"}]
      BY <1>0, <2>1 DEF n
    <2> QED
      BY <1>0, <1>3, <2>2, <2>3 DEF TypeOK, Return, Results, n
  <1>6. CallerOK' /\ KeysOK' /\ FlushOK'
    BY <1>0, <1>3 DEF IInv, CallerOK, KeysOK, FlushOK, Return, Updated
  <1>7. /\ \A b \in Bones : fault[b] = "Success"
        /\ \A q \in DOMAIN out : q <= OpaqueQuads => out[q] # "old"
        /\ \A q \in 1 .. n : proxy[q] # "old"
    BY <1>0 DEF IInv, FlushOK, Flush
  <1>8. \A q \in 1 .. n : keys[q] # 0 /\ (keys[q] # Invalid => proxy[q] = "drawn")
    BY <1>0, <1>7 DEF IInv, KeysOK, Flush
  <1>9. SuccessIsComplete'
    <2>1. \A q \in DOMAIN out' : out'[q] # "old"
      BY <1>2, <1>3, <1>4, <1>7
    <2>2. \A q \in DOMAIN keys' : keys'[q] # 0
      BY <1>0, <1>2, <1>3, <1>8
    <2> QED
      BY <2>1, <2>2 DEF SuccessIsComplete
  <1>10. OutcomeIsDeterministic'
    <2>1. UpdateResult(Bones) = "Success"
      BY <1>0, <1>7, AllFine DEF TypeOK
    <2>2. UpdateResult(Bones)' = "Success" /\ result' = "Success" /\ early' = "none"
      BY <1>0, <1>3, <2>1 DEF UpdateResult, Return
    <2> QED
      BY <2>2 DEF OutcomeIsDeterministic
  <1>11. FarToNear'
    <2> SUFFICES ASSUME sorted
                 PROVE  /\ \A p, q \in 1 .. n : p < q => keys'[p] <= keys'[q]
                        /\ \A q \in 1 .. n : keys'[q] # Invalid => out'[OpaqueQuads + q] = "drawn"
      BY <1>0, <1>3 DEF FarToNear
    <2>1. ASSUME NEW p \in 1 .. n, NEW q \in 1 .. n, p < q
          PROVE  keys'[p] <= keys'[q]
      <3>1. Rank(from[p]) = p /\ Rank(from[q]) = q /\ from[p] \in 1 .. n /\ from[q] \in 1 .. n
        BY <1>2 DEF Place
      <3>2. from[q] \in Before(from[p]) => Rank(from[q]) < Rank(from[p])
        BY <1>0, <1>1, <3>1, RanksOrdered
      <3>3. from[q] \notin Before(from[p])
        BY <2>1, <3>1, <3>2
      <3>4. keys[from[p]] \in Int /\ keys[from[q]] \in Int
        BY <1>1, <3>1
      <3>5. keys[from[p]] <= keys[from[q]]
        BY <1>0, <3>1, <3>3, <3>4 DEF Before
      <3> QED
        BY <1>0, <1>3, <3>5
    <2>2. ASSUME NEW q \in 1 .. n, keys'[q] # Invalid
          PROVE  out'[OpaqueQuads + q] = "drawn"
      <3>1. keys[from[q]] # Invalid /\ from[q] \in 1 .. n
        BY <1>0, <1>2, <1>3, <2>2
      <3>2. proxy[from[q]] = "drawn"
        BY <1>8, <3>1
      <3>3. /\ OpaqueQuads + q \in DOMAIN out /\ ~(OpaqueQuads + q <= OpaqueQuads)
            /\ (OpaqueQuads + q) - OpaqueQuads = q
        BY <1>0
      <3> QED
        BY <1>3, <3>2, <3>3
    <2> QED
      BY <2>1, <2>2
  <1>12. WorkersOK'
    <2>1. cpc # "join" /\ cpc' = "idle" /\ UNCHANGED pc
      BY <1>3 DEF Flush, Return
    <2> QED
      BY <2>1, QuietWorkers DEF IInv
  <1> QED
    BY <1>5, <1>6, <1>9, <1>10, <1>11, <1>12 DEF IInv, ReturnOK

-----------------------------------------------------------------------------
(* The workers.                                                            *)

\* What the step of one worker may change without disturbing the others.
OnlyWorker(w) ==
  /\ UNCHANGED <<mode, fault, early, sorted, cpc, result, status, scope>>
  /\ \A v \in Ids \ {w} :
       /\ pc'[v] = pc[v] /\ next'[v] = next[v] /\ kind'[v] = kind[v]
       /\ quad_ptr'[v] = quad_ptr[v] /\ worker_results'[v] = worker_results[v]
       /\ ready_mask'[v] = ready_mask[v] /\ ready_flags'[v] = ready_flags[v]
  /\ ready_flags[w] => ready_flags'[w]
  /\ \A b \in Bones : bone_states[b].fresh => bone_states'[b].fresh
  /\ \A v, k, n : Written(v, k, n) => Written(v, k, n)'

\* A step of one worker leaves what is known of the others standing.
LEMMA WorkerFrame ==
  ASSUME IInv, NEW w \in Ids, pc[w] # "out", OnlyWorker(w),
         TypeOK', CallerOK', KeysOK', WorkerOK(w)'
  PROVE  IInv'
  <1>1. cpc = "join" /\ cpc' = "join" /\ mode' = mode
    BY DEF IInv, WorkersOK, WorkerOK, PlaceAt, OnlyWorker
  <1>2. FlushOK' /\ ReturnOK'
    BY <1>1 DEF FlushOK, ReturnOK, SuccessIsComplete, OutcomeIsDeterministic, FarToNear, Returned
  <1>3. ASSUME NEW v \in Ids \ {w}
        PROVE  WorkerOK(v)'
    <2>1. /\ pc'[v] = pc[v] /\ next'[v] = next[v] /\ kind'[v] = kind[v]
          /\ quad_ptr'[v] = quad_ptr[v] /\ worker_results'[v] = worker_results[v]
          /\ ready_mask'[v] = ready_mask[v] /\ ready_flags'[v] = ready_flags[v]
          /\ K(v)' = K(v) /\ BoneOf(v)' = BoneOf(v) /\ fault' = fault
      BY DEF OnlyWorker, K, BoneOf
    <2>2. WorkerOK(v)
      BY DEF IInv, WorkersOK
    <2>3. PlaceAt(v)'
      BY <1>1, <2>1, <2>2, LayoutKept DEF WorkerOK, PlaceAt
    <2>4. pc[v] # "out" => v \in Active
      BY <2>2 DEF WorkerOK, PlaceAt
    <2>5. \A b \in Bones : bone_states[b].fresh => bone_states'[b].fresh
      BY DEF OnlyWorker
    <2>6. \A u \in Ids : ready_flags[u] => ready_flags'[u]
      BY DEF OnlyWorker
    <2>7. BonesAt(v)'
      <3>1. pc'[v] = "update" =>
              \A b \in Split(v, TaskCount, BoneCount)' .. next'[v] - 1 : bone_states'[b].fresh
        <4> SUFFICES ASSUME pc[v] = "update", NEW b \in Split(v, TaskCount, BoneCount) .. next[v] - 1
                     PROVE  bone_states'[b].fresh
          BY <1>1, <2>1, LayoutKept
        <4>1. bone_states[b].fresh
          BY <2>2 DEF WorkerOK, BonesAt
        <4>2. /\ Split(v, TaskCount, BoneCount) \in Nat /\ Split(v + 1, TaskCount, BoneCount) \in Nat
              /\ Split(v + 1, TaskCount, BoneCount) <= BoneCount
          BY <2>4, SharesInBones
        <4>3. next[v] \in Split(v, TaskCount, BoneCount) .. Split(v + 1, TaskCount, BoneCount)
          BY <2>2 DEF WorkerOK, PlaceAt
        <4>4. b \in Bones
          BY <4>2, <4>3, TaskCounts DEF Bones
        <4> QED
          BY <2>5, <4>1, <4>4
      <3>2. pc'[v] \in {"publish"} \cup Later => \A b \in Share(v)' : bone_states'[b].fresh
        <4>1. pc[v] \in {"publish"} \cup Later => \A b \in Share(v) : b \in Bones /\ bone_states[b].fresh
          BY <2>2, <2>4, SharesInBones DEF WorkerOK, BonesAt, Later
        <4> QED
          BY <1>1, <2>1, <2>5, <4>1, LayoutKept
      <3>3. Spin' /\ cpc' \in {"update", "wake", "fork", "join"} /\ ready_flags'[v] => pc'[v] \in Later
        BY <1>1, <2>1, <2>2, LayoutKept DEF WorkerOK, BonesAt
      <3>4. Spin' /\ pc'[v] # "out" => \A u \in ready_mask'[v] : ready_flags'[u]
        <4>1. ready_mask[v] \subseteq Ids
          BY DEF IInv, TypeOK
        <4> QED
          BY <1>1, <2>1, <2>2, <2>6, <4>1, LayoutKept DEF WorkerOK, BonesAt
      <3>5. Spin' /\ pc'[v] = "draw" => ready_flags'[Owner(BoneOf(v))']
        <4> SUFFICES ASSUME Spin, pc[v] = "draw" PROVE ready_flags'[Owner(BoneOf(v))]
          BY <1>1, <2>1, LayoutKept DEF Owner
        <4>1. ready_flags[Owner(BoneOf(v))]
          BY <2>2 DEF WorkerOK, BonesAt
        <4>2. BoneOf(v) \in Bones
          <5>1. /\ K(v) \in Kinds /\ next[v] \in First(v, K(v)) .. End(v, K(v))
                /\ next[v] < End(v, K(v)) /\ v \in Active
            BY <2>2, <2>4, KindsListed DEF WorkerOK, PlaceAt, K
          <5>2. First(v, K(v)) \in Nat /\ End(v, K(v)) \in 0 .. Len(Groups[K(v)])
                /\ Len(Groups[K(v)]) \in Nat
            BY <5>1, TaskEnds, QuadsOfIsNat
          <5>3. next[v] \in 0 .. Len(Groups[K(v)]) - 1
            BY <5>1, <5>2
          <5> QED
            BY <5>1, <5>3, QuadsOfIsNat DEF BoneOf
        <4>3. Owner(BoneOf(v)) \in Ids
          BY <4>2, OwnerOfShare, TaskCounts
        <4> QED
          BY <2>6, <4>1, <4>3
      <3> QED
        BY <3>1, <3>2, <3>3, <3>4, <3>5 DEF BonesAt
    <2>8. ResultsAt(v)'
      BY <1>1, <2>1, <2>2, LayoutKept DEF WorkerOK, ResultsAt
    <2>9. QuadsAt(v)'
      <3>1. \A k, n : Written(v, k, n) => Written(v, k, n)'
        BY DEF OnlyWorker
      <3>2. QuadsAt(v)
        BY <2>2 DEF WorkerOK
      <3> SUFFICES ASSUME pc[v] # "out"
                   PROVE  /\ \A i \in 1 .. 4 : i < kind'[v] =>
                               Written(v, KindOrder[i], Expected(v, KindOrder[i]))'
                          /\ pc'[v] \in {"wait", "draw"} => Written(v, K(v), quad_ptr[v])'
        BY <2>1 DEF QuadsAt
      <3>3. ASSUME NEW i \in 1 .. 4, i < kind[v]
            PROVE  Written(v, KindOrder[i], Expected(v, KindOrder[i]))'
        <4>1. Written(v, KindOrder[i], Expected(v, KindOrder[i]))
          BY <3>2, <3>3 DEF QuadsAt
        <4>2. Expected(v, KindOrder[i])' = Expected(v, KindOrder[i])
          BY <1>1, LayoutKept
        <4> DEFINE e == Expected(v, KindOrder[i])
        <4>3. Written(v, KindOrder[i], e)' 
          BY <3>1, <4>1, <4>2
        <4> QED
          BY <4>3
      <3>4. pc[v] \in {"wait", "draw"} => Written(v, K(v), quad_ptr[v])'
        BY <2>1, <3>1, <3>2 DEF QuadsAt
      <3> QED
        BY <2>1, <3>3, <3>4
    <2> QED
      BY <2>3, <2>7, <2>8, <2>9 DEF WorkerOK
  <1> QED
    BY <1>2, <1>3 DEF IInv, WorkersOK

\* A worker that is somewhere.
LEMMA WorkerFacts ==
  ASSUME IInv, NEW w \in Ids, pc[w] # "out"
  PROVE  /\ TypeOK /\ CallerOK /\ KeysOK /\ WorkerOK(w)
         /\ w \in Active /\ w \in Nat /\ cpc = "join" /\ early = "none"
         /\ pc[w] \in {"wait", "draw"} =>
              /\ K(w) \in Kinds /\ kind[w] \in 1 .. 4 /\ K(w) = KindOrder[kind[w]]
              /\ next[w] \in 0 .. Len(Groups[K(w)]) /\ First(w, K(w)) <= next[w]
         /\ pc[w] = "draw" => /\ next[w] \in 0 .. Len(Groups[K(w)]) - 1
                              /\ BoneOf(w) \in Bones /\ QuadsOf(K(w), next[w]) \in Nat
                              /\ Owner(BoneOf(w)) \in Active
                              /\ BoneOf(w) \in Share(Owner(BoneOf(w)))
  <1>1. TypeOK /\ CallerOK /\ KeysOK /\ WorkerOK(w)
    BY DEF IInv, WorkersOK
  <1>2. w \in Active /\ w \in Nat /\ cpc = "join"
    BY <1>1, TaskCounts DEF WorkerOK, PlaceAt
  <1>3. early = "none"
    BY <1>1, <1>2 DEF CallerOK, Updated
  <1>4. ASSUME pc[w] \in {"wait", "draw"}
        PROVE  /\ K(w) \in Kinds /\ kind[w] \in 1 .. 4 /\ K(w) = KindOrder[kind[w]]
               /\ next[w] \in 0 .. Len(Groups[K(w)]) /\ First(w, K(w)) <= next[w]
               /\ next[w] < End(w, K(w)) => next[w] \in 0 .. Len(Groups[K(w)]) - 1
    <2>1. kind[w] \in 1 .. 4 /\ next[w] \in First(w, K(w)) .. End(w, K(w))
      BY <1>1, <1>4 DEF WorkerOK, PlaceAt
    <2>2. K(w) \in Kinds
      BY <2>1, KindsListed DEF K
    <2>3. /\ First(w, K(w)) \in Nat /\ End(w, K(w)) \in 0 .. Len(Groups[K(w)])
          /\ Len(Groups[K(w)]) \in Nat
      BY <1>2, <2>2, TaskEnds, QuadsOfIsNat
    <2> QED
      BY <2>1, <2>2, <2>3 DEF K
  <1>5. ASSUME pc[w] = "draw"
        PROVE  /\ next[w] \in 0 .. Len(Groups[K(w)]) - 1
               /\ BoneOf(w) \in Bones /\ QuadsOf(K(w), next[w]) \in Nat
               /\ Owner(BoneOf(w)) \in Active /\ BoneOf(w) \in Share(Owner(BoneOf(w)))
    <2>1. next[w] \in 0 .. Len(Groups[K(w)]) - 1 /\ K(w) \in Kinds
      BY <1>1, <1>4, <1>5 DEF WorkerOK, PlaceAt
    <2>2. BoneOf(w) \in Bones /\ QuadsOf(K(w), next[w]) \in Nat
      BY <2>1, QuadsOfIsNat DEF BoneOf
    <2> QED
      BY <2>1, <2>2, OwnerOfShare
  <1> QED
    BY <1>1, <1>2, <1>3, <1>4, <1>5

\* A worker updates a bone of its share, or is through with it.
LEMMA UpdateBoneKeeps ==
  ASSUME IInv, NEW w \in Ids, UpdateBone(w)
  PROVE  IInv'
  <1> DEFINE lo == Split(w, TaskCount, BoneCount)
             hi == Split(w + 1, TaskCount, BoneCount)
             b == next[w]
  <1>0. pc[w] = "update" /\ pc[w] # "out" /\ mode' = mode
    BY DEF UpdateBone, call
  <1>1. /\ TypeOK /\ CallerOK /\ KeysOK /\ WorkerOK(w) /\ w \in Active /\ cpc = "join"
    BY <1>0, WorkerFacts
  <1>2. lo \in Nat /\ hi \in Nat /\ hi <= BoneCount /\ Spin /\ ~ready_flags[w] /\ b \in lo .. hi
    BY <1>0, <1>1, SharesInBones DEF WorkerOK, PlaceAt, BonesAt, Later
  <1>3. /\ UNCHANGED <<mode, fault, early, sorted, cpc, result, status, scope, ready_flags>>
        /\ UNCHANGED <<out, proxy, keys, kind, quad_ptr, ready_mask>>
    BY DEF UpdateBone, call, caller, buffers
  <1>4. /\ lo' = lo /\ hi' = hi /\ Share(w)' = Share(w) /\ (Spin <=> Spin') /\ Active' = Active
        /\ Share(w) = lo .. hi - 1
    BY <1>0, LayoutKept DEF Share, TaskRange
  <1>5. \A v, k, n : Written(v, k, n) <=> Written(v, k, n)'
    BY <1>3, WrittenKept
  <1>6. KeysOK'
    BY <1>1, <1>3 DEF KeysOK
  <1> HIDE DEF lo, hi
  <1>7. CASE b < hi
    <2>1. /\ bone_states' = [bone_states EXCEPT ![b] = FreshBone(b)]
          /\ worker_results' = [worker_results EXCEPT ![w] =
                                  IF @ = "StateInvalid" \/ fault[b] = "Success" THEN @ ELSE fault[b]]
          /\ next' = [next EXCEPT ![w] = b + 1]
          /\ pc' = pc
      BY <1>7 DEF UpdateBone, hi
    <2>2. b \in Bones /\ b \in Nat /\ fault[b] \in Results
      BY <1>1, <1>2, <1>7, TaskCounts DEF Bones, TypeOK
    <2> HIDE DEF b
    <2>3. TypeOK'
      BY <1>1, <1>3, <2>1, <2>2 DEF TypeOK, FreshBone
    <2>4. \A c \in Bones : /\ bone_states[c].fresh => bone_states'[c].fresh
                           /\ c # b => bone_states'[c] = bone_states[c]
                           /\ bone_states'[b].fresh /\ bone_states'[b].result = fault[b]
      BY <1>1, <2>1, <2>2 DEF TypeOK, FreshBone
    <2>5. CallerOK'
      BY <1>1, <1>2, <1>3, <1>4, <2>2, <2>4 DEF CallerOK
    <2>6. OnlyWorker(w)
      BY <1>1, <1>3, <1>5, <2>1, <2>4 DEF OnlyWorker, TypeOK
    <2>7. /\ pc'[w] = "update" /\ next'[w] = b + 1 /\ ready_flags'[w] = ready_flags[w]
          /\ worker_results'[w] = IF worker_results[w] = "StateInvalid" \/ fault[b] = "Success"
                                  THEN worker_results[w] ELSE fault[b]
      BY <1>0, <1>1, <1>3, <2>1 DEF TypeOK
    <2>8. lo .. b = (lo .. b - 1) \cup {b} /\ lo .. b \subseteq Bones /\ (b + 1) - 1 = b
      BY <1>2, <1>7, <2>2, TaskCounts DEF Bones, b
    <2>9. PlaceAt(w)'
      BY <1>1, <1>2, <1>3, <1>4, <1>7, <2>7 DEF PlaceAt, b, lo, hi
    <2>10. BonesAt(w)'
      <3>1. \A c \in lo .. b - 1 : bone_states[c].fresh
        BY <1>0, <1>1 DEF WorkerOK, BonesAt, lo, b
      <3>2. \A c \in lo .. next'[w] - 1 : bone_states'[c].fresh
        BY <2>4, <2>7, <2>8, <3>1
      <3>3. \A v \in ready_mask'[w] : ready_flags'[v]
        BY <1>0, <1>1, <1>2, <1>3 DEF WorkerOK, BonesAt
      <3> QED
        BY <1>2, <1>3, <1>4, <2>7, <3>2, <3>3 DEF BonesAt, lo, Later
    <2>11. ResultsAt(w)'
      <3>1. \A c \in lo .. b - 1 : Covers(worker_results[w], fault[c])
        BY <1>0, <1>1 DEF WorkerOK, ResultsAt, lo, b
      <3>2. worker_results[w] # "Success" => \E c \in Bones : fault[c] = worker_results[w]
        BY <1>0, <1>1 DEF WorkerOK, ResultsAt
      <3>3. worker_results[w] \in Results
        BY <1>1 DEF TypeOK
      <3>4. \A c \in lo .. b : Covers(worker_results'[w], fault[c])
        BY <2>2, <2>7, <2>8, <3>1, <3>3 DEF Covers, Results
      <3>5. worker_results'[w] # "Success" => \E c \in Bones : fault[c] = worker_results'[w]
        BY <2>2, <2>7, <3>2
      <3> QED
        BY <1>3, <1>4, <2>7, <2>8, <3>4, <3>5 DEF ResultsAt, lo, Later, Covers
    <2>12. QuadsAt(w)'
      <3>1. \A k : Expected(w, k)' = Expected(w, k)
        BY <1>0, LayoutKept
      <3> QED
        BY <1>0, <1>1, <1>3, <1>5, <2>7, <3>1 DEF WorkerOK, QuadsAt
    <2> QED
      BY <1>0, <1>6, <2>3, <2>5, <2>6, <2>9, <2>10, <2>11, <2>12, WorkerFrame DEF WorkerOK
  <1>8. CASE ~(b < hi)
    <2>1. /\ UNCHANGED <<bone_states, worker_results, next>> /\ pc' = [pc EXCEPT ![w] = "publish"]
      BY <1>8 DEF UpdateBone, hi
    <2>2. TypeOK'
      BY <1>1, <1>3, <2>1 DEF TypeOK, Places
    <2>3. CallerOK'
      BY <1>1, <1>3, <1>4, <2>1 DEF CallerOK
    <2>4. pc'[w] = "publish" /\ \A v \in Ids \ {w} : pc'[v] = pc[v]
      BY <1>1, <2>1 DEF TypeOK
    <2>5. OnlyWorker(w)
      BY <1>3, <1>5, <2>1, <2>4 DEF OnlyWorker
    <2>6. Share(w) = lo .. b - 1
      BY <1>2, <1>4, <1>8
    <2>7. PlaceAt(w)'
      BY <1>1, <1>2, <1>3, <1>4, <2>4 DEF PlaceAt
    <2>8. BonesAt(w)'
      <3>1. \A c \in Share(w) : bone_states[c].fresh
        BY <1>0, <1>1, <2>6 DEF WorkerOK, BonesAt, lo
      <3>2. \A v \in ready_mask'[w] : ready_flags'[v]
        BY <1>0, <1>1, <1>2, <1>3 DEF WorkerOK, BonesAt
      <3> QED
        BY <1>2, <1>3, <1>4, <2>1, <2>4, <3>1, <3>2 DEF BonesAt, Later
    <2>9. ResultsAt(w)'
      BY <1>0, <1>1, <1>3, <1>4, <2>1, <2>4, <2>6 DEF WorkerOK, ResultsAt, lo
    <2>10. QuadsAt(w)'
      <3>1. \A k : Expected(w, k)' = Expected(w, k)
        BY <1>0, LayoutKept
      <3> QED
        BY <1>0, <1>1, <1>3, <1>5, <2>4, <3>1 DEF WorkerOK, QuadsAt
    <2> QED
      BY <1>0, <1>6, <2>2, <2>3, <2>5, <2>7, <2>8, <2>9, <2>10, WorkerFrame DEF WorkerOK
  <1> QED
    BY <1>7, <1>8

\* A worker raises its flag.
LEMMA PublishKeeps ==
  ASSUME IInv, NEW w \in Ids, PublishWorkerReady(w)
  PROVE  IInv'
  <1>0. pc[w] = "publish" /\ pc[w] # "out" /\ mode' = mode
    BY DEF PublishWorkerReady, call
  <1>1. /\ TypeOK /\ CallerOK /\ KeysOK /\ WorkerOK(w) /\ w \in Active /\ cpc = "join"
    BY <1>0, WorkerFacts
  <1>2. /\ UNCHANGED <<mode, fault, early, sorted, cpc, result, status, scope, bone_states>>
        /\ UNCHANGED <<out, proxy, keys, next, kind, quad_ptr, worker_results, ready_mask>>
    BY DEF PublishWorkerReady, call, caller, buffers
  <1>3. /\ Share(w)' = Share(w) /\ (Spin <=> Spin') /\ Active' = Active
        /\ \A k : Expected(w, k)' = Expected(w, k)
        /\ \A v, k, n : Written(v, k, n) <=> Written(v, k, n)'
    BY <1>0, <1>2, LayoutKept, WrittenKept
  <1>4. /\ ready_flags'[w] = TRUE /\ \A v \in Ids \ {w} : ready_flags'[v] = ready_flags[v]
        /\ pc'[w] = IF worker_results[w] = "Success" THEN "partition" ELSE "done"
        /\ \A v \in Ids \ {w} : pc'[v] = pc[v]
    BY <1>1 DEF PublishWorkerReady, TypeOK, Publishes
  <1>5. TypeOK'
    BY <1>1, <1>2 DEF PublishWorkerReady, TypeOK, Publishes, Places
  <1>6. CallerOK' /\ KeysOK'
    BY <1>1, <1>2, <1>3 DEF CallerOK, KeysOK
  <1>7. OnlyWorker(w)
    BY <1>2, <1>3, <1>4 DEF OnlyWorker
  <1>8. PlaceAt(w)'
    BY <1>1, <1>2, <1>3, <1>4 DEF PlaceAt
  <1>9. BonesAt(w)'
    <2>1. \A v \in ready_mask'[w] : Spin' => ready_flags'[v]
      <3>1. ready_mask[w] \subseteq Ids
        BY <1>1 DEF TypeOK
      <3> QED
        BY <1>0, <1>1, <1>2, <1>3, <1>4, <3>1 DEF WorkerOK, BonesAt
    <2>2. \A b \in Share(w) : bone_states[b].fresh
      BY <1>0, <1>1 DEF WorkerOK, BonesAt
    <2> QED
      BY <1>2, <1>3, <1>4, <2>1, <2>2 DEF BonesAt, Later
  <1>10. ResultsAt(w)'
    BY <1>0, <1>1, <1>2, <1>3, <1>4 DEF WorkerOK, ResultsAt, Later
  <1>11. QuadsAt(w)'
    BY <1>0, <1>1, <1>2, <1>3, <1>4 DEF WorkerOK, QuadsAt
  <1> QED
    BY <1>0, <1>5, <1>6, <1>7, <1>8, <1>9, <1>10, <1>11, WorkerFrame DEF WorkerOK

\* A worker turns to its next partition.
LEMMA StartPartitionKeeps ==
  ASSUME IInv, NEW w \in Ids, StartPartition(w)
  PROVE  IInv'
  <1>0. pc[w] = "partition" /\ pc[w] # "out" /\ mode' = mode
    BY DEF StartPartition, call
  <1>1. /\ TypeOK /\ CallerOK /\ KeysOK /\ WorkerOK(w) /\ w \in Active /\ cpc = "join"
    BY <1>0, WorkerFacts
  <1>2. /\ UNCHANGED <<mode, fault, early, sorted, cpc, result, status, scope, bone_states>>
        /\ UNCHANGED <<ready_flags, out, proxy, keys, worker_results, ready_mask>>
    BY DEF StartPartition, call, caller, buffers
  <1>3. /\ Share(w)' = Share(w) /\ (Spin <=> Spin') /\ Active' = Active
        /\ \A k : /\ Expected(w, k)' = Expected(w, k) /\ Offset(w, k)' = Offset(w, k)
                  /\ First(w, k)' = First(w, k) /\ End(w, k)' = End(w, k)
        /\ \A v, k, n : Written(v, k, n) <=> Written(v, k, n)'
    BY <1>0, <1>2, LayoutKept, WrittenKept
  <1>4. CallerOK' /\ KeysOK'
    BY <1>1, <1>2, <1>3 DEF CallerOK, KeysOK
  <1>5. kind[w] \in 1 .. 5 /\ (kind[w] # 5 => kind[w] \in 1 .. 4 /\ K(w) \in Kinds)
    <2>1. kind[w] \in 1 .. 5
      BY <1>1 DEF TypeOK
    <2>2. kind[w] # 5 => kind[w] \in 1 .. 4
      BY <2>1
    <2> QED
      BY <2>1, <2>2, KindsListed DEF K
  <1>6. \A i \in 1 .. 4 : i < kind[w] => Written(w, KindOrder[i], Expected(w, KindOrder[i]))
    BY <1>0, <1>1 DEF WorkerOK, QuadsAt
  <1>7. ASSUME pc'[w] \in Later,
               \A v \in Ids \ {w} : /\ pc'[v] = pc[v] /\ next'[v] = next[v] /\ kind'[v] = kind[v]
                                    /\ quad_ptr'[v] = quad_ptr[v],
               pc'[w] # "draw", TypeOK', PlaceAt(w)', QuadsAt(w)',
               pc'[w] = "done" => kind'[w] = 5
        PROVE  IInv'
    <2>1. OnlyWorker(w)
      BY <1>2, <1>3, <1>7 DEF OnlyWorker
    <2>2. BonesAt(w)'
      BY <1>0, <1>1, <1>2, <1>3, <1>7 DEF WorkerOK, BonesAt, Later
    <2>3. ResultsAt(w)'
      BY <1>0, <1>1, <1>2, <1>3, <1>7 DEF WorkerOK, ResultsAt, Later
    <2> QED
      BY <1>0, <1>4, <1>7, <2>1, <2>2, <2>3, WorkerFrame DEF WorkerOK
  <1>8. CASE kind[w] > 4
    <2>1. pc' = [pc EXCEPT ![w] = "done"] /\ UNCHANGED <<next, kind, quad_ptr>>
      BY <1>8 DEF StartPartition
    <2>2. pc'[w] = "done" /\ (\A v \in Ids \ {w} : pc'[v] = pc[v]) /\ kind'[w] = 5
      BY <1>1, <1>5, <1>8, <2>1 DEF TypeOK
    <2>3. TypeOK'
      BY <1>1, <1>2, <2>1 DEF TypeOK, Places
    <2>4. PlaceAt(w)'
      BY <1>1, <1>2, <1>3, <2>2 DEF PlaceAt
    <2>5. QuadsAt(w)'
      BY <1>3, <1>6, <2>1, <2>2 DEF QuadsAt
    <2> QED
      BY <1>7, <2>1, <2>2, <2>3, <2>4, <2>5 DEF Later
  <1>9. CASE ~(kind[w] > 4) /\ Expected(w, K(w)) = 0
    <2>1. kind' = [kind EXCEPT ![w] = kind[w] + 1] /\ UNCHANGED <<pc, next, quad_ptr>>
      BY <1>9 DEF StartPartition
    <2>2. kind'[w] = kind[w] + 1 /\ (\A v \in Ids \ {w} : kind'[v] = kind[v])
          /\ kind[w] + 1 \in 1 .. 5
      BY <1>1, <1>5, <1>9, <2>1 DEF TypeOK
    <2>3. TypeOK'
      BY <1>1, <1>2, <2>1, <2>2 DEF TypeOK
    <2>4. PlaceAt(w)'
      BY <1>0, <1>1, <1>2, <1>3, <2>1 DEF PlaceAt
    <2>5. Written(w, K(w), Expected(w, K(w)))
      <3>1. Offset(w, K(w)) \in Nat
        BY <1>1, <1>5, <1>9, TaskEnds
      <3>2. Offset(w, K(w)) + 1 .. Offset(w, K(w)) + Expected(w, K(w)) = {}
        BY <1>9, <3>1
      <3> QED
        BY <3>2 DEF Written
    <2>6. \A i \in 1 .. 4 : i < kind[w] + 1 => Written(w, KindOrder[i], Expected(w, KindOrder[i]))
      <3>1. \A i \in 1 .. 4 : i < kind[w] + 1 => i < kind[w] \/ i = kind[w]
        BY <1>5
      <3> QED
        BY <1>6, <2>5, <3>1 DEF K
    <2>7. QuadsAt(w)'
      BY <1>0, <1>3, <2>1, <2>2, <2>6 DEF QuadsAt
    <2> QED
      BY <1>0, <1>7, <2>1, <2>2, <2>3, <2>4, <2>7 DEF Later
  <1>10. CASE ~(kind[w] > 4) /\ Expected(w, K(w)) # 0
    <2>1. /\ next' = [next EXCEPT ![w] = First(w, K(w))]
          /\ quad_ptr' = [quad_ptr EXCEPT ![w] = 0]
          /\ pc' = [pc EXCEPT ![w] = "wait"]
          /\ UNCHANGED kind
      BY <1>10 DEF StartPartition
    <2>2. /\ K(w) \in Kinds /\ kind[w] \in 1 .. 4 /\ First(w, K(w)) \in Nat /\ End(w, K(w)) \in Nat
          /\ First(w, K(w)) <= End(w, K(w)) /\ Offset(w, K(w)) \in Nat
      <3>1. K(w) \in Kinds /\ kind[w] \in 1 .. 4
        BY <1>5, <1>10
      <3>2. Len(Groups[K(w)]) \in Nat
        BY <3>1, QuadsOfIsNat
      <3> QED
        BY <1>1, <3>1, <3>2, TaskEnds
    <2>3. TypeOK'
      BY <1>1, <1>2, <2>1, <2>2 DEF TypeOK, Places
    <2>4. /\ pc'[w] = "wait" /\ next'[w] = First(w, K(w)) /\ quad_ptr'[w] = 0
          /\ kind'[w] = kind[w] /\ K(w)' = K(w)
          /\ \A v \in Ids \ {w} : /\ pc'[v] = pc[v] /\ next'[v] = next[v]
                                  /\ quad_ptr'[v] = quad_ptr[v] /\ kind'[v] = kind[v]
      BY <1>1, <2>1 DEF TypeOK, K
    <2>5. PlaceAt(w)'
      <3>1. next'[w] \in First(w, K(w)) .. End(w, K(w))
        BY <2>2, <2>4
      <3> QED
        BY <1>1, <1>2, <1>3, <2>2, <2>4, <3>1 DEF PlaceAt
    <2>6. Written(w, K(w), 0)
      <3>1. Offset(w, K(w)) + 1 .. Offset(w, K(w)) + 0 = {}
        BY <2>2
      <3> QED
        BY <3>1 DEF Written
    <2>7. QuadsAt(w)'
      BY <1>3, <1>6, <2>4, <2>6 DEF QuadsAt
    <2> QED
      BY <1>7, <2>3, <2>4, <2>5, <2>7 DEF Later
  <1> QED
    BY <1>8, <1>9, <1>10

\* A worker has waited for the owner of the bone it is to draw by.
LEMMA WaitKeeps ==
  ASSUME IInv, NEW w \in Ids, Wait(w)
  PROVE  IInv'
  <1>0. pc[w] = "wait" /\ pc[w] # "out" /\ mode' = mode /\ next[w] < End(w, K(w)) /\ MayRead(w)
    BY DEF Wait, call
  <1>1. /\ TypeOK /\ CallerOK /\ KeysOK /\ WorkerOK(w) /\ w \in Active /\ cpc = "join"
        /\ K(w) \in Kinds /\ next[w] \in 0 .. Len(Groups[K(w)])
    BY <1>0, WorkerFacts
  <1>2. /\ UNCHANGED <<mode, fault, early, sorted, cpc, result, status, scope, bone_states>>
        /\ UNCHANGED <<ready_flags, out, proxy, keys, next, kind, quad_ptr, worker_results>>
    BY DEF Wait, call, caller, buffers
  <1>3. /\ Share(w)' = Share(w) /\ (Spin <=> Spin') /\ Active' = Active
        /\ \A k : /\ Expected(w, k)' = Expected(w, k) /\ Offset(w, k)' = Offset(w, k)
                  /\ First(w, k)' = First(w, k) /\ End(w, k)' = End(w, k)
        /\ \A v, k, n : Written(v, k, n) <=> Written(v, k, n)'
        /\ K(w)' = K(w) /\ BoneOf(w)' = BoneOf(w) /\ \A b : Owner(b)' = Owner(b)
    BY <1>0, <1>2, LayoutKept, WrittenKept DEF K, BoneOf
  <1>4. Owner(BoneOf(w)) \in Ids
    <2>1. next[w] \in 0 .. Len(Groups[K(w)]) - 1
      <3>1. End(w, K(w)) \in 0 .. Len(Groups[K(w)]) /\ Len(Groups[K(w)]) \in Nat
        BY <1>1, TaskEnds, QuadsOfIsNat
      <3> QED
        BY <1>0, <1>1, <3>1
    <2>2. BoneOf(w) \in Bones
      BY <1>1, <2>1, QuadsOfIsNat DEF BoneOf
    <2> QED
      BY <2>2, OwnerOfShare, TaskCounts
  <1>5. /\ pc'[w] = "draw" /\ \A v \in Ids \ {w} : pc'[v] = pc[v] /\ ready_mask'[v] = ready_mask[v]
        /\ ready_mask'[w] = IF Spin THEN ready_mask[w] \cup {Owner(BoneOf(w))} ELSE ready_mask[w]
    BY <1>1 DEF Wait, TypeOK, Spin
  <1>6. TypeOK'
    <2>1. pc' \in [Ids -> Places]
      BY <1>1 DEF Wait, TypeOK, Places
    <2>2. ready_mask' \in [Ids -> SUBSET Ids]
      BY <1>1, <1>4 DEF Wait, TypeOK
    <2> QED
      BY <1>1, <1>2, <2>1, <2>2 DEF TypeOK
  <1>7. CallerOK' /\ KeysOK' /\ OnlyWorker(w)
    BY <1>1, <1>2, <1>3, <1>5 DEF CallerOK, KeysOK, OnlyWorker
  <1>8. PlaceAt(w)'
    BY <1>0, <1>1, <1>2, <1>3, <1>5 DEF WorkerOK, PlaceAt
  <1>9. BonesAt(w)'
    <2>1. Spin => \A v \in ready_mask[w] : ready_flags[v]
      BY <1>0, <1>1 DEF WorkerOK, BonesAt
    <2>2. Spin => ready_flags[Owner(BoneOf(w))]
      BY <1>0, <2>1 DEF MayRead, Spin
    <2>3. Spin' => ready_flags'[Owner(BoneOf(w))']
      BY <1>0, <1>2, <1>3, <2>2, LayoutKept DEF Owner
    <2>4. \A b \in Share(w)' : bone_states'[b].fresh
      BY <1>0, <1>1, <1>2, <1>3 DEF WorkerOK, BonesAt, Later
    <2>5. Spin' => \A v \in ready_mask'[w] : ready_flags'[v]
      BY <1>2, <1>3, <1>5, <2>1, <2>2
    <2> QED
      BY <1>5, <2>3, <2>4, <2>5 DEF BonesAt, Later
  <1>10. ResultsAt(w)'
    BY <1>0, <1>1, <1>2, <1>3, <1>5 DEF WorkerOK, ResultsAt, Later
  <1>11. QuadsAt(w)'
    BY <1>0, <1>1, <1>2, <1>3, <1>5 DEF WorkerOK, QuadsAt
  <1> QED
    BY <1>0, <1>6, <1>7, <1>8, <1>9, <1>10, <1>11, WorkerFrame DEF WorkerOK

\* Filling a stretch of a partition writes it, and takes nothing back.
LEMMA FillWrites ==
  ASSUME IInv, NEW w \in Ids, pc[w] \in {"wait", "draw"}, NEW a \in Nat, NEW b \in Nat,
         NEW content \in {"drawn", "zero"}, NEW key \in Depths \cup {Invalid},
         content = "zero" => key = Invalid,
         Fill(w, a, b, content, key), mode' = mode, cpc' = cpc, Written(w, K(w), a)
  PROVE  /\ out' \in [1 .. OpaqueQuads + TranslucentQuads -> {"old", "drawn", "zero"}]
         /\ proxy' \in [1 .. TranslucentQuads -> {"old", "drawn", "zero"}]
         /\ keys' \in [1 .. TranslucentQuads -> Keys]
         /\ KeysOK'
         /\ \A v, k, n : Written(v, k, n) => Written(v, k, n)'
         /\ \A k, m : k = K(w) /\ m = b => Written(w, k, m)'
  <1> DEFINE base == Offset(w, K(w))
             In(q) == q \in base + a + 1 .. base + b
  <1>0. pc[w] # "out" /\ Offset(w, K(w)) \in Nat /\ K(w) \in Kinds /\ TypeOK /\ KeysOK /\ cpc = "join"
    <2>1. w \in Active /\ K(w) \in Kinds
      BY WorkerFacts
    <2> QED
      BY <2>1, TaskEnds, WorkerFacts
  <1>1. base \in Nat
    BY <1>0
  <1>2. key # 0 /\ key \in Keys /\ (key \notin {0, Invalid} => content = "drawn")
    BY DepthsAssumption DEF Keys, Invalid
  <1>3. CASE K(w) \in Opaque
    <2>1. /\ out' = [q \in DOMAIN out |-> IF In(q) THEN content ELSE out[q]]
          /\ UNCHANGED <<proxy, keys>>
      BY <1>3 DEF Fill
    <2> HIDE DEF base
    <2>2. /\ DOMAIN out' = DOMAIN out
          /\ \A q \in DOMAIN out : /\ out[q] # "old" => out'[q] # "old"
                                   /\ In(q) => out'[q] # "old"
      BY <2>1
    <2>3. /\ out' \in [1 .. OpaqueQuads + TranslucentQuads -> {"old", "drawn", "zero"}]
          /\ proxy' \in [1 .. TranslucentQuads -> {"old", "drawn", "zero"}]
          /\ keys' \in [1 .. TranslucentQuads -> Keys]
      <3>1. /\ out \in [1 .. OpaqueQuads + TranslucentQuads -> {"old", "drawn", "zero"}]
            /\ proxy \in [1 .. TranslucentQuads -> {"old", "drawn", "zero"}]
            /\ keys \in [1 .. TranslucentQuads -> Keys]
        BY <1>0 DEF TypeOK
      <3> HIDE DEF In
      <3> QED
        BY <2>1, <3>1
    <2>4. KeysOK'
      BY <1>0, <2>1 DEF KeysOK
    <2>5. \A v, k, n : Written(v, k, n) => Written(v, k, n)'
      BY <2>1, <2>2, LayoutKept DEF Written
    <2>6. \A q \in base + 1 .. base + b : q \in DOMAIN out => out'[q] # "old"
      <3> SUFFICES ASSUME NEW q \in base + 1 .. base + b, q \in DOMAIN out PROVE out'[q] # "old"
        OBVIOUS
      <3>1. q \in base + 1 .. base + a \/ In(q)
        BY <1>1
      <3>2. q \in base + 1 .. base + a => out[q] # "old"
        BY <1>3 DEF Written, base
      <3> HIDE DEF In
      <3> QED
        BY <2>2, <3>1, <3>2
    <2>7. ASSUME NEW k, k = K(w)
          PROVE  Written(w, k, b)'
      <3>1. \A q \in base + 1 .. base + b :
              /\ k \in Opaque /\ q \in DOMAIN out' => out'[q] # "old"
              /\ k \notin Opaque /\ q \in DOMAIN proxy' => proxy'[q] # "old"
        BY <1>3, <2>2, <2>6, <2>7
      <3>2. Offset(w, k)' = base
        BY <2>7, LayoutKept DEF base
      <3> QED
        BY <3>1, <3>2 DEF Written
    <2> QED
      BY <2>3, <2>4, <2>5, <2>7
  <1>4. CASE K(w) \notin Opaque
    <2>1. /\ proxy' = [q \in DOMAIN proxy |-> IF In(q) THEN content ELSE proxy[q]]
          /\ keys' = [q \in DOMAIN keys |-> IF In(q) THEN key ELSE keys[q]]
          /\ UNCHANGED out
      BY <1>4 DEF Fill
    <2> HIDE DEF base
    <2>2. /\ DOMAIN proxy' = DOMAIN proxy /\ DOMAIN keys = DOMAIN proxy /\ DOMAIN keys' = DOMAIN keys
          /\ \A q \in DOMAIN proxy : /\ proxy[q] # "old" => proxy'[q] # "old"
                                     /\ In(q) => proxy'[q] # "old"
      BY <1>0, <2>1 DEF TypeOK
    <2>3. /\ out' \in [1 .. OpaqueQuads + TranslucentQuads -> {"old", "drawn", "zero"}]
          /\ proxy' \in [1 .. TranslucentQuads -> {"old", "drawn", "zero"}]
          /\ keys' \in [1 .. TranslucentQuads -> Keys]
      <3>1. /\ out \in [1 .. OpaqueQuads + TranslucentQuads -> {"old", "drawn", "zero"}]
            /\ proxy \in [1 .. TranslucentQuads -> {"old", "drawn", "zero"}]
            /\ keys \in [1 .. TranslucentQuads -> Keys]
        BY <1>0 DEF TypeOK
      <3> HIDE DEF In
      <3> QED
        BY <1>2, <2>1, <3>1
    <2>4. KeysOK'
      <3> SUFFICES ASSUME NEW q \in DOMAIN keys
                   PROVE  /\ keys'[q] = 0 <=> proxy'[q] = "old"
                          /\ keys'[q] \notin {0, Invalid} => proxy'[q] = "drawn"
        BY <2>2 DEF KeysOK
      <3>1. /\ keys[q] = 0 <=> proxy[q] = "old"
            /\ keys[q] \notin {0, Invalid} => proxy[q] = "drawn"
        BY <1>0 DEF KeysOK
      <3>2. /\ In(q) => keys'[q] = key /\ proxy'[q] = content
            /\ ~In(q) => keys'[q] = keys[q] /\ proxy'[q] = proxy[q]
        BY <2>1, <2>2
      <3> HIDE DEF In
      <3> QED
        BY <1>2, <3>1, <3>2
    <2>5. \A v, k, n : Written(v, k, n) => Written(v, k, n)'
      BY <2>1, <2>2, LayoutKept DEF Written
    <2>6. \A q \in base + 1 .. base + b : q \in DOMAIN proxy => proxy'[q] # "old"
      <3> SUFFICES ASSUME NEW q \in base + 1 .. base + b, q \in DOMAIN proxy PROVE proxy'[q] # "old"
        OBVIOUS
      <3>1. q \in base + 1 .. base + a \/ In(q)
        BY <1>1
      <3>2. q \in base + 1 .. base + a => proxy[q] # "old"
        BY <1>4 DEF Written, base
      <3> HIDE DEF In
      <3> QED
        BY <2>2, <3>1, <3>2
    <2>7. ASSUME NEW k, k = K(w)
          PROVE  Written(w, k, b)'
      <3>1. \A q \in base + 1 .. base + b :
              /\ k \in Opaque /\ q \in DOMAIN out' => out'[q] # "old"
              /\ k \notin Opaque /\ q \in DOMAIN proxy' => proxy'[q] # "old"
        BY <1>4, <2>2, <2>6, <2>7
      <3>2. Offset(w, k)' = base
        BY <2>7, LayoutKept DEF base
      <3> QED
        BY <3>1, <3>2 DEF Written
    <2> QED
      BY <2>3, <2>4, <2>5, <2>7
  <1> QED
    BY <1>3, <1>4

\* The bone a worker draws by is of this frame: its owner has published it.
LEMMA BoneIsFresh ==
  ASSUME IInv, NEW w \in Ids, pc[w] = "draw"
  PROVE  bone_states[BoneOf(w)].fresh /\ bone_states[BoneOf(w)].result = fault[BoneOf(w)]
  <1> DEFINE b == BoneOf(w)
             v == Owner(b)
  <1>1. pc[w] # "out"
    OBVIOUS
  <1>2. /\ CallerOK /\ WorkerOK(w) /\ cpc = "join" /\ b \in Bones
        /\ v \in Active /\ v \in Ids /\ b \in Share(v)
    BY <1>1, WorkerFacts, TaskCounts
  <1>3. CASE ~Spin
    BY <1>2, <1>3 DEF CallerOK, Updated
  <1>4. CASE Spin
    <2>1. ready_flags[v]
      BY <1>2, <1>4 DEF WorkerOK, BonesAt
    <2>2. BonesAt(v)
      BY <1>2 DEF IInv, WorkersOK, WorkerOK
    <2>3. pc[v] \in Later
      BY <1>2, <1>4, <2>1, <2>2 DEF BonesAt
    <2> QED
      BY <1>2, <2>2, <2>3 DEF BonesAt, CallerOK
  <1> QED
    BY <1>3, <1>4

\* A worker emits a group.
LEMMA DrawKeeps ==
  ASSUME IInv, NEW w \in Ids, pc[w] = "draw", NEW n \in Emitted(w),
         NEW key \in Depths \cup {Invalid}, Draw(w, n, key)
  PROVE  IInv'
  <1>0. pc[w] # "out" /\ pc[w] \in {"wait", "draw"} /\ mode' = mode /\ cpc' = cpc
    BY DEF Draw, call, caller
  <1>1. /\ TypeOK /\ CallerOK /\ KeysOK /\ WorkerOK(w) /\ w \in Active /\ cpc = "join"
        /\ K(w) \in Kinds /\ next[w] \in 0 .. Len(Groups[K(w)]) /\ QuadsOf(K(w), next[w]) \in Nat
    BY <1>0, WorkerFacts
  <1>2. n \in Nat /\ quad_ptr[w] \in Nat /\ quad_ptr[w] + n \in Nat
    BY <1>1 DEF Emitted, TypeOK
  <1>3. /\ UNCHANGED <<mode, fault, early, sorted, cpc, result, status, scope, bone_states>>
        /\ UNCHANGED <<ready_flags, kind, worker_results, ready_mask>>
        /\ quad_ptr' = [quad_ptr EXCEPT ![w] = quad_ptr[w] + n]
        /\ next' = [next EXCEPT ![w] = next[w] + 1]
        /\ pc' = [pc EXCEPT ![w] = "wait"]
        /\ Fill(w, quad_ptr[w], quad_ptr[w] + n, "drawn", key)
    BY DEF Draw, call, caller
  <1>4. /\ Share(w)' = Share(w) /\ (Spin <=> Spin') /\ Active' = Active /\ K(w)' = K(w)
        /\ \A k : /\ Expected(w, k)' = Expected(w, k) /\ Offset(w, k)' = Offset(w, k)
                  /\ First(w, k)' = First(w, k) /\ End(w, k)' = End(w, k)
    BY <1>0, <1>3, LayoutKept DEF K
  <1>5. Written(w, K(w), quad_ptr[w])
    BY <1>0, <1>1 DEF WorkerOK, QuadsAt
  <1>6. /\ out' \in [1 .. OpaqueQuads + TranslucentQuads -> {"old", "drawn", "zero"}]
        /\ proxy' \in [1 .. TranslucentQuads -> {"old", "drawn", "zero"}]
        /\ keys' \in [1 .. TranslucentQuads -> Keys]
        /\ KeysOK'
        /\ \A v, k, m : Written(v, k, m) => Written(v, k, m)'
        /\ \A k, m : k = K(w) /\ m = quad_ptr[w] + n => Written(w, k, m)'
    <2> DEFINE a == quad_ptr[w]
               b == quad_ptr[w] + n
    <2>1. a \in Nat /\ b \in Nat /\ Fill(w, a, b, "drawn", key) /\ Written(w, K(w), a)
      BY <1>2, <1>3, <1>5
    <2>2. "drawn" \in {"drawn", "zero"} /\ ("drawn" = "zero" => key = Invalid)
      OBVIOUS
    <2> QED
      BY <1>0, <2>1, <2>2, FillWrites
  <1>7. /\ pc'[w] = "wait" /\ next'[w] = next[w] + 1 /\ quad_ptr'[w] = quad_ptr[w] + n
        /\ \A v \in Ids \ {w} : /\ pc'[v] = pc[v] /\ next'[v] = next[v]
                                /\ quad_ptr'[v] = quad_ptr[v]
    BY <1>1, <1>3 DEF TypeOK
  <1>8. TypeOK'
    <2>1. pc' \in [Ids -> Places] /\ next' \in [Ids -> Nat] /\ quad_ptr' \in [Ids -> Nat]
      <3>1. next[w] + 1 \in Nat
        BY <1>1 DEF TypeOK
      <3> QED
        BY <1>1, <1>2, <1>3, <3>1 DEF TypeOK, Places
    <2> QED
      BY <1>1, <1>3, <1>6, <2>1 DEF TypeOK
  <1>9. CallerOK'
    BY <1>1, <1>3, <1>4 DEF CallerOK
  <1>10. OnlyWorker(w)
    BY <1>3, <1>6, <1>7 DEF OnlyWorker
  <1>11. PlaceAt(w)'
    <2>1. /\ kind[w] \in 1 .. 4 /\ next[w] \in First(w, K(w)) .. End(w, K(w))
          /\ next[w] < End(w, K(w))
      BY <1>0, <1>1 DEF WorkerOK, PlaceAt
    <2>2. First(w, K(w)) \in Nat /\ End(w, K(w)) \in Nat
      <3>1. Len(Groups[K(w)]) \in Nat
        BY <1>1, QuadsOfIsNat
      <3> QED
        BY <1>1, <3>1, TaskEnds
    <2>3. next[w] + 1 \in First(w, K(w)) .. End(w, K(w))
      BY <2>1, <2>2
    <2> QED
      BY <1>1, <1>3, <1>4, <1>7, <2>1, <2>3 DEF PlaceAt
  <1>12. BonesAt(w)'
    BY <1>0, <1>1, <1>3, <1>4, <1>7 DEF WorkerOK, BonesAt, Later
  <1>13. ResultsAt(w)'
    BY <1>0, <1>1, <1>3, <1>4, <1>7 DEF WorkerOK, ResultsAt, Later
  <1>14. QuadsAt(w)'
    <2>1. \A i \in 1 .. 4 : i < kind[w] => Written(w, KindOrder[i], Expected(w, KindOrder[i]))
      BY <1>0, <1>1 DEF WorkerOK, QuadsAt
    <2>2. \A i \in 1 .. 4 : i < kind'[w] => Written(w, KindOrder[i], Expected(w, KindOrder[i]))'
      BY <1>3, <1>4, <1>6, <2>1
    <2>3. Written(w, K(w), quad_ptr[w])'
      BY <1>4, <1>6, <1>7
    <2> QED
      BY <2>2, <2>3 DEF QuadsAt
  <1> QED
    BY <1>0, <1>6, <1>8, <1>9, <1>10, <1>11, <1>12, <1>13, <1>14, WorkerFrame DEF WorkerOK

\* The end of a partition, with the result of the drawing.
LEMMA EndPartitionKeeps ==
  ASSUME IInv, NEW w \in Ids, pc[w] \in {"wait", "draw"}, NEW r \in Results, EndPartition(w, r),
         r # "Success" => \E b \in Bones : fault[b] = r
  PROVE  IInv'
  <1>0. pc[w] # "out" /\ mode' = mode /\ cpc' = cpc
    BY DEF EndPartition, call, caller
  <1>1. /\ TypeOK /\ CallerOK /\ KeysOK /\ WorkerOK(w) /\ w \in Active /\ cpc = "join"
        /\ K(w) \in Kinds /\ kind[w] \in 1 .. 4 /\ K(w) = KindOrder[kind[w]]
    BY <1>0, WorkerFacts
  <1>2. /\ UNCHANGED <<mode, fault, early, sorted, cpc, result, status, scope, bone_states>>
        /\ UNCHANGED <<ready_flags, next, quad_ptr, ready_mask>>
        /\ worker_results' = [worker_results EXCEPT ![w] = MergeRenderResult(worker_results[w], r)]
        /\ kind' = [kind EXCEPT ![w] = kind[w] + 1]
        /\ pc' = [pc EXCEPT ![w] = "partition"]
        /\ Fill(w, quad_ptr[w], Expected(w, K(w)), "zero", Invalid)
    BY DEF EndPartition, call, caller, ZeroedTo
  <1>3. /\ Share(w)' = Share(w) /\ (Spin <=> Spin') /\ Active' = Active
        /\ \A k : /\ Expected(w, k)' = Expected(w, k) /\ Offset(w, k)' = Offset(w, k)
                  /\ First(w, k)' = First(w, k) /\ End(w, k)' = End(w, k)
    BY <1>0, LayoutKept
  <1>4. /\ out' \in [1 .. OpaqueQuads + TranslucentQuads -> {"old", "drawn", "zero"}]
        /\ proxy' \in [1 .. TranslucentQuads -> {"old", "drawn", "zero"}]
        /\ keys' \in [1 .. TranslucentQuads -> Keys]
        /\ KeysOK'
        /\ \A v, k, m : Written(v, k, m) => Written(v, k, m)'
        /\ \A k, m : k = K(w) /\ m = Expected(w, K(w)) => Written(w, k, m)'
    <2> DEFINE a == quad_ptr[w]
               b == Expected(w, K(w))
    <2>1. a \in Nat /\ b \in Nat /\ Written(w, K(w), a) /\ Fill(w, a, b, "zero", Invalid)
      BY <1>1, <1>2, TaskEnds DEF WorkerOK, QuadsAt, TypeOK
    <2> HIDE DEF a, b
    <2>2. Invalid \in Depths \cup {Invalid} /\ "zero" \in {"drawn", "zero"}
      OBVIOUS
    <2>3. /\ out' \in [1 .. OpaqueQuads + TranslucentQuads -> {"old", "drawn", "zero"}]
          /\ proxy' \in [1 .. TranslucentQuads -> {"old", "drawn", "zero"}]
          /\ keys' \in [1 .. TranslucentQuads -> Keys]
          /\ KeysOK'
          /\ \A v, k, m : Written(v, k, m) => Written(v, k, m)'
      BY <1>0, <2>1, <2>2, FillWrites
    <2>4. \A k, m : k = K(w) /\ m = b => Written(w, k, m)'
      BY <1>0, <2>1, <2>2, FillWrites
    <2> QED
      BY <2>3, <2>4 DEF b
  <1>5. /\ pc'[w] = "partition" /\ kind'[w] = kind[w] + 1 /\ kind[w] + 1 \in 1 .. 5
        /\ worker_results'[w] = MergeRenderResult(worker_results[w], r)
        /\ \A v \in Ids \ {w} : /\ pc'[v] = pc[v] /\ kind'[v] = kind[v]
                                /\ worker_results'[v] = worker_results[v]
    BY <1>1, <1>2 DEF TypeOK
  <1>6. /\ worker_results[w] \in Results /\ worker_results'[w] \in Results
        /\ worker_results'[w] # "Success" => worker_results'[w] \in {worker_results[w], r}
        /\ \A f : Covers(worker_results[w], f) => Covers(worker_results'[w], f)
    <2>1. worker_results[w] \in Results
      BY <1>1 DEF TypeOK
    <2> QED
      BY <1>5, <2>1 DEF MergeRenderResult, Results, Covers
  <1>7. TypeOK'
    <2>1. /\ pc' \in [Ids -> Places] /\ kind' \in [Ids -> 1 .. 5]
          /\ worker_results' \in [Ids -> Results]
      BY <1>1, <1>2, <1>5, <1>6 DEF TypeOK, Places
    <2> QED
      BY <1>1, <1>2, <1>4, <2>1 DEF TypeOK
  <1>8. CallerOK'
    BY <1>1, <1>2, <1>3 DEF CallerOK
  <1>9. OnlyWorker(w)
    BY <1>2, <1>4, <1>5 DEF OnlyWorker
  <1>10. PlaceAt(w)'
    BY <1>1, <1>2, <1>3, <1>5 DEF PlaceAt
  <1>11. BonesAt(w)'
    BY <1>0, <1>1, <1>2, <1>3, <1>5 DEF WorkerOK, BonesAt, Later
  <1>12. ResultsAt(w)'
    <2>1. worker_results'[w] # "Success" => \E b \in Bones : fault'[b] = worker_results'[w]
      <3>1. worker_results[w] # "Success" => \E b \in Bones : fault[b] = worker_results[w]
        BY <1>0, <1>1 DEF WorkerOK, ResultsAt
      <3> QED
        BY <1>2, <1>6, <3>1
    <2>2. \A b \in Share(w)' : Covers(worker_results'[w], fault'[b])
      <3>1. \A b \in Share(w) : Covers(worker_results[w], fault[b])
        BY <1>1 DEF WorkerOK, ResultsAt, Later
      <3> QED
        BY <1>2, <1>3, <1>6, <3>1
    <2> QED
      BY <1>5, <2>1, <2>2 DEF ResultsAt, Covers
  <1>13. QuadsAt(w)'
    <2>1. ASSUME NEW i \in 1 .. 4, i < kind[w] + 1
          PROVE  Written(w, KindOrder[i], Expected(w, KindOrder[i]))'
      <3>1. CASE i < kind[w]
        <4>1. Written(w, KindOrder[i], Expected(w, KindOrder[i]))
          BY <1>0, <1>1, <3>1 DEF WorkerOK, QuadsAt
        <4> QED
          BY <1>3, <1>4, <4>1
      <3>2. CASE i = kind[w]
        <4>1. KindOrder[i] = K(w)
          BY <1>1, <3>2
        <4>2. Expected(w, KindOrder[i])' = Expected(w, K(w))
          BY <1>3, <4>1
        <4> QED
          BY <1>4, <4>1, <4>2
      <3> QED
        BY <1>1, <2>1, <3>1, <3>2
    <2> QED
      BY <1>5, <2>1 DEF QuadsAt
  <1> QED
    BY <1>0, <1>4, <1>7, <1>8, <1>9, <1>10, <1>11, <1>12, <1>13, WorkerFrame DEF WorkerOK

\* All groups of a partition are drawn.
LEMMA DrawnKeeps ==
  ASSUME IInv, NEW w \in Ids, Drawn(w)
  PROVE  IInv'
  BY EndPartitionKeeps DEF Drawn, Results

\* A partition ends at a bone whose update failed.
LEMMA BoneFailedKeeps ==
  ASSUME IInv, NEW w \in Ids, BoneFailed(w)
  PROVE  IInv'
  <1> DEFINE r == bone_states[BoneOf(w)].result
  <1>1. pc[w] = "draw" /\ pc[w] # "out" /\ EndPartition(w, r)
    BY DEF BoneFailed
  <1>2. r = fault[BoneOf(w)] /\ BoneOf(w) \in Bones /\ r \in Results
    BY <1>1, BoneIsFresh, WorkerFacts DEF TypeOK
  <1> QED
    BY <1>1, <1>2, EndPartitionKeeps

-----------------------------------------------------------------------------
(* The specification.                                                      *)

\* Nothing happens.
LEMMA StutterKeeps ==
  ASSUME IInv, UNCHANGED vars
  PROVE  IInv'
  <1>1. /\ UNCHANGED <<mode, fault, early, sorted, cpc, result, status, scope, bone_states>>
        /\ UNCHANGED <<ready_flags, out, proxy, keys, next, kind, quad_ptr, pc>>
        /\ UNCHANGED <<worker_results, ready_mask>>
    BY DEF vars, call, caller, buffers, worker
  <1>2. TypeOK'
    BY <1>1 DEF IInv, TypeOK
  <1>3. CallerOK' /\ KeysOK' /\ FlushOK'
    BY <1>1 DEF IInv, CallerOK, KeysOK, FlushOK, Spin
  <1>4. ReturnOK'
    BY <1>1 DEF IInv, ReturnOK, SuccessIsComplete, OutcomeIsDeterministic, FarToNear, Returned,
                UpdateResult
  <1>5. WorkersOK'
    <2> SUFFICES ASSUME NEW w \in Ids PROVE WorkerOK(w)'
      BY DEF WorkersOK
    <2>1. WorkerOK(w) /\ K(w)' = K(w) /\ BoneOf(w)' = BoneOf(w)
      BY <1>1 DEF IInv, WorkersOK, K, BoneOf
    <2>2. PlaceAt(w)'
      BY <1>1, <2>1, LayoutKept DEF WorkerOK, PlaceAt
    <2>3. BonesAt(w)'
      BY <1>1, <2>1, LayoutKept DEF WorkerOK, BonesAt, Owner
    <2>4. ResultsAt(w)'
      BY <1>1, <2>1, LayoutKept DEF WorkerOK, ResultsAt
    <2>5. QuadsAt(w)'
      BY <1>1, <2>1, LayoutKept, WrittenKept DEF WorkerOK, QuadsAt
    <2> QED
      BY <2>2, <2>3, <2>4, <2>5 DEF WorkerOK
  <1> QED
    BY <1>2, <1>3, <1>4, <1>5 DEF IInv

\* Every step keeps the invariant.
LEMMA StepIInv == IInv /\ [Next]_vars => IInv'
  <1> SUFFICES ASSUME IInv, [Next]_vars PROVE IInv'
    OBVIOUS
  <1>1. ASSUME NEW m \in Modes, NEW f \in [Bones -> Results], NEW s \in BOOLEAN,
               NEW e \in {"none", "state", "input", "composition"}, Render(m, f, e, s)
        PROVE  IInv'
    BY <1>1, RenderKeeps
  <1>2. CASE CallerStep
    BY <1>2, RejectCallKeeps, UpdateCommonKeeps, SerialUpdateKeeps, SkipUpdateKeeps,
       LateWakeKeeps, ForkKeeps, JoinKeeps, FlushKeeps DEF CallerStep
  <1>3. ASSUME NEW w \in Ids, WorkerStep(w)
        PROVE  IInv'
    <2>1. CASE UpdateBone(w) \/ PublishWorkerReady(w) \/ StartPartition(w) \/ Wait(w)
      BY <2>1, UpdateBoneKeeps, PublishKeeps, StartPartitionKeeps, WaitKeeps
    <2>2. CASE pc[w] = "draw" /\ \E n \in Emitted(w), key \in Depths \cup {Invalid} : Draw(w, n, key)
      BY <2>2, DrawKeeps
    <2>3. CASE Drawn(w) \/ BoneFailed(w)
      BY <2>3, DrawnKeeps, BoneFailedKeeps
    <2> QED
      BY <1>3, <2>1, <2>2, <2>3 DEF WorkerStep
  <1>4. CASE UNCHANGED vars
    BY <1>4, StutterKeeps
  <1> QED
    BY <1>1, <1>2, <1>3, <1>4 DEF Next

\* So it always holds.
LEMMA Invariance == Spec => []IInv
  BY InitIInv, StepIInv, PTL DEF Spec

\* Every variable keeps its type: no worker of run_worker ever leaves its range
\* of bones, groups or quads.
THEOREM TypeCorrect == Spec => []TypeOK
  <1>1. IInv => TypeOK
    BY DEF IInv
  <1> QED
    BY <1>1, Invariance, PTL

\* A worker of run_worker draws by a bone only after the owner computed it in
\* this frame, in every mode, and whatever earlier frames left in the flags.
THEOREM FreshBonesDrawn == Spec => []DrawsFreshBones
  <1>1. IInv => DrawsFreshBones
    BY BoneIsFresh DEF DrawsFreshBones
  <1> QED
    BY <1>1, Invariance, PTL

\* When Render reports success, every quad of the buffer and every depth key it
\* sorted by is of this frame.
THEOREM FramesComplete == Spec => []SuccessIsComplete
  <1>1. IInv => SuccessIsComplete
    BY DEF IInv, ReturnOK
  <1> QED
    BY <1>1, Invariance, PTL

\* What Render returns depends on its input alone, not on the mode or on the
\* order in which the workers met a bone that failed.
THEOREM OutcomeDecidedByInput == Spec => []OutcomeIsDeterministic
  <1>1. IInv => OutcomeIsDeterministic
    BY DEF IInv, ReturnOK
  <1> QED
    BY <1>1, Invariance, PTL

\* A sorted frame: the translucent quads lie from far to
\* near, and every one of a finite depth was drawn in this frame.
THEOREM DrawnFarToNear == Spec => []FarToNear
  <1>1. IInv => FarToNear
    BY DEF IInv, ReturnOK
  <1> QED
    BY <1>1, Invariance, PTL
=============================================================================
