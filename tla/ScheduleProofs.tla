--------------------------- MODULE ScheduleProofs ---------------------------
(***************************************************************************)
(* What RenderSchedule::Update leaves behind, for every model, every list  *)
(* of visible bones, every number of workers and every limit.              *)
(*                                                                         *)
(* The properties speak of an update that has returned; nothing of them    *)
(* holds while it runs.  The invariant says where each of its loops is:    *)
(* the bones that were found and counted, and for each of the four kinds   *)
(* how many groups the cursor has taken, which slot it fills, that the     *)
(* slots behind it hold exactly their range of groups, and which kinds are *)
(* laid out already; and which visible bones have an owner.                *)
(*                                                                         *)
(* SumUpTo and AllGroups are recursive functions.  What they compute for   *)
(* every argument is proved from the set of the numbers for which it       *)
(* holds: it has 0, and with n also n + 1, so it is all of Nat             *)
(* (SetInduction of TaskRangeProofs).                                      *)
(***************************************************************************)
EXTENDS Schedule, TaskRangeProofs, SequenceTheorems

-----------------------------------------------------------------------------
(* Sums.                                                                   *)

\* The list f is one of naturals, g agrees with it, g is its stretch after b.
NaturalsUpTo(f, n)     == \A i \in 1 .. n : f[i] \in Nat
Agree(f, g, n)      == \A i \in 1 .. n : f[i] = g[i]
Stretch(f, g, b, c) == \A i \in 1 .. c : g[i] = f[b + i]

IsRunningSum(g, f, n) == g = [i \in 0 .. n |-> IF i = 0 THEN 0 ELSE g[i - 1] + f[i]]

\* The running sum of a list exists.
LEMMA RunningSumExists ==
  ASSUME NEW f
  PROVE  \A n \in Nat : \E g : IsRunningSum(g, f, n)
  <1> DEFINE S == {n \in Nat : \E g : IsRunningSum(g, f, n)}
  <1>1. 0 \in S
    <2> DEFINE g == [i \in 0 .. 0 |-> 0]
    <2>1. IsRunningSum(g, f, 0)
      BY DEF IsRunningSum
    <2> QED
      BY <2>1
  <1>2. ASSUME NEW n \in Nat, n \in S
        PROVE  n + 1 \in S
    <2>1. PICK g : IsRunningSum(g, f, n)
      BY <1>2
    <2> DEFINE h == [i \in 0 .. n + 1 |-> IF i = 0 THEN 0 ELSE g[i - 1] + f[i]]
    <2>2. \A i \in 0 .. n : h[i] = g[i]
      BY <2>1 DEF IsRunningSum
    <2>3. ASSUME NEW i \in 0 .. n + 1
          PROVE  h[i] = IF i = 0 THEN 0 ELSE h[i - 1] + f[i]
      <3>1. CASE i = 0
        BY <3>1
      <3>2. CASE i # 0
        <4>1. i - 1 \in 0 .. n
          BY <3>2
        <4>2. h[i - 1] = g[i - 1]
          BY <2>2, <4>1
        <4>3. h[i] = g[i - 1] + f[i]
          BY <3>2
        <4> HIDE DEF h
        <4> QED
          BY <3>2, <4>2, <4>3
      <3> QED
        BY <3>1, <3>2
    <2>4. IsRunningSum(h, f, n + 1)
      BY <2>3 DEF IsRunningSum
    <2> QED
      BY <2>4
  <1> HIDE DEF S
  <1>3. Nat \subseteq S
    BY <1>1, <1>2, SetInduction
  <1> QED
    BY <1>3 DEF S

\* Two running sums of lists that agree do, as far as both go.
LEMMA RunningSumsAgree ==
  ASSUME NEW f, NEW e, NEW a \in Nat, NEW b \in Nat, a <= b,
         NEW g, NEW h, IsRunningSum(g, f, a), IsRunningSum(h, e, b), Agree(f, e, a)
  PROVE  \A n \in 0 .. a : g[n] = h[n]
  <1> DEFINE S == {n \in Nat : n <= a => g[n] = h[n]}
  <1>1. 0 \in S
    BY DEF IsRunningSum
  <1>2. ASSUME NEW n \in Nat, n \in S
        PROVE  n + 1 \in S
    <2>1. n + 1 <= a => g[n + 1] = g[n] + f[n + 1]
      BY DEF IsRunningSum
    <2>2. n + 1 <= a => h[n + 1] = h[n] + e[n + 1]
      BY DEF IsRunningSum
    <2>3. n + 1 <= a => f[n + 1] = e[n + 1]
      BY DEF Agree
    <2> QED
      BY <1>2, <2>1, <2>2, <2>3
  <1> HIDE DEF S
  <1>3. Nat \subseteq S
    BY <1>1, <1>2, SetInduction
  <1> QED
    BY <1>3 DEF S

\* SumUpTo is the running sum: its recursive function exists.
LEMMA SumIsRunning ==
  ASSUME NEW f, NEW n \in Nat
  PROVE  \E g : IsRunningSum(g, f, n) /\ SumUpTo(f, n) = g[n]
  <1> DEFINE g == CHOOSE e : IsRunningSum(e, f, n)
  <1>1. IsRunningSum(g, f, n)
    BY RunningSumExists
  <1>2. SumUpTo(f, n) = g[n]
    BY DEF SumUpTo, IsRunningSum
  <1> QED
    BY <1>1, <1>2

\* A sum of nothing, and of one more.
LEMMA SumStep ==
  ASSUME NEW f, NEW n \in Nat
  PROVE  SumUpTo(f, 0) = 0 /\ SumUpTo(f, n + 1) = SumUpTo(f, n) + f[n + 1]
  <1>0. n + 1 \in Nat /\ n <= n + 1 /\ n \in 0 .. n /\ 0 \in Nat
    OBVIOUS
  <1>1. PICK g : IsRunningSum(g, f, n) /\ SumUpTo(f, n) = g[n]
    BY SumIsRunning
  <1>2. PICK h : IsRunningSum(h, f, n + 1) /\ SumUpTo(f, n + 1) = h[n + 1]
    BY <1>0, SumIsRunning
  <1>3. g[n] = h[n]
    <2>1. Agree(f, f, n)
      BY DEF Agree
    <2> QED
      BY <1>0, <1>1, <1>2, <2>1, RunningSumsAgree
  <1>4. h[n + 1] = h[n] + f[n + 1]
    BY <1>2 DEF IsRunningSum
  <1>5. PICK e : IsRunningSum(e, f, 0) /\ SumUpTo(f, 0) = e[0]
    BY <1>0, SumIsRunning
  <1>6. e[0] = 0
    BY <1>5 DEF IsRunningSum
  <1> QED
    BY <1>1, <1>2, <1>3, <1>4, <1>5, <1>6

\* The sum of a stretch of a list of naturals is the difference of two sums.
LEMMA SumOfStretch ==
  ASSUME NEW f, NEW g, NEW b \in Nat, NEW c \in Nat,
         NaturalsUpTo(f, b + c), Stretch(f, g, b, c)
  PROVE  /\ SumUpTo(f, b) \in Nat /\ SumUpTo(g, c) \in Nat
         /\ SumUpTo(f, b + c) = SumUpTo(f, b) + SumUpTo(g, c)
  <1> DEFINE S == {n \in Nat : n <= b + c => SumUpTo(f, n) \in Nat}
             T == {n \in Nat : n <= c => /\ SumUpTo(g, n) \in Nat
                                         /\ SumUpTo(f, b + n) = SumUpTo(f, b) + SumUpTo(g, n)}
  <1>1. 0 \in S
    BY SumStep
  <1>2. ASSUME NEW n \in Nat, n \in S
        PROVE  n + 1 \in S
    <2>1. n + 1 <= b + c => f[n + 1] \in Nat
      BY DEF NaturalsUpTo
    <2>2. SumUpTo(f, n + 1) = SumUpTo(f, n) + f[n + 1]
      BY SumStep
    <2> QED
      BY <1>2, <2>1, <2>2
  <1> HIDE DEF S
  <1>3. Nat \subseteq S
    BY <1>1, <1>2, SetInduction
  <1>4. SumUpTo(f, b) \in Nat
    BY <1>3 DEF S
  <1>5. 0 \in T
    <2>1. SumUpTo(g, 0) = 0 /\ b + 0 = b
      BY SumStep
    <2> QED
      BY <1>4, <2>1
  <1>6. ASSUME NEW n \in Nat, n \in T
        PROVE  n + 1 \in T
    <2> SUFFICES ASSUME n + 1 <= c
                 PROVE  /\ SumUpTo(g, n + 1) \in Nat
                        /\ SumUpTo(f, b + (n + 1)) = SumUpTo(f, b) + SumUpTo(g, n + 1)
      OBVIOUS
    <2>1. b + n \in Nat /\ b + (n + 1) = (b + n) + 1 /\ n + 1 \in 1 .. c /\ b + (n + 1) \in 1 .. b + c
      OBVIOUS
    <2>2. SumUpTo(g, n + 1) = SumUpTo(g, n) + g[n + 1]
      BY SumStep
    <2>3. SumUpTo(f, (b + n) + 1) = SumUpTo(f, b + n) + f[(b + n) + 1]
      BY <2>1, SumStep
    <2>4. g[n + 1] = f[b + (n + 1)] /\ f[b + (n + 1)] \in Nat
      BY <2>1 DEF NaturalsUpTo, Stretch
    <2>5. SumUpTo(g, n) \in Nat /\ SumUpTo(f, b + n) = SumUpTo(f, b) + SumUpTo(g, n)
      BY <1>6
    <2> QED
      BY <1>4, <2>1, <2>2, <2>3, <2>4, <2>5
  <1> HIDE DEF T
  <1>7. Nat \subseteq T
    BY <1>5, <1>6, SetInduction
  <1> QED
    BY <1>4, <1>7 DEF T

\* Sums of lists that agree are the same.
LEMMA SumsOfSame ==
  ASSUME NEW f, NEW g, NEW n \in Nat, Agree(f, g, n)
  PROVE  SumUpTo(f, n) = SumUpTo(g, n)
  <1>1. PICK e : IsRunningSum(e, f, n) /\ SumUpTo(f, n) = e[n]
    BY SumIsRunning
  <1>2. PICK h : IsRunningSum(h, g, n) /\ SumUpTo(g, n) = h[n]
    BY SumIsRunning
  <1>3. n <= n /\ n \in 0 .. n
    OBVIOUS
  <1>4. e[n] = h[n]
    BY <1>1, <1>2, <1>3, RunningSumsAgree
  <1> QED
    BY <1>1, <1>2, <1>4

-----------------------------------------------------------------------------
(* The visible groups of a kind.                                           *)

\* A group is named by its bone and its place in the bone.
Names == Nat \X Nat

\* Every visible bone is a bone of the model.
AllThere == \A i \in 1 .. Len(render) : render[i] < Len(model)

ArgsOK == model \in Models \cup {<<>>} /\ render \in RenderLists \cup {<<>>}

\* The number of groups of the first i visible bones.
Count(k, i) == SumUpTo([j \in 1 .. Len(render) |-> Len(model[render[j] + 1][k])], i)

\* The vertices of the first j visible groups.
Quads(k) == [i \in 1 .. Len(AllGroups(k)) |->
               QuadsOf(k, model[AllGroups(k)[i][1] + 1][k][AllGroups(k)[i][2] + 1])]
Vertices(k, j) == 4 * SumUpTo(Quads(k), j)

\* What the assumptions on the constants say of the arguments.
LEMMA ArgsFacts ==
  ASSUME ArgsOK
  PROVE  /\ render \in Seq(Nat) /\ Len(render) \in Nat
         /\ \A i \in 1 .. Len(render) : render[i] \in Nat
         /\ model \in Seq([Kinds -> Seq(Groups)]) /\ Len(model) \in Nat
         /\ \A b \in 1 .. Len(model), k \in Kinds :
              /\ model[b][k] \in Seq(Groups) /\ Len(model[b][k]) \in Nat
              /\ \A p \in 1 .. Len(model[b][k]) : QuadsOf(k, model[b][k][p]) \in Nat
  <1>1. render \in Seq(Nat)
    <2>1. render \in RenderLists => render \in Seq(Nat)
      BY RenderListsAssumption
    <2>2. <<>> \in Seq(Nat)
      OBVIOUS
    <2> QED
      BY <2>1, <2>2 DEF ArgsOK
  <1>2. model \in Seq([Kinds -> Seq(Groups)])
    <2>1. model \in Models => model \in Seq([Kinds -> Seq(Groups)])
      BY ModelsAssumption
    <2>2. <<>> \in Seq([Kinds -> Seq(Groups)])
      BY EmptySeq
    <2> QED
      BY <2>1, <2>2 DEF ArgsOK
  <1>3. Len(render) \in Nat /\ \A i \in 1 .. Len(render) : render[i] \in Nat
    BY <1>1, ElementOfSeq, LenProperties
  <1>4. ASSUME NEW b \in 1 .. Len(model), NEW k \in Kinds
        PROVE  /\ model[b][k] \in Seq(Groups) /\ Len(model[b][k]) \in Nat
               /\ \A p \in 1 .. Len(model[b][k]) : QuadsOf(k, model[b][k][p]) \in Nat
    <2>1. model[b] \in [Kinds -> Seq(Groups)]
      BY <1>2, ElementOfSeq
    <2>2. model[b][k] \in Seq(Groups)
      BY <2>1
    <2>3. ASSUME NEW p \in 1 .. Len(model[b][k])
          PROVE  QuadsOf(k, model[b][k][p]) \in Nat
      <3>1. model[b][k][p] \in Groups
        BY <2>2, ElementOfSeq
      <3> QED
        BY <3>1 DEF QuadsOf, Groups
    <2> QED
      BY <2>2, <2>3, LenProperties
  <1> QED
    BY <1>1, <1>2, <1>3, <1>4, LenProperties

\* A visible bone, in the model.
LEMMA VisibleBone ==
  ASSUME ArgsOK, AllThere, NEW j \in 0 .. Len(render) - 1
  PROVE  render[j + 1] \in Nat /\ render[j + 1] + 1 \in 1 .. Len(model)
  <1>1. Len(render) \in Nat /\ Len(model) \in Nat
    BY ArgsFacts
  <1>2. j + 1 \in 1 .. Len(render)
    BY <1>1
  <1>3. render[j + 1] \in Nat /\ render[j + 1] < Len(model)
    BY <1>2, ArgsFacts DEF AllThere
  <1> QED
    BY <1>1, <1>3

\* The counts of the bones add up.
LEMMA CountFacts ==
  ASSUME ArgsOK, AllThere, NEW k \in Kinds
  PROVE  /\ Count(k, 0) = 0
         /\ \A i \in 0 .. Len(render) : Count(k, i) \in Nat
         /\ \A i \in 0 .. Len(render) - 1 :
              /\ Len(model[render[i + 1] + 1][k]) \in Nat
              /\ Count(k, i + 1) = Count(k, i) + Len(model[render[i + 1] + 1][k])
         /\ \A i, j \in 0 .. Len(render) : i <= j => Count(k, i) <= Count(k, j)
  <1> DEFINE f == [j \in 1 .. Len(render) |-> Len(model[render[j] + 1][k])]
  <1>0. \A i : Count(k, i) = SumUpTo(f, i)
    BY DEF Count
  <1>1. Len(render) \in Nat
    BY ArgsFacts
  <1>2. \A j \in 1 .. Len(render) : f[j] \in Nat /\ f[j] = Len(model[render[j] + 1][k])
    <2> SUFFICES ASSUME NEW j \in 1 .. Len(render) PROVE f[j] \in Nat
      OBVIOUS
    <2>1. render[j] + 1 \in 1 .. Len(model)
      BY ArgsFacts DEF AllThere
    <2> QED
      BY <2>1, ArgsFacts
  <1> HIDE DEF f
  <1>3. ASSUME NEW i \in 0 .. Len(render), NEW j \in 0 .. Len(render), i <= j
        PROVE  SumUpTo(f, i) \in Nat /\ SumUpTo(f, i) <= SumUpTo(f, j)
    <2> DEFINE c == j - i
               g == [m \in 1 .. c |-> f[i + m]]
    <2>1. i \in Nat /\ c \in Nat /\ i + c = j
      BY <1>1, <1>3
    <2>2. NaturalsUpTo(f, i + c)
      BY <1>1, <1>2, <2>1 DEF NaturalsUpTo
    <2>3. Stretch(f, g, i, c)
      BY DEF Stretch
    <2> HIDE DEF c, g
    <2>4. /\ SumUpTo(f, i) \in Nat /\ SumUpTo(g, c) \in Nat
          /\ SumUpTo(f, i + c) = SumUpTo(f, i) + SumUpTo(g, c)
      BY <2>1, <2>2, <2>3, SumOfStretch
    <2> QED
      BY <2>1, <2>4
  <1>4. ASSUME NEW i \in 0 .. Len(render) - 1
        PROVE  /\ Len(model[render[i + 1] + 1][k]) \in Nat
               /\ Count(k, i + 1) = Count(k, i) + Len(model[render[i + 1] + 1][k])
    <2>1. i + 1 \in 1 .. Len(render) /\ i \in Nat
      BY <1>1
    <2>2. SumUpTo(f, i + 1) = SumUpTo(f, i) + f[i + 1]
      BY <2>1, SumStep
    <2> QED
      BY <1>0, <1>2, <2>1, <2>2
  <1>5. SumUpTo(f, 0) = 0
    <2>1. 0 \in Nat
      OBVIOUS
    <2> QED
      BY <2>1, SumStep
  <1> QED
    BY <1>0, <1>3, <1>4, <1>5

IsNaming(g, k, n) ==
  g = [i \in 0 .. n |-> IF i = 0 THEN <<>> ELSE g[i - 1] \o GroupsOf(k, render[i])]

\* The recursive function of AllGroups exists.
LEMMA NamingExists ==
  ASSUME NEW k
  PROVE  \A n \in Nat : \E g : IsNaming(g, k, n)
  <1> DEFINE S == {n \in Nat : \E g : IsNaming(g, k, n)}
  <1>1. 0 \in S
    <2> DEFINE g == [i \in 0 .. 0 |-> <<>>]
    <2>1. IsNaming(g, k, 0)
      BY DEF IsNaming
    <2> QED
      BY <2>1
  <1>2. ASSUME NEW n \in Nat, n \in S
        PROVE  n + 1 \in S
    <2>1. PICK g : IsNaming(g, k, n)
      BY <1>2
    <2> DEFINE h == [i \in 0 .. n + 1 |->
                       IF i = 0 THEN <<>> ELSE g[i - 1] \o GroupsOf(k, render[i])]
    <2>2. \A i \in 0 .. n : h[i] = g[i]
      BY <2>1 DEF IsNaming
    <2>3. ASSUME NEW i \in 0 .. n + 1
          PROVE  h[i] = IF i = 0 THEN <<>> ELSE h[i - 1] \o GroupsOf(k, render[i])
      <3>1. CASE i = 0
        BY <3>1
      <3>2. CASE i # 0
        <4>1. i - 1 \in 0 .. n
          BY <3>2
        <4>2. h[i - 1] = g[i - 1]
          BY <2>2, <4>1
        <4>3. h[i] = g[i - 1] \o GroupsOf(k, render[i])
          BY <3>2
        <4> HIDE DEF h
        <4> QED
          BY <3>2, <4>2, <4>3
      <3> QED
        BY <3>1, <3>2
    <2>4. IsNaming(h, k, n + 1)
      BY <2>3 DEF IsNaming
    <2> QED
      BY <2>4
  <1> HIDE DEF S
  <1>3. Nat \subseteq S
    BY <1>1, <1>2, SetInduction
  <1> QED
    BY <1>3 DEF S

\* The groups of one visible bone.
LEMMA GroupsOfFacts ==
  ASSUME ArgsOK, AllThere, NEW k \in Kinds, NEW i \in 1 .. Len(render)
  PROVE  /\ GroupsOf(k, render[i]) \in Seq(Names)
         /\ Len(GroupsOf(k, render[i])) = Len(model[render[i] + 1][k])
         /\ Len(model[render[i] + 1][k]) \in Nat
         /\ \A p \in 1 .. Len(model[render[i] + 1][k]) :
              GroupsOf(k, render[i])[p] = <<render[i], p - 1>>
  <1> DEFINE n == Len(model[render[i] + 1][k])
  <1>1. render[i] \in Nat /\ render[i] + 1 \in 1 .. Len(model)
    BY ArgsFacts DEF AllThere
  <1>2. n \in Nat
    BY <1>1, ArgsFacts
  <1>3. GroupsOf(k, render[i]) = [p \in 1 .. n |-> <<render[i], p - 1>>]
    BY DEF GroupsOf
  <1>4. \A p \in 1 .. n : <<render[i], p - 1>> \in Names
    BY <1>1, <1>2 DEF Names
  <1> HIDE DEF n
  <1>5. GroupsOf(k, render[i]) \in Seq(Names) /\ Len(GroupsOf(k, render[i])) = n
    BY <1>2, <1>3, <1>4
  <1> QED
    BY <1>2, <1>3, <1>5 DEF n

\* A list followed by another.
LEMMA Joined ==
  ASSUME NEW S, NEW s \in Seq(S), NEW t \in Seq(S), NEW m, NEW n, Len(s) = m, Len(t) = n
  PROVE  /\ s \o t \in Seq(S) /\ Len(s \o t) = m + n /\ m \in Nat /\ n \in Nat
         /\ \A i \in 1 .. m : (s \o t)[i] = s[i]
         /\ \A i \in 1 .. n : (s \o t)[m + i] = t[i]
  <1>1. m \in Nat /\ n \in Nat
    BY LenProperties
  <1>2. /\ s \o t \in Seq(S) /\ Len(s \o t) = m + n
        /\ \A i \in 1 .. m + n : (s \o t)[i] = IF i <= m THEN s[i] ELSE t[i - m]
    BY ConcatProperties
  <1>3. ASSUME NEW i \in 1 .. m
        PROVE  (s \o t)[i] = s[i]
    <2>1. i \in 1 .. m + n /\ i <= m
      BY <1>1
    <2> QED
      BY <1>2, <2>1
  <1>4. ASSUME NEW i \in 1 .. n
        PROVE  (s \o t)[m + i] = t[i]
    <2>1. m + i \in 1 .. m + n /\ ~(m + i <= m) /\ (m + i) - m = i
      BY <1>1
    <2> QED
      BY <1>2, <2>1
  <1> QED
    BY <1>1, <1>2, <1>3, <1>4

\* Where the groups of a bone lie in the list of all visible groups.
LEMMA AllGroupsFacts ==
  ASSUME ArgsOK, AllThere, NEW k \in Kinds
  PROVE  /\ AllGroups(k) \in Seq(Names)
         /\ Len(AllGroups(k)) = Count(k, Len(render))
         /\ \A j \in 0 .. Len(render) - 1 : \A p \in 1 .. Len(model[render[j + 1] + 1][k]) :
              AllGroups(k)[Count(k, j) + p] = <<render[j + 1], p - 1>>
  <1>0. Len(render) \in Nat
    BY ArgsFacts
  <1> DEFINE g == CHOOSE f : IsNaming(f, k, Len(render))
  <1>1. IsNaming(g, k, Len(render))
    BY <1>0, NamingExists
  <1>2. AllGroups(k) = g[Len(render)]
    BY DEF AllGroups, IsNaming
  <1> HIDE DEF g
  <1> DEFINE Fine(n) ==
       /\ g[n] \in Seq(Names) /\ Len(g[n]) = Count(k, n)
       /\ \A j \in 0 .. n - 1 : \A p \in 1 .. Len(model[render[j + 1] + 1][k]) :
            g[n][Count(k, j) + p] = <<render[j + 1], p - 1>>
             S == {n \in Nat : n <= Len(render) => Fine(n)}
  <1>3. 0 \in S
    <2>1. g[0] = <<>>
      BY <1>0, <1>1 DEF IsNaming
    <2>2. Count(k, 0) = 0
      BY CountFacts
    <2>3. <<>> \in Seq(Names) /\ Len(<<>>) = 0
      BY EmptySeq
    <2>4. \A j \in 0 .. 0 - 1 : FALSE
      OBVIOUS
    <2>5. Fine(0)
      BY <2>1, <2>2, <2>3, <2>4
    <2> QED
      BY <2>5
  <1>4. ASSUME NEW n \in Nat, n \in S
        PROVE  n + 1 \in S
    <2> HIDE DEF Fine
    <2> SUFFICES ASSUME n + 1 <= Len(render) PROVE Fine(n + 1)
      OBVIOUS
    <2>1. Fine(n)
      BY <1>0, <1>4
    <2> USE DEF Fine
    <2> DEFINE s == GroupsOf(k, render[n + 1])
               c == Len(model[render[n + 1] + 1][k])
    <2>2. n + 1 \in 1 .. Len(render) /\ n \in 0 .. Len(render) - 1 /\ n \in 0 .. Len(render)
      BY <1>0
    <2>3. /\ s \in Seq(Names) /\ Len(s) = c /\ c \in Nat
          /\ \A p \in 1 .. c : s[p] = <<render[n + 1], p - 1>>
      BY <2>2, GroupsOfFacts
    <2>4. Count(k, n + 1) = Count(k, n) + c /\ Count(k, n) \in Nat
      BY <2>2, CountFacts
    <2>5. g[n + 1] = g[n] \o s
      <3>1. n + 1 \in 0 .. Len(render) /\ n + 1 # 0 /\ (n + 1) - 1 = n
        BY <2>2
      <3>2. \A i \in 0 .. Len(render) : i # 0 => g[i] = g[i - 1] \o GroupsOf(k, render[i])
        BY <1>1 DEF IsNaming
      <3>3. g[n + 1] = g[(n + 1) - 1] \o GroupsOf(k, render[n + 1])
        BY <3>1, <3>2
      <3> QED
        BY <3>1, <3>3
    <2> HIDE DEF s, c
    <2>6. /\ g[n + 1] \in Seq(Names) /\ Len(g[n + 1]) = Count(k, n) + c
          /\ \A i \in 1 .. Count(k, n) : g[n + 1][i] = g[n][i]
          /\ \A i \in 1 .. c : g[n + 1][Count(k, n) + i] = s[i]
      <3>1. g[n] \in Seq(Names) /\ Len(g[n]) = Count(k, n)
        BY <2>1
      <3>2. /\ g[n] \o s \in Seq(Names) /\ Len(g[n] \o s) = Count(k, n) + c
            /\ \A i \in 1 .. Count(k, n) : (g[n] \o s)[i] = g[n][i]
            /\ \A i \in 1 .. c : (g[n] \o s)[Count(k, n) + i] = s[i]
        <4> DEFINE a == g[n]
                   x == Count(k, n)
        <4>1. /\ a \in Seq(Names) /\ Len(a) = x
              /\ s \in Seq(Names) /\ Len(s) = c
          BY <2>3, <3>1
        <4> HIDE DEF Fine, S, a, x
        <4>2. /\ a \o s \in Seq(Names) /\ Len(a \o s) = x + c
              /\ \A i \in 1 .. x : (a \o s)[i] = a[i]
              /\ \A i \in 1 .. c : (a \o s)[x + i] = s[i]
          BY <4>1, Joined
        <4> QED
          BY <4>2 DEF a, x
      <3> QED
        BY <2>5, <3>2
    <2>7. ASSUME NEW j \in 0 .. n, NEW p \in 1 .. Len(model[render[j + 1] + 1][k])
          PROVE  g[n + 1][Count(k, j) + p] = <<render[j + 1], p - 1>>
      <3>1. CASE j = n
        <4>1. p \in 1 .. c
          BY <3>1 DEF c
        <4> QED
          BY <2>3, <2>6, <3>1, <4>1
      <3>2. CASE j < n
        <4>1. j \in 0 .. n - 1 /\ j \in 0 .. Len(render) - 1 /\ j + 1 \in 0 .. Len(render)
              /\ j + 1 <= n
          BY <2>2, <3>2
        <4>2. /\ Len(model[render[j + 1] + 1][k]) \in Nat /\ Count(k, j) \in Nat
              /\ Count(k, j) + Len(model[render[j + 1] + 1][k]) <= Count(k, n)
          <5>1. Len(model[render[j + 1] + 1][k]) \in Nat /\ Count(k, j) \in Nat
                /\ Count(k, j + 1) = Count(k, j) + Len(model[render[j + 1] + 1][k])
            BY <4>1, CountFacts
          <5>2. Count(k, j + 1) <= Count(k, n)
            BY <2>2, <4>1, CountFacts
          <5> QED
            BY <5>1, <5>2
        <4>3. Count(k, j) + p \in 1 .. Count(k, n)
          <5> DEFINE x == Count(k, j)
                     y == Len(model[render[j + 1] + 1][k])
                     z == Count(k, n)
          <5>1. x \in Nat /\ y \in Nat /\ z \in Nat /\ x + y <= z /\ p \in 1 .. y
            BY <2>4, <4>2
          <5> HIDE DEF x, y, z
          <5>2. x + p \in 1 .. z
            BY <5>1
          <5> QED
            BY <5>2 DEF x, z
        <4> QED
          BY <2>1, <2>6, <4>1, <4>3
      <3> QED
        BY <3>1, <3>2
    <2>8. (n + 1) - 1 = n
      OBVIOUS
    <2> QED
      BY <2>4, <2>6, <2>7, <2>8
  <1>5. Len(render) \in S
    <2> HIDE DEF S
    <2> QED
      BY <1>0, <1>3, <1>4, SetInduction
  <1>6. Fine(Len(render))
    BY <1>0, <1>5
  <1> QED
    BY <1>0, <1>2, <1>6

\* Every position of that list is a group of some visible bone.
LEMMA Located ==
  ASSUME ArgsOK, AllThere, NEW k \in Kinds, NEW i \in 1 .. Count(k, Len(render))
  PROVE  \E j \in 0 .. Len(render) - 1 : \E p \in 1 .. Len(model[render[j + 1] + 1][k]) :
           i = Count(k, j) + p
  <1>0. Len(render) \in Nat /\ Count(k, Len(render)) \in Nat /\ i \in Nat \ {0}
    <2>1. Len(render) \in Nat /\ Len(render) \in 0 .. Len(render)
      BY ArgsFacts
    <2> QED
      BY <2>1, CountFacts
  <1> DEFINE T == {m \in 0 .. Len(render) : i <= Count(k, m)}
  <1>1. T \subseteq Nat /\ T # {}
    BY <1>0
  <1>2. PICK m \in T : \A l \in T : m <= l
    <2> HIDE DEF T
    <2> QED
      BY <1>1, LeastNat
  <1>3. m # 0
    BY <1>0, CountFacts
  <1>4. m - 1 \in 0 .. Len(render) - 1 /\ m - 1 \in 0 .. Len(render) /\ (m - 1) + 1 = m
    BY <1>0, <1>3
  <1>5. ~(i <= Count(k, m - 1))
    <2>1. m - 1 \notin T
      BY <1>2, <1>4
    <2> QED
      BY <1>4, <2>1
  <1>6. /\ Count(k, m - 1) \in Nat /\ Len(model[render[m] + 1][k]) \in Nat
        /\ Count(k, m) = Count(k, m - 1) + Len(model[render[m] + 1][k])
    <2>1. /\ Count(k, m - 1) \in Nat
          /\ Len(model[render[(m - 1) + 1] + 1][k]) \in Nat
          /\ Count(k, (m - 1) + 1) = Count(k, m - 1) + Len(model[render[(m - 1) + 1] + 1][k])
      BY <1>4, CountFacts
    <2> QED
      BY <1>4, <2>1
  <1>7. i <= Count(k, m)
    BY <1>2
  <1>8. i - Count(k, m - 1) \in 1 .. Len(model[render[m] + 1][k])
    <2> DEFINE x == Count(k, m - 1)
               y == Len(model[render[m] + 1][k])
               z == Count(k, m)
    <2>1. x \in Nat /\ y \in Nat /\ z = x + y /\ ~(i <= x) /\ i <= z
      BY <1>5, <1>6, <1>7
    <2> HIDE DEF x, y, z
    <2>2. i - x \in 1 .. y
      BY <1>0, <2>1
    <2> QED
      BY <2>2 DEF x, y
  <1>9. i = Count(k, m - 1) + (i - Count(k, m - 1))
    BY <1>0, <1>6
  <1> QED
    BY <1>4, <1>8, <1>9

\* Each of its groups has a number of quads.
LEMMA QuadsAreNat ==
  ASSUME ArgsOK, AllThere, NEW k \in Kinds
  PROVE  /\ \A j \in 0 .. Len(render) - 1 : \A p \in 1 .. Len(model[render[j + 1] + 1][k]) :
              Quads(k)[Count(k, j) + p] = QuadsOf(k, model[render[j + 1] + 1][k][p])
         /\ NaturalsUpTo(Quads(k), Count(k, Len(render)))
  <1>0. Len(render) \in Nat /\ Count(k, Len(render)) \in Nat
    <2>1. Len(render) \in Nat /\ Len(render) \in 0 .. Len(render)
      BY ArgsFacts
    <2> QED
      BY <2>1, CountFacts
  <1>1. ASSUME NEW j \in 0 .. Len(render) - 1, NEW p \in 1 .. Len(model[render[j + 1] + 1][k])
        PROVE  /\ Quads(k)[Count(k, j) + p] = QuadsOf(k, model[render[j + 1] + 1][k][p])
               /\ QuadsOf(k, model[render[j + 1] + 1][k][p]) \in Nat
    <2>1. render[j + 1] \in Nat /\ render[j + 1] + 1 \in 1 .. Len(model)
      BY VisibleBone
    <2>2. QuadsOf(k, model[render[j + 1] + 1][k][p]) \in Nat
      BY <2>1, ArgsFacts
    <2>3. AllGroups(k)[Count(k, j) + p] = <<render[j + 1], p - 1>>
      BY AllGroupsFacts
    <2>4. Count(k, j) + p \in 1 .. Count(k, Len(render))
      <3>1. /\ Count(k, j) \in Nat /\ Len(model[render[j + 1] + 1][k]) \in Nat
            /\ Count(k, j + 1) = Count(k, j) + Len(model[render[j + 1] + 1][k])
            /\ Count(k, j + 1) <= Count(k, Len(render))
        <4>1. j \in 0 .. Len(render) /\ j + 1 \in 0 .. Len(render)
              /\ Len(render) \in 0 .. Len(render) /\ j + 1 <= Len(render)
          BY <1>0
        <4> QED
          BY <4>1, CountFacts
      <3> DEFINE x == Count(k, j)
                 y == Len(model[render[j + 1] + 1][k])
                 z == Count(k, Len(render))
      <3>2. x \in Nat /\ y \in Nat /\ z \in Nat /\ x + y <= z /\ p \in 1 .. y
        BY <1>0, <3>1
      <3> HIDE DEF x, y, z
      <3>3. x + p \in 1 .. z
        BY <3>2
      <3> QED
        BY <3>3 DEF x, z
    <2>5. Len(AllGroups(k)) = Count(k, Len(render))
      BY AllGroupsFacts
    <2>6. Quads(k)[Count(k, j) + p] =
            QuadsOf(k, model[<<render[j + 1], p - 1>>[1] + 1][k][<<render[j + 1], p - 1>>[2] + 1])
      BY <2>3, <2>4, <2>5 DEF Quads
    <2>7. (p - 1) + 1 = p
      BY <1>0
    <2> QED
      BY <2>2, <2>6, <2>7
  <1>2. ASSUME NEW i \in 1 .. Count(k, Len(render))
        PROVE  Quads(k)[i] \in Nat
    <2>1. PICK j \in 0 .. Len(render) - 1 :
            \E p \in 1 .. Len(model[render[j + 1] + 1][k]) : i = Count(k, j) + p
      BY Located
    <2>2. PICK p \in 1 .. Len(model[render[j + 1] + 1][k]) : i = Count(k, j) + p
      BY <2>1
    <2> QED
      BY <1>1, <2>2
  <1> QED
    BY <1>1, <1>2 DEF NaturalsUpTo

\* The vertices of the first groups grow with the groups.
LEMMA VerticesFacts ==
  ASSUME ArgsOK, AllThere, NEW k \in Kinds
  PROVE  /\ Vertices(k, 0) = 0
         /\ \A i \in 0 .. Count(k, Len(render)) : Vertices(k, i) \in Nat
         /\ \A i, j \in 0 .. Count(k, Len(render)) : i <= j => Vertices(k, i) <= Vertices(k, j)
  <1> DEFINE f == Quads(k)
             N == Count(k, Len(render))
  <1>0. N \in Nat
    <2>1. Len(render) \in Nat /\ Len(render) \in 0 .. Len(render)
      BY ArgsFacts
    <2> QED
      BY <2>1, CountFacts
  <1>1. NaturalsUpTo(f, N)
    BY QuadsAreNat
  <1>2. \A i : Vertices(k, i) = 4 * SumUpTo(f, i)
    BY DEF Vertices
  <1> HIDE DEF f, N
  <1>3. ASSUME NEW i \in 0 .. N, NEW j \in 0 .. N, i <= j
        PROVE  SumUpTo(f, i) \in Nat /\ SumUpTo(f, j) \in Nat /\ SumUpTo(f, i) <= SumUpTo(f, j)
    <2> DEFINE c == j - i
               g == [m \in 1 .. c |-> f[i + m]]
    <2>1. i \in Nat /\ c \in Nat /\ i + c = j
      BY <1>0, <1>3
    <2>2. NaturalsUpTo(f, i + c)
      BY <1>0, <1>1, <2>1 DEF NaturalsUpTo
    <2>3. Stretch(f, g, i, c)
      BY DEF Stretch
    <2> HIDE DEF c, g
    <2>4. /\ SumUpTo(f, i) \in Nat /\ SumUpTo(g, c) \in Nat
          /\ SumUpTo(f, i + c) = SumUpTo(f, i) + SumUpTo(g, c)
      BY <2>1, <2>2, <2>3, SumOfStretch
    <2>5. SumUpTo(f, j) = SumUpTo(f, i) + SumUpTo(g, c)
      BY <2>1, <2>4
    <2> QED
      BY <2>4, <2>5
  <1>4. SumUpTo(f, 0) = 0
    <2>1. 0 \in Nat
      OBVIOUS
    <2> QED
      BY <2>1, SumStep
  <1>5. Vertices(k, 0) = 0
    BY <1>2, <1>4
  <1>6. ASSUME NEW i \in 0 .. N, NEW j \in 0 .. N, i <= j
        PROVE  Vertices(k, i) \in Nat /\ Vertices(k, i) <= Vertices(k, j)
    <2>1. SumUpTo(f, i) \in Nat /\ SumUpTo(f, j) \in Nat /\ SumUpTo(f, i) <= SumUpTo(f, j)
      BY <1>3, <1>6
    <2>2. Vertices(k, i) = 4 * SumUpTo(f, i) /\ Vertices(k, j) = 4 * SumUpTo(f, j)
      BY <1>2
    <2> HIDE DEF N
    <2> QED
      BY <2>1, <2>2
  <1>7. \A i \in 0 .. N : i <= i
    BY <1>0
  <1> QED
    BY <1>5, <1>6, <1>7 DEF N

\* The vertices of a run of groups, as VerticesOf counts them.
LEMMA VerticesOfRun ==
  ASSUME ArgsOK, AllThere, NEW k \in Kinds,
         NEW a \in 0 .. Count(k, Len(render)), NEW b \in 0 .. Count(k, Len(render)), a <= b
  PROVE  VerticesOf(k, SubSeq(AllGroups(k), a + 1, b)) = Vertices(k, b) - Vertices(k, a)
  <1> DEFINE A == AllGroups(k)
             s == SubSeq(A, a + 1, b)
             N == Count(k, Len(render))
             c == b - a
             g == [i \in 1 .. c |-> QuadsOf(k, model[s[i][1] + 1][k][s[i][2] + 1])]
  <1>0. N \in Nat
    <2>1. Len(render) \in Nat /\ Len(render) \in 0 .. Len(render)
      BY ArgsFacts
    <2> QED
      BY <2>1, CountFacts
  <1>1. A \in Seq(Names) /\ Len(A) = N
    BY AllGroupsFacts
  <1>2. a \in Nat /\ b \in Nat /\ c \in Nat /\ a + c = b /\ b <= N
    BY <1>0
  <1>3. Len(s) = c /\ \A i \in 1 .. c : s[i] = A[a + i]
    <2> HIDE DEF A, N
    <2>1. a + 1 \in Int /\ b \in Int /\ \A i \in a + 1 .. b : A[i] \in Names
      <3>1. \A i \in a + 1 .. b : i \in 1 .. N
        BY <1>0, <1>2
      <3>2. \A i \in 1 .. N : A[i] \in Names
        BY <1>1, ElementOfSeq
      <3> QED
        BY <1>2, <3>1, <3>2
    <2>2. /\ Len(s) = IF a + 1 <= b THEN b - (a + 1) + 1 ELSE 0
          /\ \A i \in 1 .. b - (a + 1) + 1 : s[i] = A[(a + 1) + i - 1]
      BY <2>1, SubSeqProperties
    <2> HIDE DEF s
    <2>3. b - (a + 1) + 1 = c /\ (~(a + 1 <= b) => c = 0)
      BY <1>2
    <2>4. \A i \in 1 .. c : (a + 1) + i - 1 = a + i
      BY <1>2
    <2> QED
      BY <2>2, <2>3, <2>4
  <1>4. VerticesOf(k, s) = 4 * SumUpTo(g, c)
    BY <1>3 DEF VerticesOf
  <1>5. NaturalsUpTo(Quads(k), a + c)
    <2>1. NaturalsUpTo(Quads(k), N)
      BY QuadsAreNat
    <2> HIDE DEF N
    <2>2. \A i \in 1 .. a + c : i \in 1 .. N
      BY <1>0, <1>2
    <2> QED
      BY <2>1, <2>2 DEF NaturalsUpTo
  <1>6. Stretch(Quads(k), g, a, c)
    <2> SUFFICES ASSUME NEW i \in 1 .. c PROVE g[i] = Quads(k)[a + i]
      BY DEF Stretch
    <2>1. a + i \in 1 .. Len(A)
      BY <1>0, <1>1, <1>2
    <2>2. Quads(k)[a + i] = QuadsOf(k, model[A[a + i][1] + 1][k][A[a + i][2] + 1])
      BY <2>1 DEF Quads
    <2>3. g[i] = QuadsOf(k, model[s[i][1] + 1][k][s[i][2] + 1])
      OBVIOUS
    <2> QED
      BY <1>3, <2>2, <2>3
  <1> HIDE DEF g, c
  <1>7. /\ SumUpTo(Quads(k), a) \in Nat /\ SumUpTo(g, c) \in Nat
        /\ SumUpTo(Quads(k), a + c) = SumUpTo(Quads(k), a) + SumUpTo(g, c)
    BY <1>2, <1>5, <1>6, SumOfStretch
  <1>8. Vertices(k, b) = 4 * SumUpTo(Quads(k), a + c) /\ Vertices(k, a) = 4 * SumUpTo(Quads(k), a)
    BY <1>2 DEF Vertices
  <1> QED
    BY <1>4, <1>7, <1>8

\* All of them.
LEMMA VerticesOfAll ==
  ASSUME ArgsOK, AllThere, NEW k \in Kinds
  PROVE  VerticesOf(k, AllGroups(k)) = Vertices(k, Count(k, Len(render)))
  <1>1. AllGroups(k) \in Seq(Names) /\ Len(AllGroups(k)) = Count(k, Len(render))
    BY AllGroupsFacts
  <1>2. Count(k, Len(render)) \in Nat
    BY <1>1, LenProperties
  <1>3. Agree([i \in 1 .. Len(AllGroups(k)) |->
                 QuadsOf(k, model[AllGroups(k)[i][1] + 1][k][AllGroups(k)[i][2] + 1])],
              Quads(k), Count(k, Len(render)))
    BY DEF Agree, Quads
  <1>4. SumUpTo([i \in 1 .. Len(AllGroups(k)) |->
                   QuadsOf(k, model[AllGroups(k)[i][1] + 1][k][AllGroups(k)[i][2] + 1])],
                Count(k, Len(render))) = SumUpTo(Quads(k), Count(k, Len(render)))
    BY <1>2, <1>3, SumsOfSame
  <1> QED
    BY <1>1, <1>4 DEF VerticesOf, Vertices

\* VertexCount does not wrap: it is the vertices of the groups it is given.
LEMMA VertexCountIsExact ==
  ASSUME ArgsOK, AllThere, NEW k \in Kinds, NEW j \in 0 .. Len(render) - 1,
         NEW b \in 0 .. Len(model[render[j + 1] + 1][k]),
         NEW e \in 0 .. Len(model[render[j + 1] + 1][k]), b <= e
  PROVE  /\ Count(k, j) + b \in 0 .. Count(k, Len(render))
         /\ Count(k, j) + e \in 0 .. Count(k, Len(render))
         /\ VertexCount(k, model[render[j + 1] + 1][k], b, e)
              = Vertices(k, Count(k, j) + e) - Vertices(k, Count(k, j) + b)
  <1> DEFINE src == model[render[j + 1] + 1][k]
             L == Len(src)
             C == Count(k, j)
             N == Count(k, Len(render))
             c == e - b
             f == [i \in 1 .. L |-> QuadsOf(k, src[i])]
             h == [i \in 1 .. c |-> QuadsOf(k, src[b + i])]
  <1>0. Len(render) \in Nat
    BY ArgsFacts
  <1>1. render[j + 1] \in Nat /\ render[j + 1] + 1 \in 1 .. Len(model)
    BY VisibleBone
  <1>2. L \in Nat /\ \A p \in 1 .. L : QuadsOf(k, src[p]) \in Nat
    BY <1>1, ArgsFacts
  <1>3. model \in Models
    <2>1. Len(<<>>) = 0
      OBVIOUS
    <2> QED
      BY <1>1, <2>1 DEF ArgsOK
  <1>4. 4 * SumUpTo(f, L) <= MaxUint32
    BY <1>1, <1>3, BoneSizeAssumption
  <1>5. /\ C \in Nat /\ N \in Nat /\ C + L <= N
    <2>1. j \in 0 .. Len(render) /\ j + 1 \in 0 .. Len(render)
          /\ Len(render) \in 0 .. Len(render) /\ j + 1 <= Len(render)
      BY <1>0
    <2>2. /\ Count(k, j) \in Nat /\ Count(k, Len(render)) \in Nat
          /\ Count(k, j + 1) = Count(k, j) + L
          /\ Count(k, j + 1) <= Count(k, Len(render))
      BY <2>1, CountFacts
    <2> QED
      BY <2>2
  <1>6. \A p \in 1 .. L : Quads(k)[C + p] = QuadsOf(k, src[p])
    BY QuadsAreNat
  <1>7. NaturalsUpTo(Quads(k), N)
    BY QuadsAreNat
  <1>8. VertexCount(k, src, b, e) = (4 * SumUpTo(h, c)) % (MaxUint32 + 1)
    BY DEF VertexCount
  <1>9. \A i : Vertices(k, i) = 4 * SumUpTo(Quads(k), i)
    BY DEF Vertices
  <1> HIDE DEF L, C, N, c, f, src
  <1>10. /\ b \in Nat /\ e \in Nat /\ c \in Nat /\ b + c = e /\ e <= L /\ L - e \in Nat
         /\ e + (L - e) = L /\ (C + b) + c = C + e
    BY <1>2, <1>5 DEF L, src, c
  <1>11. \A i \in 1 .. c : h[i] = QuadsOf(k, src[b + i]) /\ b + i \in 1 .. L
    BY <1>10
  <1> HIDE DEF h
  <1>12. /\ SumUpTo(f, b) \in Nat /\ SumUpTo(h, c) \in Nat
         /\ SumUpTo(f, b + c) = SumUpTo(f, b) + SumUpTo(h, c)
    <2>1. NaturalsUpTo(f, b + c)
      BY <1>2, <1>10 DEF NaturalsUpTo, f
    <2>2. Stretch(f, h, b, c)
      BY <1>11 DEF Stretch, f
    <2> QED
      BY <1>10, <2>1, <2>2, SumOfStretch
  <1>13. SumUpTo(f, e) \in Nat /\ SumUpTo(f, L) \in Nat /\ SumUpTo(f, e) <= SumUpTo(f, L)
    <2> DEFINE r == L - e
               g == [i \in 1 .. r |-> f[e + i]]
    <2>1. NaturalsUpTo(f, e + r)
      BY <1>2, <1>10 DEF NaturalsUpTo, f
    <2>2. Stretch(f, g, e, r)
      BY DEF Stretch
    <2>3. r \in Nat /\ e + r = L
      BY <1>10
    <2> HIDE DEF r, g
    <2>4. /\ SumUpTo(f, e) \in Nat /\ SumUpTo(g, r) \in Nat
          /\ SumUpTo(f, e + r) = SumUpTo(f, e) + SumUpTo(g, r)
      BY <1>10, <2>1, <2>2, <2>3, SumOfStretch
    <2> QED
      BY <2>3, <2>4
  <1>14. 4 * SumUpTo(h, c) \in 0 .. MaxUint32
    <2> DEFINE x == SumUpTo(h, c)
               y == SumUpTo(f, e)
               z == SumUpTo(f, L)
               u == SumUpTo(f, b)
    <2>1. /\ x \in Nat /\ y \in Nat /\ u \in Nat /\ y = u + x /\ y <= z /\ 4 * z <= MaxUint32
          /\ z \in Nat /\ MaxUint32 \in Nat
      <3>1. SumUpTo(f, e) = SumUpTo(f, b) + SumUpTo(h, c)
        BY <1>10, <1>12
      <3> QED
        BY <1>4, <1>12, <1>13, <3>1, LimitsAssumption
    <2> HIDE DEF x, y, z, u
    <2>2. 4 * x \in 0 .. MaxUint32
      BY <2>1
    <2> QED
      BY <2>2 DEF x
  <1>15. (4 * SumUpTo(h, c)) % (MaxUint32 + 1) = 4 * SumUpTo(h, c)
    <2> DEFINE x == 4 * SumUpTo(h, c)
    <2>1. x \in 0 .. MaxUint32 /\ MaxUint32 \in Nat
      BY <1>14, LimitsAssumption
    <2> HIDE DEF x
    <2>2. x % (MaxUint32 + 1) = x
      BY <2>1, Z3
    <2> QED
      BY <2>2 DEF x
  <1>16. /\ SumUpTo(Quads(k), C + b) \in Nat
         /\ SumUpTo(Quads(k), (C + b) + c) = SumUpTo(Quads(k), C + b) + SumUpTo(h, c)
    <2>1. NaturalsUpTo(Quads(k), (C + b) + c)
      BY <1>5, <1>7, <1>10 DEF NaturalsUpTo
    <2>2. Stretch(Quads(k), h, C + b, c)
      <3> SUFFICES ASSUME NEW i \in 1 .. c PROVE h[i] = Quads(k)[(C + b) + i]
        BY DEF Stretch
      <3>1. Quads(k)[C + (b + i)] = QuadsOf(k, src[b + i])
        BY <1>6, <1>11
      <3>2. C + (b + i) = (C + b) + i
        BY <1>5, <1>10
      <3> QED
        BY <1>11, <3>1, <3>2
    <2>3. C + b \in Nat
      BY <1>5, <1>10
    <2> QED
      BY <1>10, <2>1, <2>2, <2>3, SumOfStretch
  <1>17. C + b \in 0 .. N /\ C + e \in 0 .. N
    BY <1>5, <1>10
  <1>18. VertexCount(k, src, b, e) = Vertices(k, C + e) - Vertices(k, C + b)
    <2>1. VertexCount(k, src, b, e) = 4 * SumUpTo(h, c)
      BY <1>8, <1>15
    <2>2. C + e = (C + b) + c
      BY <1>5, <1>10
    <2>3. /\ Vertices(k, C + b) = 4 * SumUpTo(Quads(k), C + b)
          /\ Vertices(k, C + e) = 4 * SumUpTo(Quads(k), (C + b) + c)
      BY <2>2 DEF Vertices
    <2>4. SumUpTo(h, c) \in Nat
      BY <1>12
    <2> HIDE DEF h, c, C
    <2> QED
      BY <1>16, <2>1, <2>3, <2>4
  <1> QED
    BY <1>17, <1>18 DEF C, N, src

-----------------------------------------------------------------------------
(* The inductive invariant.                                                *)

Partitions == [cube_indices : Seq(Names), vertex_offset : Nat, expected_vertex_count : Nat]
TaskSlots  == [Kinds -> Partitions]
Cursors    == [worker : Nat, scheduled : Nat, task_end : Nat]
Modes      == {"Inline", "SerialLateWake", "SerialPrewake", "WorkerReadySpin"}

\* The types of the arguments, of the result and of the loops in between.
TypeOK ==
  /\ ArgsOK
  /\ workers \in Nat \ {0}
  /\ vertex_count \in Nat /\ translucent_vertex_count \in Nat
  /\ translucent_vertex_offset \in Nat
  /\ mode \in Modes
  /\ tasks \in Seq(TaskSlots)
  /\ bone_update_owners \in Seq(Nat)
  /\ at \in {"idle", "count", "bone", "append", "finish", "total"}
  /\ group_counts \in [Kinds -> Nat]
  /\ cursor \in [Kinds -> Cursors]
  /\ render_index \in Nat /\ kind \in 1 .. 4 /\ group_begin \in Nat /\ bone_worker \in Nat
  /\ opaque_vertex_count \in Nat /\ translucent_vertex_count64 \in Nat
  /\ status \in {"none", "error", "ok"}

Bones  == Len(render)
All(k) == Count(k, Bones)

\* Every visible bone was found and counted, and the slots are there.
Prepared == at \in {"bone", "append", "finish", "total"} \/ Completed

\* The counting loop: the bones before render_index are there and counted.
Counted ==
  at = "count" =>
    /\ render_index \in 0 .. Bones
    /\ \A i \in 1 .. render_index : render[i] < Len(model)
    /\ \A k \in Kinds : group_counts[k] = Count(k, render_index)

\* The counts are complete and there is a slot for every worker.
Ready ==
  Prepared =>
    /\ AllThere
    /\ \A k \in Kinds : group_counts[k] = All(k)
    /\ Len(tasks) = workers
    /\ mode = "WorkerReadySpin" => workers <= kMaxWorkerReadyWorkers

\* The appending loops are within the visible bones and the bone's groups.
Placed ==
  /\ at = "bone" => render_index \in 0 .. Bones
  /\ at = "append" => /\ render_index \in 0 .. Bones - 1
                      /\ group_begin \in 0 .. Len(Source)

\* The groups of the i-th kind that were appended so far.
Reached(i) ==
  IF at = "append" /\ i = kind THEN Count(KindOrder[i], render_index) + group_begin
  ELSE IF at = "append" /\ i < kind THEN Count(KindOrder[i], render_index + 1)
  ELSE IF at \in {"bone", "append"} THEN Count(KindOrder[i], render_index)
  ELSE All(KindOrder[i])

\* Where the range of slot w of a kind ends: it is ComputeTaskRange's.
Cut(k, w) == Split(w, ScheduledTasks, All(k))

\* The cursor has taken that many groups and is in the range of its slot.
CursorFits(k, reached) ==
  /\ cursor[k].worker \in 0 .. ScheduledTasks - 1
  /\ cursor[k].scheduled = reached
  /\ cursor[k].task_end = Cut(k, cursor[k].worker + 1)
  /\ Cut(k, cursor[k].worker) <= reached
  /\ reached <= cursor[k].task_end

\* Slot w holds the groups of its range up to a position.
Holds(k, w, upto) ==
  /\ tasks[w][k].cube_indices = SubSeq(AllGroups(k), Cut(k, w - 1) + 1, upto)
  /\ tasks[w][k].expected_vertex_count = Vertices(k, upto) - Vertices(k, Cut(k, w - 1))

\* The slots behind the cursor are full, the cursor's is as far as it is.
SlotsFilled(k) ==
  \A w \in 1 .. cursor[k].worker + 1 :
    Holds(k, w, IF w <= cursor[k].worker THEN Cut(k, w) ELSE cursor[k].scheduled)

Filled(i) == CursorFits(KindOrder[i], Reached(i)) /\ SlotsFilled(KindOrder[i])

\* Where a kind starts within its part of the buffer.
Base(k) ==
  IF k = "cutout_no_culling" THEN Vertices("cutout", All("cutout"))
  ELSE IF k = "translucent_culling" THEN Vertices("translucent", All("translucent"))
  ELSE 0

\* Every slot of a finished kind has its groups and its place.
LaidOut(k) ==
  \A w \in 1 .. ScheduledTasks :
    /\ Holds(k, w, Cut(k, w))
    /\ tasks[w][k].vertex_offset = Base(k) + Vertices(k, Cut(k, w - 1))

Total(k) == Vertices(k, All(k))

\* A kind is being filled, or laid out.
Slots ==
  Prepared =>
    \A i \in 1 .. 4 :
      IF at \in {"bone", "append"} \/ (at = "finish" /\ i >= kind)
      THEN Filled(i) ELSE LaidOut(KindOrder[i])

\* The running totals of the kinds that are finished.
Offsets ==
  /\ at = "finish" =>
       /\ opaque_vertex_count = IF kind = 1 THEN 0 ELSE IF kind = 2 THEN Total("cutout")
                                ELSE Total("cutout") + Total("cutout_no_culling")
       /\ translucent_vertex_count64 = IF kind = 4 THEN Total("translucent") ELSE 0
  /\ at = "total" =>
       /\ opaque_vertex_count = Total("cutout") + Total("cutout_no_culling")
       /\ translucent_vertex_count64 = Total("translucent") + Total("translucent_culling")

FrameTotal ==
  Total("cutout") + Total("cutout_no_culling")
    + Total("translucent") + Total("translucent_culling")

\* The totals of an update that succeeded, the reason of one that failed.
Outcome ==
  /\ at # "idle" => status = "none"
  /\ Completed =>
       /\ translucent_vertex_offset = Total("cutout") + Total("cutout_no_culling")
       /\ translucent_vertex_count = Total("translucent") + Total("translucent_culling")
       /\ vertex_count = translucent_vertex_offset + translucent_vertex_count
       /\ vertex_count <= MaxUint32
  /\ at = "idle" /\ status = "error" => ~AllThere \/ FrameTotal > MaxUint32

\* The visible bones that have their owner.
Owned == IF at = "bone" THEN render_index ELSE IF at = "append" THEN render_index + 1 ELSE Bones

\* The bones placed so far are owned by the worker whose range they are in.
Owners ==
  Prepared /\ mode = "WorkerReadySpin" =>
    /\ bone_update_owners \in [1 .. Len(model) -> Nat]
    /\ \A i \in 1 .. Owned :
         /\ bone_update_owners[render[i] + 1] \in 0 .. workers - 1
         /\ i - 1 \in TaskRange(bone_update_owners[render[i] + 1], workers, Bones)
    /\ \A b \in 1 .. Len(model) :
         bone_update_owners[b] = NoOwner <=> \A i \in 1 .. Owned : render[i] + 1 # b
    /\ at \in {"bone", "append"} =>
         /\ bone_worker \in 0 .. workers - 1
         /\ Split(bone_worker, workers, Bones) <= render_index

IInv ==
  /\ TypeOK /\ Counted /\ Ready /\ Placed /\ Slots /\ Offsets /\ Outcome /\ Owners

-----------------------------------------------------------------------------
(* What the steps need to know.                                            *)

\* KindOrder lists every kind once.
LEMMA KindFacts ==
  /\ \A i \in 1 .. 4 : KindOrder[i] \in Kinds
  /\ \A i, j \in 1 .. 4 : KindOrder[i] = KindOrder[j] => i = j
  /\ \A k \in Kinds : \E i \in 1 .. 4 : k = KindOrder[i]
  /\ KindOrder[1] = "cutout" /\ KindOrder[2] = "cutout_no_culling"
  /\ KindOrder[3] = "translucent" /\ KindOrder[4] = "translucent_culling"
  <1>1. /\ KindOrder[1] = "cutout" /\ KindOrder[2] = "cutout_no_culling"
        /\ KindOrder[3] = "translucent" /\ KindOrder[4] = "translucent_culling"
    BY DEF KindOrder
  <1>2. \A i \in 1 .. 4 : i = 1 \/ i = 2 \/ i = 3 \/ i = 4
    OBVIOUS
  <1>3. \A i, j \in 1 .. 4 : KindOrder[i] = KindOrder[j] => i = j
    BY <1>1, <1>2
  <1> QED
    BY <1>1, <1>3 DEF Kinds

\* The same arguments make the same list of groups.
LEMMA ArgsKept ==
  ASSUME args' = args
  PROVE  /\ model' = model /\ render' = render /\ workers' = workers
         /\ AllThere' = AllThere /\ ArgsOK' = ArgsOK /\ Bones' = Bones
         /\ \A k : AllGroups(k)' = AllGroups(k) /\ All(k)' = All(k)
                   /\ Total(k)' = Total(k) /\ Base(k)' = Base(k)
         /\ \A k, i : Count(k, i)' = Count(k, i) /\ Vertices(k, i)' = Vertices(k, i)
         /\ FrameTotal' = FrameTotal
  <1>1. model' = model /\ render' = render /\ workers' = workers
    BY DEF args
  <1>2. AllThere' = AllThere /\ ArgsOK' = ArgsOK /\ Bones' = Bones
    BY <1>1 DEF AllThere, ArgsOK, Bones
  <1>3. \A k, i : Count(k, i)' = Count(k, i)
    BY <1>1 DEF Count
  <1>4. \A k : AllGroups(k)' = AllGroups(k)
    BY <1>1 DEF AllGroups, GroupsOf
  <1>5. \A k : Quads(k)' = Quads(k)
    BY <1>1, <1>4 DEF Quads
  <1>6. \A k, i : Vertices(k, i)' = Vertices(k, i)
    BY <1>5 DEF Vertices
  <1>7. \A k : All(k)' = All(k)
    BY <1>2, <1>3 DEF All
  <1>8. \A k : Total(k)' = Total(k) /\ Base(k)' = Base(k)
    BY <1>6, <1>7 DEF Total, Base
  <1>9. FrameTotal' = FrameTotal
    BY <1>8 DEF FrameTotal
  <1> QED
    BY <1>1, <1>2, <1>3, <1>4, <1>6, <1>7, <1>8, <1>9

\* The same arguments and the same mode cut the groups the same way.
LEMMA LayoutKept ==
  ASSUME args' = args, mode' = mode
  PROVE  /\ ScheduledTasks' = ScheduledTasks
         /\ \A k, w : Cut(k, w)' = Cut(k, w)
  <1>1. ScheduledTasks' = ScheduledTasks
    BY ArgsKept DEF ScheduledTasks, TasksFor
  <1> QED
    BY <1>1, ArgsKept DEF Cut

\* A kind whose cursor and slots stay is filled as before.
LEMMA FilledKept ==
  ASSUME NEW i \in 1 .. 4, Filled(i), args' = args, mode' = mode,
         Reached(i)' = Reached(i),
         cursor'[KindOrder[i]] = cursor[KindOrder[i]],
         \A w \in 1 .. ScheduledTasks : tasks'[w][KindOrder[i]] = tasks[w][KindOrder[i]],
         ScheduledTasks \in Nat, cursor[KindOrder[i]].worker \in Nat
  PROVE  Filled(i)'
  <1> DEFINE k == KindOrder[i]
  <1>1. CursorFits(k, Reached(i))'
    BY LayoutKept DEF Filled, CursorFits
  <1>2. ASSUME NEW w \in 1 .. cursor[k].worker + 1, NEW u
        PROVE  Holds(k, w, u)' = Holds(k, w, u)
    <2>1. w \in 1 .. ScheduledTasks
      BY DEF Filled, CursorFits
    <2>2. tasks'[w][k] = tasks[w][k]
      BY <2>1
    <2>3. Cut(k, w - 1)' = Cut(k, w - 1)
      BY LayoutKept
    <2>4. AllGroups(k)' = AllGroups(k) /\ Vertices(k, u)' = Vertices(k, u)
          /\ Vertices(k, Cut(k, w - 1))' = Vertices(k, Cut(k, w - 1))
      BY <2>3, ArgsKept
    <2> QED
      BY <2>2, <2>3, <2>4 DEF Holds
  <1>3. SlotsFilled(k)'
    <2> SUFFICES ASSUME NEW w \in 1 .. cursor[k].worker + 1
                 PROVE  Holds(k, w, IF w <= cursor[k].worker THEN Cut(k, w)
                                    ELSE cursor[k].scheduled)'
      BY DEF SlotsFilled
    <2>1. Holds(k, w, IF w <= cursor[k].worker THEN Cut(k, w) ELSE cursor[k].scheduled)
      BY DEF Filled, SlotsFilled
    <2>2. (IF w <= cursor[k].worker THEN Cut(k, w) ELSE cursor[k].scheduled)'
            = IF w <= cursor[k].worker THEN Cut(k, w) ELSE cursor[k].scheduled
      BY LayoutKept
    <2> QED
      BY <1>2, <2>1, <2>2
  <1> QED
    BY <1>1, <1>3 DEF Filled

\* So is one that was laid out.
LEMMA LaidOutKept ==
  ASSUME NEW k, LaidOut(k), args' = args, mode' = mode,
         \A w \in 1 .. ScheduledTasks : tasks'[w][k] = tasks[w][k]
  PROVE  LaidOut(k)'
  BY ArgsKept, LayoutKept DEF LaidOut, Holds

\* The number of slots.
LEMMA ScheduledTasksFacts ==
  ASSUME IInv
  PROVE  ScheduledTasks \in Nat \ {0} /\ ScheduledTasks <= workers /\ workers \in Nat \ {0}
  BY DEF IInv, TypeOK, ScheduledTasks, TasksFor

\* An update that fails for one of its two reasons leaves nothing to hold.
LEMMA Failing ==
  ASSUME IInv, at' = "idle", status' = "error", tasks' \in Seq(TaskSlots),
         UNCHANGED <<args, counts, mode, bone_update_owners, locals>>,
         ~AllThere \/ FrameTotal > MaxUint32
  PROVE  IInv'
  <1>1. TypeOK'
    BY ArgsKept DEF IInv, TypeOK, counts, locals, offsets
  <1>2. ~Prepared'
    BY DEF Prepared, Completed
  <1>3. Outcome'
    BY ArgsKept DEF Outcome, Completed
  <1> QED
    BY <1>1, <1>2, <1>3 DEF IInv, Counted, Ready, Placed, Slots, Offsets, Owners

\* A schedule that was constructed and never updated.
LEMMA InitOK == Init => IInv
  <1> SUFFICES ASSUME Init PROVE IInv
    OBVIOUS
  <1>1. ArgsOK
    BY DEF Init, ArgsOK
  <1>2. tasks \in Seq(TaskSlots) /\ bone_update_owners \in Seq(Nat)
    BY EmptySeq DEF Init
  <1>3. group_counts \in [Kinds -> Nat] /\ cursor \in [Kinds -> Cursors]
    BY DEF Init, Cursors
  <1>4. TypeOK
    BY <1>1, <1>2, <1>3 DEF Init, TypeOK, Modes
  <1>5. ~Prepared
    BY DEF Init, Prepared, Completed
  <1>6. Outcome
    BY DEF Init, Outcome, Completed
  <1> QED
    BY <1>4, <1>5, <1>6 DEF Init, IInv, Counted, Ready, Placed, Slots, Offsets, Owners

\* A step that changes nothing.
LEMMA StutterOK ==
  ASSUME IInv, UNCHANGED vars
  PROVE  IInv'
  <1>1. args' = args /\ mode' = mode /\ tasks' = tasks /\ cursor' = cursor
    BY DEF vars, schedule, locals
  <1>2. /\ model' = model /\ render' = render /\ workers' = workers
        /\ vertex_count' = vertex_count /\ translucent_vertex_count' = translucent_vertex_count
        /\ translucent_vertex_offset' = translucent_vertex_offset
        /\ bone_update_owners' = bone_update_owners /\ at' = at /\ status' = status
        /\ group_counts' = group_counts /\ render_index' = render_index /\ kind' = kind
        /\ group_begin' = group_begin /\ bone_worker' = bone_worker
        /\ opaque_vertex_count' = opaque_vertex_count
        /\ translucent_vertex_count64' = translucent_vertex_count64
    BY DEF vars, args, schedule, counts, locals, offsets
  <1>3. Prepared' = Prepared /\ Completed' = Completed
    BY <1>2 DEF Prepared, Completed
  <1>4. TypeOK'
    BY <1>1, <1>2, ArgsKept DEF IInv, TypeOK
  <1>5. Counted' /\ Ready' /\ Placed' /\ Offsets' /\ Outcome'
    BY <1>1, <1>2, <1>3, ArgsKept DEF IInv, Counted, Ready, Placed, Offsets, Outcome, Source, Bone, Kind
  <1>6. Slots'
    <2> SUFFICES ASSUME Prepared, NEW i \in 1 .. 4
                 PROVE  (IF at \in {"bone", "append"} \/ (at = "finish" /\ i >= kind)
                         THEN Filled(i) ELSE LaidOut(KindOrder[i]))'
      BY <1>3 DEF Slots
    <2>1. Reached(i)' = Reached(i)
      BY <1>1, <1>2, ArgsKept DEF Reached
    <2>2. Filled(i) => Filled(i)'
      BY <1>1, <2>1, FilledKept, KindFacts, ScheduledTasksFacts DEF IInv, TypeOK, Cursors
    <2>3. LaidOut(KindOrder[i]) => LaidOut(KindOrder[i])'
      BY <1>1, LaidOutKept
    <2> QED
      BY <1>2, <2>2, <2>3 DEF IInv, Slots
  <1>7. Owners'
    BY <1>1, <1>2, <1>3 DEF IInv, Owners, Owned, Bones
  <1> QED
    BY <1>4, <1>5, <1>6, <1>7 DEF IInv

\* While bones are appended, a step that moves no cursor and no slot keeps
\* what they hold.
LEMMA SlotsKept ==
  ASSUME IInv, at \in {"bone", "append"},
         at' \in {"bone", "append"} \/ (at' = "finish" /\ kind' = 1),
         args' = args, mode' = mode, tasks' = tasks, cursor' = cursor,
         \A i \in 1 .. 4 : Reached(i)' = Reached(i)
  PROVE  Slots'
  <1> SUFFICES ASSUME NEW i \in 1 .. 4
               PROVE  (IF at \in {"bone", "append"} \/ (at = "finish" /\ i >= kind)
                       THEN Filled(i) ELSE LaidOut(KindOrder[i]))'
    BY DEF Slots
  <1>1. Filled(i)
    BY DEF IInv, Slots, Prepared
  <1>2. Filled(i)'
    <2>1. KindOrder[i] \in Kinds
      BY KindFacts
    <2>2. cursor[KindOrder[i]].worker \in Nat
      BY <2>1 DEF IInv, TypeOK, Cursors
    <2>3. Reached(i)' = Reached(i)
      OBVIOUS
    <2> QED
      BY <1>1, <2>2, <2>3, FilledKept, ScheduledTasksFacts
  <1>3. i >= 1
    OBVIOUS
  <1> QED
    BY <1>2, <1>3

\* Update begins: nothing is counted.
LEMMA UpdateOK ==
  ASSUME IInv, NEW m \in Models, NEW r \in RenderLists, NEW n \in WorkerCounts, Update(m, r, n)
  PROVE  IInv'
  <1>1. at' = "count" /\ status' = "none" /\ render_index' = 0
        /\ render' = r /\ model' = m /\ workers' = n /\ group_counts' = [k \in Kinds |-> 0]
    BY DEF Update
  <1>2. n \in Nat \ {0}
    BY WorkerCountsAssumption
  <1>3. ArgsOK'
    BY <1>1 DEF ArgsOK
  <1>4. TypeOK'
    <2>1. group_counts' \in [Kinds -> Nat]
      BY <1>1
    <2> QED
      BY <1>1, <1>2, <1>3, <2>1 DEF IInv, TypeOK, Update, offsets
  <1>5. Bones' \in Nat
    BY <1>3, ArgsFacts DEF Bones
  <1>6. Counted'
    <2> SUFFICES ASSUME NEW k \in Kinds PROVE group_counts'[k] = Count(k, render_index)'
      BY <1>1, <1>5 DEF Counted
    <2>1. Count(k, render_index)' = 0
      BY <1>1, SumStep DEF Count
    <2> QED
      BY <1>1, <2>1
  <1> QED
    BY <1>1, <1>4, <1>6
    DEF IInv, Ready, Placed, Slots, Offsets, Outcome, Owners, Prepared, Completed

\* The counting loop counts a bone that is there.
LEMMA CountBoneOK ==
  ASSUME IInv, CountBone
  PROVE  IInv'
  <1>0. /\ at = "count" /\ render_index \in 0 .. Bones /\ render_index < Bones
        /\ Bones \in Nat /\ render_index + 1 \in 1 .. Bones
    <2>1. Bones \in Nat
      BY ArgsFacts DEF IInv, TypeOK, Bones
    <2>2. at = "count" /\ render_index \in 0 .. Bones /\ render_index < Bones
      BY DEF IInv, Counted, CountBone, Bones
    <2> QED
      BY <2>1, <2>2
  <1>1. CASE Bone >= Len(model)
    <2>1. Fail
      BY <1>1 DEF CountBone
    <2>2. ~AllThere
      BY <1>0, <1>1, ArgsFacts DEF IInv, TypeOK, AllThere, Bone, Bones
    <2>3. tasks' \in Seq(TaskSlots)
      BY <2>1 DEF Fail, schedule, IInv, TypeOK
    <2> QED
      BY <2>1, <2>2, <2>3, Failing DEF Fail, schedule
  <1>2. CASE ~(Bone >= Len(model))
    <2>1. /\ group_counts' = [k \in Kinds |-> group_counts[k] + Len(model[Bone + 1][k])]
          /\ render_index' = render_index + 1
          /\ UNCHANGED <<args, schedule, at, status, updates>>
          /\ UNCHANGED <<cursor, kind, group_begin, bone_worker, offsets>>
      BY <1>2 DEF CountBone
    <2>2. /\ Bone \in Nat /\ Len(model) \in Nat /\ Bone + 1 \in 1 .. Len(model)
          /\ Bone = render[render_index + 1]
      BY <1>0, <1>2, ArgsFacts DEF IInv, TypeOK, Bone, Bones
    <2>3. \A k \in Kinds : Len(model[Bone + 1][k]) \in Nat
      BY <2>2, ArgsFacts DEF IInv, TypeOK
    <2>4. group_counts' \in [Kinds -> Nat]
      BY <2>1, <2>3 DEF IInv, TypeOK
    <2>5. TypeOK'
      BY <1>0, <2>1, <2>4, ArgsKept DEF IInv, TypeOK, schedule, counts, offsets
    <2>6. Counted'
      <3>1. render_index' \in 0 .. Bones'
        BY <1>0, <2>1, ArgsKept
      <3>2. \A i \in 1 .. render_index' : render'[i] < Len(model')
        <4> SUFFICES ASSUME NEW i \in 1 .. render_index + 1 PROVE render[i] < Len(model)
          BY <2>1, ArgsKept
        <4>1. CASE i \in 1 .. render_index
          BY <1>0, <4>1 DEF IInv, Counted
        <4>2. CASE i = render_index + 1
          BY <2>2, <4>2
        <4> QED
          BY <1>0, <4>1, <4>2
      <3>3. ASSUME NEW k \in Kinds
            PROVE  group_counts'[k] = Count(k, render_index)'
        <4>1. Count(k, render_index)' = Count(k, render_index + 1)
          BY <2>1, ArgsKept
        <4>2. Count(k, render_index + 1) = Count(k, render_index) + Len(model[Bone + 1][k])
          <5> DEFINE f == [j \in 1 .. Len(render) |-> Len(model[render[j] + 1][k])]
          <5>1. \A j : Count(k, j) = SumUpTo(f, j)
            BY DEF Count
          <5>2. f[render_index + 1] = Len(model[Bone + 1][k])
            BY <1>0, <2>2 DEF Bones
          <5>3. render_index \in Nat
            BY <1>0
          <5> HIDE DEF f
          <5>4. SumUpTo(f, render_index + 1) = SumUpTo(f, render_index) + f[render_index + 1]
            BY <5>3, SumStep
          <5> QED
            BY <5>1, <5>2, <5>4
        <4>3. group_counts[k] = Count(k, render_index)
          BY <1>0 DEF IInv, Counted
        <4> QED
          BY <2>1, <4>1, <4>2, <4>3
      <3> QED
        BY <3>1, <3>2, <3>3 DEF Counted
    <2>7. ~Prepared' /\ at' = "count"
      BY <1>0, <2>1 DEF Prepared, Completed
    <2>8. Outcome'
      BY <1>0, <2>1, <2>7 DEF IInv, Outcome, Completed
    <2> QED
      BY <2>5, <2>6, <2>7, <2>8 DEF IInv, Ready, Placed, Slots, Offsets, Owners
  <1> QED
    BY <1>1, <1>2

\* The worker that owns the next bone is found by stepping over empty ranges.
LEMMA NextBoneWorkerOK ==
  ASSUME IInv, NextBoneWorker
  PROVE  IInv'
  <1>1. /\ at = "bone" /\ render_index < Bones /\ mode = "WorkerReadySpin" /\ BoneWorkerDone
        /\ bone_worker' = bone_worker + 1
        /\ UNCHANGED <<args, schedule, at, status, updates>>
        /\ UNCHANGED <<group_counts, cursor, render_index, kind, group_begin, offsets>>
    BY DEF NextBoneWorker, Bones
  <1>2. /\ mode' = mode /\ tasks' = tasks /\ bone_update_owners' = bone_update_owners /\ at' = at
        /\ counts' = counts
    BY <1>1 DEF schedule
  <1>3. TypeOK'
    BY <1>1, <1>2, ArgsKept DEF IInv, TypeOK, counts, offsets
  <1>4. Slots'
    <2>1. \A i \in 1 .. 4 : Reached(i)' = Reached(i)
      BY <1>1, <1>2, ArgsKept DEF Reached
    <2> QED
      BY <1>1, <1>2, <2>1, SlotsKept
  <1>5. Owners'
    <2>1. Owned' = Owned
      BY <1>1, <1>2 DEF Owned
    <2>2. bone_worker + 1 \in 0 .. workers - 1
      BY <1>1 DEF BoneWorkerDone, IInv, TypeOK, Owners, Prepared
    <2>3. Split(bone_worker + 1, workers, Bones) <= render_index
      <3>1. Split(bone_worker + 1, workers, Bones) \in Nat /\ render_index \in Nat
        <4>1. workers \in Nat \ {0} /\ Bones \in Nat /\ bone_worker + 1 \in Nat /\ render_index \in Nat
          BY ArgsFacts DEF IInv, TypeOK, Bones
        <4> QED
          BY <4>1, SplitIsNat
      <3>2. render_index >= Split(bone_worker + 1, workers, Bones)
        BY <1>1 DEF BoneWorkerDone, BoneWorkerEnd, Bones
      <3> QED
        BY <3>1, <3>2
    <2>4. Prepared /\ Prepared'
      BY <1>1, <1>2 DEF Prepared
    <2> QED
      BY <1>1, <1>2, <2>1, <2>2, <2>3, <2>4, ArgsKept DEF IInv, Owners
  <1>6. Ready' /\ Placed' /\ Outcome'
    BY <1>1, <1>2, ArgsKept DEF IInv, Ready, Placed, Outcome, Prepared, Completed
  <1> QED
    BY <1>1, <1>2, <1>3, <1>4, <1>5, <1>6 DEF IInv, Counted, Offsets

\* A visible bone gets its owner, and its groups are appended next.
LEMMA StartBoneOK ==
  ASSUME IInv, StartBone
  PROVE  IInv'
  <1>1. /\ at = "bone" /\ at' = "append" /\ render_index < Bones
        /\ kind' = 1 /\ group_begin' = 0
        /\ UNCHANGED <<args, counts, mode, tasks, status, updates>>
        /\ UNCHANGED <<group_counts, cursor, render_index, bone_worker, offsets>>
    BY DEF StartBone, Bones
  <1>2. IF mode = "WorkerReadySpin"
        THEN /\ ~BoneWorkerDone
             /\ bone_update_owners' = [bone_update_owners EXCEPT ![Bone + 1] = bone_worker]
        ELSE UNCHANGED bone_update_owners
    BY DEF StartBone
  <1>3. /\ Bones \in Nat /\ render_index \in 0 .. Bones - 1 /\ render_index + 1 \in 1 .. Bones
        /\ workers \in Nat \ {0} /\ AllThere /\ ArgsOK /\ Prepared /\ Prepared'
    BY <1>1, ArgsFacts DEF IInv, TypeOK, Bones, Placed, Ready, Prepared
  <1>4. /\ Bone = render[render_index + 1] /\ Bone + 1 \in 1 .. Len(model)
        /\ Len(model) \in Nat
        /\ \A k \in Kinds : Len(model[Bone + 1][k]) \in Nat
    <2>1. Bone = render[render_index + 1] /\ Bone + 1 \in 1 .. Len(model) /\ Len(model) \in Nat
      BY <1>3, ArgsFacts DEF AllThere, Bones, Bone
    <2> QED
      BY <1>3, <2>1, ArgsFacts
  <1>5. TypeOK'
    <2>1. bone_update_owners' \in Seq(Nat)
      <3>1. CASE mode = "WorkerReadySpin"
        <4>1. bone_update_owners \in Seq(Nat) /\ bone_worker \in Nat
          BY DEF IInv, TypeOK
        <4> QED
          BY <1>2, <3>1, <4>1
      <3> QED
        BY <1>2, <3>1 DEF IInv, TypeOK
    <2> QED
      BY <1>1, <2>1, ArgsKept DEF IInv, TypeOK, counts, offsets
  <1>6. Slots'
    <2>1. ASSUME NEW i \in 1 .. 4
          PROVE  Reached(i)' = Reached(i)
      <3>1. Count(KindOrder[i], render_index) \in Nat
        <4>1. render_index \in 0 .. Len(render) /\ KindOrder[i] \in Kinds
          BY <1>3, KindFacts DEF Bones
        <4> QED
          BY <1>3, <4>1, CountFacts
      <3>2. Reached(i) = Count(KindOrder[i], render_index)
        BY <1>1 DEF Reached
      <3>3. Reached(i)' = IF i = 1 THEN Count(KindOrder[i], render_index)' + 0
                          ELSE Count(KindOrder[i], render_index)'
        BY <1>1 DEF Reached
      <3>4. Count(KindOrder[i], render_index)' = Count(KindOrder[i], render_index)
        BY <1>1, ArgsKept
      <3> QED
        BY <3>1, <3>2, <3>3, <3>4
    <2> QED
      BY <1>1, <2>1, SlotsKept
  <1>7. Placed'
    <2>1. Source' = model[Bone + 1][Kind']
      BY <1>1, ArgsKept DEF Source, Bone
    <2>2. Kind' \in Kinds
      BY <1>1, KindFacts DEF Kind
    <2>3. Len(Source') \in Nat
      BY <1>4, <2>1, <2>2
    <2> QED
      BY <1>1, <1>3, <2>3, ArgsKept DEF Placed
  <1>8. Owners'
    <2> SUFFICES ASSUME mode = "WorkerReadySpin" PROVE Owners'
      BY <1>1 DEF Owners
    <2> DEFINE owners == bone_update_owners
               b == Bone + 1
    <2>1. /\ owners' = [owners EXCEPT ![b] = bone_worker] /\ ~BoneWorkerDone
      BY <1>2
    <2>2. /\ owners \in [1 .. Len(model) -> Nat]
          /\ \A i \in 1 .. render_index :
               /\ owners[render[i] + 1] \in 0 .. workers - 1
               /\ i - 1 \in TaskRange(owners[render[i] + 1], workers, Bones)
          /\ \A c \in 1 .. Len(model) :
               owners[c] = NoOwner <=> \A i \in 1 .. render_index : render[i] + 1 # c
          /\ bone_worker \in 0 .. workers - 1
          /\ Split(bone_worker, workers, Bones) <= render_index
      BY <1>1, <1>3 DEF IInv, Owners, Owned
    <2>3. owners' \in [1 .. Len(model) -> Nat] /\ bone_worker \in Nat
      <3>1. bone_worker \in Nat
        BY <1>3, <2>2
      <3> QED
        BY <2>1, <2>2, <3>1
    <2>4. \A c \in 1 .. Len(model) : owners'[c] = IF c = b THEN bone_worker ELSE owners[c]
      BY <2>1, <2>2
    <2>5. render_index \in TaskRange(bone_worker, workers, Bones)
      <3>1. /\ Split(bone_worker, workers, Bones) \in Nat
            /\ Split(bone_worker + 1, workers, Bones) \in Nat
        <4>1. bone_worker + 1 \in Nat
          BY <2>3
        <4> QED
          BY <1>3, <2>3, <4>1, SplitIsNat
      <3>2. render_index < Split(bone_worker + 1, workers, Bones)
        <4>1. CASE bone_worker + 1 < workers
          BY <1>3, <2>1, <3>1, <4>1 DEF BoneWorkerDone, BoneWorkerEnd, Bones
        <4>2. CASE ~(bone_worker + 1 < workers)
          <5>1. bone_worker + 1 = workers
            BY <1>3, <2>2, <4>2
          <5>2. Split(bone_worker + 1, workers, Bones) = Bones
            BY <1>3, <5>1, SplitEnds
          <5> QED
            BY <1>3, <5>2
        <4> QED
          BY <4>1, <4>2
      <3> QED
        BY <1>3, <2>2, <3>1, <3>2 DEF TaskRange
    <2>6. \A i \in 1 .. render_index : render[i] + 1 \in 1 .. Len(model) /\ render[i] + 1 # b
      <3> SUFFICES ASSUME NEW i \in 1 .. render_index
                   PROVE  render[i] + 1 \in 1 .. Len(model) /\ render[i] + 1 # b
        OBVIOUS
      <3>1. i \in 1 .. Bones /\ i # render_index + 1
        BY <1>3
      <3>2. render[i] \in Nat /\ render[i] < Len(model) /\ render[render_index + 1] \in Nat
        BY <1>3, <3>1, ArgsFacts DEF AllThere, Bones
      <3>3. render \in RenderLists
        <4>1. render # <<>>
          BY <1>3 DEF Bones
        <4> QED
          BY <1>3, <4>1 DEF ArgsOK
      <3>4. render[i] # render[render_index + 1]
        BY <1>3, <3>1, <3>3, RenderListsAssumption DEF Bones
      <3> QED
        BY <1>4, <3>2, <3>4
    <2>7. ASSUME NEW i \in 1 .. render_index + 1
          PROVE  /\ owners'[render[i] + 1] \in 0 .. workers - 1
                 /\ i - 1 \in TaskRange(owners'[render[i] + 1], workers, Bones)
      <3>1. CASE i \in 1 .. render_index
        BY <2>2, <2>4, <2>6, <3>1
      <3>2. CASE i = render_index + 1
        <4>1. owners'[render[i] + 1] = bone_worker /\ i - 1 = render_index
          BY <1>3, <1>4, <2>4, <3>2
        <4> QED
          BY <2>2, <2>5, <4>1
      <3> QED
        BY <1>3, <3>1, <3>2
    <2>8. ASSUME NEW c \in 1 .. Len(model)
          PROVE  owners'[c] = NoOwner <=> \A i \in 1 .. render_index + 1 : render[i] + 1 # c
      <3>1. CASE c = b
        <4>1. bone_worker # NoOwner
          BY <1>3, <2>2, LimitsAssumption DEF IInv, Ready, NoOwner
        <4>2. render_index + 1 \in 1 .. render_index + 1 /\ render[render_index + 1] + 1 = c
          BY <1>3, <1>4, <3>1
        <4> QED
          BY <2>4, <3>1, <4>1, <4>2
      <3>2. CASE c # b
        <4>1. render[render_index + 1] + 1 # c
          BY <1>4, <3>2
        <4>2. \A i \in 1 .. render_index + 1 : i \in 1 .. render_index \/ i = render_index + 1
          BY <1>3
        <4>3. \A i \in 1 .. render_index : i \in 1 .. render_index + 1
          BY <1>3
        <4> QED
          BY <2>2, <2>4, <3>2, <4>1, <4>2, <4>3
      <3> QED
        BY <3>1, <3>2
    <2>9. Owned' = render_index + 1
      BY <1>1 DEF Owned
    <2> QED
      BY <1>1, <2>2, <2>3, <2>7, <2>8, <2>9, ArgsKept DEF Owners
  <1>9. Ready' /\ Outcome'
    BY <1>1, ArgsKept DEF IInv, Ready, Outcome, Prepared, Completed
  <1> QED
    BY <1>1, <1>5, <1>6, <1>7, <1>8, <1>9 DEF IInv, Counted, Offsets

\* A kind of the bone is appended: the next kind, or the next bone.
LEMMA AppendedOK ==
  ASSUME IInv, Appended
  PROVE  IInv'
  <1>1. /\ at = "append" /\ group_begin = Len(Source) /\ group_begin' = 0
        /\ IF kind < 4
           THEN kind' = kind + 1 /\ UNCHANGED <<at, render_index>>
           ELSE at' = "bone" /\ render_index' = render_index + 1 /\ UNCHANGED kind
        /\ UNCHANGED <<args, schedule, status, updates>>
        /\ UNCHANGED <<group_counts, cursor, bone_worker, offsets>>
    BY DEF Appended
  <1>2. /\ mode' = mode /\ tasks' = tasks /\ bone_update_owners' = bone_update_owners
        /\ counts' = counts
    BY <1>1 DEF schedule
  <1>3. /\ Bones \in Nat /\ render_index \in 0 .. Bones - 1 /\ kind \in 1 .. 4
        /\ AllThere /\ ArgsOK /\ Prepared /\ Prepared' /\ at' \in {"bone", "append"}
    BY <1>1, ArgsFacts DEF IInv, TypeOK, Bones, Placed, Ready, Prepared
  <1>4. \A k \in Kinds :
          /\ Count(k, render_index) \in Nat /\ Len(model[Bone + 1][k]) \in Nat
          /\ Count(k, render_index + 1) = Count(k, render_index) + Len(model[Bone + 1][k])
    <2>1. render_index \in 0 .. Len(render) - 1 /\ render_index \in 0 .. Len(render)
      BY <1>3 DEF Bones
    <2> QED
      BY <1>3, <2>1, CountFacts DEF Bone
  <1>5. \A i \in 1 .. 4 : Reached(i)' = Reached(i)
    <2> SUFFICES ASSUME NEW i \in 1 .. 4 PROVE Reached(i)' = Reached(i)
      OBVIOUS
    <2> DEFINE k == KindOrder[i]
               c == Count(k, render_index)
               d == Count(k, render_index + 1)
    <2>1. k \in Kinds
      BY KindFacts
    <2>2. c \in Nat /\ d \in Nat /\ d = c + Len(model[Bone + 1][k])
      BY <1>4, <2>1
    <2>3. i = kind => d = c + group_begin
      BY <1>1, <2>2 DEF Source, Kind
    <2>4. Reached(i) = IF i = kind THEN c + group_begin ELSE IF i < kind THEN d ELSE c
      BY <1>1 DEF Reached
    <2>5. Reached(i) = IF i <= kind THEN d ELSE c
      BY <1>3, <2>3, <2>4
    <2>6. Count(k, render_index)' = Count(k, render_index')
          /\ Count(k, render_index + 1)' = Count(k, render_index' + 1)
      BY <1>1, ArgsKept
    <2>7. CASE kind < 4
      <3>1. at' = "append" /\ kind' = kind + 1 /\ render_index' = render_index
        BY <1>1, <2>7
      <3>2. Reached(i)' = IF i = kind + 1 THEN c + 0 ELSE IF i < kind + 1 THEN d ELSE c
        BY <1>1, <2>6, <3>1 DEF Reached
      <3> HIDE DEF c, d
      <3> QED
        BY <1>3, <2>2, <2>5, <3>2
    <2>8. CASE ~(kind < 4)
      <3>1. at' = "bone" /\ render_index' = render_index + 1 /\ i <= kind
        BY <1>1, <1>3, <2>8
      <3>2. Reached(i)' = d
        BY <2>6, <3>1 DEF Reached
      <3> QED
        BY <2>5, <3>1, <3>2
    <2> QED
      BY <2>7, <2>8
  <1>6. Slots'
    BY <1>1, <1>2, <1>3, <1>5, SlotsKept
  <1>7. TypeOK'
    <2>1. kind' \in 1 .. 4 /\ render_index' \in Nat /\ group_begin' \in Nat
          /\ at' \in {"bone", "append"}
      BY <1>1, <1>3 DEF IInv, TypeOK
    <2> QED
      BY <1>1, <1>2, <2>1, ArgsKept DEF IInv, TypeOK, counts, offsets
  <1>8. Placed'
    <2>1. CASE kind < 4
      <3>1. at' = "append" /\ kind' = kind + 1 /\ render_index' = render_index
        BY <1>1, <2>1
      <3>2. kind' \in 1 .. 4
        BY <1>3, <2>1, <3>1
      <3>3. Source' = model[Bone + 1][Kind'] /\ Kind' \in Kinds
        BY <1>1, <3>1, <3>2, ArgsKept, KindFacts DEF Source, Bone, Kind
      <3>4. Len(Source') \in Nat
        BY <1>4, <3>3
      <3> QED
        BY <1>1, <1>3, <3>1, <3>4, ArgsKept DEF Placed
    <2>2. CASE ~(kind < 4)
      <3>1. at' = "bone" /\ render_index' = render_index + 1
        BY <1>1, <2>2
      <3> QED
        BY <1>1, <1>3, <3>1, ArgsKept DEF Placed
    <2> QED
      BY <2>1, <2>2
  <1>9. Owners'
    <2> SUFFICES ASSUME mode = "WorkerReadySpin" PROVE Owners'
      BY <1>2 DEF Owners
    <2>1. Owned = render_index + 1
      BY <1>1 DEF Owned
    <2>2. Owned' = Owned
      BY <1>1, <2>1 DEF Owned
    <2>3. /\ bone_worker \in 0 .. workers - 1
          /\ Split(bone_worker, workers, Bones) <= render_index
      BY <1>1, <1>3 DEF IInv, Owners
    <2>4. render_index <= render_index' /\ render_index \in Nat /\ render_index' \in Nat
      BY <1>1, <1>3
    <2>5. Split(bone_worker, workers, Bones) \in Nat
      <3>1. workers \in Nat \ {0} /\ bone_worker \in Nat
        BY DEF IInv, TypeOK
      <3> QED
        BY <1>3, <3>1, SplitIsNat
    <2>6. Split(bone_worker, workers, Bones) <= render_index'
      BY <2>3, <2>4, <2>5
    <2> QED
      BY <1>1, <1>2, <1>3, <2>2, <2>3, <2>6, ArgsKept DEF IInv, Owners
  <1>10. Ready' /\ Outcome'
    BY <1>1, <1>2, <1>3, ArgsKept DEF IInv, Ready, Outcome, Completed
  <1> QED
    BY <1>1, <1>3, <1>6, <1>7, <1>8, <1>9, <1>10 DEF IInv, Counted, Offsets

\* Every bone is appended: the kinds are finished, from the first.
LEMMA StartFinishOK ==
  ASSUME IInv, StartFinish
  PROVE  IInv'
  <1>1. /\ at = "bone" /\ at' = "finish" /\ render_index = Bones /\ kind' = 1
        /\ opaque_vertex_count' = 0 /\ translucent_vertex_count64' = 0
        /\ UNCHANGED <<args, schedule, status, updates>>
        /\ UNCHANGED <<group_counts, cursor, render_index, group_begin, bone_worker>>
    BY DEF StartFinish, Bones
  <1>2. /\ mode' = mode /\ tasks' = tasks /\ bone_update_owners' = bone_update_owners
        /\ counts' = counts
    BY <1>1 DEF schedule
  <1>3. Prepared /\ Prepared'
    BY <1>1 DEF Prepared
  <1>4. TypeOK'
    BY <1>1, <1>2, ArgsKept DEF IInv, TypeOK, counts
  <1>5. Slots'
    <2>1. \A i \in 1 .. 4 : Reached(i)' = Reached(i)
      BY <1>1, ArgsKept DEF Reached, All
    <2> QED
      BY <1>1, <1>2, <2>1, SlotsKept
  <1>6. Owners'
    <2>1. Owned' = Owned
      BY <1>1, ArgsKept DEF Owned
    <2> QED
      BY <1>1, <1>2, <1>3, <2>1, ArgsKept DEF IInv, Owners
  <1>7. Ready' /\ Outcome'
    BY <1>1, <1>2, <1>3, ArgsKept DEF IInv, Ready, Outcome, Completed
  <1> QED
    BY <1>1, <1>4, <1>5, <1>6, <1>7 DEF IInv, Counted, Placed, Offsets

\* The totals fit: the update succeeds.
LEMMA CompleteOK ==
  ASSUME IInv, Complete
  PROVE  IInv'
  <1>1. /\ at = "total" /\ at' = "idle" /\ status' = "ok"
        /\ opaque_vertex_count + translucent_vertex_count64 <= MaxUint32
        /\ vertex_count' = opaque_vertex_count + translucent_vertex_count64
        /\ translucent_vertex_count' = translucent_vertex_count64
        /\ translucent_vertex_offset' = opaque_vertex_count
        /\ UNCHANGED <<args, mode, tasks, bone_update_owners, locals, updates>>
    BY DEF Complete
  <1>2. Prepared /\ Prepared' /\ Completed'
    BY <1>1 DEF Prepared, Completed
  <1>3. TypeOK'
    BY <1>1, ArgsKept DEF IInv, TypeOK, locals, offsets
  <1>4. Slots'
    <2> SUFFICES ASSUME NEW i \in 1 .. 4 PROVE LaidOut(KindOrder[i])'
      BY <1>1 DEF Slots
    <2>1. LaidOut(KindOrder[i])
      BY <1>1, <1>2 DEF IInv, Slots
    <2> QED
      BY <1>1, <2>1, LaidOutKept
  <1>5. Owners'
    <2>1. Owned' = Owned
      BY <1>1, ArgsKept DEF Owned
    <2> QED
      BY <1>1, <1>2, <2>1, ArgsKept DEF IInv, Owners, locals
  <1>6. Outcome'
    BY <1>1, <1>2, ArgsKept DEF IInv, Outcome, Offsets
  <1>7. Ready'
    BY <1>1, <1>2, ArgsKept DEF IInv, Ready, locals
  <1> QED
    BY <1>1, <1>3, <1>4, <1>5, <1>6, <1>7 DEF IInv, Counted, Placed, Offsets

\* The totals do not fit: the update fails.
LEMMA TooManyVerticesOK ==
  ASSUME IInv, TooManyVertices
  PROVE  IInv'
  <1>1. at = "total" /\ opaque_vertex_count + translucent_vertex_count64 > MaxUint32 /\ Fail
    BY DEF TooManyVertices
  <1>2. FrameTotal > MaxUint32
    <2>1. Prepared /\ AllThere /\ ArgsOK
      BY <1>1 DEF IInv, TypeOK, Ready, Prepared
    <2>2. \A k \in Kinds : Total(k) \in Nat
      <3> SUFFICES ASSUME NEW k \in Kinds PROVE Total(k) \in Nat
        OBVIOUS
      <3>1. Count(k, Len(render)) \in Nat
        BY <2>1, AllGroupsFacts, LenProperties
      <3>2. Count(k, Len(render)) \in 0 .. Count(k, Len(render))
        BY <3>1
      <3> QED
        BY <2>1, <3>2, VerticesFacts DEF Total, All, Bones
    <2>3. /\ Total("cutout") \in Nat /\ Total("cutout_no_culling") \in Nat
          /\ Total("translucent") \in Nat /\ Total("translucent_culling") \in Nat
      <3>1. 1 \in 1 .. 4 /\ 2 \in 1 .. 4 /\ 3 \in 1 .. 4 /\ 4 \in 1 .. 4
        OBVIOUS
      <3> QED
        BY <2>2, <3>1, KindFacts
    <2>4. /\ opaque_vertex_count = Total("cutout") + Total("cutout_no_culling")
          /\ translucent_vertex_count64 = Total("translucent") + Total("translucent_culling")
      BY <1>1 DEF IInv, Offsets
    <2> QED
      BY <1>1, <2>3, <2>4, LimitsAssumption DEF FrameTotal
  <1>3. tasks' \in Seq(TaskSlots)
    BY <1>1 DEF Fail, schedule, IInv, TypeOK
  <1> QED
    BY <1>1, <1>2, <1>3, Failing DEF Fail, schedule

\* Every bone is counted: the slots are made and the cursors start.
LEMMA PrepareOK ==
  ASSUME IInv, Prepare
  PROVE  IInv'
  <1>1. /\ at = "count" /\ at' = "bone" /\ render_index = Bones /\ render_index' = 0
        /\ mode' = DetermineRenderSchedulingMode(workers, Len(render), CubeGroupCount)
        /\ tasks' = [w \in 1 .. workers |->
                       IF w = 1 \/ w > Len(tasks) THEN EmptyTask ELSE tasks[w]]
        /\ cursor' = [k \in Kinds |->
                        [worker    |-> 0, scheduled |-> 0,
                         task_end  |-> Split(1, TasksFor(mode'), group_counts[k])]]
        /\ bone_update_owners' = IF mode' = "WorkerReadySpin"
                                 THEN [b \in 1 .. Len(model) |-> NoOwner] ELSE <<>>
        /\ bone_worker' = 0
        /\ UNCHANGED <<args, counts, status, updates, group_counts, kind, group_begin, offsets>>
    BY DEF Prepare, Bones
  <1>2. /\ Bones \in Nat /\ workers \in Nat \ {0} /\ AllThere /\ ArgsOK /\ Prepared'
        /\ Len(model) \in Nat
    BY <1>1, ArgsFacts DEF IInv, TypeOK, Bones, Counted, Prepared, AllThere
  <1>3. mode' \in Modes /\ (mode' = "WorkerReadySpin" => workers <= kMaxWorkerReadyWorkers)
    BY <1>1 DEF DetermineRenderSchedulingMode, Modes
  <1>4. ScheduledTasks' \in Nat \ {0} /\ ScheduledTasks' <= workers
    BY <1>1, <1>2, ArgsKept DEF ScheduledTasks, TasksFor
  <1>5. \A k \in Kinds : group_counts[k] = All(k) /\ All(k) \in Nat
    BY <1>1 DEF IInv, Counted, TypeOK, All, Bones
  <1>6. EmptyPartition \in Partitions /\ EmptyTask \in TaskSlots
    <2>1. EmptyPartition \in Partitions
      <3>1. <<>> \in Seq(Names)
        BY EmptySeq
      <3> QED
        BY <3>1 DEF EmptyPartition, Partitions
    <2> QED
      BY <2>1 DEF EmptyTask, TaskSlots
  <1>7. tasks' \in Seq(TaskSlots) /\ Len(tasks') = workers
    <2>1. \A w \in 1 .. workers :
            (IF w = 1 \/ w > Len(tasks) THEN EmptyTask ELSE tasks[w]) \in TaskSlots
      <3> SUFFICES ASSUME NEW w \in 1 .. workers, w <= Len(tasks) PROVE tasks[w] \in TaskSlots
        BY <1>2, <1>6, LenProperties DEF IInv, TypeOK
      <3>1. tasks \in Seq(TaskSlots) /\ Len(tasks) \in Nat
        BY LenProperties DEF IInv, TypeOK
      <3>2. w \in 1 .. Len(tasks)
        BY <1>2, <3>1
      <3> QED
        BY <3>1, <3>2, ElementOfSeq
    <2> QED
      BY <1>1, <1>2, <2>1
  <1>8. \A k \in Kinds : Split(1, TasksFor(mode'), group_counts[k]) \in Nat
                         /\ Split(1, TasksFor(mode'), group_counts[k]) = Cut(k, 1)'
    <2> SUFFICES ASSUME NEW k \in Kinds
                 PROVE  Split(1, TasksFor(mode'), group_counts[k]) \in Nat
                         /\ Split(1, TasksFor(mode'), group_counts[k]) = Cut(k, 1)'
      OBVIOUS
    <2>1. TasksFor(mode') = ScheduledTasks'
      BY <1>1, ArgsKept DEF ScheduledTasks, TasksFor
    <2>2. Cut(k, 1)' = Split(1, ScheduledTasks', All(k))
      BY <1>1, ArgsKept DEF Cut
    <2>3. 1 \in Nat
      OBVIOUS
    <2> QED
      BY <1>4, <1>5, <2>1, <2>2, <2>3, SplitIsNat
  <1>9. cursor' \in [Kinds -> Cursors]
    BY <1>1, <1>8 DEF Cursors
  <1>10. bone_update_owners' \in Seq(Nat)
    <2>1. [b \in 1 .. Len(model) |-> NoOwner] \in Seq(Nat)
      BY <1>2 DEF NoOwner
    <2> QED
      BY <1>1, <2>1, EmptySeq
  <1>11. TypeOK'
    BY <1>1, <1>3, <1>7, <1>9, <1>10, ArgsKept DEF IInv, TypeOK, counts, offsets
  <1>12. Slots'
    <2> SUFFICES ASSUME NEW i \in 1 .. 4 PROVE Filled(i)'
      BY <1>1 DEF Slots
    <2> DEFINE k == KindOrder[i]
    <2>1. k \in Kinds
      BY KindFacts
    <2>2. Reached(i)' = 0
      <3>1. Reached(i)' = Count(k, 0)
        BY <1>1, ArgsKept DEF Reached
      <3> QED
        BY <1>2, <2>1, <3>1, CountFacts
    <2>3. /\ cursor'[k].worker = 0 /\ cursor'[k].scheduled = 0
          /\ cursor'[k].task_end = Cut(k, 1)' /\ Cut(k, 1)' \in Nat
      BY <1>1, <1>8, <2>1
    <2>4. Cut(k, 0)' = 0
      <3>1. Cut(k, 0)' = Split(0, ScheduledTasks', All(k))
        BY <1>1, ArgsKept DEF Cut
      <3> QED
        BY <1>4, <1>5, <2>1, <3>1, SplitEnds
    <2>5. CursorFits(k, Reached(i))'
      <3>1. cursor'[k].worker + 1 = 1
        BY <2>3
      <3>2. Cut(k, cursor[k].worker)' = 0 /\ Cut(k, cursor[k].worker + 1)' = Cut(k, 1)'
        BY <2>3, <2>4, <3>1
      <3>3. cursor'[k].worker \in 0 .. ScheduledTasks' - 1
        <4>1. \A x \in Nat \ {0} : 0 \in 0 .. x - 1
          OBVIOUS
        <4>2. 0 \in 0 .. ScheduledTasks' - 1
          BY <1>4, <4>1
        <4> QED
          BY <2>3, <4>2
      <3> QED
        BY <2>2, <2>3, <3>2, <3>3 DEF CursorFits
    <2>6. SlotsFilled(k)'
      <3> SUFFICES ASSUME NEW w \in 1 .. cursor'[k].worker + 1
                   PROVE  Holds(k, w, IF w <= cursor[k].worker THEN Cut(k, w)
                                      ELSE cursor[k].scheduled)'
        BY DEF SlotsFilled
      <3>1. w = 1 /\ w - 1 = 0
        BY <2>3
      <3>2. (IF w <= cursor[k].worker THEN Cut(k, w) ELSE cursor[k].scheduled)' = 0
        BY <2>3, <3>1
      <3>3. tasks'[1][k] = EmptyPartition
        BY <1>1, <1>2, <2>1 DEF EmptyTask
      <3>4. SubSeq(AllGroups(k), 0 + 1, 0) = <<>>
        <4>1. 0 + 1 \in Int /\ 0 \in Int /\ 0 < 0 + 1
          OBVIOUS
        <4> QED
          BY <4>1, SubSeqEmpty
      <3>5. Vertices(k, 0) = 0
        BY <1>2, <2>1, VerticesFacts
      <3>6. Holds(k, 1, 0)'
        <4>1. Cut(k, 1 - 1)' = 0
          BY <2>4
        <4>2. Vertices(k, Cut(k, 1 - 1))' = 0 /\ Vertices(k, 0)' = 0
              /\ SubSeq(AllGroups(k), Cut(k, 1 - 1) + 1, 0)' = <<>>
          BY <1>1, <3>4, <3>5, <4>1, ArgsKept
        <4>3. tasks'[1][k].cube_indices = <<>> /\ tasks'[1][k].expected_vertex_count = 0
          BY <3>3 DEF EmptyPartition
        <4>4. tasks'[1][k].cube_indices = SubSeq(AllGroups(k), Cut(k, 1 - 1) + 1, 0)'
          BY <4>2, <4>3
        <4>5. tasks'[1][k].expected_vertex_count
                   = Vertices(k, 0)' - Vertices(k, Cut(k, 1 - 1))'
          <5>1. 0 = 0 - 0
            OBVIOUS
          <5> QED
            BY <4>2, <4>3, <5>1
        <4> QED
          BY <4>4, <4>5 DEF Holds
      <3> QED
        BY <3>1, <3>2, <3>6
    <2> QED
      BY <2>5, <2>6 DEF Filled
  <1>13. Owners'
    <2> SUFFICES ASSUME mode' = "WorkerReadySpin" PROVE Owners'
      BY DEF Owners
    <2>1. bone_update_owners' = [b \in 1 .. Len(model) |-> NoOwner]
      BY <1>1
    <2>2. bone_update_owners' \in [1 .. Len(model) -> Nat]
      BY <2>1 DEF NoOwner
    <2>3. Owned' = 0 /\ \A i \in 1 .. 0 : FALSE
      BY <1>1 DEF Owned
    <2>4. Split(0, workers, Bones) = 0 /\ 0 \in 0 .. workers - 1
      BY <1>2, SplitEnds
    <2> QED
      BY <1>1, <2>1, <2>2, <2>3, <2>4, ArgsKept DEF Owners
  <1>14. Ready'
    BY <1>1, <1>2, <1>3, <1>5, <1>7, ArgsKept DEF Ready
  <1>15. Outcome'
    BY <1>1, ArgsKept DEF IInv, Outcome, Completed
  <1>16. Placed'
    BY <1>1, <1>2, ArgsKept DEF Placed
  <1> QED
    BY <1>1, <1>11, <1>12, <1>13, <1>14, <1>15, <1>16 DEF IInv, Counted, Offsets

\* What is known while the update fills and lays out its slots.
LEMMA PreparedFacts ==
  ASSUME IInv, Prepared
  PROVE  /\ ArgsOK /\ AllThere /\ Bones \in Nat
         /\ ScheduledTasks \in Nat \ {0} /\ ScheduledTasks <= Len(tasks) /\ Len(tasks) \in Nat
         /\ tasks \in Seq(TaskSlots)
         /\ \A k \in Kinds :
              /\ All(k) \in Nat /\ group_counts[k] = All(k)
              /\ AllGroups(k) \in Seq(Names) /\ Len(AllGroups(k)) = All(k)
              /\ Vertices(k, 0) = 0 /\ Total(k) \in Nat
              /\ \A i \in 0 .. All(k) : Vertices(k, i) \in Nat
              /\ \A i, j \in 0 .. All(k) : i <= j => Vertices(k, i) <= Vertices(k, j)
  <1>1. ArgsOK /\ AllThere /\ Bones \in Nat
    BY ArgsFacts DEF IInv, TypeOK, Ready, Bones
  <1>2. /\ ScheduledTasks \in Nat \ {0} /\ ScheduledTasks <= Len(tasks) /\ Len(tasks) \in Nat
        /\ tasks \in Seq(TaskSlots)
    <2>1. tasks \in Seq(TaskSlots) /\ Len(tasks) = workers
      BY DEF IInv, TypeOK, Ready
    <2> QED
      BY <2>1, ScheduledTasksFacts
  <1>3. ASSUME NEW k \in Kinds
        PROVE  /\ All(k) \in Nat /\ group_counts[k] = All(k)
               /\ AllGroups(k) \in Seq(Names) /\ Len(AllGroups(k)) = All(k)
               /\ Vertices(k, 0) = 0 /\ Total(k) \in Nat
               /\ \A i \in 0 .. All(k) : Vertices(k, i) \in Nat
               /\ \A i, j \in 0 .. All(k) : i <= j => Vertices(k, i) <= Vertices(k, j)
    <2>1. AllGroups(k) \in Seq(Names) /\ Len(AllGroups(k)) = All(k)
      BY <1>1, AllGroupsFacts DEF All, Bones
    <2>2. All(k) \in Nat
      BY <2>1, LenProperties
    <2>3. group_counts[k] = All(k)
      BY DEF IInv, Ready
    <2>4. /\ Vertices(k, 0) = 0
          /\ \A i \in 0 .. All(k) : Vertices(k, i) \in Nat
          /\ \A i, j \in 0 .. All(k) : i <= j => Vertices(k, i) <= Vertices(k, j)
      BY <1>1, VerticesFacts DEF All, Bones
    <2>5. All(k) \in 0 .. All(k)
      BY <2>2
    <2> QED
      BY <2>1, <2>2, <2>3, <2>4, <2>5 DEF Total
  <1> QED
    BY <1>1, <1>2, <1>3

\* The ranges cut the groups of a kind from first to last.
LEMMA CutFacts ==
  ASSUME IInv, Prepared, NEW k \in Kinds
  PROVE  /\ Cut(k, 0) = 0 /\ Cut(k, ScheduledTasks) = All(k)
         /\ \A w \in 0 .. ScheduledTasks : Cut(k, w) \in 0 .. All(k)
         /\ \A v, w \in 0 .. ScheduledTasks : v <= w => Cut(k, v) <= Cut(k, w)
  <1>1. ScheduledTasks \in Nat \ {0} /\ All(k) \in Nat
    BY PreparedFacts
  <1>2. Cut(k, 0) = 0 /\ Cut(k, ScheduledTasks) = All(k)
    BY <1>1, SplitEnds DEF Cut
  <1>3. ASSUME NEW v \in 0 .. ScheduledTasks, NEW w \in 0 .. ScheduledTasks, v <= w
        PROVE  Cut(k, v) \in Nat /\ Cut(k, v) <= Cut(k, w)
    <2>1. v \in Nat /\ w \in Nat
      BY <1>1
    <2> QED
      BY <1>1, <1>3, <2>1, SplitIsNat, SplitIsMonotone DEF Cut
  <1>4. ASSUME NEW w \in 0 .. ScheduledTasks
        PROVE  Cut(k, w) \in 0 .. All(k)
    <2>1. w <= ScheduledTasks /\ ScheduledTasks \in 0 .. ScheduledTasks
      BY <1>1
    <2>2. Cut(k, w) \in Nat /\ Cut(k, w) <= Cut(k, ScheduledTasks)
      BY <1>3, <2>1
    <2> QED
      BY <1>1, <1>2, <2>2
  <1> QED
    BY <1>2, <1>3, <1>4

\* An empty slot holds an empty range.
LEMMA HoldsNothing ==
  ASSUME IInv, Prepared, NEW k \in Kinds, NEW u \in 0 .. All(k)
  PROVE  /\ SubSeq(AllGroups(k), u + 1, u) = EmptyPartition.cube_indices
         /\ Vertices(k, u) - Vertices(k, u) = EmptyPartition.expected_vertex_count
  <1>1. u \in Nat /\ u + 1 \in Int /\ u \in Int /\ u < u + 1
    BY PreparedFacts
  <1>2. SubSeq(AllGroups(k), u + 1, u) = <<>>
    BY <1>1, SubSeqEmpty
  <1>3. Vertices(k, u) \in Nat
    BY PreparedFacts
  <1> QED
    BY <1>2, <1>3 DEF EmptyPartition

\* The slot that Prepare makes and Finish empties.
LEMMA EmptyIsPartition == EmptyPartition \in Partitions
  <1>1. <<>> \in Seq(Names)
    BY EmptySeq
  <1> QED
    BY <1>1 DEF EmptyPartition, Partitions

SlotSet(s, k, p) == [tasks EXCEPT ![s][k] = p]

\* A slot that changes for one kind only.
LEMMA SlotChange ==
  ASSUME tasks \in Seq(TaskSlots), NEW s \in 1 .. Len(tasks), NEW k \in Kinds,
         NEW p \in Partitions, tasks' = SlotSet(s, k, p)
  PROVE  /\ tasks' \in Seq(TaskSlots) /\ Len(tasks') = Len(tasks)
         /\ tasks'[s][k] = p
         /\ \A w \in 1 .. Len(tasks), j \in Kinds :
              w # s \/ j # k => tasks'[w][j] = tasks[w][j]
  <1>1. tasks[s] \in TaskSlots
    BY ElementOfSeq
  <1> DEFINE e == [tasks[s] EXCEPT ![k] = p]
  <1>2. e \in TaskSlots
    BY <1>1 DEF TaskSlots
  <1>3. e[k] = p /\ \A j \in Kinds : j # k => e[j] = tasks[s][j]
    BY <1>1 DEF TaskSlots
  <1>4. tasks' = [tasks EXCEPT ![s] = e]
    BY DEF SlotSet
  <1> HIDE DEF e
  <1>5. /\ tasks' \in Seq(TaskSlots) /\ Len(tasks') = Len(tasks)
        /\ \A w \in 1 .. Len(tasks) : tasks'[w] = IF w = s THEN e ELSE tasks[w]
    BY <1>2, <1>4, ExceptSeq
  <1> QED
    BY <1>3, <1>5

\* The cursor moves to the next slot.
LEMMA MoveOK ==
  ASSUME IInv, Move
  PROVE  IInv'
  <1> DEFINE c == cursor[Kind].worker
             w == c + 1
  <1>1. /\ at = "append" /\ group_begin < Len(Source) /\ CursorDone /\ CanMove
        /\ cursor' = [cursor EXCEPT
             ![Kind].worker = w,
             ![Kind].task_end = Split(w + 1, ScheduledTasks, group_counts[Kind])]
        /\ tasks' = [tasks EXCEPT ![w + 1][Kind] = EmptyPartition]
        /\ UNCHANGED <<args, counts, mode, bone_update_owners, at, status, updates>>
        /\ UNCHANGED <<group_counts, render_index, kind, group_begin, bone_worker, offsets>>
    BY DEF Move
  <1>2. Prepared /\ Prepared' /\ Completed' = Completed
    BY <1>1 DEF Prepared, Completed
  <1>3. kind \in 1 .. 4 /\ Kind \in Kinds /\ Kind = KindOrder[kind]
    BY KindFacts DEF IInv, TypeOK, Kind
  <1>4. \A i \in 1 .. 4 : Filled(i)
    BY <1>1, <1>2 DEF IInv, Slots
  <1>5. /\ CursorFits(Kind, Reached(kind)) /\ SlotsFilled(Kind)
    BY <1>3, <1>4 DEF Filled
  <1>6. cursor \in [Kinds -> Cursors] /\ cursor[Kind] \in Cursors
    BY <1>3 DEF IInv, TypeOK
  <1>7. /\ ScheduledTasks \in Nat \ {0} /\ ScheduledTasks <= Len(tasks) /\ Len(tasks) \in Nat
        /\ tasks \in Seq(TaskSlots) /\ All(Kind) \in Nat /\ group_counts[Kind] = All(Kind)
    BY <1>2, <1>3, PreparedFacts
  <1>8. /\ c \in Nat /\ w \in Nat /\ w + 1 \in 1 .. ScheduledTasks /\ w \in 0 .. ScheduledTasks - 1
        /\ w + 1 \in 1 .. Len(tasks) /\ w \in 0 .. ScheduledTasks /\ w + 1 \in 0 .. ScheduledTasks
        /\ (w + 1) - 1 = w /\ w # w + 1
    <2>1. c \in Nat /\ w = c + 1
      BY <1>6 DEF Cursors
    <2>2. w < ScheduledTasks
      BY <1>1 DEF CanMove
    <2>3. ScheduledTasks \in Nat /\ ScheduledTasks <= Len(tasks) /\ Len(tasks) \in Nat
      BY <1>7
    <2> HIDE DEF c, w
    <2> QED
      BY <2>1, <2>2, <2>3
  <1>9. /\ cursor[Kind].scheduled = Cut(Kind, w) /\ Reached(kind) = Cut(Kind, w)
        /\ Cut(Kind, w) \in 0 .. All(Kind) /\ Cut(Kind, w + 1) \in 0 .. All(Kind)
        /\ Cut(Kind, w) <= Cut(Kind, w + 1)
    <2>1. /\ cursor[Kind].task_end = Cut(Kind, w) /\ cursor[Kind].scheduled = Reached(kind)
          /\ Reached(kind) <= cursor[Kind].task_end
      BY <1>5 DEF CursorFits
    <2>2. cursor[Kind].scheduled \in Nat /\ cursor[Kind].task_end \in Nat
      BY <1>6 DEF Cursors
    <2>3. cursor[Kind].scheduled >= cursor[Kind].task_end
      BY <1>1 DEF CursorDone
    <2>4. /\ Cut(Kind, w) \in 0 .. All(Kind) /\ Cut(Kind, w + 1) \in 0 .. All(Kind)
          /\ Cut(Kind, w) <= Cut(Kind, w + 1)
      <3>1. w <= w + 1
        BY <1>8
      <3> QED
        BY <1>2, <1>3, <1>8, <3>1, CutFacts
    <2> QED
      BY <2>1, <2>2, <2>3, <2>4
  <1>10. Split(w + 1, ScheduledTasks, group_counts[Kind]) = Cut(Kind, w + 1)
    BY <1>7 DEF Cut
  <1>11. /\ cursor' \in [Kinds -> Cursors]
         /\ \A k \in Kinds : k # Kind => cursor'[k] = cursor[k]
         /\ cursor'[Kind].worker = w /\ cursor'[Kind].scheduled = Cut(Kind, w)
         /\ cursor'[Kind].task_end = Cut(Kind, w + 1)
    <2> DEFINE e == Cut(Kind, w + 1)
    <2>1. cursor' = [cursor EXCEPT ![Kind].worker = w, ![Kind].task_end = e]
      BY <1>1, <1>10
    <2>2. e \in Nat /\ w \in Nat
      BY <1>7, <1>8, <1>9
    <2> HIDE DEF e, c
    <2> QED
      BY <1>3, <1>6, <1>9, <2>1, <2>2 DEF Cursors, e
  <1>12. /\ tasks' \in Seq(TaskSlots) /\ Len(tasks') = Len(tasks)
         /\ tasks'[w + 1][Kind] = EmptyPartition
         /\ \A v \in 1 .. Len(tasks), j \in Kinds :
              v # w + 1 \/ j # Kind => tasks'[v][j] = tasks[v][j]
    <2>1. PICK s \in 1 .. Len(tasks) : s = w + 1
      BY <1>8
    <2>2. PICK k \in Kinds : k = Kind
      BY <1>3
    <2>3. tasks' = SlotSet(s, k, EmptyPartition)
      BY <1>1, <2>1, <2>2 DEF SlotSet
    <2>4. /\ tasks' \in Seq(TaskSlots) /\ Len(tasks') = Len(tasks)
          /\ tasks'[s][k] = EmptyPartition
          /\ \A v \in 1 .. Len(tasks), j \in Kinds :
               v # s \/ j # k => tasks'[v][j] = tasks[v][j]
      BY <1>7, <2>3, EmptyIsPartition, SlotChange
    <2> QED
      BY <2>1, <2>2, <2>4
  <1>13. \A i \in 1 .. 4 : Reached(i)' = Reached(i)
    BY <1>1, ArgsKept DEF Reached
  <1> HIDE DEF c, w
  <1>14. ASSUME NEW i \in 1 .. 4, i # kind
         PROVE  Filled(i)'
    <2> DEFINE k == KindOrder[i]
    <2>1. k \in Kinds /\ k # Kind
      BY <1>3, <1>14, KindFacts
    <2>2. cursor'[k] = cursor[k] /\ cursor[k].worker \in Nat
      BY <1>6, <1>11, <2>1 DEF Cursors
    <2>3. \A v \in 1 .. ScheduledTasks : tasks'[v][k] = tasks[v][k]
      BY <1>7, <1>12, <2>1
    <2>4. Filled(i) /\ Reached(i)' = Reached(i)
      BY <1>4, <1>13
    <2> QED
      BY <1>1, <1>7, <2>2, <2>3, <2>4, FilledKept
  <1>15. Filled(kind)'
    <2>1. Kind' = Kind /\ kind' = kind
      BY <1>1 DEF Kind
    <2>2. CursorFits(Kind, Reached(kind))'
      <3>1. ScheduledTasks' = ScheduledTasks
        BY <1>1, LayoutKept
      <3>2. Cut(Kind, cursor[Kind].worker)' = Cut(Kind, w)
            /\ Cut(Kind, cursor[Kind].worker + 1)' = Cut(Kind, w + 1)
        BY <1>1, <1>11, <2>1, LayoutKept
      <3>3. Reached(kind)' = Cut(Kind, w)
        BY <1>9, <1>13, <1>3, <2>1
      <3> QED
        BY <1>8, <1>9, <1>11, <2>1, <3>1, <3>2, <3>3 DEF CursorFits
    <2>3. ASSUME NEW u \in 1 .. w + 1
          PROVE  Holds(Kind, u, IF u <= cursor[Kind].worker THEN Cut(Kind, u)
                                ELSE cursor[Kind].scheduled)'
      <3>1. (IF u <= cursor[Kind].worker THEN Cut(Kind, u) ELSE cursor[Kind].scheduled)'
              = IF u <= w THEN Cut(Kind, u) ELSE Cut(Kind, w)
        BY <1>1, <1>11, <2>1, LayoutKept
      <3>2. CASE u \in 1 .. w
        <4>1. Holds(Kind, u, Cut(Kind, u))
          <5>1. w = cursor[Kind].worker + 1
            BY DEF w, c
          <5>2. Holds(Kind, u, IF u <= cursor[Kind].worker THEN Cut(Kind, u)
                               ELSE cursor[Kind].scheduled)
            BY <1>5, <3>2, <5>1 DEF SlotsFilled
          <5>3. u <= cursor[Kind].worker \/ u = w
            BY <1>8, <3>2 DEF w, c
          <5> QED
            BY <1>9, <5>2, <5>3
        <4>2. tasks'[u][Kind] = tasks[u][Kind]
          <5>1. u \in 1 .. Len(tasks) /\ u # w + 1
            BY <1>8, <3>2
          <5> QED
            BY <1>3, <1>12, <5>1
        <4>3. \A x : Holds(Kind, u, x)' <=> Holds(Kind, u, x)
          <5> SUFFICES ASSUME NEW x PROVE Holds(Kind, u, x)' <=> Holds(Kind, u, x)
            OBVIOUS
          <5>1. Cut(Kind, u - 1)' = Cut(Kind, u - 1)
            BY <1>1, <2>1, LayoutKept
          <5>2. /\ AllGroups(Kind)' = AllGroups(Kind) /\ Vertices(Kind, x)' = Vertices(Kind, x)
                /\ Vertices(Kind, Cut(Kind, u - 1))' = Vertices(Kind, Cut(Kind, u - 1))
            BY <1>1, <2>1, <5>1, ArgsKept
          <5> QED
            BY <2>1, <4>2, <5>1, <5>2 DEF Holds
        <4>4. Holds(Kind, u, IF u <= w THEN Cut(Kind, u) ELSE Cut(Kind, w))
          BY <1>8, <3>2, <4>1
        <4> QED
          BY <3>1, <4>3, <4>4
      <3>3. CASE u = w + 1
        <4>1. tasks'[u][Kind] = EmptyPartition /\ u - 1 = w
          BY <1>8, <1>12, <3>3
        <4>2. /\ SubSeq(AllGroups(Kind), Cut(Kind, w) + 1, Cut(Kind, w))
                   = EmptyPartition.cube_indices
              /\ Vertices(Kind, Cut(Kind, w)) - Vertices(Kind, Cut(Kind, w))
                   = EmptyPartition.expected_vertex_count
          BY <1>2, <1>3, <1>9, HoldsNothing
        <4>3. (IF u <= cursor[Kind].worker THEN Cut(Kind, u) ELSE cursor[Kind].scheduled)'
                = Cut(Kind, w)
          BY <1>8, <3>1, <3>3
        <4>4. Cut(Kind, u - 1)' = Cut(Kind, w)
          BY <1>1, <2>1, <4>1, LayoutKept
        <4>5. /\ AllGroups(Kind)' = AllGroups(Kind)
              /\ Vertices(Kind, Cut(Kind, u - 1))' = Vertices(Kind, Cut(Kind, w))
              /\ Vertices(Kind, IF u <= cursor[Kind].worker THEN Cut(Kind, u)
                                ELSE cursor[Kind].scheduled)' = Vertices(Kind, Cut(Kind, w))
          BY <1>1, <2>1, <4>3, <4>4, ArgsKept
        <4> QED
          BY <2>1, <4>1, <4>2, <4>3, <4>4, <4>5 DEF Holds
      <3> QED
        BY <1>8, <3>2, <3>3
    <2>4. SlotsFilled(Kind)'
      BY <1>11, <2>1, <2>3 DEF SlotsFilled
    <2> QED
      BY <2>1, <2>2, <2>4 DEF Filled, Kind
  <1>16. Slots'
    <2>1. \A i \in 1 .. 4 : Filled(i)'
      BY <1>1, <1>14, <1>15
    <2> QED
      BY <1>1, <2>1 DEF Slots
  <1>17. TypeOK'
    BY <1>1, <1>11, <1>12, ArgsKept DEF IInv, TypeOK, counts, offsets
  <1>18. Placed'
    <2>1. Source' = Source
      BY <1>1, ArgsKept DEF Source, Bone, Kind
    <2> QED
      BY <1>1, <2>1, ArgsKept DEF IInv, Placed
  <1>19. Owners'
    <2>1. Owned' = Owned
      BY <1>1 DEF Owned
    <2> QED
      BY <1>1, <1>2, <2>1, ArgsKept DEF IInv, Owners
  <1>20. Ready' /\ Outcome'
    BY <1>1, <1>2, <1>12, ArgsKept DEF IInv, Ready, Outcome, Completed
  <1> QED
    BY <1>1, <1>16, <1>17, <1>18, <1>19, <1>20 DEF IInv, Counted, Offsets

\* A slot that stays holds what it held.
LEMMA HoldsKept ==
  ASSUME args' = args, mode' = mode, NEW k, NEW w, tasks'[w][k] = tasks[w][k]
  PROVE  \A x : Holds(k, w, x)' <=> Holds(k, w, x)
  <1> SUFFICES ASSUME NEW x PROVE Holds(k, w, x)' <=> Holds(k, w, x)
    OBVIOUS
  <1>1. Cut(k, w - 1)' = Cut(k, w - 1)
    BY LayoutKept
  <1>2. /\ AllGroups(k)' = AllGroups(k) /\ Vertices(k, x)' = Vertices(k, x)
        /\ Vertices(k, Cut(k, w - 1))' = Vertices(k, Cut(k, w - 1))
    BY <1>1, ArgsKept
  <1> QED
    BY <1>1, <1>2 DEF Holds

\* The vertices of any run of groups fit the frame's.
LEMMA RunWithinFrame ==
  ASSUME IInv, Prepared, NEW k \in Kinds
  PROVE  Total(k) \in Nat /\ FrameTotal \in Nat /\ Total(k) <= FrameTotal
  <1>1. /\ Total("cutout") \in Nat /\ Total("cutout_no_culling") \in Nat
        /\ Total("translucent") \in Nat /\ Total("translucent_culling") \in Nat
    <2>1. 1 \in 1 .. 4 /\ 2 \in 1 .. 4 /\ 3 \in 1 .. 4 /\ 4 \in 1 .. 4
      OBVIOUS
    <2> QED
      BY <2>1, KindFacts, PreparedFacts
  <1>2. k = "cutout" \/ k = "cutout_no_culling" \/ k = "translucent" \/ k = "translucent_culling"
    <2>1. PICK i \in 1 .. 4 : k = KindOrder[i]
      BY KindFacts
    <2>2. i = 1 \/ i = 2 \/ i = 3 \/ i = 4
      OBVIOUS
    <2> QED
      BY <2>1, <2>2, KindFacts
  <1> QED
    BY <1>1, <1>2 DEF FrameTotal

\* The names of the groups that AppendGroups takes.
Taken == [i \in 1 .. TakeSome |-> <<Bone, group_begin + i - 1>>]

\* What AppendGroups appends: the next groups of the list, room for them in
\* the slot, and exactly their vertices.
LEMMA AppendFacts ==
  ASSUME IInv, at = "append", group_begin < Len(Source), ~(CursorDone /\ CanMove),
         NEW k \in Kinds, k = Kind,
         NEW u, u = cursor[k].scheduled, NEW n, n = TakeSome
  PROVE  /\ ~CursorDone
         /\ n \in Nat /\ u \in Nat /\ group_begin + n \in 0 .. Len(Source)
         /\ u + n \in 0 .. All(k) /\ u \in 0 .. All(k)
         /\ u + n <= cursor[k].task_end
         /\ u = Count(k, render_index) + group_begin
         /\ Taken = SubSeq(AllGroups(k), u + 1, u + n)
         /\ VertexCount(k, Source, group_begin, group_begin + n) = Vertices(k, u + n) - Vertices(k, u)
  <1> DEFINE c == cursor[k]
             L == Len(Source)
             C == Count(k, render_index)
             g == group_begin
  <1>1. Prepared /\ kind \in 1 .. 4 /\ k = KindOrder[kind]
    BY DEF IInv, TypeOK, Prepared, Kind
  <1>2. CursorFits(k, Reached(kind))
    BY <1>1 DEF IInv, Slots, Filled
  <1>3. Reached(kind) = C + g
    BY <1>1 DEF Reached
  <1>4. /\ Bones \in Nat /\ render_index \in 0 .. Bones - 1 /\ AllThere /\ ArgsOK
        /\ ScheduledTasks \in Nat \ {0} /\ All(k) \in Nat
        /\ AllGroups(k) \in Seq(Names) /\ Len(AllGroups(k)) = All(k)
    BY <1>1, PreparedFacts DEF IInv, Placed
  <1>5. /\ Source = model[render[render_index + 1] + 1][k]
        /\ L \in Nat /\ C \in Nat /\ C + L <= All(k)
    <2>1. /\ render_index \in 0 .. Len(render) - 1 /\ render_index \in 0 .. Len(render)
          /\ render_index + 1 \in 0 .. Len(render) /\ Len(render) \in 0 .. Len(render)
          /\ render_index + 1 <= Len(render)
      BY <1>4 DEF Bones
    <2>2. Source = model[render[render_index + 1] + 1][k]
      BY DEF Source, Bone
    <2>3. /\ Len(model[render[render_index + 1] + 1][k]) \in Nat
          /\ Count(k, render_index) \in Nat
          /\ Count(k, render_index + 1)
               = Count(k, render_index) + Len(model[render[render_index + 1] + 1][k])
          /\ Count(k, render_index + 1) <= Count(k, Len(render))
      BY <1>4, <2>1, CountFacts
    <2> QED
      BY <2>2, <2>3 DEF All, Bones
  <1>6. /\ c \in Cursors /\ c.scheduled = u /\ u \in Nat /\ c.task_end \in Nat /\ c.worker \in Nat
        /\ u = C + g /\ u <= c.task_end /\ c.task_end = Cut(k, c.worker + 1)
        /\ c.worker \in 0 .. ScheduledTasks - 1 /\ g \in Nat
    BY <1>2, <1>3 DEF IInv, TypeOK, Cursors, CursorFits
  <1>7. ~CursorDone
    <2> SUFFICES ASSUME CursorDone PROVE FALSE
      OBVIOUS
    <2>1. ~(c.worker + 1 < ScheduledTasks)
      BY DEF CanMove
    <2>2. c.worker + 1 = ScheduledTasks
      BY <1>4, <1>6, <2>1
    <2>3. c.task_end = All(k)
      BY <1>1, <1>6, <2>2, CutFacts
    <2>4. u >= c.task_end
      BY <1>6 DEF CursorDone
    <2>5. g < L /\ u = C + g /\ g \in Nat
      BY <1>6
    <2>6. All(k) \in Nat /\ L \in Nat /\ C \in Nat /\ C + L <= All(k)
      BY <1>4, <1>5
    <2> HIDE DEF c, C, L
    <2> QED
      BY <2>3, <2>4, <2>5, <2>6
  <1>8. /\ n \in Nat /\ n <= L - g /\ n <= c.task_end - u /\ g < L
    <2>1. ~(u >= c.task_end)
      BY <1>6, <1>7 DEF CursorDone
    <2>2. n = IF L - g < c.task_end - u THEN L - g ELSE c.task_end - u
      BY <1>6 DEF TakeSome
    <2>3. g < L
      OBVIOUS
    <2>4. L \in Nat /\ g \in Nat /\ u \in Nat /\ c.task_end \in Nat
      BY <1>5, <1>6
    <2>5. PICK t \in Nat : t = c.task_end
      BY <2>4
    <2>6. L - g \in Nat /\ t - u \in Nat
      BY <2>1, <2>3, <2>4, <2>5
    <2> HIDE DEF c, L
    <2>7. CASE L - g < t - u
      BY <2>2, <2>3, <2>5, <2>6, <2>7
    <2>8. CASE ~(L - g < t - u)
      BY <2>2, <2>3, <2>5, <2>6, <2>8
    <2> QED
      BY <2>7, <2>8
  <1>9. /\ g \in 0 .. L /\ g + n \in 0 .. L /\ g <= g + n
        /\ u + n <= c.task_end /\ u + n = C + (g + n) /\ u + n \in 0 .. All(k) /\ u \in 0 .. All(k)
    <2> HIDE DEF c, L, C
    <2> QED
      BY <1>4, <1>5, <1>6, <1>8
  <1>10. VertexCount(k, Source, g, g + n) = Vertices(k, u + n) - Vertices(k, u)
    <2>1. render_index \in 0 .. Len(render) - 1
      BY <1>4 DEF Bones
    <2>2. PICK b : b = g
      OBVIOUS
    <2>3. PICK e : e = g + n
      OBVIOUS
    <2>4. PICK j \in 0 .. Len(render) - 1 : j = render_index
      BY <2>1
    <2>5. /\ b \in 0 .. Len(model[render[j + 1] + 1][k]) /\ b <= e
          /\ e \in 0 .. Len(model[render[j + 1] + 1][k])
      BY <1>5, <1>9, <2>2, <2>3, <2>4
    <2>6. VertexCount(k, model[render[j + 1] + 1][k], b, e)
            = Vertices(k, Count(k, j) + e) - Vertices(k, Count(k, j) + b)
      BY <1>4, <2>5, VertexCountIsExact
    <2> QED
      BY <1>5, <1>6, <1>9, <2>2, <2>3, <2>4, <2>6
  <1>11. Taken = SubSeq(AllGroups(k), u + 1, u + n)
    <2> DEFINE s == SubSeq(AllGroups(k), u + 1, u + n)
    <2>1. u + 1 \in Int /\ u + n \in Int /\ \A i \in u + 1 .. u + n : AllGroups(k)[i] \in Names
      <3>1. u \in Nat /\ n \in Nat /\ u + n <= All(k) /\ All(k) \in Nat
        BY <1>4, <1>6, <1>8, <1>9
      <3>2. Len(AllGroups(k)) = All(k) /\ AllGroups(k) \in Seq(Names)
        BY <1>4
      <3> HIDE DEF c, C, L
      <3>3. \A i \in u + 1 .. u + n : i \in 1 .. All(k)
        BY <3>1
      <3>4. \A i \in u + 1 .. u + n : AllGroups(k)[i] \in Names
        BY <3>2, <3>3, ElementOfSeq
      <3> QED
        BY <3>1, <3>4
    <2>2. /\ s \in Seq(Names)
          /\ Len(s) = IF u + 1 <= u + n THEN (u + n) - (u + 1) + 1 ELSE 0
          /\ \A i \in 1 .. (u + n) - (u + 1) + 1 : s[i] = AllGroups(k)[(u + 1) + i - 1]
      BY <2>1, SubSeqProperties
    <2>3. /\ (u + n) - (u + 1) + 1 = n /\ (~(u + 1 <= u + n) => n = 0)
          /\ \A i \in 1 .. n : (u + 1) + i - 1 = C + (g + i) /\ g + i \in 1 .. L
      <3>1. C \in Nat /\ L \in Nat /\ g \in Nat /\ u = C + g
        BY <1>5, <1>6
      <3>2. n \in Nat /\ n <= L - g
        BY <1>8
      <3> HIDE DEF C, L, c
      <3>3. (u + n) - (u + 1) + 1 = n /\ (~(u + 1 <= u + n) => n = 0)
        BY <3>1, <3>2
      <3>4. \A i \in 1 .. n : (u + 1) + i - 1 = C + (g + i) /\ g + i \in 1 .. L
        BY <3>1, <3>2
      <3> QED
        BY <3>3, <3>4
    <2>4. Len(s) = n
      BY <2>2, <2>3
    <2>5. ASSUME NEW i \in 1 .. n
          PROVE  Taken[i] = s[i] /\ Taken[i] \in Names
      <3>1. s[i] = AllGroups(k)[C + (g + i)] /\ g + i \in 1 .. L
        BY <2>2, <2>3
      <3>2. render_index \in 0 .. Len(render) - 1
        BY <1>4 DEF Bones
      <3>3. AllGroups(k)[C + (g + i)] = <<render[render_index + 1], (g + i) - 1>>
        BY <1>4, <1>5, <3>1, <3>2, AllGroupsFacts
      <3>4. Taken[i] = <<Bone, g + i - 1>>
        BY DEF Taken
      <3>5. s[i] \in Names
        <4> HIDE DEF s
        <4> QED
          BY <2>2, <2>4, ElementOfSeq
      <3>6. Taken[i] = s[i]
        <4>1. s[i] = <<Bone, (g + i) - 1>>
          BY <3>1, <3>3 DEF Bone
        <4>2. (g + i) - 1 = g + (i - 1)
          BY <1>6
        <4> HIDE DEF s, g
        <4> QED
          BY <3>4, <4>1, <4>2
      <3> HIDE DEF s
      <3> QED
        BY <3>5, <3>6
    <2>6. Taken \in Seq(Names) /\ Len(Taken) = n
      <3>1. Taken = [i \in 1 .. n |-> Taken[i]]
        BY DEF Taken
      <3> HIDE DEF s
      <3> QED
        BY <1>8, <2>5, <3>1
    <2> QED
      BY <2>2, <2>4, <2>5, <2>6, SeqEqual
  <1> QED
    BY <1>6, <1>7, <1>8, <1>9, <1>10, <1>11

\* A partition that changes in two of its three fields.
LEMMA PartitionChange ==
  ASSUME NEW p \in Partitions, NEW x, NEW y
  PROVE  [p EXCEPT !.cube_indices = x, !.expected_vertex_count = y]
           = [cube_indices |-> x, vertex_offset |-> p.vertex_offset, expected_vertex_count |-> y]
  <1>1. [p EXCEPT !.cube_indices = x]
          = [cube_indices |-> x, vertex_offset |-> p.vertex_offset,
             expected_vertex_count |-> p.expected_vertex_count]
    BY DEF Partitions
  <1>2. [p EXCEPT !.cube_indices = x, !.expected_vertex_count = y]
          = [[p EXCEPT !.cube_indices = x] EXCEPT !.expected_vertex_count = y]
    OBVIOUS
  <1>3. [[cube_indices |-> x, vertex_offset |-> p.vertex_offset,
          expected_vertex_count |-> p.expected_vertex_count] EXCEPT !.expected_vertex_count = y]
          = [cube_indices |-> x, vertex_offset |-> p.vertex_offset, expected_vertex_count |-> y]
    OBVIOUS
  <1> QED
    BY <1>1, <1>2, <1>3

\* A run of groups is appended to the slot of the cursor.
LEMMA AppendGroupsOK ==
  ASSUME IInv, AppendGroups
  PROVE  IInv'
  <1>1. at = "append" /\ group_begin < Len(Source) /\ ~(CursorDone /\ CanMove)
    BY DEF AppendGroups
  <1>2. Prepared
    BY <1>1 DEF Prepared
  <1>3. PICK k \in Kinds : k = Kind
    BY KindFacts DEF IInv, TypeOK, Kind
  <1>4. kind \in 1 .. 4 /\ k = KindOrder[kind]
    BY <1>3 DEF IInv, TypeOK, Kind
  <1>5. /\ ScheduledTasks \in Nat \ {0} /\ ScheduledTasks <= Len(tasks) /\ Len(tasks) \in Nat
        /\ tasks \in Seq(TaskSlots) /\ All(k) \in Nat /\ ArgsOK /\ AllThere
        /\ AllGroups(k) \in Seq(Names) /\ Len(AllGroups(k)) = All(k) /\ Bones \in Nat
        /\ \A i \in 0 .. All(k) : Vertices(k, i) \in Nat
        /\ \A i, j \in 0 .. All(k) : i <= j => Vertices(k, i) <= Vertices(k, j)
    BY <1>2, PreparedFacts
  <1>6. PICK u : u = cursor[k].scheduled
    OBVIOUS
  <1>7. PICK n : n = TakeSome
    OBVIOUS
  <1>8. PICK w : w = cursor[k].worker
    OBVIOUS
  <1>9. /\ ~CursorDone
        /\ n \in Nat /\ u \in Nat /\ group_begin + n \in 0 .. Len(Source)
        /\ u + n \in 0 .. All(k) /\ u \in 0 .. All(k)
        /\ u + n <= cursor[k].task_end
        /\ u = Count(k, render_index) + group_begin
        /\ Taken = SubSeq(AllGroups(k), u + 1, u + n)
        /\ VertexCount(k, Source, group_begin, group_begin + n) = Vertices(k, u + n) - Vertices(k, u)
    BY <1>1, <1>3, <1>6, <1>7, AppendFacts
  <1>10. \A i \in 1 .. 4 : Filled(i)
    BY <1>1, <1>2 DEF IInv, Slots
  <1>11. CursorFits(k, Reached(kind)) /\ SlotsFilled(k)
    BY <1>4, <1>10 DEF Filled
  <1>12. /\ cursor \in [Kinds -> Cursors] /\ cursor[k] \in Cursors /\ w \in Nat
         /\ w \in 0 .. ScheduledTasks - 1 /\ w + 1 \in 1 .. Len(tasks)
         /\ w \in 0 .. ScheduledTasks /\ Cut(k, w) <= u
    <2>1. cursor \in [Kinds -> Cursors]
      BY DEF IInv, TypeOK
    <2>2. cursor[k] \in Cursors /\ w \in Nat
      BY <1>8, <2>1 DEF Cursors
    <2>3. w \in 0 .. ScheduledTasks - 1 /\ Cut(k, w) <= u
      BY <1>6, <1>8, <1>11 DEF CursorFits
    <2>4. ScheduledTasks \in Nat /\ ScheduledTasks <= Len(tasks) /\ Len(tasks) \in Nat
      BY <1>5
    <2>5. w + 1 \in 1 .. Len(tasks) /\ w \in 0 .. ScheduledTasks
      BY <2>3, <2>4
    <2> QED
      BY <2>1, <2>2, <2>3, <2>5
  <1>13. Cut(k, w) \in 0 .. All(k)
    BY <1>2, <1>12, CutFacts
  <1>14. PICK s \in 1 .. Len(tasks) : s = w + 1
    BY <1>12
  <1> DEFINE old   == tasks[s][k]
             added == Vertices(k, u + n) - Vertices(k, u)
  <1>15. old \in Partitions
    BY <1>5, ElementOfSeq DEF TaskSlots
  <1>16. /\ old.cube_indices = SubSeq(AllGroups(k), Cut(k, w) + 1, u)
         /\ old.expected_vertex_count = Vertices(k, u) - Vertices(k, Cut(k, w))
    <2>1. s \in 1 .. cursor[k].worker + 1 /\ ~(s <= cursor[k].worker) /\ s - 1 = w
      BY <1>8, <1>12, <1>14
    <2>2. Holds(k, s, cursor[k].scheduled)
      BY <1>11, <2>1 DEF SlotsFilled
    <2> QED
      BY <1>6, <2>1, <2>2 DEF Holds
  <1>17. /\ Vertices(k, u) \in Nat /\ Vertices(k, u + n) \in Nat /\ Vertices(k, Cut(k, w)) \in Nat
         /\ Vertices(k, u) <= Vertices(k, u + n) /\ Vertices(k, Cut(k, w)) <= Vertices(k, u)
         /\ Vertices(k, u + n) <= Vertices(k, All(k))
    <2>1. u <= u + n /\ All(k) \in 0 .. All(k) /\ u + n <= All(k)
      <3>1. All(k) \in Nat
        BY <1>5
      <3>2. u \in Nat /\ n \in Nat /\ u + n \in 0 .. All(k)
        BY <1>9
      <3> QED
        BY <3>1, <3>2
    <2> QED
      BY <1>5, <1>9, <1>12, <1>13, <2>1
  <1>18. added \in Nat /\ old.expected_vertex_count \in Nat
         /\ old.expected_vertex_count + added = Vertices(k, u + n) - Vertices(k, Cut(k, w))
    BY <1>16, <1>17
  <1>19. /\ cursor[Kind].worker + 1 = s
         /\ VertexCount(Kind, Source, group_begin, group_begin + TakeSome) = added
    BY <1>3, <1>7, <1>8, <1>9, <1>14
  <1>20. CASE ~NoOverflow(added, old.expected_vertex_count)
    <2>1. Fail
      BY <1>3, <1>19, <1>20 DEF AppendGroups
    <2>2. FrameTotal > MaxUint32
      <3>1. added > MaxUint32 - old.expected_vertex_count
        BY <1>18, <1>20, LimitsAssumption DEF NoOverflow
      <3>2. Total(k) \in Nat /\ FrameTotal \in Nat /\ Total(k) <= FrameTotal
        BY <1>2, RunWithinFrame
      <3>3. Vertices(k, u + n) <= Total(k)
        BY <1>17 DEF Total
      <3> HIDE DEF old, added
      <3>4. Vertices(k, u + n) > MaxUint32
        BY <1>17, <1>18, <3>1, LimitsAssumption
      <3> QED
        BY <1>17, <3>2, <3>3, <3>4, LimitsAssumption
    <2>3. tasks' \in Seq(TaskSlots)
      BY <2>1 DEF Fail, schedule, IInv, TypeOK
    <2> QED
      BY <2>1, <2>2, <2>3, Failing DEF Fail, schedule
  <1>21. CASE NoOverflow(added, old.expected_vertex_count)
    <2>1. /\ tasks' = [tasks EXCEPT ![s][k].cube_indices = @ \o Taken,
                                    ![s][k].expected_vertex_count = @ + added]
          /\ cursor' = [cursor EXCEPT ![k].scheduled = @ + n]
          /\ group_begin' = group_begin + n
          /\ UNCHANGED <<args, counts, mode, bone_update_owners, at, status, updates>>
          /\ UNCHANGED <<group_counts, render_index, kind, bone_worker, offsets>>
      BY <1>3, <1>7, <1>9, <1>19, <1>21 DEF AppendGroups, Taken
    <2> DEFINE new == [cube_indices |-> SubSeq(AllGroups(k), Cut(k, w) + 1, u + n),
                       vertex_offset |-> old.vertex_offset,
                       expected_vertex_count |-> Vertices(k, u + n) - Vertices(k, Cut(k, w))]
    <2>2. old.cube_indices \o Taken = SubSeq(AllGroups(k), Cut(k, w) + 1, u + n)
      <3> DEFINE A == AllGroups(k)
                 a == Cut(k, w) + 1
      <3>1. A \in Seq(Names) /\ a \in 1 .. Len(A) + 1 /\ u \in a - 1 .. Len(A) /\ u + n \in u .. Len(A)
        <4> DEFINE x == Cut(k, w)
                   N == All(k)
        <4>1. x \in 0 .. N /\ N \in Nat /\ x <= u /\ u \in 0 .. N /\ u + n \in 0 .. N /\ n \in Nat
          BY <1>5, <1>9, <1>12, <1>13
        <4>2. A \in Seq(Names) /\ Len(A) = N /\ a = x + 1
          BY <1>5
        <4> HIDE DEF x, N, A, a
        <4> QED
          BY <4>1, <4>2
      <3> HIDE DEF A, a
      <3>2. SubSeq(A, a, u) \o SubSeq(A, u + 1, u + n) = SubSeq(A, a, u + n)
        BY <3>1, ConcatAdjacentSubSeq
      <3> QED
        BY <1>9, <1>16, <3>2 DEF A, a
    <2>3. new \in Partitions
      <3>1. SubSeq(AllGroups(k), Cut(k, w) + 1, u + n) \in Seq(Names)
        <4> DEFINE A == AllGroups(k)
                   a == Cut(k, w) + 1
                   b == u + n
                   x == Cut(k, w)
                   N == All(k)
        <4>0. /\ x \in 0 .. N /\ N \in Nat /\ b \in 0 .. N
              /\ A \in Seq(Names) /\ Len(A) = N /\ a = x + 1
          BY <1>5, <1>9, <1>13
        <4> HIDE DEF x, N, A, a, b
        <4>1. A \in Seq(Names) /\ a \in Int /\ b \in Int /\ \A i \in a .. b : i \in 1 .. Len(A)
          BY <4>0
        <4>2. \A i \in a .. b : A[i] \in Names
          BY <4>1, ElementOfSeq
        <4>3. SubSeq(A, a, b) \in Seq(Names)
          BY <4>1, <4>2, SubSeqProperties
        <4> QED
          BY <4>3 DEF A, a, b
      <3>2. Vertices(k, u + n) - Vertices(k, Cut(k, w)) \in Nat
        BY <1>17
      <3>3. old.vertex_offset \in Nat
        BY <1>15 DEF Partitions
      <3> HIDE DEF old
      <3> QED
        BY <3>1, <3>2, <3>3 DEF Partitions
    <2>4. tasks' = SlotSet(s, k, new)
      <3> DEFINE slot == tasks[s]
      <3>1. tasks \in [1 .. Len(tasks) -> TaskSlots] /\ slot \in [Kinds -> Partitions]
        BY <1>5, LenProperties DEF TaskSlots
      <3>2. new = [old EXCEPT !.cube_indices = @ \o Taken, !.expected_vertex_count = @ + added]
        <4>1. old.expected_vertex_count + added = Vertices(k, u + n) - Vertices(k, Cut(k, w))
          BY <1>18
        <4> DEFINE X == SubSeq(AllGroups(k), Cut(k, w) + 1, u + n)
                   Y == Vertices(k, u + n) - Vertices(k, Cut(k, w))
        <4>2. new = [cube_indices |-> X, vertex_offset |-> old.vertex_offset,
                     expected_vertex_count |-> Y]
          OBVIOUS
        <4>3. old.cube_indices \o Taken = X /\ old.expected_vertex_count + added = Y
          BY <2>2, <4>1
        <4> HIDE DEF old, added, X, Y, new
        <4>4. [old EXCEPT !.cube_indices = @ \o Taken, !.expected_vertex_count = @ + added]
                = [old EXCEPT !.cube_indices = X, !.expected_vertex_count = Y]
          BY <1>15, <4>3 DEF Partitions
        <4>5. [old EXCEPT !.cube_indices = X, !.expected_vertex_count = Y]
                = [cube_indices |-> X, vertex_offset |-> old.vertex_offset,
                   expected_vertex_count |-> Y]
          BY <1>15, PartitionChange
        <4> QED
          BY <4>2, <4>4, <4>5
      <3>3. tasks' = [tasks EXCEPT ![s] = [slot EXCEPT ![k] =
                        [old EXCEPT !.cube_indices = @ \o Taken, !.expected_vertex_count = @ + added]]]
        BY <1>15, <2>1, <3>1 DEF Partitions
      <3> QED
        BY <3>2, <3>3 DEF SlotSet
    <2> HIDE DEF new
    <2>5. /\ tasks' \in Seq(TaskSlots) /\ Len(tasks') = Len(tasks)
          /\ tasks'[s][k] = new
          /\ \A v \in 1 .. Len(tasks), j \in Kinds :
               v # s \/ j # k => tasks'[v][j] = tasks[v][j]
      BY <1>5, <2>3, <2>4, SlotChange
    <2>6. /\ cursor' \in [Kinds -> Cursors]
          /\ \A j \in Kinds : j # k => cursor'[j] = cursor[j]
          /\ cursor'[k].worker = w /\ cursor'[k].scheduled = u + n
          /\ cursor'[k].task_end = cursor[k].task_end
      <3>1. u + n \in Nat
        BY <1>9
      <3>2. cursor' = [cursor EXCEPT ![k] = [cursor[k] EXCEPT !.scheduled = u + n]]
        BY <1>6, <1>12, <2>1 DEF Cursors
      <3> QED
        BY <1>8, <1>12, <3>1, <3>2 DEF Cursors
    <2>7. \A i \in 1 .. 4 : i # kind => Reached(i)' = Reached(i)
      BY <2>1, ArgsKept DEF Reached
    <2>8. Reached(kind)' = u + n
      <3>1. Reached(kind)' = Count(k, render_index) + group_begin'
        BY <1>1, <1>4, <2>1, ArgsKept DEF Reached
      <3>2. Count(k, render_index) \in Nat /\ group_begin \in Nat
        <4>1. render_index \in 0 .. Len(render)
          BY <1>1, <1>5 DEF IInv, Placed, Bones
        <4> QED
          BY <1>5, <4>1, CountFacts DEF IInv, TypeOK
      <3> QED
        BY <1>9, <2>1, <3>1, <3>2
    <2>9. ASSUME NEW i \in 1 .. 4, i # kind
          PROVE  Filled(i)'
      <3> DEFINE q == KindOrder[i]
      <3>1. q \in Kinds /\ q # k
        BY <1>4, <2>9, KindFacts
      <3>2. cursor'[q] = cursor[q] /\ cursor[q].worker \in Nat
        BY <1>12, <2>6, <3>1 DEF Cursors
      <3>3. \A v \in 1 .. ScheduledTasks : tasks'[v][q] = tasks[v][q]
        BY <1>5, <2>5, <3>1
      <3>4. Filled(i) /\ Reached(i)' = Reached(i)
        BY <1>10, <2>7, <2>9
      <3> QED
        BY <1>5, <2>1, <3>2, <3>3, <3>4, FilledKept
    <2>10. CursorFits(k, Reached(kind))'
      <3>1. ScheduledTasks' = ScheduledTasks
        BY <2>1, LayoutKept
      <3>2. /\ Cut(k, cursor[k].worker)' = Cut(k, w)
            /\ Cut(k, cursor[k].worker + 1)' = Cut(k, w + 1)
        BY <2>1, <2>6, LayoutKept
      <3>3. cursor[k].task_end = Cut(k, w + 1)
        BY <1>8, <1>11 DEF CursorFits
      <3>4. Cut(k, w) <= u + n
        BY <1>9, <1>12, <1>13
      <3> QED
        BY <1>9, <1>12, <2>6, <2>8, <3>1, <3>2, <3>3, <3>4 DEF CursorFits
    <2>11. SlotsFilled(k)'
      <3> SUFFICES ASSUME NEW v \in 1 .. w + 1
                   PROVE  Holds(k, v, IF v <= cursor[k].worker THEN Cut(k, v)
                                      ELSE cursor[k].scheduled)'
        BY <2>6 DEF SlotsFilled
      <3>1. (IF v <= cursor[k].worker THEN Cut(k, v) ELSE cursor[k].scheduled)'
              = IF v <= w THEN Cut(k, v) ELSE u + n
        BY <2>1, <2>6, LayoutKept
      <3>2. CASE v \in 1 .. w
        <4>1. v \in 1 .. Len(tasks) /\ v # s /\ v <= w /\ v \in 1 .. cursor[k].worker + 1
          BY <1>8, <1>12, <1>14, <3>2
        <4>2. Holds(k, v, Cut(k, v))
          BY <1>8, <1>11, <4>1 DEF SlotsFilled
        <4>3. tasks'[v][k] = tasks[v][k]
          BY <2>5, <4>1
        <4>4. Holds(k, v, Cut(k, v))'
          <5>1. \A x : Holds(k, v, x)' <=> Holds(k, v, x)
            BY <2>1, <4>3, HoldsKept
          <5>2. Cut(k, v)' = Cut(k, v)
            BY <2>1, LayoutKept
          <5> QED
            BY <4>2, <5>1, <5>2
        <4>5. Cut(k, v)' = Cut(k, v)
          BY <2>1, LayoutKept
        <4> QED
          BY <3>1, <4>1, <4>4, <4>5
      <3>3. CASE v = w + 1
        <4>1. v = s /\ v - 1 = w /\ ~(v <= w)
          BY <1>12, <1>14, <3>3
        <4>2. (IF v <= cursor[k].worker THEN Cut(k, v) ELSE cursor[k].scheduled)' = u + n
          BY <3>1, <4>1
        <4>3. Cut(k, v - 1)' = Cut(k, w)
          BY <2>1, <4>1, LayoutKept
        <4>4. /\ AllGroups(k)' = AllGroups(k)
              /\ Vertices(k, Cut(k, v - 1))' = Vertices(k, Cut(k, w))
              /\ Vertices(k, IF v <= cursor[k].worker THEN Cut(k, v)
                             ELSE cursor[k].scheduled)' = Vertices(k, u + n)
          BY <2>1, <4>2, <4>3, ArgsKept
        <4>5. /\ tasks'[v][k].cube_indices = SubSeq(AllGroups(k), Cut(k, w) + 1, u + n)
              /\ tasks'[v][k].expected_vertex_count = Vertices(k, u + n) - Vertices(k, Cut(k, w))
          BY <2>5, <4>1 DEF new
        <4> QED
          BY <4>2, <4>3, <4>4, <4>5 DEF Holds
      <3> QED
        BY <1>12, <3>2, <3>3
    <2>12. Slots'
      <3>1. Filled(kind)'
        <4>1. KindOrder[kind'] = k /\ Reached(kind') = Reached(kind)
          BY <1>4, <2>1
        <4> QED
          BY <1>4, <2>1, <2>10, <2>11 DEF Filled
      <3>2. \A i \in 1 .. 4 : Filled(i)'
        BY <2>1, <2>9, <3>1
      <3> QED
        BY <1>1, <2>1, <3>2 DEF Slots
    <2>13. TypeOK'
      <3>1. group_begin' \in Nat
        BY <1>9, <2>1 DEF IInv, TypeOK
      <3> QED
        BY <2>1, <2>5, <2>6, <3>1, ArgsKept DEF IInv, TypeOK, counts, offsets
    <2>14. Placed'
      <3>1. Source' = Source
        BY <2>1, ArgsKept DEF Source, Bone, Kind
      <3> QED
        BY <1>1, <1>9, <2>1, <3>1, ArgsKept DEF IInv, Placed
    <2>15. Owners'
      <3>1. Owned' = Owned /\ Prepared'
        BY <1>1, <2>1 DEF Owned, Prepared
      <3> QED
        BY <1>2, <2>1, <3>1, ArgsKept DEF IInv, Owners
    <2>16. Ready' /\ Outcome'
      BY <1>1, <1>2, <2>1, <2>5, ArgsKept DEF IInv, Ready, Outcome, Completed
    <2> QED
      BY <1>1, <2>1, <2>12, <2>13, <2>14, <2>15, <2>16 DEF IInv, Counted, Offsets
  <1> QED
    BY <1>20, <1>21

\* The names of Finish: where the kind starts, the slots with the unreached
\* ones emptied, where slot w starts, and the slots laid out.
Start0 == IF Kind \in Opaque THEN opaque_vertex_count ELSE translucent_vertex_count64

Moved ==
  [w \in 1 .. Len(tasks) |->
     IF w - 1 > cursor[Kind].worker /\ w <= ScheduledTasks
     THEN [tasks[w] EXCEPT ![Kind] = EmptyPartition] ELSE tasks[w]]

StartOf(w) ==
  Start0 + SumUpTo([u \in 1 .. w - 1 |-> Moved[u][Kind].expected_vertex_count], w - 1)

PlacedSlots ==
  [w \in 1 .. Len(tasks) |->
     IF w <= ScheduledTasks /\ StartOf(w) <= MaxUint32
     THEN [Moved[w] EXCEPT ![Kind].vertex_offset = StartOf(w)] ELSE Moved[w]]

Differences(f, h, n) == \A i \in 1 .. n : f[i] = h[i] - h[i - 1]

\* A sum of differences is the difference of its ends.
LEMMA Telescope ==
  ASSUME NEW n \in Nat, NEW f, NEW h, Differences(f, h, n), \A i \in 0 .. n : h[i] \in Nat
  PROVE  \A m \in 0 .. n : SumUpTo(f, m) = h[m] - h[0]
  <1> DEFINE S == {m \in Nat : m <= n => SumUpTo(f, m) = h[m] - h[0]}
  <1>1. 0 \in S
    <2>1. SumUpTo(f, 0) = 0
      <3>1. 0 \in Nat
        OBVIOUS
      <3> QED
        BY <3>1, SumStep
    <2>2. h[0] \in Nat
      OBVIOUS
    <2> QED
      BY <2>1, <2>2
  <1>2. ASSUME NEW m \in Nat, m \in S
        PROVE  m + 1 \in S
    <2> SUFFICES ASSUME m + 1 <= n PROVE SumUpTo(f, m + 1) = h[m + 1] - h[0]
      OBVIOUS
    <2>1. SumUpTo(f, m + 1) = SumUpTo(f, m) + f[m + 1]
      BY SumStep
    <2>2. m + 1 \in 1 .. n /\ (m + 1) - 1 = m /\ m \in 0 .. n /\ m + 1 \in 0 .. n /\ 0 \in 0 .. n
      OBVIOUS
    <2>3. f[m + 1] = h[m + 1] - h[m]
      BY <2>2 DEF Differences
    <2>4. SumUpTo(f, m) = h[m] - h[0]
      BY <1>2, <2>2
    <2>5. h[m] \in Nat /\ h[m + 1] \in Nat /\ h[0] \in Nat
      BY <2>2
    <2> QED
      BY <2>1, <2>3, <2>4, <2>5
  <1> HIDE DEF S
  <1>3. Nat \subseteq S
    BY <1>1, <1>2, SetInduction
  <1> QED
    BY <1>3 DEF S

\* When a kind is finished its cursor took every group, the emptied slots are
\* those whose range is empty, and the ranges are laid out without a gap.
LEMMA FinishFacts ==
  ASSUME IInv, at = "finish", NEW k \in Kinds, k = Kind
  PROVE  /\ cursor[k].scheduled = group_counts[k]
         /\ Start0 \in Nat /\ Start0 = Base(k)
         /\ \A w \in 1 .. Len(tasks) :
              /\ Moved[w] \in TaskSlots
              /\ \A j \in Kinds : j # k => Moved[w][j] = tasks[w][j]
         /\ \A w \in 1 .. ScheduledTasks :
              /\ Moved[w][k].cube_indices = SubSeq(AllGroups(k), Cut(k, w - 1) + 1, Cut(k, w))
              /\ Moved[w][k].expected_vertex_count = Vertices(k, Cut(k, w)) - Vertices(k, Cut(k, w - 1))
         /\ \A w \in 1 .. ScheduledTasks + 1 : StartOf(w) = Start0 + Vertices(k, Cut(k, w - 1))
         /\ StartOf(ScheduledTasks + 1) = Start0 + Total(k)
  <1>1. Prepared /\ kind \in 1 .. 4 /\ k = KindOrder[kind]
    BY DEF IInv, TypeOK, Prepared, Kind
  <1>2. /\ ScheduledTasks \in Nat \ {0} /\ ScheduledTasks <= Len(tasks) /\ Len(tasks) \in Nat
        /\ tasks \in Seq(TaskSlots) /\ All(k) \in Nat /\ group_counts[k] = All(k)
        /\ \A i \in 0 .. All(k) : Vertices(k, i) \in Nat
        /\ Vertices(k, 0) = 0 /\ Total(k) \in Nat
    BY <1>1, PreparedFacts
  <1>3. CursorFits(k, Reached(kind)) /\ SlotsFilled(k)
    BY <1>1 DEF IInv, Slots, Filled
  <1> DEFINE c == cursor[k].worker
             s == cursor[k].scheduled
  <1>4. s = All(k)
    <2>1. Reached(kind) = All(k)
      BY <1>1 DEF Reached
    <2> QED
      BY <1>3, <2>1 DEF CursorFits
  <1>5. c \in Nat /\ c \in 0 .. ScheduledTasks - 1 /\ s <= Cut(k, c + 1)
    BY <1>3 DEF IInv, TypeOK, Cursors, CursorFits
  <1>6. /\ Cut(k, 0) = 0 /\ Cut(k, ScheduledTasks) = All(k)
        /\ \A w \in 0 .. ScheduledTasks : Cut(k, w) \in 0 .. All(k)
        /\ \A v, w \in 0 .. ScheduledTasks : v <= w => Cut(k, v) <= Cut(k, w)
    BY <1>1, CutFacts
  <1>7. \A w \in 0 .. ScheduledTasks : w >= c + 1 => Cut(k, w) = All(k)
    <2> SUFFICES ASSUME NEW w \in 0 .. ScheduledTasks, w >= c + 1 PROVE Cut(k, w) = All(k)
      OBVIOUS
    <2>1. c + 1 \in 0 .. ScheduledTasks /\ c + 1 <= w
      BY <1>2, <1>5
    <2>2. Cut(k, c + 1) <= Cut(k, w) /\ Cut(k, c + 1) \in 0 .. All(k) /\ Cut(k, w) \in 0 .. All(k)
      BY <1>6, <2>1
    <2> QED
      BY <1>2, <1>4, <1>5, <2>2
  <1> HIDE DEF c, s
  <1>8. ASSUME NEW w \in 1 .. Len(tasks)
        PROVE  /\ Moved[w] \in TaskSlots
               /\ \A j \in Kinds : j # k => Moved[w][j] = tasks[w][j]
               /\ Moved[w][k] = IF w - 1 > c /\ w <= ScheduledTasks
                                THEN EmptyPartition ELSE tasks[w][k]
    <2>1. tasks[w] \in [Kinds -> Partitions]
      BY <1>2, ElementOfSeq DEF TaskSlots
    <2>2. Moved[w] = IF w - 1 > c /\ w <= ScheduledTasks
                     THEN [tasks[w] EXCEPT ![k] = EmptyPartition] ELSE tasks[w]
      BY DEF Moved, c
    <2> DEFINE e == [tasks[w] EXCEPT ![k] = EmptyPartition]
    <2>3. /\ e \in [Kinds -> Partitions] /\ e[k] = EmptyPartition
          /\ \A j \in Kinds : j # k => e[j] = tasks[w][j]
      BY <2>1, EmptyIsPartition
    <2> HIDE DEF e
    <2>4. Moved[w] = IF w - 1 > c /\ w <= ScheduledTasks THEN e ELSE tasks[w]
      BY <2>2 DEF e
    <2> QED
      BY <2>1, <2>3, <2>4 DEF TaskSlots
  <1>9. ASSUME NEW w \in 1 .. ScheduledTasks
        PROVE  /\ Moved[w][k].cube_indices = SubSeq(AllGroups(k), Cut(k, w - 1) + 1, Cut(k, w))
               /\ Moved[w][k].expected_vertex_count
                    = Vertices(k, Cut(k, w)) - Vertices(k, Cut(k, w - 1))
    <2>1. /\ w \in 1 .. Len(tasks) /\ w - 1 \in 0 .. ScheduledTasks /\ w \in 0 .. ScheduledTasks
          /\ w \in Nat
      BY <1>2
    <2>2. CASE w - 1 > c
      <3>1. Cut(k, w - 1) = All(k) /\ Cut(k, w) = All(k)
        BY <1>5, <1>7, <2>1, <2>2
      <3>2. Moved[w][k] = EmptyPartition
        BY <1>8, <2>1, <2>2
      <3>3. /\ SubSeq(AllGroups(k), All(k) + 1, All(k)) = EmptyPartition.cube_indices
            /\ Vertices(k, All(k)) - Vertices(k, All(k)) = EmptyPartition.expected_vertex_count
        <4>1. All(k) \in 0 .. All(k)
          BY <1>2
        <4> QED
          BY <1>1, <4>1, HoldsNothing
      <3> QED
        BY <3>1, <3>2, <3>3
    <2>3. CASE ~(w - 1 > c)
      <3>1. w \in 1 .. c + 1
        BY <1>5, <2>1, <2>3
      <3>2. Holds(k, w, IF w <= c THEN Cut(k, w) ELSE s)
        BY <1>3, <3>1 DEF SlotsFilled, c, s
      <3>3. (IF w <= c THEN Cut(k, w) ELSE s) = Cut(k, w)
        BY <1>4, <1>5, <1>7, <2>1
      <3>4. Moved[w][k] = tasks[w][k]
        BY <1>8, <2>1, <2>3
      <3> QED
        BY <3>2, <3>3, <3>4 DEF Holds
    <2> QED
      BY <2>2, <2>3
  <1>10. Start0 \in Nat /\ Start0 = Base(k)
    <2>1. /\ opaque_vertex_count = IF kind = 1 THEN 0 ELSE IF kind = 2 THEN Total("cutout")
                                   ELSE Total("cutout") + Total("cutout_no_culling")
          /\ translucent_vertex_count64 = IF kind = 4 THEN Total("translucent") ELSE 0
      BY DEF IInv, Offsets
    <2>2. opaque_vertex_count \in Nat /\ translucent_vertex_count64 \in Nat
      BY DEF IInv, TypeOK
    <2>3. kind = 1 \/ kind = 2 \/ kind = 3 \/ kind = 4
      BY <1>1
    <2>4. CASE kind = 1
      BY <1>1, <2>1, <2>4, KindFacts DEF Start0, Base, Opaque
    <2>5. CASE kind = 2
      BY <1>1, <2>1, <2>2, <2>5, KindFacts DEF Start0, Base, Opaque, Total
    <2>6. CASE kind = 3
      BY <1>1, <2>1, <2>6, KindFacts DEF Start0, Base, Opaque
    <2>7. CASE kind = 4
      BY <1>1, <2>1, <2>2, <2>7, KindFacts DEF Start0, Base, Opaque, Total
    <2> QED
      BY <2>3, <2>4, <2>5, <2>6, <2>7
  <1>11. ASSUME NEW w \in 1 .. ScheduledTasks + 1
         PROVE  StartOf(w) = Start0 + Vertices(k, Cut(k, w - 1))
    <2> DEFINE n == ScheduledTasks
               m == w - 1
               f == [u \in 1 .. m |-> Moved[u][Kind].expected_vertex_count]
               h == [u \in 0 .. n |-> Vertices(k, Cut(k, u))]
    <2>1. n \in Nat /\ m \in Nat /\ m <= n /\ m \in 0 .. m
      BY <1>2
    <2>2. \A u \in 0 .. n : h[u] = Vertices(k, Cut(k, u)) /\ h[u] \in Nat
      BY <1>2, <1>6
    <2>3. Differences(f, h, m)
      <3> SUFFICES ASSUME NEW u \in 1 .. m PROVE f[u] = h[u] - h[u - 1]
        BY DEF Differences
      <3>1. u \in 0 .. n /\ u - 1 \in 0 .. n /\ u \in 1 .. n
        BY <2>1
      <3>2. f[u] = Moved[u][k].expected_vertex_count
        OBVIOUS
      <3> QED
        BY <1>9, <2>2, <3>1, <3>2
    <2>4. StartOf(w) = Start0 + SumUpTo(f, m)
      BY DEF StartOf
    <2>5. \A u \in 0 .. m : h[u] \in Nat
      BY <2>1, <2>2
    <2> HIDE DEF f, h, m, n
    <2>6. SumUpTo(f, m) = h[m] - h[0]
      BY <2>1, <2>3, <2>5, Telescope
    <2>7. h[0] = 0 /\ h[m] = Vertices(k, Cut(k, m)) /\ h[m] \in Nat
      <3>1. 0 \in 0 .. n /\ m \in 0 .. n
        BY <2>1
      <3> QED
        BY <1>2, <1>6, <2>2, <3>1
    <2> QED
      BY <1>10, <2>4, <2>6, <2>7 DEF m
  <1>12. StartOf(ScheduledTasks + 1) = Start0 + Total(k)
    <2>1. ScheduledTasks + 1 \in 1 .. ScheduledTasks + 1 /\ (ScheduledTasks + 1) - 1 = ScheduledTasks
      BY <1>2
    <2> QED
      BY <1>6, <1>11, <2>1 DEF Total
  <1> QED
    BY <1>2, <1>4, <1>8, <1>9, <1>10, <1>11, <1>12 DEF s

\* A kind is finished: the slots behind the cursor are emptied, all are laid out.
LEMMA FinishOK ==
  ASSUME IInv, Finish
  PROVE  IInv'
  <1>1. at = "finish" /\ Prepared
    BY DEF Finish, Prepared
  <1>2. PICK k \in Kinds : k = Kind
    BY KindFacts DEF IInv, TypeOK, Kind
  <1>3. kind \in 1 .. 4 /\ k = KindOrder[kind]
    BY <1>2 DEF IInv, TypeOK, Kind
  <1>4. /\ cursor[k].scheduled = group_counts[k]
        /\ Start0 \in Nat /\ Start0 = Base(k)
        /\ \A w \in 1 .. Len(tasks) :
             /\ Moved[w] \in TaskSlots
             /\ \A j \in Kinds : j # k => Moved[w][j] = tasks[w][j]
        /\ \A w \in 1 .. ScheduledTasks :
             /\ Moved[w][k].cube_indices = SubSeq(AllGroups(k), Cut(k, w - 1) + 1, Cut(k, w))
             /\ Moved[w][k].expected_vertex_count = Vertices(k, Cut(k, w)) - Vertices(k, Cut(k, w - 1))
        /\ \A w \in 1 .. ScheduledTasks + 1 : StartOf(w) = Start0 + Vertices(k, Cut(k, w - 1))
        /\ StartOf(ScheduledTasks + 1) = Start0 + Total(k)
    BY <1>1, <1>2, FinishFacts
  <1>5. /\ ScheduledTasks \in Nat \ {0} /\ ScheduledTasks <= Len(tasks) /\ Len(tasks) \in Nat
        /\ tasks \in Seq(TaskSlots) /\ All(k) \in Nat /\ Total(k) \in Nat
        /\ \A i \in 0 .. All(k) : Vertices(k, i) \in Nat
        /\ \A i, j \in 0 .. All(k) : i <= j => Vertices(k, i) <= Vertices(k, j)
    BY <1>1, PreparedFacts
  <1> DEFINE total == StartOf(ScheduledTasks + 1)
  <1>6. \/ /\ cursor[k].scheduled # group_counts[k] \/ total > MaxUint32
           /\ tasks' = IF cursor[k].scheduled # group_counts[k] THEN tasks ELSE PlacedSlots
           /\ status' = "error" /\ at' = "idle"
           /\ UNCHANGED <<args, counts, mode, bone_update_owners, locals, updates>>
        \/ /\ cursor[k].scheduled = group_counts[k]
           /\ total <= MaxUint32
           /\ tasks' = PlacedSlots
           /\ IF k \in Opaque
              THEN opaque_vertex_count' = total /\ UNCHANGED translucent_vertex_count64
              ELSE translucent_vertex_count64' = total /\ UNCHANGED opaque_vertex_count
           /\ IF kind < 4 THEN kind' = kind + 1 /\ UNCHANGED at
                          ELSE at' = "total" /\ UNCHANGED kind
           /\ UNCHANGED <<args, counts, mode, bone_update_owners, status, updates>>
           /\ UNCHANGED <<group_counts, cursor, render_index, group_begin, bone_worker>>
    BY <1>2 DEF Finish, Start0, Moved, StartOf, PlacedSlots
  <1>7. \A w \in 1 .. ScheduledTasks :
          /\ Cut(k, w - 1) \in 0 .. All(k) /\ Cut(k, w) \in 0 .. All(k)
          /\ Vertices(k, Cut(k, w - 1)) \in Nat
          /\ Vertices(k, Cut(k, w - 1)) <= Total(k)
    <2> SUFFICES ASSUME NEW w \in 1 .. ScheduledTasks
                 PROVE  /\ Cut(k, w - 1) \in 0 .. All(k) /\ Cut(k, w) \in 0 .. All(k)
                        /\ Vertices(k, Cut(k, w - 1)) \in Nat
                        /\ Vertices(k, Cut(k, w - 1)) <= Total(k)
      OBVIOUS
    <2>1. w - 1 \in 0 .. ScheduledTasks /\ w \in 0 .. ScheduledTasks
      BY <1>5
    <2>2. Cut(k, w - 1) \in 0 .. All(k) /\ Cut(k, w) \in 0 .. All(k)
      BY <1>1, <2>1, CutFacts
    <2>3. Cut(k, w - 1) <= All(k) /\ All(k) \in 0 .. All(k)
      BY <1>5, <2>2
    <2> QED
      BY <1>5, <2>2, <2>3 DEF Total
  <1>8. \A w \in 1 .. ScheduledTasks :
          /\ StartOf(w) = Base(k) + Vertices(k, Cut(k, w - 1)) /\ StartOf(w) \in Nat
          /\ StartOf(w) <= total
    <2> SUFFICES ASSUME NEW w \in 1 .. ScheduledTasks
                 PROVE  /\ StartOf(w) = Base(k) + Vertices(k, Cut(k, w - 1)) /\ StartOf(w) \in Nat
                        /\ StartOf(w) <= total
      OBVIOUS
    <2>1. w \in 1 .. ScheduledTasks + 1
      BY <1>5
    <2>2. StartOf(w) = Start0 + Vertices(k, Cut(k, w - 1)) /\ total = Start0 + Total(k)
      BY <1>4, <2>1
    <2>3. Vertices(k, Cut(k, w - 1)) \in Nat /\ Vertices(k, Cut(k, w - 1)) <= Total(k)
      BY <1>7
    <2>4. Start0 = Base(k) /\ Start0 \in Nat /\ Total(k) \in Nat
      BY <1>4, <1>5
    <2> HIDE DEF total
    <2> QED
      BY <2>2, <2>3, <2>4
  <1>9. ASSUME NEW w \in 1 .. Len(tasks)
        PROVE  /\ PlacedSlots[w] \in TaskSlots
               /\ \A j \in Kinds : j # k => PlacedSlots[w][j] = tasks[w][j]
               /\ w <= ScheduledTasks /\ total <= MaxUint32 =>
                    PlacedSlots[w][k] = [Moved[w][k] EXCEPT !.vertex_offset = StartOf(w)]
    <2> DEFINE m == Moved[w]
               v == StartOf(w)
               p == [m[k] EXCEPT !.vertex_offset = v]
               e == [m EXCEPT ![k] = p]
    <2>1. m \in [Kinds -> Partitions] /\ m[k] \in Partitions
          /\ \A j \in Kinds : j # k => m[j] = tasks[w][j]
      BY <1>4 DEF TaskSlots
    <2>2. PlacedSlots[w] = IF w <= ScheduledTasks /\ v <= MaxUint32 THEN e ELSE m
      BY <1>2 DEF PlacedSlots
    <2>3. w <= ScheduledTasks => v \in Nat /\ v <= total
      <3>1. w <= ScheduledTasks => w \in 1 .. ScheduledTasks
        BY <1>5
      <3> QED
        BY <1>8, <3>1
    <2>4. total <= MaxUint32 /\ w <= ScheduledTasks => v <= MaxUint32
      <3>1. total \in Nat /\ MaxUint32 \in Nat
        BY <1>4, <1>5, LimitsAssumption
      <3> HIDE DEF total, v
      <3> QED
        BY <2>3, <3>1
    <2> HIDE DEF m, v
    <2>5. w <= ScheduledTasks => p \in Partitions
      BY <2>1, <2>3 DEF Partitions
    <2> HIDE DEF p
    <2>6. /\ w <= ScheduledTasks => e \in [Kinds -> Partitions]
          /\ e[k] = p /\ \A j \in Kinds : j # k => e[j] = m[j]
      BY <2>1, <2>5
    <2> HIDE DEF e
    <2>7. PlacedSlots[w] \in [Kinds -> Partitions]
      BY <2>1, <2>2, <2>6
    <2>8. \A j \in Kinds : j # k => PlacedSlots[w][j] = tasks[w][j]
      BY <2>1, <2>2, <2>6
    <2>9. w <= ScheduledTasks /\ total <= MaxUint32 => PlacedSlots[w][k] = p
      BY <2>2, <2>4, <2>6
    <2> QED
      BY <2>7, <2>8, <2>9 DEF TaskSlots, p, m, v
  <1>10. PlacedSlots \in Seq(TaskSlots) /\ Len(PlacedSlots) = Len(tasks)
    <2>1. PlacedSlots = [w \in 1 .. Len(tasks) |-> PlacedSlots[w]]
      BY DEF PlacedSlots
    <2>2. \A w \in 1 .. Len(tasks) : PlacedSlots[w] \in TaskSlots
      BY <1>9
    <2> QED
      BY <1>5, <2>1, <2>2
  <1>11. CASE total > MaxUint32
    <2>1. /\ tasks' = PlacedSlots /\ status' = "error" /\ at' = "idle"
          /\ UNCHANGED <<args, counts, mode, bone_update_owners, locals, updates>>
      <3>1. ~(total <= MaxUint32)
        <4>1. total \in Nat /\ MaxUint32 \in Nat
          BY <1>4, <1>5, LimitsAssumption
        <4> HIDE DEF total
        <4> QED
          BY <1>11, <4>1
      <3> QED
        BY <1>4, <1>6, <3>1
    <2>2. FrameTotal > MaxUint32
      <3>1. total = Base(k) + Total(k)
        BY <1>4
      <3>2. /\ Total("cutout") \in Nat /\ Total("cutout_no_culling") \in Nat
            /\ Total("translucent") \in Nat /\ Total("translucent_culling") \in Nat
        <4>1. 1 \in 1 .. 4 /\ 2 \in 1 .. 4 /\ 3 \in 1 .. 4 /\ 4 \in 1 .. 4
          OBVIOUS
        <4> QED
          BY <1>1, <4>1, KindFacts, PreparedFacts
      <3>3. kind = 1 \/ kind = 2 \/ kind = 3 \/ kind = 4
        BY <1>3
      <3>4. \/ k = "cutout" /\ Base(k) = 0
            \/ k = "cutout_no_culling" /\ Base(k) = Total("cutout")
            \/ k = "translucent" /\ Base(k) = 0
            \/ k = "translucent_culling" /\ Base(k) = Total("translucent")
        BY <1>3, <3>3, KindFacts DEF Base, Total
      <3>5. total <= FrameTotal
        BY <3>1, <3>2, <3>4 DEF FrameTotal
      <3>6. total \in Nat /\ FrameTotal \in Nat
        <4>1. total \in Nat
          BY <1>4, <1>5
        <4> HIDE DEF total
        <4> QED
          BY <3>2, <4>1 DEF FrameTotal
      <3> HIDE DEF total
      <3> QED
        BY <1>11, <3>5, <3>6, LimitsAssumption
    <2> QED
      BY <1>10, <2>1, <2>2, Failing
  <1>12. CASE ~(total > MaxUint32)
    <2>1. /\ total <= MaxUint32
          /\ tasks' = PlacedSlots
          /\ IF k \in Opaque
             THEN opaque_vertex_count' = total /\ UNCHANGED translucent_vertex_count64
             ELSE translucent_vertex_count64' = total /\ UNCHANGED opaque_vertex_count
          /\ IF kind < 4 THEN kind' = kind + 1 /\ UNCHANGED at
                         ELSE at' = "total" /\ UNCHANGED kind
          /\ UNCHANGED <<args, counts, mode, bone_update_owners, status, updates>>
          /\ UNCHANGED <<group_counts, cursor, render_index, group_begin, bone_worker>>
      BY <1>4, <1>6, <1>12
    <2>2. at' \in {"finish", "total"} /\ Prepared' /\ kind' \in 1 .. 4
      BY <1>1, <1>3, <2>1 DEF Prepared
    <2>3. total \in Nat /\ total = Base(k) + Total(k)
      BY <1>4, <1>5
    <2> HIDE DEF total
    <2>4. TypeOK'
      <3>1. opaque_vertex_count' \in Nat /\ translucent_vertex_count64' \in Nat
        BY <2>1, <2>3 DEF IInv, TypeOK
      <3> QED
        BY <1>10, <2>1, <2>2, <3>1, ArgsKept DEF IInv, TypeOK, counts
    <2>5. \A i \in 1 .. 4 : Reached(i)' = Reached(i)
      <3>1. \A i : Reached(i) = All(KindOrder[i])
        BY <1>1 DEF Reached
      <3>2. \A i : Reached(i)' = All(KindOrder[i])'
        BY <2>2 DEF Reached
      <3> QED
        BY <2>1, <3>1, <3>2, ArgsKept
    <2>6. ASSUME NEW i \in 1 .. 4, i # kind
          PROVE  /\ Filled(i) => Filled(i)'
                 /\ LaidOut(KindOrder[i]) => LaidOut(KindOrder[i])'
      <3> DEFINE q == KindOrder[i]
      <3>1. q \in Kinds /\ q # k
        BY <1>3, <2>6, KindFacts
      <3>2. \A w \in 1 .. ScheduledTasks : tasks'[w][q] = tasks[w][q]
        <4>1. \A w \in 1 .. ScheduledTasks : w \in 1 .. Len(tasks)
          BY <1>5
        <4> QED
          BY <1>9, <2>1, <3>1, <4>1
      <3>3. cursor'[q] = cursor[q] /\ cursor[q].worker \in Nat
        BY <2>1, <3>1 DEF IInv, TypeOK, Cursors
      <3>4. Filled(i) => Filled(i)'
        BY <1>5, <2>1, <2>5, <3>2, <3>3, FilledKept
      <3>5. LaidOut(q) => LaidOut(q)'
        BY <2>1, <3>2, LaidOutKept
      <3> QED
        BY <3>4, <3>5
    <2>7. LaidOut(k)'
      <3> SUFFICES ASSUME NEW w \in 1 .. ScheduledTasks
                   PROVE  /\ Holds(k, w, Cut(k, w))'
                          /\ tasks'[w][k].vertex_offset = (Base(k) + Vertices(k, Cut(k, w - 1)))'
        BY <2>1, LayoutKept DEF LaidOut
      <3>1. w \in 1 .. Len(tasks) /\ w <= ScheduledTasks
        BY <1>5
      <3>2. tasks'[w][k] = [Moved[w][k] EXCEPT !.vertex_offset = StartOf(w)]
        BY <1>9, <2>1, <3>1 DEF total
      <3>3. Moved[w][k] \in Partitions
        BY <1>4, <3>1 DEF TaskSlots
      <3>4. /\ tasks'[w][k].cube_indices = Moved[w][k].cube_indices
            /\ tasks'[w][k].expected_vertex_count = Moved[w][k].expected_vertex_count
            /\ tasks'[w][k].vertex_offset = StartOf(w)
        BY <3>2, <3>3 DEF Partitions
      <3>5. /\ Cut(k, w)' = Cut(k, w) /\ Cut(k, w - 1)' = Cut(k, w - 1)
            /\ AllGroups(k)' = AllGroups(k) /\ Base(k)' = Base(k)
        BY <2>1, ArgsKept, LayoutKept
      <3>6. /\ Vertices(k, Cut(k, w))' = Vertices(k, Cut(k, w))
            /\ Vertices(k, Cut(k, w - 1))' = Vertices(k, Cut(k, w - 1))
        BY <2>1, <3>5, ArgsKept
      <3>7. Holds(k, w, Cut(k, w))'
        BY <1>4, <3>4, <3>5, <3>6 DEF Holds
      <3>8. tasks'[w][k].vertex_offset = (Base(k) + Vertices(k, Cut(k, w - 1)))'
        BY <1>8, <3>4, <3>5, <3>6
      <3> QED
        BY <3>7, <3>8
    <2>8. Slots'
      <3> SUFFICES ASSUME NEW i \in 1 .. 4
                   PROVE  IF at' = "finish" /\ i >= kind' THEN Filled(i)' ELSE LaidOut(KindOrder[i])'
        BY <2>2 DEF Slots
      <3>1. IF i >= kind THEN Filled(i) ELSE LaidOut(KindOrder[i])
        BY <1>1 DEF IInv, Slots
      <3>2. IF kind < 4 THEN kind' = kind + 1 /\ at' = "finish" ELSE at' = "total"
        BY <1>1, <2>1
      <3>3. CASE i = kind
        <4>1. ~(at' = "finish" /\ i >= kind')
          BY <1>3, <3>2, <3>3
        <4> QED
          BY <1>3, <2>7, <3>3, <4>1
      <3>4. CASE i > kind
        <4>1. at' = "finish" /\ i >= kind' /\ i >= kind /\ i # kind
          BY <1>3, <3>2, <3>4
        <4> QED
          BY <2>6, <3>1, <4>1
      <3>5. CASE i < kind
        <4>1. ~(at' = "finish" /\ i >= kind') /\ ~(i >= kind) /\ i # kind
          BY <1>3, <3>2, <3>5
        <4> QED
          BY <2>6, <3>1, <4>1
      <3> QED
        BY <1>3, <3>3, <3>4, <3>5
    <2>9. Offsets'
      <3>1. \A j : Total(j)' = Total(j)
        BY <2>1, ArgsKept
      <3>2. /\ opaque_vertex_count = IF kind = 1 THEN 0 ELSE IF kind = 2 THEN Total("cutout")
                                     ELSE Total("cutout") + Total("cutout_no_culling")
            /\ translucent_vertex_count64 = IF kind = 4 THEN Total("translucent") ELSE 0
        BY <1>1 DEF IInv, Offsets
      <3>3. kind = 1 \/ kind = 2 \/ kind = 3 \/ kind = 4
        BY <1>3
      <3>4. CASE kind = 1
        <4>1. /\ at' = "finish" /\ kind' = 2 /\ opaque_vertex_count' = Total("cutout")
              /\ translucent_vertex_count64' = 0
          BY <1>1, <1>3, <1>5, <2>1, <2>3, <3>2, <3>4, KindFacts DEF Base, Opaque
        <4> QED
          BY <3>1, <4>1 DEF Offsets
      <3>5. CASE kind = 2
        <4>1. /\ at' = "finish" /\ kind' = 3
              /\ opaque_vertex_count' = Total("cutout") + Total("cutout_no_culling")
              /\ translucent_vertex_count64' = 0
          BY <1>1, <1>3, <2>1, <2>3, <3>2, <3>5, KindFacts DEF Base, Opaque, Total
        <4> QED
          BY <3>1, <4>1 DEF Offsets
      <3>6. CASE kind = 3
        <4>1. /\ at' = "finish" /\ kind' = 4
              /\ opaque_vertex_count' = Total("cutout") + Total("cutout_no_culling")
              /\ translucent_vertex_count64' = Total("translucent")
          BY <1>1, <1>3, <1>5, <2>1, <2>3, <3>2, <3>6, KindFacts DEF Base, Opaque
        <4> QED
          BY <3>1, <4>1 DEF Offsets
      <3>7. CASE kind = 4
        <4>1. /\ at' = "total"
              /\ opaque_vertex_count' = Total("cutout") + Total("cutout_no_culling")
              /\ translucent_vertex_count64' = Total("translucent") + Total("translucent_culling")
          BY <1>1, <1>3, <2>1, <2>3, <3>2, <3>7, KindFacts DEF Base, Opaque, Total
        <4> QED
          BY <3>1, <4>1 DEF Offsets
      <3> QED
        BY <3>3, <3>4, <3>5, <3>6, <3>7
    <2>10. Owners'
      <3>1. Owned' = Bones' /\ Owned = Bones
        BY <1>1, <2>2 DEF Owned
      <3> QED
        BY <1>1, <2>1, <2>2, <3>1, ArgsKept DEF IInv, Owners
    <2>11. Ready' /\ Outcome'
      BY <1>1, <1>10, <2>1, <2>2, ArgsKept DEF IInv, Ready, Outcome, Completed
    <2> QED
      BY <2>2, <2>4, <2>8, <2>9, <2>10, <2>11 DEF IInv, Counted, Placed
  <1> QED
    BY <1>11, <1>12

-----------------------------------------------------------------------------

\* The invariant is inductive.
LEMMA Inductive == IInv /\ [Next]_vars => IInv'
  <1> SUFFICES ASSUME IInv, [Next]_vars PROVE IInv'
    OBVIOUS
  <1>1. ASSUME NEW m \in Models, NEW r \in RenderLists, NEW n \in WorkerCounts, Update(m, r, n)
        PROVE  IInv'
    BY <1>1, UpdateOK
  <1>2. CASE CountBone
    BY <1>2, CountBoneOK
  <1>3. CASE Prepare
    BY <1>3, PrepareOK
  <1>4. CASE NextBoneWorker
    BY <1>4, NextBoneWorkerOK
  <1>5. CASE StartBone
    BY <1>5, StartBoneOK
  <1>6. CASE Move
    BY <1>6, MoveOK
  <1>7. CASE AppendGroups
    BY <1>7, AppendGroupsOK
  <1>8. CASE Appended
    BY <1>8, AppendedOK
  <1>9. CASE StartFinish
    BY <1>9, StartFinishOK
  <1>10. CASE Finish
    BY <1>10, FinishOK
  <1>11. CASE Complete
    BY <1>11, CompleteOK
  <1>12. CASE TooManyVertices
    BY <1>12, TooManyVerticesOK
  <1>13. CASE UNCHANGED vars
    BY <1>13, StutterOK
  <1> QED
    BY <1>1, <1>2, <1>3, <1>4, <1>5, <1>6, <1>7, <1>8, <1>9, <1>10, <1>11, <1>12, <1>13
    DEF Next, Step

\* The invariant holds of every reachable state.
LEMMA Invariant == Spec => []IInv
  BY InitOK, Inductive, PTL DEF Spec

\* The owners the update hands to the workers are the workers whose ranges
\* RenderState::Update computes for itself.
THEOREM OwnersAgree == Spec => []OwnersMatchUpdate
  <1>1. IInv => OwnersMatchUpdate
    <2> SUFFICES ASSUME IInv, Completed, mode = "WorkerReadySpin"
                 PROVE  /\ \A w \in 0 .. workers - 1 : \A i \in TaskRange(w, workers, Len(render)) :
                             bone_update_owners[render[i + 1] + 1] = w
                        /\ \A b \in 1 .. Len(model) :
                             bone_update_owners[b] = NoOwner
                               <=> \A i \in 1 .. Len(render) : render[i] + 1 # b
      BY DEF OwnersMatchUpdate
    <2>1. Prepared /\ Owned = Len(render) /\ at = "idle" /\ Bones = Len(render)
      BY DEF Prepared, Completed, Owned, Bones
    <2>2. /\ \A i \in 1 .. Len(render) :
               /\ bone_update_owners[render[i] + 1] \in 0 .. workers - 1
               /\ i - 1 \in TaskRange(bone_update_owners[render[i] + 1], workers, Len(render))
          /\ \A b \in 1 .. Len(model) :
               bone_update_owners[b] = NoOwner <=> \A i \in 1 .. Len(render) : render[i] + 1 # b
      BY <2>1 DEF IInv, Owners
    <2>3. workers \in Nat \ {0} /\ Len(render) \in Nat
      BY ArgsFacts DEF IInv, TypeOK
    <2>4. ASSUME NEW w \in 0 .. workers - 1, NEW i \in TaskRange(w, workers, Len(render))
          PROVE  bone_update_owners[render[i + 1] + 1] = w
      <3>1. i \in 0 .. Len(render) - 1
        <4>1. w \in Nat /\ w + 1 \in Nat /\ w + 1 <= workers /\ workers \in Nat
          BY <2>3
        <4>2. /\ Split(w, workers, Len(render)) \in Nat
              /\ Split(w + 1, workers, Len(render)) \in Nat
              /\ Split(w + 1, workers, Len(render)) <= Len(render)
          <5>1. Split(w + 1, workers, Len(render)) <= Split(workers, workers, Len(render))
            BY <2>3, <4>1, SplitIsMonotone
          <5> QED
            BY <2>3, <4>1, <5>1, SplitIsNat, SplitEnds
        <4> QED
          BY <2>3, <4>2 DEF TaskRange
      <3>2. i + 1 \in 1 .. Len(render) /\ (i + 1) - 1 = i
        BY <2>3, <3>1
      <3> DEFINE o == bone_update_owners[render[i + 1] + 1]
      <3>3. o \in 0 .. workers - 1 /\ i \in TaskRange(o, workers, Len(render))
        BY <2>2, <3>2
      <3> HIDE DEF o
      <3>4. o \in Nat /\ w \in Nat
        BY <2>3, <3>3
      <3>5. o = w
        BY <2>3, <3>3, <3>4, RangesAreDisjoint
      <3> QED
        BY <3>5 DEF o
    <2> QED
      BY <2>2, <2>4
  <1> QED
    BY <1>1, Invariant, PTL

\* RenderSchedule::Update fails for a missing bone or a frame too large for 32
\* bits, and only then: its guards against a cursor without room never trip.
THEOREM OnlyLimitsFail == Spec => []FailsOnlyAtLimits
  <1>1. IInv => FailsOnlyAtLimits
    <2> DEFINE Missing == \E i \in 1 .. Len(render) : render[i] >= Len(model)
               Sum == VerticesOf("cutout", AllGroups("cutout"))
                        + VerticesOf("cutout_no_culling", AllGroups("cutout_no_culling"))
                        + VerticesOf("translucent", AllGroups("translucent"))
                        + VerticesOf("translucent_culling", AllGroups("translucent_culling"))
    <2> SUFFICES ASSUME IInv, at = "idle", status # "none"
                 PROVE  status = "error" <=> Missing \/ Sum > MaxUint32
      BY DEF FailsOnlyAtLimits
    <2>1. Missing <=> ~AllThere
      <3>1. \A i \in 1 .. Len(render) : render[i] \in Nat /\ Len(model) \in Nat
        BY ArgsFacts DEF IInv, TypeOK
      <3> QED
        BY <3>1 DEF AllThere
    <2>2. AllThere => Sum = FrameTotal
      <3> SUFFICES ASSUME AllThere PROVE Sum = FrameTotal
        OBVIOUS
      <3>1. \A k \in Kinds : VerticesOf(k, AllGroups(k)) = Total(k)
        BY VerticesOfAll DEF IInv, TypeOK, Total, All, Bones
      <3>2. 1 \in 1 .. 4 /\ 2 \in 1 .. 4 /\ 3 \in 1 .. 4 /\ 4 \in 1 .. 4
        OBVIOUS
      <3> QED
        BY <3>1, <3>2, KindFacts DEF FrameTotal
    <2>3. CASE status = "error"
      BY <2>1, <2>2, <2>3 DEF IInv, Outcome
    <2>4. CASE status = "ok"
      <3>1. Completed
        BY <2>4 DEF Completed
      <3>2. AllThere
        BY <3>1 DEF IInv, Ready, Prepared
      <3>3. vertex_count = FrameTotal /\ vertex_count <= MaxUint32 /\ vertex_count \in Nat
        <4>1. /\ Total("cutout") \in Nat /\ Total("cutout_no_culling") \in Nat
              /\ Total("translucent") \in Nat /\ Total("translucent_culling") \in Nat
          <5>1. 1 \in 1 .. 4 /\ 2 \in 1 .. 4 /\ 3 \in 1 .. 4 /\ 4 \in 1 .. 4
            OBVIOUS
          <5>2. Prepared
            BY <3>1 DEF Prepared
          <5> QED
            BY <5>1, <5>2, KindFacts, PreparedFacts
        <4>2. /\ translucent_vertex_offset = Total("cutout") + Total("cutout_no_culling")
              /\ translucent_vertex_count = Total("translucent") + Total("translucent_culling")
              /\ vertex_count = translucent_vertex_offset + translucent_vertex_count
              /\ vertex_count <= MaxUint32 /\ vertex_count \in Nat
          BY <3>1 DEF IInv, TypeOK, Outcome
        <4> QED
          BY <4>1, <4>2 DEF FrameTotal
      <3>4. ~(FrameTotal > MaxUint32)
        BY <3>3, LimitsAssumption
      <3> QED
        BY <2>1, <2>2, <2>4, <3>2, <3>4
    <2> QED
      BY <2>3, <2>4 DEF IInv, TypeOK
  <1> QED
    BY <1>1, Invariant, PTL

\* Two kinds laid out one after the other tile their part of the buffer.
LEMMA LayoutTiles ==
  ASSUME IInv, Completed, NEW k \in Kinds, NEW j \in Kinds,
         Base(k) = 0, Base(j) = Total(k), LaidOut(k), LaidOut(j)
  PROVE  Tiles(Layout(k, j), Total(k) + Total(j))
  <1> DEFINE n == ScheduledTasks
             l == Layout(k, j)
  <1>1. Prepared /\ n \in Nat \ {0} /\ Total(k) \in Nat /\ Total(j) \in Nat
    BY PreparedFacts DEF Prepared
  <1>2. /\ DOMAIN l = 1 .. 2 * n /\ Len(l) = 2 * n
        /\ \A i \in 1 .. 2 * n : l[i] = IF i <= n THEN tasks[i][k] ELSE tasks[i - n][j]
    BY <1>1 DEF Layout
  <1> HIDE DEF l
  <1>3. \A q \in Kinds :
          /\ Cut(q, 0) = 0 /\ Cut(q, n) = All(q) /\ Vertices(q, 0) = 0
          /\ \A w \in 0 .. n : Vertices(q, Cut(q, w)) \in Nat
    BY <1>1, PreparedFacts, CutFacts
  <1>4. ASSUME NEW q \in Kinds, LaidOut(q), NEW w \in 1 .. n
        PROVE  /\ tasks[w][q].vertex_offset = Base(q) + Vertices(q, Cut(q, w - 1))
               /\ tasks[w][q].expected_vertex_count
                    = Vertices(q, Cut(q, w)) - Vertices(q, Cut(q, w - 1))
               /\ Vertices(q, Cut(q, w - 1)) \in Nat /\ Vertices(q, Cut(q, w)) \in Nat
    <2>1. w - 1 \in 0 .. n /\ w \in 0 .. n
      BY <1>1
    <2> QED
      BY <1>3, <1>4, <2>1 DEF LaidOut, Holds
  <1>5. ASSUME NEW i \in 1 .. 2 * n
        PROVE  /\ i = 1 => l[i].vertex_offset = 0
               /\ l[i].vertex_offset + l[i].expected_vertex_count =
                    IF i = Len(l) THEN Total(k) + Total(j) ELSE l[i + 1].vertex_offset
    <2>1. CASE i \in 1 .. n - 1
      <3>1. i \in 1 .. n /\ i + 1 \in 1 .. n /\ i + 1 \in 1 .. 2 * n /\ i # 2 * n
            /\ i <= n /\ i + 1 <= n /\ (i + 1) - 1 = i
        BY <1>1, <2>1
      <3>2. l[i] = tasks[i][k] /\ l[i + 1] = tasks[i + 1][k]
        BY <1>2, <3>1
      <3>3. /\ tasks[i][k].vertex_offset = Vertices(k, Cut(k, i - 1))
            /\ tasks[i][k].expected_vertex_count = Vertices(k, Cut(k, i)) - Vertices(k, Cut(k, i - 1))
            /\ Vertices(k, Cut(k, i - 1)) \in Nat /\ Vertices(k, Cut(k, i)) \in Nat
        BY <1>4, <3>1
      <3>4. tasks[i + 1][k].vertex_offset = Vertices(k, Cut(k, i))
        <4>1. tasks[i + 1][k].vertex_offset = Base(k) + Vertices(k, Cut(k, (i + 1) - 1))
          BY <1>4, <3>1
        <4> QED
          BY <3>1, <3>3, <4>1
      <3>5. i = 1 => Vertices(k, Cut(k, i - 1)) = 0
        BY <1>3
      <3> QED
        BY <1>2, <3>1, <3>2, <3>3, <3>4, <3>5
    <2>2. CASE i = n
      <3>1. n \in 1 .. n /\ 1 \in 1 .. n /\ i + 1 \in 1 .. 2 * n /\ i # 2 * n
            /\ ~(i + 1 <= n) /\ (i + 1) - n = 1
        BY <1>1, <2>2
      <3>2. l[i] = tasks[n][k] /\ l[i + 1] = tasks[1][j]
        BY <1>2, <2>2, <3>1
      <3>3. /\ tasks[n][k].vertex_offset = Vertices(k, Cut(k, n - 1))
            /\ tasks[n][k].expected_vertex_count = Vertices(k, Cut(k, n)) - Vertices(k, Cut(k, n - 1))
            /\ Vertices(k, Cut(k, n - 1)) \in Nat /\ Vertices(k, Cut(k, n)) \in Nat
        BY <1>4, <3>1
      <3>4. tasks[1][j].vertex_offset = Total(k)
        <4>1. tasks[1][j].vertex_offset = Base(j) + Vertices(j, Cut(j, 1 - 1))
          BY <1>4, <3>1
        <4>2. Vertices(j, Cut(j, 1 - 1)) = 0
          BY <1>3
        <4> QED
          BY <1>1, <4>1, <4>2
      <3>5. Vertices(k, Cut(k, n)) = Total(k)
        BY <1>3 DEF Total
      <3>6. i = 1 => Vertices(k, Cut(k, n - 1)) = 0
        BY <1>3, <2>2
      <3> QED
        BY <1>2, <3>1, <3>2, <3>3, <3>4, <3>5, <3>6
    <2>3. CASE i \in n + 1 .. 2 * n
      <3> DEFINE w == i - n
      <3>1. w \in 1 .. n /\ ~(i <= n) /\ i # 1
        BY <1>1, <2>3
      <3>2. l[i] = tasks[w][j]
        BY <1>2, <3>1
      <3>3. /\ tasks[w][j].vertex_offset = Total(k) + Vertices(j, Cut(j, w - 1))
            /\ tasks[w][j].expected_vertex_count = Vertices(j, Cut(j, w)) - Vertices(j, Cut(j, w - 1))
            /\ Vertices(j, Cut(j, w - 1)) \in Nat /\ Vertices(j, Cut(j, w)) \in Nat
        BY <1>4, <3>1
      <3>4. l[i].vertex_offset + l[i].expected_vertex_count = Total(k) + Vertices(j, Cut(j, w))
        BY <1>1, <3>2, <3>3
      <3>5. CASE i = 2 * n
        <4>1. w = n
          BY <1>1, <3>5
        <4>2. Vertices(j, Cut(j, w)) = Total(j)
          BY <1>3, <4>1 DEF Total
        <4> HIDE DEF w
        <4> QED
          BY <1>2, <3>1, <3>4, <3>5, <4>2
      <3>6. CASE i # 2 * n
        <4>1. w + 1 \in 1 .. n /\ i + 1 \in 1 .. 2 * n /\ ~(i + 1 <= n) /\ (i + 1) - n = w + 1
              /\ (w + 1) - 1 = w
          BY <1>1, <2>3, <3>6
        <4>2. l[i + 1] = tasks[w + 1][j]
          BY <1>2, <4>1
        <4> HIDE DEF w
        <4>3. tasks[w + 1][j].vertex_offset = Base(j) + Vertices(j, Cut(j, (w + 1) - 1))
          BY <1>4, <4>1
        <4>4. tasks[w + 1][j].vertex_offset = Total(k) + Vertices(j, Cut(j, w))
          BY <4>1, <4>3
        <4> QED
          BY <1>2, <3>1, <3>4, <3>6, <4>2, <4>4
      <3> QED
        BY <3>5, <3>6
    <2> QED
      BY <1>1, <2>1, <2>2, <2>3
  <1> QED
    BY <1>2, <1>5 DEF Tiles, l

\* The tasks of an update have exactly their ranges of the visible groups, and
\* their vertex ranges tile the buffer, whatever the slots held before.
THEOREM TasksTile == Spec => []TasksTileTheFrame
  <1>1. IInv => TasksTileTheFrame
    <2> SUFFICES ASSUME IInv, Completed PROVE TasksMatchRanges /\ RangesTile
      BY DEF TasksTileTheFrame
    <2>1. Prepared
      BY DEF Prepared
    <2>2. \A k \in Kinds : LaidOut(k)
      <3>1. \A i \in 1 .. 4 : LaidOut(KindOrder[i])
        BY <2>1 DEF IInv, Slots, Completed
      <3> QED
        BY <3>1, KindFacts
    <2>3. \A k \in Kinds :
            /\ Len(AllGroups(k)) = All(k) /\ All(k) \in Nat
            /\ Total(k) \in Nat
      BY <2>1, PreparedFacts
    <2>4. ScheduledTasks \in Nat \ {0} /\ ArgsOK /\ AllThere
      BY <2>1, PreparedFacts
    <2>5. \A k \in Kinds, w \in 1 .. ScheduledTasks :
            tasks[w][k].cube_indices = SubSeq(AllGroups(k), Cut(k, w - 1) + 1, Cut(k, w))
            /\ tasks[w][k].expected_vertex_count = Vertices(k, Cut(k, w)) - Vertices(k, Cut(k, w - 1))
      BY <2>2 DEF LaidOut, Holds
    <2>6. TasksMatchRanges
      BY <2>3, <2>5 DEF TasksMatchRanges, Cut
    <2>7. ASSUME NEW k \in Kinds, NEW w \in 1 .. ScheduledTasks
          PROVE  tasks[w][k].expected_vertex_count = VerticesOf(k, tasks[w][k].cube_indices)
      <3>1. w - 1 \in 0 .. ScheduledTasks /\ w \in 0 .. ScheduledTasks /\ w - 1 <= w
        BY <2>4
      <3>2. PICK a \in 0 .. All(k) : a = Cut(k, w - 1)
        BY <2>1, <3>1, CutFacts
      <3>3. PICK b \in 0 .. All(k) : b = Cut(k, w)
        BY <2>1, <3>1, CutFacts
      <3>4. a <= b
        BY <2>1, <3>1, <3>2, <3>3, CutFacts
      <3>5. VerticesOf(k, SubSeq(AllGroups(k), a + 1, b)) = Vertices(k, b) - Vertices(k, a)
        BY <2>4, <3>2, <3>3, <3>4, VerticesOfRun DEF All, Bones
      <3> QED
        BY <2>5, <3>2, <3>3, <3>5
    <2>8. /\ "cutout" \in Kinds /\ "cutout_no_culling" \in Kinds
          /\ "translucent" \in Kinds /\ "translucent_culling" \in Kinds
      <3>1. 1 \in 1 .. 4 /\ 2 \in 1 .. 4 /\ 3 \in 1 .. 4 /\ 4 \in 1 .. 4
        OBVIOUS
      <3> QED
        BY <3>1, KindFacts
    <2>9. /\ Base("cutout") = 0 /\ Base("cutout_no_culling") = Total("cutout")
          /\ Base("translucent") = 0 /\ Base("translucent_culling") = Total("translucent")
      BY DEF Base, Total
    <2>10. Tiles(Layout("cutout", "cutout_no_culling"), Total("cutout") + Total("cutout_no_culling"))
      BY <2>2, <2>8, <2>9, LayoutTiles
    <2>11. Tiles(Layout("translucent", "translucent_culling"),
                 Total("translucent") + Total("translucent_culling"))
      BY <2>2, <2>8, <2>9, LayoutTiles
    <2>12. /\ translucent_vertex_offset = Total("cutout") + Total("cutout_no_culling")
           /\ translucent_vertex_count = Total("translucent") + Total("translucent_culling")
           /\ vertex_count = translucent_vertex_offset + translucent_vertex_count
      BY DEF IInv, Outcome
    <2>13. RangesTile
      BY <2>7, <2>10, <2>11, <2>12 DEF RangesTile
    <2> QED
      BY <2>6, <2>13
  <1> QED
    BY <1>1, Invariant, PTL

\* Every variable of Update keeps its type: no cursor, count or offset goes
\* below zero and every slot is one of four partitions.
THEOREM TypeCorrect == Spec => []TypeOK
  <1>1. IInv => TypeOK
    BY DEF IInv
  <1> QED
    BY <1>1, Invariant, PTL
=============================================================================
