-------------------------- MODULE AlgorithmProofs --------------------------
(***************************************************************************)
(* What pure parts of the program promise for every input.                  *)
(*                                                                         *)
(* The lane planner of the worker, for every list of tasks and number of    *)
(* lanes: no task is lost or doubled (PlanHoldsEveryTask), there are no     *)
(* more lanes than were asked for and none is idle (PlanFits), browser      *)
(* tasks are on one lane (PlanSerializes), the rest is spread evenly        *)
(* (PlanIsEven). A score, for every task, world and judge: only whole runs  *)
(* pass (OnlyWholeRunsPass), a judge is shown what fits its budget          *)
(* (ArtifactsFitTheBudget), answers within bounds (AnswersAreBounded)    *)
(* and rescues nothing (JudgeRescuesNothing).                               *)
(*                                                                         *)
(* The modules state a filter, a sort and a fold as a choice: a recursive   *)
(* function, a bijection that orders. That what is chosen exists is proved  *)
(* by taking the least place at which it would not (FoldExists,             *)
(* AmongIsFunction, SortExists); what follows is proved the same way, one   *)
(* unrolled step at a time (AmongUnrolls, TotalUnrolls, PlaceAllUnrolls).   *)
(* PlaceKeeps is the invariant of the planner's greedy loop, ShowKeeps that *)
(* of the judge's prompt.                                                   *)
(***************************************************************************)
EXTENDS LanePlan, FiniteSetTheorems, NaturalsInduction, WellFoundedInduction, TLAPS

\* The least element of a set of numbers.
LEMMA Least ==
  ASSUME NEW S, S \subseteq Nat, S # {}
  PROVE  \E n \in S : \A m \in S : n <= m
  <1>1. PICK t \in S : \A u \in S : ~(<<u, t>> \in OpToRel(<, Nat))
    BY WFMin, NatLessThanWellFounded
  <1>2. \A m \in S : t <= m
    <2> SUFFICES ASSUME NEW m \in S PROVE t <= m
      OBVIOUS
    <2>1. ~(m < t)
      BY <1>1 DEF OpToRel
    <2> QED BY <2>1
  <1> QED BY <1>2

\* The greatest of some numbers up to a bound.
LEMMA Greatest ==
  ASSUME NEW N \in Nat, NEW S \in SUBSET (1..N), S # {}
  PROVE  Max(S) \in S /\ \A m \in S : m <= Max(S)
  <1> DEFINE Above == {n \in Nat : \A m \in S : m <= n}
  <1>1. N \in Above
    OBVIOUS
  <1>2. PICK n \in Above : \A m \in Above : n <= m
    BY <1>1, Least
  <1>3. n \in S
    <2> SUFFICES ASSUME n \notin S PROVE FALSE
      OBVIOUS
    <2>1. PICK x \in S : TRUE
      OBVIOUS
    <2>2. n # 0
      BY <2>1, <1>2
    <2>3. \A m \in S : m <= n - 1
      BY <1>2
    <2>4. n - 1 \in Above
      BY <2>2, <2>3
    <2>5. ~(n <= n - 1)
      BY <1>2
    <2> HIDE DEF Above
    <2> QED BY <2>4, <2>5, <1>2
  <1>4. \E x \in S : \A y \in S : x >= y
    BY <1>2, <1>3
  <1> QED BY <1>4 DEF Max

\* The first n places: the last of them is n.
LEMMA FirstPlaces ==
  ASSUME NEW N \in Nat, NEW n \in 1..N
  PROVE  /\ 1..n \in SUBSET (1..N) /\ 1..n # {} /\ Max(1..n) = n /\ (1..n) \ {n} = 1..(n - 1)
         /\ n \in Nat /\ n - 1 \in 0..N /\ n \in 0..N
  <1>1. 1..n \in SUBSET (1..N) /\ 1..n # {} /\ n \in 1..n /\ n \in Nat /\ n - 1 \in 0..N /\ n \in 0..N
    OBVIOUS
  <1>2. Max(1..n) \in 1..n /\ n <= Max(1..n)
    BY <1>1, Greatest
  <1>3. (1..n) \ {n} = 1..(n - 1)
    BY <1>1
  <1>4. Max(1..n) = n
    BY <1>1, <1>2
  <1> QED BY <1>1, <1>3, <1>4

\* What a fold over the first places computes step by step is a function: what a fold chooses exists.
FoldSteps(F, N, A, base, step) ==
    /\ F \in [SUBSET (1..N) -> A]
    /\ \A S \in SUBSET (1..N) : F[S] = IF S = {} THEN base ELSE step[<<Max(S), F[S \ {Max(S)}]>>]

\* A function folds any numbers, of those up to a bound.
LEMMA FoldExists ==
  ASSUME NEW N \in Nat, NEW A, NEW base \in A, NEW step \in [(1..N) \X A -> A]
  PROVE  \E F : FoldSteps(F, N, A, base, step)
  <1> DEFINE Val(F, S) == IF S = {} THEN base ELSE step[<<Max(S), F[S \ {Max(S)}]>>]
             Good(n, F) == F \in [SUBSET (1..n) -> A] /\ \A S \in SUBSET (1..n) : F[S] = Val(F, S)
             Bad == {n \in 0..N : ~ \E F : Good(n, F)}
  <1>1. Bad = {}
    <2> SUFFICES ASSUME Bad # {} PROVE FALSE
      OBVIOUS
    <2>1. PICK n \in Bad : \A m \in Bad : n <= m
      <3>1. Bad \subseteq Nat
        OBVIOUS
      <3> HIDE DEF Bad
      <3> QED BY <3>1, Least
    <2>2. n \in 0..N /\ ~ \E F : Good(n, F)
      OBVIOUS
    <2>3. n # 0
      <3> SUFFICES ASSUME n = 0 PROVE FALSE
        OBVIOUS
      <3> DEFINE F == [S \in SUBSET (1..0) |-> base]
      <3>1. \A S \in SUBSET (1..0) : S = {}
        OBVIOUS
      <3>2. F \in [SUBSET (1..0) -> A] /\ \A S \in SUBSET (1..0) : F[S] = base
        OBVIOUS
      <3> HIDE DEF F
      <3>3. Good(0, F)
        BY <3>1, <3>2
      <3> QED BY <2>2, <3>3
    <2>4. n - 1 \in 0..N /\ ~(n <= n - 1) /\ n \in 1..N /\ n \in Nat
      BY <2>2, <2>3
    <2>5. PICK F : Good(n - 1, F)
      <3>1. n - 1 \notin Bad
        <4> HIDE DEF Bad
        <4> QED BY <2>1, <2>4
      <3> HIDE DEF Good
      <3> QED BY <3>1, <2>4
    <2> DEFINE G == [S \in SUBSET (1..n) |-> IF n \in S THEN step[<<n, F[S \ {n}]>>] ELSE F[S]]
    <2>6. ASSUME NEW S \in SUBSET (1..n) PROVE S \ {n} \in SUBSET (1..(n - 1)) /\ (n \notin S => S \in SUBSET (1..(n - 1)))
      BY <2>4
    <2>7. G \in [SUBSET (1..n) -> A]
      <3>1. \A S \in SUBSET (1..n) : (IF n \in S THEN step[<<n, F[S \ {n}]>>] ELSE F[S]) \in A
        <4> SUFFICES ASSUME NEW S \in SUBSET (1..n) PROVE (IF n \in S THEN step[<<n, F[S \ {n}]>>] ELSE F[S]) \in A
          OBVIOUS
        <4>1. F[S \ {n}] \in A /\ (n \notin S => F[S] \in A)
          BY <2>5, <2>6
        <4>2. <<n, F[S \ {n}]>> \in (1..N) \X A
          BY <4>1, <2>4
        <4> QED BY <4>1, <4>2
      <3> QED BY <3>1
    <2>8. ASSUME NEW S \in SUBSET (1..n) PROVE G[S] = Val(G, S)
      <3>1. CASE S = {}
        <4>1. G[S] = F[S] /\ S \in SUBSET (1..(n - 1))
          BY <3>1
        <4> QED BY <3>1, <4>1, <2>5
      <3>2. CASE n \in S
        <4>1. Max(S) = n
          <5>1. Max(S) \in S /\ n <= Max(S)
            BY <3>2, <2>4, Greatest
          <5>2. Max(S) \in 1..n
            BY <5>1
          <5> HIDE DEF G
          <5> QED BY <5>1, <5>2, <2>4
        <4>2. S \ {n} \in SUBSET (1..n) /\ n \notin S \ {n}
          OBVIOUS
        <4>3. G[S \ {n}] = F[S \ {n}]
          BY <4>2
        <4>4. G[S] = step[<<n, F[S \ {n}]>>]
          BY <3>2
        <4>5. S # {}
          BY <3>2
        <4> HIDE DEF G
        <4> QED BY <4>1, <4>3, <4>4, <4>5
      <3>3. CASE n \notin S /\ S # {}
        <4>1. G[S] = F[S] /\ S \in SUBSET (1..(n - 1))
          BY <3>3, <2>6
        <4> DEFINE m == Max(S)
        <4>2. S \ {m} \in SUBSET (1..n) /\ n \notin S \ {m}
          BY <3>3
        <4>3. G[S \ {m}] = F[S \ {m}]
          BY <4>2
        <4>4. F[S] = step[<<m, F[S \ {m}]>>]
          BY <4>1, <3>3, <2>5
        <4> HIDE DEF G
        <4> QED BY <3>3, <4>1, <4>3, <4>4
      <3> QED BY <3>1, <3>2, <3>3
    <2>9. Good(n, G)
      <3> HIDE DEF G, Val
      <3> QED BY <2>7, <2>8
    <2> HIDE DEF G, Good
    <2> QED BY <2>2, <2>9
  <1>2. \E F : Good(N, F)
    <2> HIDE DEF Good
    <2> QED BY <1>1
  <1> QED BY <1>2 DEF FoldSteps

\* What is left of the first things of a list.
Parts(s, kept, f) ==
    [i \in 0..Len(s) |-> IF i = 0 THEN <<>> ELSE IF s[i] \in kept THEN Append(f[i - 1], s[i]) ELSE f[i - 1]]
\* The parts of a sequence, one after the other, are a function: what Among chooses exists.
LEMMA AmongIsFunction ==
  ASSUME NEW S, NEW s \in Seq(S), NEW kept
  PROVE  \E f \in [0..Len(s) -> Seq(S)] : f = Parts(s, kept, f)
  <1> DEFINE More(i, p) == IF s[i] \in kept THEN Append(p, s[i]) ELSE p
             Good(n, f) == /\ f \in [0..n -> Seq(S)] /\ f[0] = <<>>
                           /\ \A i \in 1..n : f[i] = More(i, f[i - 1])
             Bad == {n \in 0..Len(s) : ~ \E f : Good(n, f)}
  <1>0. Len(s) \in Nat
    OBVIOUS
  <1>1. Bad = {}
    <2> SUFFICES ASSUME Bad # {} PROVE FALSE
      OBVIOUS
    <2>1. PICK n \in Bad : \A m \in Bad : n <= m
      <3>1. Bad \subseteq Nat
        BY <1>0
      <3> QED BY <3>1, Least
    <2>2. n \in 0..Len(s) /\ ~ \E f : Good(n, f)
      OBVIOUS
    <2>3. n # 0
      <3>1. [i \in 0..0 |-> <<>>] \in [0..0 -> Seq(S)]
        OBVIOUS
      <3>2. Good(0, [i \in 0..0 |-> <<>>])
        BY <3>1
      <3> QED BY <2>2, <3>2
    <2>4. n - 1 \in 0..Len(s) /\ ~(n <= n - 1)
      BY <2>2, <2>3, <1>0
    <2>5. PICK f : Good(n - 1, f)
      <3>1. n - 1 \notin Bad
        <4> HIDE DEF Bad
        <4> QED BY <2>1, <2>4
      <3> HIDE DEF Good
      <3> QED BY <3>1, <2>4
    <2> DEFINE g == [i \in 0..n |-> IF i = n THEN More(n, f[n - 1]) ELSE f[i]]
    <2>6. s[n] \in S /\ n \in 1..Len(s)
      BY <2>2, <2>3, <1>0
    <2>7. f[n - 1] \in Seq(S)
      BY <2>5, <2>6
    <2>8. More(n, f[n - 1]) \in Seq(S)
      BY <2>6, <2>7
    <2>9. g \in [0..n -> Seq(S)]
      <3>1. ASSUME NEW i \in 0..n, i # n PROVE f[i] \in Seq(S)
        BY <2>5, <2>6, <3>1
      <3> HIDE DEF More
      <3> QED BY <2>8, <3>1
    <2>10. g[0] = <<>>
      BY <2>5, <2>6
    <2>11. ASSUME NEW i \in 1..n PROVE g[i] = More(i, g[i - 1])
      <3>1. i - 1 \in 0..n /\ i - 1 # n /\ i \in 0..n /\ g[i - 1] = f[i - 1]
        BY <2>6
      <3>2. CASE i = n
        <4> HIDE DEF More
        <4> QED BY <3>1, <3>2
      <3>3. CASE i # n
        <4>1. i \in 1..(n - 1)
          BY <3>3, <2>6
        <4>2. f[i] = More(i, f[i - 1])
          BY <4>1, <2>5
        <4> HIDE DEF More
        <4> QED BY <3>1, <3>3, <4>2
      <3> QED BY <3>2, <3>3
    <2>12. Good(n, g)
      BY <2>9, <2>10, <2>11
    <2> QED BY <2>2, <2>12
  <1>2. PICK f : Good(Len(s), f)
    BY <1>1, <1>0
  <1>3. f = [i \in 0..Len(s) |-> IF i = 0 THEN <<>> ELSE IF s[i] \in kept THEN Append(f[i-1], s[i]) ELSE f[i-1]]
    <2> DEFINE e(i) == IF i = 0 THEN <<>> ELSE IF s[i] \in kept THEN Append(f[i-1], s[i]) ELSE f[i-1]
    <2>1. ASSUME NEW i \in 0..Len(s) PROVE f[i] = e(i)
      <3>1. CASE i = 0
        BY <1>2, <3>1
      <3>2. CASE i # 0
        <4>1. i \in 1..Len(s)
          BY <1>0, <3>2
        <4> QED BY <1>2, <3>2, <4>1
      <3> QED BY <3>1, <3>2
    <2>2. f \in [0..Len(s) -> Seq(S)]
      BY <1>2
    <2> HIDE DEF e
    <2>3. f = [i \in 0..Len(s) |-> e(i)]
      BY <2>1, <2>2
    <2> QED BY <2>3 DEF e
  <1>4. f \in [0..Len(s) -> Seq(S)]
    BY <1>2
  <1>5. f = Parts(s, kept, f)
    BY <1>3 DEF Parts
  <1> HIDE DEF Good
  <1> QED BY <1>4, <1>5

\* What is kept of a list, thing by thing.
AmongSteps(f, S, s, kept) ==
    /\ f \in [0..Len(s) -> Seq(S)] /\ f[0] = <<>> /\ Among(s, kept) = f[Len(s)]
    /\ \A i \in 1..Len(s) : f[i] = IF s[i] \in kept THEN Append(f[i - 1], s[i]) ELSE f[i - 1]

\* What is kept of a list is put together thing by thing.
LEMMA AmongUnrolls ==
  ASSUME NEW S, NEW s \in Seq(S), NEW kept
  PROVE  \E f : AmongSteps(f, S, s, kept)
  <1> DEFINE F == CHOOSE f : f = Parts(s, kept, f)
  <1>1. Among(s, kept) = F[Len(s)]
    BY DEF Among, Parts
  <1>2. PICK f \in [0..Len(s) -> Seq(S)] : f = Parts(s, kept, f)
    BY AmongIsFunction
  <1>3. F = Parts(s, kept, F)
    BY <1>2
  <1> HIDE DEF F
  <1>4. F = [i \in 0..Len(s) |->
               IF i = 0 THEN <<>> ELSE IF s[i] \in kept THEN Append(F[i - 1], s[i]) ELSE F[i - 1]]
    BY <1>3 DEF Parts
  <1>5. Len(s) \in Nat
    OBVIOUS
  <1>6. F[0] = <<>> /\ \A i \in 1..Len(s) : F[i] = IF s[i] \in kept THEN Append(F[i - 1], s[i]) ELSE F[i - 1]
    <2>1. F[0] = <<>>
      <3>1. 0 \in 0..Len(s)
        BY <1>5
      <3> QED BY <3>1, <1>4
    <2>2. ASSUME NEW i \in 1..Len(s)
          PROVE  F[i] = IF s[i] \in kept THEN Append(F[i - 1], s[i]) ELSE F[i - 1]
      <3>1. i \in 0..Len(s) /\ i # 0
        BY <1>5
      <3> QED BY <3>1, <1>4
    <2> QED BY <2>1, <2>2
  <1> DEFINE Bad == {n \in 0..Len(s) : F[n] \notin Seq(S)}
  <1>7. Bad = {}
    <2> SUFFICES ASSUME Bad # {} PROVE FALSE
      OBVIOUS
    <2>1. PICK n \in Bad : \A m \in Bad : n <= m
      <3>1. Bad \subseteq Nat
        BY <1>5
      <3> QED BY <3>1, Least
    <2>2. n \in 0..Len(s) /\ F[n] \notin Seq(S)
      OBVIOUS
    <2>3. n # 0
      <3>1. <<>> \in Seq(S)
        OBVIOUS
      <3> HIDE DEF Bad
      <3> QED BY <1>6, <2>2, <3>1
    <2>4. n - 1 \in 0..Len(s) /\ ~(n <= n - 1) /\ n \in 1..Len(s)
      BY <2>2, <2>3, <1>5
    <2>5. F[n - 1] \in Seq(S)
      BY <2>1, <2>4
    <2>6. F[n] = IF s[n] \in kept THEN Append(F[n - 1], s[n]) ELSE F[n - 1]
      BY <1>6, <2>4
    <2>7. s[n] \in S
      BY <2>4
    <2> QED BY <2>2, <2>5, <2>6, <2>7
  <1>8. F \in [0..Len(s) -> Seq(S)]
    <2>1. DOMAIN F = 0..Len(s) /\ F = [i \in 0..Len(s) |-> F[i]]
      BY <1>4
    <2> QED BY <2>1, <1>7
  <1> QED BY <1>1, <1>6, <1>8 DEF AmongSteps

\* A part of a list is a list of the same things.
LEMMA AmongType ==
  ASSUME NEW S, NEW s \in Seq(S), NEW kept
  PROVE  Among(s, kept) \in Seq(S)
  <1>1. Len(s) \in 0..Len(s)
    OBVIOUS
  <1> QED BY <1>1, AmongUnrolls DEF AmongSteps

\* Where what is kept stood: its places are taken in their order, and all that is kept has one.
Embeds(e, part, s, kept) ==
    /\ e \in [1..Len(part) -> 1..Len(s)]
    /\ \A i, j \in 1..Len(part) : i < j => e[i] < e[j]
    /\ \A i \in 1..Len(part) : part[i] = s[e[i]] /\ s[e[i]] \in kept
    /\ \A j \in 1..Len(s) : s[j] \in kept => \E i \in 1..Len(part) : e[i] = j

\* Among keeps the order and keeps everything, once.
LEMMA AmongEmbeds ==
  ASSUME NEW S, NEW s \in Seq(S), NEW kept
  PROVE  \E e : Embeds(e, Among(s, kept), s, kept)
  <1>0. PICK f : AmongSteps(f, S, s, kept)
    BY AmongUnrolls
  <1>1. /\ f \in [0..Len(s) -> Seq(S)] /\ f[0] = <<>> /\ Among(s, kept) = f[Len(s)]
        /\ \A i \in 1..Len(s) : f[i] = IF s[i] \in kept THEN Append(f[i - 1], s[i]) ELSE f[i - 1]
    BY <1>0 DEF AmongSteps
  <1> DEFINE Good(n, e) == /\ e \in [1..Len(f[n]) -> 1..n]
                           /\ \A i, j \in 1..Len(f[n]) : i < j => e[i] < e[j]
                           /\ \A i \in 1..Len(f[n]) : f[n][i] = s[e[i]] /\ s[e[i]] \in kept
                           /\ \A j \in 1..n : s[j] \in kept => \E i \in 1..Len(f[n]) : e[i] = j
             Bad == {n \in 0..Len(s) : ~\E e : Good(n, e)}
  <1>2. Len(s) \in Nat
    OBVIOUS
  <1>3. Bad = {}
    <2> SUFFICES ASSUME Bad # {} PROVE FALSE
      OBVIOUS
    <2>1. PICK n \in Bad : \A m \in Bad : n <= m
      <3>1. Bad \subseteq Nat
        BY <1>2
      <3> HIDE DEF Bad
      <3> QED BY <3>1, Least
    <2>2. n \in 0..Len(s) /\ ~\E e : Good(n, e)
      OBVIOUS
    <2>3. n # 0
      <3> SUFFICES ASSUME n = 0 PROVE FALSE
        OBVIOUS
      <3>1. f[0] = <<>> /\ Len(f[0]) = 0 /\ 1..0 = {}
        BY <1>1
      <3>2. [i \in 1..0 |-> 0] \in [1..0 -> 1..0]
        BY <3>1
      <3>3. Good(0, [i \in 1..0 |-> 0])
        BY <3>1, <3>2
      <3> HIDE DEF Good
      <3> QED BY <2>2, <3>3
    <2>4. n - 1 \in 0..Len(s) /\ ~(n <= n - 1) /\ n \in 1..Len(s) /\ n \in Nat
      BY <2>2, <2>3, <1>2
    <2>5. PICK e : Good(n - 1, e)
      <3>1. n - 1 \notin Bad
        <4> HIDE DEF Bad
        <4> QED BY <2>1, <2>4
      <3> HIDE DEF Good
      <3> QED BY <3>1, <2>4
    <2> DEFINE L == Len(f[n - 1])
    <2>6. f[n - 1] \in Seq(S) /\ L \in Nat /\ s[n] \in S
      <3>1. f[n - 1] \in Seq(S)
        BY <1>1, <2>4
      <3>2. s[n] \in S
        BY <2>4
      <3> QED BY <3>1, <3>2
    <2>7. CASE s[n] \notin kept
      <3>1. f[n] = f[n - 1]
        BY <1>1, <2>4, <2>7
      <3>2. e \in [1..L -> 1..n]
        BY <2>4, <2>5, <2>6
      <3>3. \A j \in 1..n : s[j] \in kept => j \in 1..(n - 1)
        BY <2>4, <2>7
      <3>4. Good(n, e)
        BY <3>1, <3>2, <3>3, <2>5
      <3> HIDE DEF Good
      <3> QED BY <2>2, <3>4
    <2>8. CASE s[n] \in kept
      <3> DEFINE g == [i \in 1..(L + 1) |-> IF i = L + 1 THEN n ELSE e[i]]
      <3>1. f[n] = Append(f[n - 1], s[n])
        BY <1>1, <2>4, <2>8
      <3>2. /\ Len(f[n]) = L + 1 /\ f[n][L + 1] = s[n]
            /\ \A i \in 1..L : f[n][i] = f[n - 1][i]
        BY <3>1, <2>6
      <3>3. \A i \in 1..(L + 1) : i # L + 1 => i \in 1..L /\ e[i] \in 1..(n - 1)
        <4> SUFFICES ASSUME NEW i \in 1..(L + 1), i # L + 1 PROVE i \in 1..L /\ e[i] \in 1..(n - 1)
          OBVIOUS
        <4>1. e \in [1..L -> 1..(n - 1)]
          BY <2>5
        <4>2. i \in 1..L
          <5> HIDE DEF L
          <5> QED BY <2>6
        <4> QED BY <4>1, <4>2
      <3>4. g \in [1..(L + 1) -> 1..n]
        BY <3>3, <2>4
      <3>5. \A i, j \in 1..(L + 1) : i < j => g[i] < g[j]
        <4> SUFFICES ASSUME NEW i \in 1..(L + 1), NEW j \in 1..(L + 1), i < j PROVE g[i] < g[j]
          OBVIOUS
        <4>1. i \in 1..L /\ g[i] = e[i] /\ e[i] \in 1..(n - 1)
          <5>1. i # L + 1
            <6> HIDE DEF L
            <6> QED BY <2>6
          <5> QED BY <3>3, <5>1
        <4>2. CASE j = L + 1
          BY <4>1, <4>2, <2>4
        <4>3. CASE j # L + 1
          <5>1. j \in 1..L /\ g[j] = e[j]
            BY <4>3, <2>6
          <5> QED BY <4>1, <5>1, <2>5
        <4> QED BY <4>2, <4>3
      <3>6. \A i \in 1..(L + 1) : f[n][i] = s[g[i]] /\ s[g[i]] \in kept
        <4> SUFFICES ASSUME NEW i \in 1..(L + 1) PROVE f[n][i] = s[g[i]] /\ s[g[i]] \in kept
          OBVIOUS
        <4>1. CASE i = L + 1
          BY <4>1, <3>2, <2>8
        <4>2. CASE i # L + 1
          <5>1. i \in 1..L /\ g[i] = e[i]
            BY <4>2, <3>3
          <5> QED BY <5>1, <3>2, <2>5
        <4> QED BY <4>1, <4>2
      <3>7. \A j \in 1..n : s[j] \in kept => \E i \in 1..(L + 1) : g[i] = j
        <4> SUFFICES ASSUME NEW j \in 1..n, s[j] \in kept PROVE \E i \in 1..(L + 1) : g[i] = j
          OBVIOUS
        <4>1. CASE j = n
          <5>1. L + 1 \in 1..(L + 1) /\ g[L + 1] = n
            BY <2>6
          <5> HIDE DEF g
          <5> QED BY <4>1, <5>1
        <4>2. CASE j # n
          <5>1. j \in 1..(n - 1)
            BY <4>2, <2>4
          <5>2. PICK i \in 1..L : e[i] = j
            BY <5>1, <2>5
          <5>3. i \in 1..(L + 1) /\ i # L + 1
            BY <2>6
          <5>4. g[i] = e[i]
            BY <5>3
          <5> HIDE DEF g
          <5> QED BY <5>2, <5>3, <5>4
        <4> QED BY <4>1, <4>2
      <3>8. Good(n, g)
        <4> HIDE DEF g
        <4> QED BY <3>2, <3>4, <3>5, <3>6, <3>7
      <3> HIDE DEF Good, g
      <3> QED BY <2>2, <3>8
    <2> QED BY <2>7, <2>8
  <1>4. PICK e : Good(Len(s), e)
    <2>1. Len(s) \in 0..Len(s)
      BY <1>2
    <2> HIDE DEF Good
    <2> QED BY <1>3, <2>1
  <1>5. Embeds(e, f[Len(s)], s, kept)
    BY <1>4 DEF Embeds
  <1> QED BY <1>1, <1>5

\* Place i comes before place j: it has more weight, or as much and stands before it.
Ahead(w, i, j) == w[i] > w[j] \/ (w[i] = w[j] /\ i < j)

\* The places up to k, heaviest first.
Sorts(p, k, w) ==
    /\ p \in [1..k -> 1..k]
    /\ \A m, n \in 1..k : m < n => Ahead(w, p[m], p[n])
    /\ \A i \in 1..k : \E m \in 1..k : p[m] = i

\* There is such an order: each place in turn is put where it belongs.
LEMMA SortExists ==
  ASSUME NEW N \in Nat, NEW w \in [1..N -> Nat]
  PROVE  \E p : Sorts(p, N, w)
  <1> DEFINE Bad == {k \in 0..N : ~\E p : Sorts(p, k, w)}
  <1>1. Bad = {}
    <2> SUFFICES ASSUME Bad # {} PROVE FALSE
      OBVIOUS
    <2>1. PICK k \in Bad : \A m \in Bad : k <= m
      <3>1. Bad \subseteq Nat
        OBVIOUS
      <3> HIDE DEF Bad
      <3> QED BY <3>1, Least
    <2>2. k \in 0..N /\ ~\E p : Sorts(p, k, w)
      OBVIOUS
    <2>3. k # 0
      <3> SUFFICES ASSUME k = 0 PROVE FALSE
        OBVIOUS
      <3>1. [i \in 1..0 |-> 0] \in [1..0 -> 1..0] /\ 1..0 = {}
        OBVIOUS
      <3>2. Sorts([i \in 1..0 |-> 0], 0, w)
        BY <3>1 DEF Sorts
      <3> QED BY <2>2, <3>2
    <2>4. k - 1 \in 0..N /\ ~(k <= k - 1) /\ k \in 1..N /\ k \in Nat
      BY <2>2, <2>3
    <2>5. PICK p : Sorts(p, k - 1, w)
      <3>1. k - 1 \notin Bad
        <4> HIDE DEF Bad
        <4> QED BY <2>1, <2>4
      <3> QED BY <3>1, <2>4
    <2>6. /\ p \in [1..(k - 1) -> 1..(k - 1)]
          /\ \A m, n \in 1..(k - 1) : m < n => Ahead(w, p[m], p[n])
          /\ \A i \in 1..(k - 1) : \E m \in 1..(k - 1) : p[m] = i
      BY <2>5 DEF Sorts
    <2>a. ASSUME NEW m \in 1..(k - 1) PROVE p[m] \in 1..(k - 1) /\ p[m] \in 1..k /\ p[m] < k /\ w[p[m]] \in Nat
      <3>1. p[m] \in 1..(k - 1)
        BY <2>6
      <3> QED BY <3>1, <2>4
    <2> DEFINE Free == {m \in 1..k : m < k => Ahead(w, k, p[m])}
    <2>7. PICK f \in Free : \A m \in Free : f <= m
      <3>1. k \in Free /\ Free \subseteq Nat
        BY <2>4
      <3> HIDE DEF Free
      <3> QED BY <3>1, Least
    <2>8. f \in 1..k /\ f \in Nat /\ (f < k => Ahead(w, k, p[f]))
      BY <2>4
    <2>9. \A i \in 1..k : w[i] \in Nat
      BY <2>4
    <2>10. ASSUME NEW m \in 1..(k - 1), m < f PROVE Ahead(w, p[m], k)
      <3>1. m \notin Free
        <4> HIDE DEF Free
        <4> QED BY <2>7, <2>8, <2>10
      <3>2. ~Ahead(w, k, p[m])
        BY <3>1, <2>4
      <3>3. p[m] < k /\ p[m] \in Nat /\ w[p[m]] \in Nat /\ w[k] \in Nat
        <4>1. p[m] \in 1..k /\ p[m] < k /\ w[p[m]] \in Nat
          BY <2>a
        <4> QED BY <4>1, <2>9, <2>4
      <3> QED BY <3>2, <3>3, <2>4 DEF Ahead
    <2>11. ASSUME NEW m \in 1..(k - 1), m >= f PROVE Ahead(w, k, p[m])
      <3>1. f < k /\ Ahead(w, k, p[f])
        BY <2>8, <2>11, <2>4
      <3>2. CASE m = f
        BY <3>1, <3>2
      <3>3. CASE m # f
        <4>1. f \in 1..(k - 1) /\ f < m
          BY <2>8, <3>1, <2>4, <2>11, <3>3
        <4>2. Ahead(w, p[f], p[m])
          BY <4>1, <2>6
        <4>3. p[f] \in 1..k /\ p[m] \in 1..k /\ p[f] < k /\ p[m] < k
          BY <4>1, <2>a
        <4>4. w[p[f]] \in Nat /\ w[p[m]] \in Nat /\ w[k] \in Nat
          BY <4>3, <2>9, <2>4
        <4> QED BY <3>1, <4>2, <4>3, <4>4, <2>4 DEF Ahead
      <3> QED BY <3>2, <3>3
    <2> DEFINE q == [m \in 1..k |-> IF m < f THEN p[m] ELSE IF m = f THEN k ELSE p[m - 1]]
    <2>12. ASSUME NEW m \in 1..k
           PROVE  /\ m < f => m \in 1..(k - 1) /\ q[m] = p[m]
                  /\ m = f => q[m] = k
                  /\ m > f => m - 1 \in 1..(k - 1) /\ m - 1 >= f /\ q[m] = p[m - 1]
      BY <2>8, <2>4
    <2>13. q \in [1..k -> 1..k]
      <3>1. ASSUME NEW m \in 1..k PROVE q[m] \in 1..k
        <4>1. CASE m = f
          BY <4>1, <2>12, <2>4
        <4>2. CASE m # f
          <5>1. m < f \/ m > f
            BY <4>2, <2>8
          <5>2. (m < f => m \in 1..(k - 1) /\ q[m] = p[m]) /\ (m > f => m - 1 \in 1..(k - 1) /\ q[m] = p[m - 1])
            BY <2>12
          <5> HIDE DEF q
          <5> QED BY <5>1, <5>2, <2>a
        <4> QED BY <4>1, <4>2
      <3> QED BY <3>1
    <2> HIDE DEF q, Free
    <2>14. ASSUME NEW m \in 1..k, NEW n \in 1..k, m < n PROVE Ahead(w, q[m], q[n])
      <3>0. m \in Nat /\ n \in Nat
        BY <2>4
      <3>1. CASE n < f
        BY <2>6, <2>12, <2>14, <2>8, <3>0, <3>1
      <3>2. CASE n = f
        <4>1. m < f /\ q[n] = k
          BY <3>2, <2>14, <2>12
        <4>2. m \in 1..(k - 1) /\ q[m] = p[m]
          BY <4>1, <2>12
        <4> QED BY <4>1, <4>2, <2>10
      <3>3. CASE n > f
        <4>1. n - 1 \in 1..(k - 1) /\ n - 1 >= f /\ q[n] = p[n - 1]
          BY <3>3, <2>12
        <4>2. CASE m = f
          <5>1. q[m] = k
            BY <4>2, <2>12
          <5> QED BY <4>1, <5>1, <2>11
        <4>3. CASE m < f
          <5>1. m \in 1..(k - 1) /\ q[m] = p[m] /\ m < n - 1
            BY <4>1, <4>3, <2>12, <2>8, <3>0
          <5> QED BY <4>1, <5>1, <2>6
        <4>4. CASE m > f
          <5>1. m - 1 \in 1..(k - 1) /\ q[m] = p[m - 1] /\ m - 1 < n - 1
            BY <4>4, <2>12, <2>14, <3>0
          <5> QED BY <4>1, <5>1, <2>6
        <4> QED BY <4>2, <4>3, <4>4, <2>8, <3>0
      <3> QED BY <3>1, <3>2, <3>3, <2>8, <3>0
    <2>15. ASSUME NEW i \in 1..k PROVE \E m \in 1..k : q[m] = i
      <3>1. CASE i = k
        BY <3>1, <2>8, <2>12
      <3>2. CASE i # k
        <4>1. i \in 1..(k - 1)
          BY <3>2, <2>4
        <4>2. PICK m \in 1..(k - 1) : p[m] = i
          BY <4>1, <2>6
        <4>3. CASE m < f
          <5>1. m \in 1..k
            BY <2>4
          <5> QED BY <4>2, <4>3, <5>1, <2>12
        <4>4. CASE m >= f
          <5>1. m + 1 \in 1..k /\ m + 1 > f /\ (m + 1) - 1 = m
            BY <4>4, <2>4, <2>8
          <5>2. q[m + 1] = p[(m + 1) - 1]
            BY <5>1, <2>12
          <5> QED BY <4>2, <5>1, <5>2
        <4> QED BY <4>3, <4>4, <2>8
      <3> QED BY <3>1, <3>2
    <2>16. Sorts(q, k, w)
      BY <2>13, <2>14, <2>15 DEF Sorts
    <2> QED BY <2>2, <2>16
  <1>2. N \in 0..N
    OBVIOUS
  <1> QED BY <1>1, <1>2

\* The weights of a list of tasks.
Weights(tasks) == [i \in 1..Len(tasks) |-> TaskWeight(tasks[i])]

\* Tasks that the catalogue may hold: a tier is a number.
Weighable(T) == \A t \in T : t.tier \in Nat

\* A task weighs a number.
LEMMA WeightType == ASSUME NEW t, t.tier \in Nat PROVE TaskWeight(t) \in Nat
  <1>1. FamilyBonus(t.family) \in {75, 35, 0}
    BY DEF FamilyBonus
  <1>2. 100 * t.tier \in Nat
    OBVIOUS
  <1> QED BY <1>1, <1>2 DEF TaskWeight

\* Sorting takes the same tasks in another order.
LEMMA HeaviestFirstSorts ==
  ASSUME NEW T, Weighable(T), NEW s \in Seq(T)
  PROVE  \E p : /\ Sorts(p, Len(s), Weights(s)) /\ p \in Bijection(1..Len(s), 1..Len(s))
                /\ HeaviestFirst(s) = [n \in 1..Len(s) |-> s[p[n]]]
  <1> DEFINE N == Len(s)
             w == Weights(s)
             B == Bijection(1..N, 1..N)
             Right(m, n) == \/ TaskWeight(s[m]) > TaskWeight(s[n])
                            \/ TaskWeight(s[m]) = TaskWeight(s[n]) /\ m < n
             In(p) == \A m, n \in 1..N : m < n => Right(p[m], p[n])
  <1>1. N \in Nat /\ DOMAIN s = 1..N
    OBVIOUS
  <1>2. w \in [1..N -> Nat] /\ \A i \in 1..N : w[i] = TaskWeight(s[i])
    <2>1. ASSUME NEW i \in 1..N PROVE TaskWeight(s[i]) \in Nat
      BY WeightType DEF Weighable
    <2> QED BY <2>1 DEF Weights
  <1> HIDE DEF w
  <1>3. ASSUME NEW p, Sorts(p, N, w) PROVE p \in B
    <2>1. p \in [1..N -> 1..N] /\ \A i \in 1..N : \E m \in 1..N : p[m] = i
      BY <1>3 DEF Sorts
    <2>2. \A m, n \in 1..N : p[m] = p[n] => m = n
      <3> SUFFICES ASSUME NEW m \in 1..N, NEW n \in 1..N, m < n, p[m] = p[n] PROVE FALSE
        BY <1>1
      <3>1. Ahead(w, p[m], p[n]) /\ p[m] \in 1..N /\ w[p[m]] \in Nat
        BY <1>3, <1>2, <2>1 DEF Sorts
      <3> QED BY <3>1 DEF Ahead
    <2> QED BY <2>1, <2>2 DEF Bijection, Injection, Surjection, IsInjective
  <1>4. ASSUME NEW p \in B PROVE In(p) <=> Sorts(p, N, w)
    <2>1. p \in [1..N -> 1..N] /\ \A i \in 1..N : \E m \in 1..N : p[m] = i
      BY DEF Bijection, Injection, Surjection
    <2>2. ASSUME NEW m \in 1..N, NEW n \in 1..N PROVE Right(p[m], p[n]) <=> Ahead(w, p[m], p[n])
      <3>1. w[p[m]] = TaskWeight(s[p[m]]) /\ w[p[n]] = TaskWeight(s[p[n]])
        BY <1>2, <2>1
      <3> QED BY <3>1 DEF Ahead
    <2> HIDE DEF N, B, Right
    <2> QED BY <2>1, <2>2 DEF Sorts
  <1>5. \E p \in B : In(p)
    <2>1. PICK p : Sorts(p, N, w)
      BY <1>1, <1>2, SortExists
    <2> HIDE DEF In, B, N
    <2> QED BY <2>1, <1>3, <1>4
  <1> DEFINE order == CHOOSE p \in B : In(p)
  <1>6. order \in B /\ In(order)
    <2> HIDE DEF B, In
    <2> QED BY <1>5
  <1>7. HeaviestFirst(s) = [n \in 1..N |-> s[order[n]]]
    BY <1>1 DEF HeaviestFirst
  <1> HIDE DEF order, In, B
  <1>8. Sorts(order, N, w)
    BY <1>6, <1>4
  <1> QED BY <1>6, <1>7, <1>8 DEF w, B

\* The weights of the tasks of a list, added up one by one.
TotalSteps(h, s) ==
    /\ h \in [0..Len(s) -> Nat] /\ h[0] = 0 /\ TotalWeight(s) = h[Len(s)]
    /\ \A n \in 1..Len(s) : h[n] = h[n - 1] + TaskWeight(s[n])

\* The total of a list is put together task by task.
LEMMA TotalUnrolls ==
  ASSUME NEW T, Weighable(T), NEW s \in Seq(T)
  PROVE  \E h : TotalSteps(h, s)
  <1> DEFINE N == Len(s)
             step == [x \in (1..N) \X Nat |-> x[2] + TaskWeight(s[x[1]])]
             Val(F, S) == IF S = {} THEN 0 ELSE F[S \ {Max(S)}] + TaskWeight(s[Max(S)])
  <1>1. N \in Nat /\ DOMAIN s = 1..N
    OBVIOUS
  <1>2. \A i \in 1..N : TaskWeight(s[i]) \in Nat
    BY WeightType DEF Weighable
  <1>3. step \in [(1..N) \X Nat -> Nat]
    <2>1. ASSUME NEW x \in (1..N) \X Nat PROVE x[2] + TaskWeight(s[x[1]]) \in Nat
      <3>1. TaskWeight(s[x[1]]) \in Nat /\ x[2] \in Nat
        BY <1>2
      <3> QED BY <3>1
    <2> QED BY <2>1
  <1>a. PICK F : FoldSteps(F, N, Nat, 0, step)
    <2> HIDE DEF step, N
    <2>1. 0 \in Nat
      OBVIOUS
    <2> QED BY <1>1, <1>3, <2>1, FoldExists
  <1>4. /\ F \in [SUBSET (1..N) -> Nat]
        /\ \A S \in SUBSET (1..N) : F[S] = IF S = {} THEN 0 ELSE step[<<Max(S), F[S \ {Max(S)}]>>]
    <2> HIDE DEF step
    <2> QED BY <1>a DEF FoldSteps
  <1>5. ASSUME NEW S \in SUBSET (1..N) PROVE F[S] = Val(F, S)
    <2>1. CASE S = {}
      BY <2>1, <1>4
    <2>2. CASE S # {}
      <3>1. Max(S) \in 1..N /\ S \ {Max(S)} \in SUBSET (1..N)
        BY <2>2, <1>1, Greatest
      <3>2. F[S \ {Max(S)}] \in Nat
        BY <1>4, <3>1
      <3> DEFINE x == <<Max(S), F[S \ {Max(S)}]>>
      <3>3. x \in (1..N) \X Nat
        BY <3>1, <3>2
      <3>4. F[S] = step[x]
        BY <2>2, <1>4
      <3> QED BY <2>2, <3>3, <3>4
    <2> QED BY <2>1, <2>2
  <1>6. F = [S \in SUBSET (1..N) |-> Val(F, S)]
    <2> HIDE DEF Val
    <2> QED BY <1>4, <1>5
  <1> DEFINE G == CHOOSE G : G = [S \in SUBSET (1..N) |-> Val(G, S)]
  <1>7. G = [S \in SUBSET (1..N) |-> Val(G, S)]
    <2> HIDE DEF Val
    <2> QED BY <1>6
  <1>8. TotalWeight(s) = G[1..N]
    BY <1>1 DEF TotalWeight, FoldLeft, MapThenFoldSet
  <1> HIDE DEF G
  <1> DEFINE h == [n \in 0..N |-> G[1..n]]
  <1>9. h[0] = 0 /\ TotalWeight(s) = h[N]
    <2>1. {} \in SUBSET (1..N) /\ 1..0 = {} /\ 0 \in 0..N /\ N \in 0..N
      BY <1>1
    <2>2. G[{}] = 0
      BY <1>7, <2>1
    <2> QED BY <1>8, <2>1, <2>2
  <1>10. ASSUME NEW n \in 1..N PROVE h[n] = h[n - 1] + TaskWeight(s[n])
    <2>1. /\ 1..n \in SUBSET (1..N) /\ 1..n # {} /\ Max(1..n) = n /\ (1..n) \ {n} = 1..(n - 1)
          /\ n - 1 \in 0..N /\ n \in 0..N
      <3> HIDE DEF N
      <3> QED BY <1>1, FirstPlaces
    <2>4. G[1..n] = Val(G, 1..n)
      <3> HIDE DEF Val
      <3> QED BY <1>7, <2>1
    <2>5. G[1..n] = G[(1..n) \ {n}] + TaskWeight(s[n])
      BY <2>1, <2>4
    <2> QED BY <2>1, <2>5
  <1> HIDE DEF h
  <1>11. h \in [0..N -> Nat]
    <2> DEFINE Bad == {n \in 0..N : h[n] \notin Nat}
    <2>1. Bad = {}
      <3> SUFFICES ASSUME Bad # {} PROVE FALSE
        OBVIOUS
      <3>1. PICK n \in Bad : \A m \in Bad : n <= m
        <4>1. Bad \subseteq Nat
          BY <1>1
        <4> HIDE DEF Bad
        <4> QED BY <4>1, Least
      <3>2. n \in 0..N /\ h[n] \notin Nat /\ n # 0
        BY <1>9
      <3>3. n - 1 \in 0..N /\ ~(n <= n - 1) /\ n \in 1..N
        BY <3>2, <1>1
      <3>4. h[n - 1] \in Nat
        BY <3>1, <3>3
      <3>5. h[n] = h[n - 1] + TaskWeight(s[n]) /\ TaskWeight(s[n]) \in Nat
        BY <3>3, <1>10, <1>2
      <3> QED BY <3>2, <3>4, <3>5
    <2>2. h = [n \in 0..N |-> h[n]]
      BY DEF h
    <2> QED BY <2>1, <2>2
  <1>12. TotalSteps(h, s)
    BY <1>9, <1>10, <1>11 DEF TotalSteps
  <1> QED BY <1>12

\* A task more weighs what it weighs.
LEMMA TotalOfMore ==
  ASSUME NEW T, Weighable(T), NEW s \in Seq(T), NEW t \in T
  PROVE  /\ TotalWeight(Append(s, t)) = TotalWeight(s) + TaskWeight(t)
         /\ TotalWeight(s) \in Nat /\ TotalWeight(<<>>) = 0
  <1> DEFINE u == Append(s, t)
             N == Len(s)
  <1>1. /\ N \in Nat /\ u \in Seq(T) /\ Len(u) = N + 1 /\ u[N + 1] = t
        /\ \A n \in 1..N : u[n] = s[n]
    OBVIOUS
  <1>2. PICK h : TotalSteps(h, s)
    BY TotalUnrolls
  <1>3. PICK g : TotalSteps(g, u)
    BY <1>1, TotalUnrolls
  <1> HIDE DEF u
  <1> DEFINE Bad == {n \in 0..N : g[n] # h[n]}
  <1>4. Bad = {}
    <2> SUFFICES ASSUME Bad # {} PROVE FALSE
      OBVIOUS
    <2>1. PICK n \in Bad : \A m \in Bad : n <= m
      <3>1. Bad \subseteq Nat
        BY <1>1
      <3> HIDE DEF Bad
      <3> QED BY <3>1, Least
    <2>2. n \in 0..N /\ g[n] # h[n]
      OBVIOUS
    <2>3. n # 0
      BY <2>2, <1>2, <1>3 DEF TotalSteps
    <2>4. n - 1 \in 0..N /\ ~(n <= n - 1) /\ n \in 1..N /\ n \in 1..(N + 1)
      BY <2>2, <2>3, <1>1
    <2>5. g[n - 1] = h[n - 1]
      BY <2>1, <2>4
    <2>6. h[n] = h[n - 1] + TaskWeight(s[n]) /\ g[n] = g[n - 1] + TaskWeight(u[n])
      BY <1>1, <1>2, <1>3, <2>4 DEF TotalSteps
    <2> QED BY <2>2, <2>4, <2>5, <2>6, <1>1
  <1>5. g[N] = h[N] /\ N \in 0..N /\ N + 1 \in 1..(N + 1) /\ (N + 1) - 1 = N
    BY <1>1, <1>4
  <1>6. TotalWeight(u) = g[N + 1] /\ g[N + 1] = g[(N + 1) - 1] + TaskWeight(u[N + 1])
    BY <1>1, <1>3, <1>5 DEF TotalSteps
  <1>7. TotalWeight(s) = h[N] /\ h[N] \in Nat
    BY <1>2, <1>5 DEF TotalSteps
  <1>8. TotalWeight(<<>>) = 0
    <2>1. <<>> \in Seq(T) /\ Len(<<>>) = 0
      OBVIOUS
    <2>2. PICK e : TotalSteps(e, <<>>)
      BY <2>1, TotalUnrolls
    <2> QED BY <2>1, <2>2 DEF TotalSteps
  <1> QED BY <1>1, <1>5, <1>6, <1>7, <1>8 DEF u

\* Lanes of tasks of T.
LaneList(k, T) == [1..k -> [tasks : Seq(T), weight : Nat]]

\* There is a lightest lane.
LEMMA LightestExists ==
  ASSUME NEW T, NEW k \in Nat \ {0}, NEW lanes \in LaneList(k, T)
  PROVE  /\ LightestLane(lanes) \in 1..k
         /\ \A m \in 1..k : lanes[LightestLane(lanes)].weight <= lanes[m].weight
  <1> DEFINE W == {lanes[l].weight : l \in 1..k}
             Lighter(l, m) == \/ lanes[l].weight < lanes[m].weight
                              \/ /\ lanes[l].weight = lanes[m].weight
                                 /\ \/ Len(lanes[l].tasks) < Len(lanes[m].tasks)
                                    \/ Len(lanes[l].tasks) = Len(lanes[m].tasks) /\ l < m
             Is(l) == \A m \in (1..k) \ {l} : Lighter(l, m)
  <1>1. /\ DOMAIN lanes = 1..k /\ 1 \in 1..k
        /\ \A l \in 1..k : lanes[l].weight \in Nat /\ lanes[l].tasks \in Seq(T) /\ Len(lanes[l].tasks) \in Nat
    <2>1. \A l \in 1..k : lanes[l] \in [tasks : Seq(T), weight : Nat]
      BY DEF LaneList
    <2>2. \A l \in 1..k : lanes[l].weight \in Nat /\ lanes[l].tasks \in Seq(T)
      BY <2>1
    <2> QED BY <2>2 DEF LaneList
  <1>2. PICK w \in W : \A x \in W : w <= x
    <2>1. W \subseteq Nat /\ W # {}
      BY <1>1
    <2> HIDE DEF W
    <2> QED BY <2>1, Least
  <1>3. \A l \in 1..k : w <= lanes[l].weight
    BY <1>2
  <1> DEFINE L == {Len(lanes[l].tasks) : l \in {m \in 1..k : lanes[m].weight = w}}
  <1>4. PICK n \in L : \A x \in L : n <= x
    <2>1. L \subseteq Nat /\ L # {}
      BY <1>1, <1>2
    <2> HIDE DEF L
    <2> QED BY <2>1, Least
  <1>5. \A l \in 1..k : lanes[l].weight = w => n <= Len(lanes[l].tasks)
    BY <1>4
  <1> DEFINE I == {l \in 1..k : lanes[l].weight = w /\ Len(lanes[l].tasks) = n}
  <1>6. PICK l \in I : \A x \in I : l <= x
    <2>1. I \subseteq Nat /\ I # {}
      BY <1>4
    <2> HIDE DEF I
    <2> QED BY <2>1, Least
  <1>7. l \in 1..k /\ lanes[l].weight = w /\ Len(lanes[l].tasks) = n
    BY <1>6
  <1>8. Is(l)
    <2> SUFFICES ASSUME NEW m \in (1..k) \ {l} PROVE Lighter(l, m)
      OBVIOUS
    <2>1. lanes[m].weight \in Nat /\ Len(lanes[m].tasks) \in Nat /\ w <= lanes[m].weight /\ w \in Nat /\ n \in Nat
      BY <1>1, <1>3, <1>7
    <2>2. CASE w < lanes[m].weight
      BY <2>2, <1>7
    <2>3. CASE w = lanes[m].weight /\ n < Len(lanes[m].tasks)
      BY <2>3, <1>7
    <2>4. CASE w = lanes[m].weight /\ n = Len(lanes[m].tasks)
      <3>1. m \in I
        BY <2>4
      <3>2. l <= m /\ l # m
        <4> HIDE DEF I
        <4> QED BY <1>6, <3>1
      <3> QED BY <2>4, <3>2, <1>7
    <2> QED BY <1>5, <2>1, <2>2, <2>3, <2>4
  <1> DEFINE c == CHOOSE x \in 1..k : Is(x)
  <1>9. c \in 1..k /\ Is(c)
    <2> HIDE DEF Is
    <2> QED BY <1>7, <1>8
  <1>10. LightestLane(lanes) = c
    BY <1>1 DEF LightestLane
  <1> HIDE DEF c
  <1>11. ASSUME NEW m \in 1..k PROVE lanes[c].weight <= lanes[m].weight
    <2>1. CASE m = c
      BY <2>1, <1>1
    <2>2. CASE m # c
      <3>1. Lighter(c, m)
        BY <2>2, <1>9
      <3> QED BY <3>1, <1>1, <1>9
    <2> QED BY <2>1, <2>2
  <1> QED BY <1>9, <1>10, <1>11

\* What the lanes hold, and that they hold nothing twice.
Held(lanes) == UNION {Range(lanes[l].tasks) : l \in DOMAIN lanes}
Once(lanes) ==
    \A l, k \in DOMAIN lanes : \A m \in DOMAIN lanes[l].tasks, n \in DOMAIN lanes[k].tasks :
        lanes[l].tasks[m] = lanes[k].tasks[n] => l = k /\ m = n

\* A lane has the weight of its tasks; and before its last task came to it, it was no heavier
\* than any other is.
Weighed(lanes) == \A l \in DOMAIN lanes : lanes[l].weight = TotalWeight(lanes[l].tasks)
Balanced(lanes) ==
    \A l, k \in DOMAIN lanes :
        lanes[l].tasks # <<>> => lanes[l].weight - TaskWeight(Last(lanes[l].tasks)) <= lanes[k].weight

\* One more task: it comes to a lane that no other is lighter than, and nothing else changes.
ComesTo(l, t, lanes, after, k, T) ==
    /\ l \in 1..k /\ \A m \in 1..k : lanes[l].weight <= lanes[m].weight
    /\ after \in LaneList(k, T) /\ \A m \in (1..k) \ {l} : after[m] = lanes[m]
    /\ after[l].tasks = Append(lanes[l].tasks, t) /\ after[l].weight = lanes[l].weight + TaskWeight(t)

\* A task is placed on one lane, which was the lightest, and the others stay as they are.
LEMMA PlaceFacts ==
  ASSUME NEW T, Weighable(T), NEW k \in Nat \ {0}, NEW lanes \in LaneList(k, T), NEW t \in T
  PROVE  Place(lanes, t) \in LaneList(k, T) /\ \E l : ComesTo(l, t, lanes, Place(lanes, t), k, T)
  <1> DEFINE l == LightestLane(lanes)
             e(m) == IF m = l THEN Lane(Append(lanes[m].tasks, t), lanes[m].weight + TaskWeight(t)) ELSE lanes[m]
  <1>1. l \in 1..k /\ \A m \in 1..k : lanes[l].weight <= lanes[m].weight
    BY LightestExists
  <1>2. DOMAIN lanes = 1..k /\ \A m \in 1..k : lanes[m] \in [tasks : Seq(T), weight : Nat]
    BY DEF LaneList
  <1>3. Place(lanes, t) = [m \in 1..k |-> e(m)]
    BY <1>2 DEF Place
  <1>4. TaskWeight(t) \in Nat
    BY WeightType DEF Weighable
  <1> HIDE DEF l
  <1>5. ASSUME NEW m \in 1..k PROVE e(m) \in [tasks : Seq(T), weight : Nat]
    <2>1. lanes[m].tasks \in Seq(T) /\ lanes[m].weight \in Nat
      BY <1>2
    <2>2. Append(lanes[m].tasks, t) \in Seq(T) /\ lanes[m].weight + TaskWeight(t) \in Nat
      BY <2>1, <1>4
    <2>3. Lane(Append(lanes[m].tasks, t), lanes[m].weight + TaskWeight(t)) \in [tasks : Seq(T), weight : Nat]
      BY <2>2 DEF Lane
    <2> QED BY <1>2, <2>3
  <1>6. Place(lanes, t) \in LaneList(k, T)
    <2> HIDE DEF e
    <2> QED BY <1>3, <1>5 DEF LaneList
  <1>7. \A m \in (1..k) \ {l} : Place(lanes, t)[m] = lanes[m]
    BY <1>3
  <1>8. Place(lanes, t)[l] = Lane(Append(lanes[l].tasks, t), lanes[l].weight + TaskWeight(t))
    BY <1>1, <1>3
  <1>9. ComesTo(l, t, lanes, Place(lanes, t), k, T)
    BY <1>1, <1>6, <1>7, <1>8 DEF Lane, ComesTo
  <1> QED BY <1>6, <1>9

\* What holds of the lanes still holds with one more task on them.
LEMMA PlaceKeeps ==
  ASSUME NEW T, Weighable(T), NEW k \in Nat \ {0}, NEW lanes \in LaneList(k, T), NEW t \in T
  PROVE  /\ Held(Place(lanes, t)) = Held(lanes) \cup {t}
         /\ Once(lanes) /\ t \notin Held(lanes) => Once(Place(lanes, t))
         /\ Weighed(lanes) => Weighed(Place(lanes, t))
         /\ Balanced(lanes) => Balanced(Place(lanes, t))
  <1> DEFINE after == Place(lanes, t)
  <1>0. PICK l : ComesTo(l, t, lanes, after, k, T)
    BY PlaceFacts
  <1>1. /\ l \in 1..k /\ \A m \in 1..k : lanes[l].weight <= lanes[m].weight
        /\ after \in LaneList(k, T) /\ \A m \in (1..k) \ {l} : after[m] = lanes[m]
        /\ after[l].tasks = Append(lanes[l].tasks, t) /\ after[l].weight = lanes[l].weight + TaskWeight(t)
    <2> HIDE DEF after
    <2> QED BY <1>0 DEF ComesTo
  <1> HIDE DEF after
  <1>2. DOMAIN lanes = 1..k /\ DOMAIN after = 1..k
    BY <1>1 DEF LaneList
  <1>3. \A m \in 1..k : lanes[m].tasks \in Seq(T) /\ lanes[m].weight \in Nat
                        /\ after[m].tasks \in Seq(T) /\ after[m].weight \in Nat
    <2>1. \A m \in 1..k : lanes[m] \in [tasks : Seq(T), weight : Nat] /\ after[m] \in [tasks : Seq(T), weight : Nat]
      BY <1>1 DEF LaneList
    <2> QED BY <2>1
  <1> DEFINE old == lanes[l].tasks
             N == Len(old)
  <1>4. /\ N \in Nat /\ DOMAIN old = 1..N /\ DOMAIN after[l].tasks = 1..(N + 1)
        /\ after[l].tasks[N + 1] = t /\ \A i \in 1..N : after[l].tasks[i] = old[i]
        /\ Len(after[l].tasks) = N + 1
    <2>1. old \in Seq(T)
      BY <1>1, <1>3
    <2> HIDE DEF old
    <2> QED BY <1>1, <2>1 DEF old
  <1>5. TaskWeight(t) \in Nat
    BY WeightType DEF Weighable
  <1> HIDE DEF N, old
  <1>6. Held(after) = Held(lanes) \cup {t}
    <2>1. Range(after[l].tasks) = Range(lanes[l].tasks) \cup {t}
      <3>1. Range(after[l].tasks) = {after[l].tasks[i] : i \in 1..(N + 1)} /\ Range(old) = {old[i] : i \in 1..N}
        BY <1>4 DEF Range
      <3>2. 1..(N + 1) = (1..N) \cup {N + 1}
        BY <1>4
      <3> QED BY <3>1, <3>2, <1>4 DEF old
    <2>2. \A m \in (1..k) \ {l} : Range(after[m].tasks) = Range(lanes[m].tasks)
      BY <1>1
    <2>3. ASSUME NEW x PROVE x \in Held(after) <=> x \in Held(lanes) \cup {t}
      <3>1. x \in Held(after) <=> \E m \in 1..k : x \in Range(after[m].tasks)
        BY <1>2 DEF Held
      <3>2. x \in Held(lanes) <=> \E m \in 1..k : x \in Range(lanes[m].tasks)
        BY <1>2 DEF Held
      <3> QED BY <3>1, <3>2, <2>1, <2>2, <1>1
    <2> QED BY <2>3
  <1>7. ASSUME Once(lanes), t \notin Held(lanes) PROVE Once(after)
    <2>0. \A a \in 1..k : \A i \in DOMAIN lanes[a].tasks : lanes[a].tasks[i] # t
      BY <1>7, <1>2 DEF Held, Range
    <2>1. ASSUME NEW a \in 1..k, NEW i \in DOMAIN after[a].tasks
          PROVE  \/ a = l /\ i = N + 1 /\ after[a].tasks[i] = t
                 \/ i \in DOMAIN lanes[a].tasks /\ after[a].tasks[i] = lanes[a].tasks[i] /\ lanes[a].tasks[i] # t
      <3>1. CASE a # l
        BY <3>1, <2>0, <1>1
      <3>2. CASE a = l
        <4>1. i \in 1..N \/ i = N + 1
          BY <3>2, <1>4, <2>1
        <4> QED BY <4>1, <3>2, <2>0, <1>4 DEF old
      <3> QED BY <3>1, <3>2
    <2> SUFFICES ASSUME NEW a \in 1..k, NEW b \in 1..k, NEW i \in DOMAIN after[a].tasks, NEW j \in DOMAIN after[b].tasks,
                        after[a].tasks[i] = after[b].tasks[j]
                 PROVE  a = b /\ i = j
      BY <1>2 DEF Once
    <2>2. \/ a = l /\ i = N + 1 /\ after[a].tasks[i] = t
          \/ i \in DOMAIN lanes[a].tasks /\ after[a].tasks[i] = lanes[a].tasks[i] /\ lanes[a].tasks[i] # t
      BY <2>1
    <2>3. \/ b = l /\ j = N + 1 /\ after[b].tasks[j] = t
          \/ j \in DOMAIN lanes[b].tasks /\ after[b].tasks[j] = lanes[b].tasks[j] /\ lanes[b].tasks[j] # t
      BY <2>1
    <2> QED BY <2>2, <2>3, <1>2, <1>7 DEF Once
  <1>8. ASSUME Weighed(lanes) PROVE Weighed(after)
    <2> SUFFICES ASSUME NEW m \in 1..k PROVE after[m].weight = TotalWeight(after[m].tasks)
      BY <1>2 DEF Weighed
    <2>1. lanes[m].weight = TotalWeight(lanes[m].tasks)
      BY <1>2, <1>8 DEF Weighed
    <2>2. CASE m # l
      BY <2>1, <2>2, <1>1
    <2>3. CASE m = l
      BY <2>1, <2>3, <1>1, <1>3, TotalOfMore
    <2> QED BY <2>2, <2>3
  <1>9. ASSUME Balanced(lanes) PROVE Balanced(after)
    <2> SUFFICES ASSUME NEW a \in 1..k, NEW b \in 1..k, after[a].tasks # <<>>
                 PROVE  after[a].weight - TaskWeight(Last(after[a].tasks)) <= after[b].weight
      BY <1>2 DEF Balanced
    <2>1. lanes[b].weight <= after[b].weight /\ lanes[b].weight \in Nat /\ after[b].weight \in Nat
      <3>1. CASE b = l
        BY <3>1, <1>1, <1>3, <1>5
      <3>2. CASE b # l
        BY <3>2, <1>1, <1>3
      <3> QED BY <3>1, <3>2
    <2>2. CASE a = l
      <3>1. Last(after[a].tasks) = t
        BY <2>2, <1>4 DEF Last
      <3>2. after[a].weight - TaskWeight(t) = lanes[l].weight
        BY <2>2, <1>1, <1>3, <1>5
      <3> QED BY <3>1, <3>2, <2>1, <1>1, <1>3
    <2>3. CASE a # l
      <3>1. after[a] = lanes[a] /\ lanes[a].weight \in Nat
        BY <2>3, <1>1, <1>3
      <3>2. TaskWeight(Last(after[a].tasks)) \in Nat
        <4>1. after[a].tasks \in Seq(T) /\ after[a].tasks # <<>>
          BY <1>3
        <4>2. Last(after[a].tasks) \in T
          BY <4>1 DEF Last
        <4> QED BY <4>2, WeightType DEF Weighable
      <3>3. lanes[a].weight - TaskWeight(Last(lanes[a].tasks)) <= lanes[b].weight
        BY <3>1, <1>2, <1>9 DEF Balanced
      <3> QED BY <3>1, <3>2, <3>3, <2>1
    <2> QED BY <2>2, <2>3
  <1> QED BY <1>6, <1>7, <1>8, <1>9 DEF after

\* Tasks placed one by one, the heaviest first.
PlaceSteps(h, lanes, s, k, T) ==
    /\ h \in [0..Len(s) -> LaneList(k, T)] /\ h[0] = lanes /\ PlaceAll(lanes, s) = h[Len(s)]
    /\ \A n \in 1..Len(s) : h[n] = Place(h[n - 1], HeaviestFirst(s)[n])

\* Tasks are placed one by one, the heaviest first.
LEMMA PlaceAllUnrolls ==
  ASSUME NEW T, Weighable(T), NEW k \in Nat \ {0}, NEW lanes \in LaneList(k, T), NEW s \in Seq(T)
  PROVE  \E h : PlaceSteps(h, lanes, s, k, T)
  <1> DEFINE N == Len(s)
             A == LaneList(k, T)
             q == HeaviestFirst(s)
             step == [x \in (1..N) \X A |-> Place(x[2], q[x[1]])]
             Val(F, S) == IF S = {} THEN lanes ELSE Place(F[S \ {Max(S)}], q[Max(S)])
  <1>1. N \in Nat /\ DOMAIN q = 1..N /\ \A i \in 1..N : q[i] \in T
    <2>1. PICK p : Sorts(p, N, Weights(s)) /\ q = [n \in 1..N |-> s[p[n]]]
      BY HeaviestFirstSorts
    <2>2. \A i \in 1..N : p[i] \in 1..N
      BY <2>1 DEF Sorts
    <2>3. N \in Nat /\ \A i \in 1..N : s[i] \in T
      OBVIOUS
    <2> HIDE DEF q, N
    <2> QED BY <2>1, <2>2, <2>3
  <1> HIDE DEF q
  <1>b. N \in Nat
    BY <1>1
  <1>2. \A x \in A, i \in 1..N : Place(x, q[i]) \in A
    BY <1>1, PlaceFacts
  <1>3. step \in [(1..N) \X A -> A]
    <2>1. ASSUME NEW x \in (1..N) \X A PROVE Place(x[2], q[x[1]]) \in A
      BY <1>2
    <2> HIDE DEF A, N
    <2> QED BY <2>1
  <1>a. PICK F : FoldSteps(F, N, A, lanes, step)
    <2> HIDE DEF step, N
    <2> QED BY <1>1, <1>3, FoldExists
  <1>4. /\ F \in [SUBSET (1..N) -> A]
        /\ \A S \in SUBSET (1..N) : F[S] = IF S = {} THEN lanes ELSE step[<<Max(S), F[S \ {Max(S)}]>>]
    <2> HIDE DEF step
    <2> QED BY <1>a DEF FoldSteps
  <1> HIDE DEF A
  <1>5. ASSUME NEW S \in SUBSET (1..N) PROVE F[S] = Val(F, S)
    <2>1. CASE S = {}
      BY <2>1, <1>4
    <2>2. CASE S # {}
      <3>1. Max(S) \in 1..N /\ S \ {Max(S)} \in SUBSET (1..N)
        BY <2>2, <1>1, Greatest
      <3>2. F[S \ {Max(S)}] \in A
        BY <1>4, <3>1
      <3> DEFINE x == <<Max(S), F[S \ {Max(S)}]>>
      <3>3. x \in (1..N) \X A
        BY <3>1, <3>2
      <3>4. F[S] = step[x]
        BY <2>2, <1>4
      <3> QED BY <2>2, <3>3, <3>4
    <2> QED BY <2>1, <2>2
  <1>6. F = [S \in SUBSET (1..N) |-> Val(F, S)]
    <2> HIDE DEF Val
    <2> QED BY <1>4, <1>5
  <1> DEFINE G == CHOOSE G : G = [S \in SUBSET (1..N) |-> Val(G, S)]
  <1>7. G = [S \in SUBSET (1..N) |-> Val(G, S)]
    <2> HIDE DEF Val
    <2> QED BY <1>6
  <1>8. PlaceAll(lanes, s) = G[1..N]
    BY <1>1 DEF PlaceAll, FoldLeft, MapThenFoldSet, q
  <1> HIDE DEF G
  <1> DEFINE h == [n \in 0..N |-> G[1..n]]
  <1>9. h[0] = lanes /\ PlaceAll(lanes, s) = h[N]
    <2>1. {} \in SUBSET (1..N) /\ 1..0 = {} /\ 0 \in 0..N /\ N \in 0..N
      <3> HIDE DEF N
      <3> QED BY <1>1
    <2>2. G[{}] = lanes
      BY <1>7, <2>1
    <2> QED BY <1>8, <2>1, <2>2
  <1>10. ASSUME NEW n \in 1..N PROVE h[n] = Place(h[n - 1], q[n])
    <2>1. /\ 1..n \in SUBSET (1..N) /\ 1..n # {} /\ Max(1..n) = n /\ (1..n) \ {n} = 1..(n - 1)
          /\ n - 1 \in 0..N /\ n \in 0..N
      <3> HIDE DEF N
      <3> QED BY <1>b, FirstPlaces
    <2>4. G[1..n] = Val(G, 1..n)
      <3> HIDE DEF Val
      <3> QED BY <1>7, <2>1
    <2>5. G[1..n] = Place(G[(1..n) \ {n}], q[n])
      BY <2>1, <2>4
    <2> QED BY <2>1, <2>5
  <1> HIDE DEF h
  <1>11. h \in [0..N -> A]
    <2> DEFINE Bad == {n \in 0..N : h[n] \notin A}
    <2>1. Bad = {}
      <3> SUFFICES ASSUME Bad # {} PROVE FALSE
        OBVIOUS
      <3>1. PICK n \in Bad : \A m \in Bad : n <= m
        <4>1. Bad \subseteq Nat
          <5> HIDE DEF N
          <5> QED BY <1>1
        <4> HIDE DEF Bad
        <4> QED BY <4>1, Least
      <3>2. n \in 0..N /\ h[n] \notin A /\ n # 0
        <4>1. lanes \in A
          BY DEF A
        <4> QED BY <1>9, <4>1
      <3>3. n - 1 \in 0..N /\ ~(n <= n - 1) /\ n \in 1..N
        <4> HIDE DEF N
        <4> QED BY <3>2, <1>1
      <3>4. h[n - 1] \in A
        BY <3>1, <3>3
      <3>5. h[n] = Place(h[n - 1], q[n])
        BY <3>3, <1>10
      <3> QED BY <3>2, <3>3, <3>4, <3>5, <1>2
    <2>2. h = [n \in 0..N |-> h[n]]
      BY DEF h
    <2> QED BY <2>1, <2>2
  <1>12. PlaceSteps(h, lanes, s, k, T)
    BY <1>9, <1>10, <1>11 DEF PlaceSteps, A, q
  <1> QED BY <1>12

\* What holds of the lanes still holds with more tasks on them.
LEMMA PlaceAllKeeps ==
  ASSUME NEW T, Weighable(T), NEW k \in Nat \ {0}, NEW lanes \in LaneList(k, T), NEW s \in Seq(T)
  PROVE  /\ PlaceAll(lanes, s) \in LaneList(k, T)
         /\ Held(PlaceAll(lanes, s)) = Held(lanes) \cup Range(s)
         /\ Once(lanes) /\ IsInjective(s) /\ Range(s) \cap Held(lanes) = {} => Once(PlaceAll(lanes, s))
         /\ Weighed(lanes) => Weighed(PlaceAll(lanes, s))
         /\ Balanced(lanes) => Balanced(PlaceAll(lanes, s))
  <1> DEFINE N == Len(s)
             q == HeaviestFirst(s)
             First(n) == {q[i] : i \in 1..n}
  <1>1. N \in Nat /\ DOMAIN s = 1..N /\ \A i \in 1..N : s[i] \in T
    OBVIOUS
  <1>2. PICK p : p \in Bijection(1..N, 1..N) /\ q = [n \in 1..N |-> s[p[n]]]
    BY HeaviestFirstSorts
  <1>3. /\ \A i \in 1..N : p[i] \in 1..N /\ \E j \in 1..N : p[j] = i
        /\ \A i, j \in 1..N : p[i] = p[j] => i = j
    BY <1>2 DEF Bijection, Injection, Surjection, IsInjective
  <1> HIDE DEF q
  <1>4. DOMAIN q = 1..N /\ \A i \in 1..N : q[i] = s[p[i]] /\ q[i] \in T
    <2> HIDE DEF N
    <2> QED BY <1>1, <1>2, <1>3
  <1>5. First(N) = Range(s)
    <2>1. \A i \in 1..N : q[i] \in Range(s)
      BY <1>1, <1>3, <1>4 DEF Range
    <2>2. \A i \in 1..N : s[i] \in First(N)
      BY <1>3, <1>4
    <2> QED BY <1>1, <2>1, <2>2 DEF Range
  <1>6. IsInjective(s) => \A i, j \in 1..N : q[i] = q[j] => i = j
    <2> SUFFICES ASSUME IsInjective(s), NEW i \in 1..N, NEW j \in 1..N, q[i] = q[j] PROVE i = j
      OBVIOUS
    <2>1. p[i] \in DOMAIN s /\ p[j] \in DOMAIN s /\ s[p[i]] = s[p[j]]
      BY <1>1, <1>3, <1>4
    <2>2. p[i] = p[j]
      <3> HIDE DEF N
      <3> QED BY <2>1 DEF IsInjective
    <2> QED BY <2>2, <1>3
  <1>7. PICK h : PlaceSteps(h, lanes, s, k, T)
    BY PlaceAllUnrolls
  <1>8. /\ h \in [0..N -> LaneList(k, T)] /\ h[0] = lanes /\ PlaceAll(lanes, s) = h[N]
        /\ \A n \in 1..N : h[n] = Place(h[n - 1], q[n])
    BY <1>7 DEF PlaceSteps, q
  <1> DEFINE Fresh == Once(lanes) /\ IsInjective(s) /\ Range(s) \cap Held(lanes) = {}
             Keeps(n) == /\ Held(h[n]) = Held(lanes) \cup First(n)
                         /\ Fresh => Once(h[n])
                         /\ Weighed(lanes) => Weighed(h[n])
                         /\ Balanced(lanes) => Balanced(h[n])
             Bad == {n \in 0..N : ~Keeps(n)}
  <1> HIDE DEF N
  <1>9. Bad = {}
    <2> SUFFICES ASSUME Bad # {} PROVE FALSE
      OBVIOUS
    <2>1. PICK n \in Bad : \A m \in Bad : n <= m
      <3>1. Bad \subseteq Nat
        BY <1>1
      <3> HIDE DEF Bad
      <3> QED BY <3>1, Least
    <2>2. n \in 0..N /\ ~Keeps(n)
      OBVIOUS
    <2>3. n # 0
      <3>1. First(0) = {}
        OBVIOUS
      <3>2. Keeps(0)
        BY <3>1, <1>8
      <3> HIDE DEF Keeps
      <3> QED BY <2>2, <3>2
    <2>4. n - 1 \in 0..N /\ ~(n <= n - 1) /\ n \in 1..N /\ n \in Nat
      BY <2>2, <2>3, <1>1
    <2>5. Keeps(n - 1)
      <3>1. n - 1 \notin Bad
        <4> HIDE DEF Bad
        <4> QED BY <2>1, <2>4
      <3> HIDE DEF Keeps
      <3> QED BY <3>1, <2>4
    <2> DEFINE x == h[n - 1]
               t == q[n]
    <2>6. x \in LaneList(k, T) /\ t \in T /\ h[n] = Place(x, t)
      BY <1>4, <1>8, <2>4
    <2>7. First(n) = First(n - 1) \cup {t}
      <3>1. 1..n = (1..(n - 1)) \cup {n}
        BY <2>4
      <3> QED BY <3>1
    <2>8. Fresh => t \notin Held(x)
      <3> SUFFICES ASSUME Fresh, t \in Held(x) PROVE FALSE
        OBVIOUS
      <3>1. t \in Range(s)
        <4>1. t \in First(N)
          BY <2>4
        <4> QED BY <4>1, <1>5
      <3>2. t \in First(n - 1)
        BY <3>1, <2>5
      <3>3. PICK i \in 1..(n - 1) : q[i] = q[n]
        BY <3>2
      <3>4. i \in 1..N /\ i # n
        BY <2>4, <1>1
      <3> QED BY <3>3, <3>4, <1>6, <2>4
    <2> HIDE DEF x, t, First, Fresh
    <2>9. Keeps(n)
      <3>1. /\ Held(h[n]) = Held(x) \cup {t}
            /\ Once(x) /\ t \notin Held(x) => Once(h[n])
            /\ Weighed(x) => Weighed(h[n])
            /\ Balanced(x) => Balanced(h[n])
        BY <2>6, PlaceKeeps
      <3>2. Held(h[n]) = Held(lanes) \cup First(n)
        BY <3>1, <2>5, <2>7 DEF x
      <3> QED BY <3>1, <3>2, <2>5, <2>8 DEF x
    <2> HIDE DEF Keeps
    <2> QED BY <2>2, <2>9
  <1>10. Keeps(N) /\ N \in 0..N
    <2> HIDE DEF Keeps
    <2> QED BY <1>1, <1>9
  <1>11. h[N] \in LaneList(k, T)
    BY <1>8, <1>10
  <1> HIDE DEF First
  <1> QED BY <1>5, <1>8, <1>10, <1>11

\* What Among keeps, and that it doubles nothing.
LEMMA AmongHolds ==
  ASSUME NEW S, NEW s \in Seq(S), NEW kept
  PROVE  /\ Range(Among(s, kept)) = Range(s) \cap kept
         /\ IsInjective(s) => IsInjective(Among(s, kept))
         /\ Len(Among(s, kept)) <= Len(s)
  <1> DEFINE part == Among(s, kept)
  <1>1. part \in Seq(S)
    BY AmongType
  <1> HIDE DEF part
  <1>2. PICK e : Embeds(e, part, s, kept)
    BY AmongEmbeds DEF part
  <1>3. /\ e \in [1..Len(part) -> 1..Len(s)]
        /\ \A i, j \in 1..Len(part) : i < j => e[i] < e[j]
        /\ \A i \in 1..Len(part) : part[i] = s[e[i]] /\ s[e[i]] \in kept
        /\ \A j \in 1..Len(s) : s[j] \in kept => \E i \in 1..Len(part) : e[i] = j
    BY <1>2 DEF Embeds
  <1>4. DOMAIN part = 1..Len(part) /\ DOMAIN s = 1..Len(s) /\ Len(part) \in Nat /\ Len(s) \in Nat
    BY <1>1
  <1>5. Range(part) = Range(s) \cap kept
    <2>1. \A i \in 1..Len(part) : part[i] \in Range(s) \cap kept
      BY <1>3, <1>4 DEF Range
    <2>2. \A j \in 1..Len(s) : s[j] \in kept => s[j] \in Range(part)
      BY <1>3, <1>4 DEF Range
    <2> QED BY <1>4, <2>1, <2>2 DEF Range
  <1>6. \A i, j \in 1..Len(part) : e[i] = e[j] => i = j
    <2> SUFFICES ASSUME NEW i \in 1..Len(part), NEW j \in 1..Len(part), i < j, e[i] = e[j] PROVE FALSE
      BY <1>4
    <2>1. e[i] < e[j] /\ e[i] \in 1..Len(s)
      BY <1>3
    <2> QED BY <2>1, <1>4
  <1>7. ASSUME IsInjective(s) PROVE IsInjective(part)
    <2>1. \A i, j \in 1..Len(part) : part[i] = part[j] => e[i] = e[j]
      BY <1>3, <1>4, <1>7 DEF IsInjective
    <2> QED BY <2>1, <1>4, <1>6 DEF IsInjective
  <1>8. Len(part) <= Len(s)
    <2> DEFINE Bad == {i \in 1..Len(part) : ~(i <= e[i])}
    <2>1. Bad = {}
      <3> SUFFICES ASSUME Bad # {} PROVE FALSE
        OBVIOUS
      <3>1. PICK n \in Bad : \A m \in Bad : n <= m
        <4>1. Bad \subseteq Nat
          BY <1>4
        <4> HIDE DEF Bad
        <4> QED BY <4>1, Least
      <3>2. n \in 1..Len(part) /\ ~(n <= e[n]) /\ n \in Nat /\ e[n] \in 1..Len(s)
        <4>1. n \in 1..Len(part) /\ ~(n <= e[n])
          OBVIOUS
        <4>2. e[n] \in 1..Len(s)
          BY <4>1, <1>3
        <4> HIDE DEF Bad
        <4> QED BY <4>1, <4>2, <1>4
      <3>3. n # 1
        BY <3>2, <1>4
      <3>4. n - 1 \in 1..Len(part) /\ ~(n <= n - 1)
        BY <3>2, <3>3, <1>4
      <3>5. n - 1 <= e[n - 1] /\ e[n - 1] < e[n]
        <4>1. n - 1 \notin Bad
          <5> HIDE DEF Bad
          <5> QED BY <3>1, <3>4
        <4>2. n - 1 < n
          BY <3>2
        <4> QED BY <4>1, <4>2, <3>2, <3>4, <1>3
      <3>6. e[n - 1] \in 1..Len(s)
        BY <3>4, <1>3
      <3> QED BY <3>2, <3>5, <3>6, <1>4
    <2>2. CASE Len(part) = 0
      BY <2>2, <1>4
    <2>3. CASE Len(part) # 0
      <3>1. Len(part) \in 1..Len(part)
        BY <2>3, <1>4
      <3>2. Len(part) <= e[Len(part)] /\ e[Len(part)] \in 1..Len(s)
        BY <3>1, <2>1, <1>3
      <3> QED BY <3>2, <1>4
    <2> QED BY <2>2, <2>3
  <1> QED BY <1>5, <1>7, <1>8 DEF part

\* The greater and the lesser of two numbers.
LEMMA MaxOfTwo ==
  ASSUME NEW a \in Int, NEW b \in Int
  PROVE  Max({a, b}) = IF a >= b THEN a ELSE b
  <1>1. \E x \in {a, b} : \A y \in {a, b} : x >= y
    OBVIOUS
  <1>2. Max({a, b}) \in {a, b} /\ \A y \in {a, b} : Max({a, b}) >= y
    BY <1>1 DEF Max
  <1> QED BY <1>2

\* The lesser of two numbers.
LEMMA MinOfTwo ==
  ASSUME NEW a \in Int, NEW b \in Int
  PROVE  Min({a, b}) = IF a <= b THEN a ELSE b
  <1>1. \E x \in {a, b} : \A y \in {a, b} : x <= y
    OBVIOUS
  <1>2. Min({a, b}) \in {a, b} /\ \A y \in {a, b} : Min({a, b}) <= y
    BY <1>1 DEF Min
  <1> QED BY <1>2

-----------------------------------------------------------------------------
\* A lane with browser tasks; and what serializing them asks for: that there is one such lane.
BrowserLane(lane) == \E i \in DOMAIN lane.tasks : IsBrowser(lane.tasks[i])
BrowsersApart(lanes) ==
    \A l, k \in DOMAIN lanes : BrowserLane(lanes[l]) /\ BrowserLane(lanes[k]) => l = k

\* Of the lanes that share their tasks out, none was heavier before its last task than any is.
Even(lanes, serialize) ==
    \A l, k \in DOMAIN lanes :
        /\ lanes[l].tasks # <<>>
        /\ serialize => ~BrowserLane(lanes[l]) /\ ~BrowserLane(lanes[k])
        => lanes[l].weight - TaskWeight(Last(lanes[l].tasks)) <= lanes[k].weight

\* The lanes of a plan, those without a task among them.
Spreads(lanes, tasks, requested, serialize, T) ==
    /\ lanes \in Seq([tasks : Seq(T), weight : Nat])
    /\ Plan(tasks, requested, serialize) = Among(lanes, Range(lanes) \ {IdleLane})
    /\ Len(lanes) <= 1 \/ Len(lanes) <= requested
    /\ Held(lanes) = Range(tasks) /\ (IsInjective(tasks) => Once(lanes)) /\ Weighed(lanes)
    /\ serialize => BrowsersApart(lanes)
    /\ Even(lanes, serialize)

\* Whether the browser tasks get a lane of their own or not, the plan is such lanes.
LEMMA PlanSpreads ==
  ASSUME NEW T, Weighable(T), NEW tasks \in Seq(T), NEW requested \in Int, NEW serialize \in BOOLEAN
  PROVE  \E lanes : Spreads(lanes, tasks, requested, serialize, T)
  <1> DEFINE R == [tasks : Seq(T), weight : Nat]
             effective == Max({1, Min({requested, Len(tasks)})})
             b == Among(tasks, {task \in Range(tasks) : IsBrowser(task)})
             o == Among(tasks, {task \in Range(tasks) : ~IsBrowser(task)})
             dedicated == Dedicated(b, effective, serialize)
             workers == Max({1, effective - (IF dedicated THEN 1 ELSE 0)})
             base == [l \in 1..workers |-> IdleLane]
             spread == PlaceAll(base, o)
             own == Lane(b, TotalWeight(b))
             lanes == IF dedicated THEN Append(spread, own) ELSE PlaceAll(spread, b)
  <1>1. Plan(tasks, requested, serialize) = Among(lanes, Range(lanes) \ {IdleLane})
    BY DEF Plan
  <1>2. effective \in Nat \ {0} /\ (effective <= 1 \/ effective <= requested)
    <2>1. Len(tasks) \in Int
      OBVIOUS
    <2>2. Min({requested, Len(tasks)}) = IF requested <= Len(tasks) THEN requested ELSE Len(tasks)
      BY <2>1, MinOfTwo
    <2> DEFINE m == Min({requested, Len(tasks)})
    <2>3. m \in Int /\ m <= requested
      BY <2>1, <2>2
    <2> HIDE DEF m
    <2>4. Max({1, m}) = IF 1 >= m THEN 1 ELSE m
      BY <2>3, MaxOfTwo
    <2> QED BY <2>3, <2>4 DEF m
  <1> HIDE DEF effective
  <1>3. /\ b \in Seq(T) /\ Range(b) = {t \in Range(tasks) : IsBrowser(t)} /\ (IsInjective(tasks) => IsInjective(b))
        /\ o \in Seq(T) /\ Range(o) = {t \in Range(tasks) : ~IsBrowser(t)} /\ (IsInjective(tasks) => IsInjective(o))
    <2>1. b \in Seq(T) /\ o \in Seq(T)
      BY AmongType
    <2>2. /\ Range(b) = Range(tasks) \cap {task \in Range(tasks) : IsBrowser(task)}
          /\ Range(o) = Range(tasks) \cap {task \in Range(tasks) : ~IsBrowser(task)}
          /\ IsInjective(tasks) => IsInjective(b) /\ IsInjective(o)
      BY AmongHolds
    <2> HIDE DEF b, o
    <2> QED BY <2>1, <2>2
  <1> HIDE DEF b, o
  <1>4. (dedicated <=> serialize /\ b # <<>> /\ effective > 1) /\ dedicated \in BOOLEAN
    BY DEF Dedicated
  <1> HIDE DEF dedicated
  <1>5. workers = IF dedicated THEN effective - 1 ELSE effective
    <2>1. \A m \in Int : Max({1, m}) = IF 1 >= m THEN 1 ELSE m
      BY MaxOfTwo
    <2>2. CASE dedicated
      <3>1. workers = Max({1, effective - 1}) /\ effective > 1
        BY <2>2, <1>4
      <3> HIDE DEF workers
      <3> QED BY <2>1, <2>2, <3>1, <1>2
    <2>3. CASE ~dedicated
      <3>1. workers = Max({1, effective - 0})
        BY <2>3
      <3> HIDE DEF workers
      <3> QED BY <2>1, <2>3, <3>1, <1>2
    <2> QED BY <2>2, <2>3
  <1> HIDE DEF workers
  <1>6. workers \in Nat \ {0}
    BY <1>2, <1>4, <1>5
  <1>7. /\ base \in LaneList(workers, T) /\ Held(base) = {} /\ Once(base) /\ Weighed(base) /\ Balanced(base)
    <2>1. IdleLane \in R /\ IdleLane.tasks = <<>> /\ IdleLane.weight = 0
      BY DEF IdleLane, Lane
    <2>2. base \in LaneList(workers, T) /\ DOMAIN base = 1..workers
      BY <2>1 DEF LaneList
    <2>3. \A l \in 1..workers : base[l].tasks = <<>> /\ base[l].weight = 0
      BY <2>1
    <2> HIDE DEF base
    <2>4. \A l \in 1..workers : Range(base[l].tasks) = {} /\ DOMAIN base[l].tasks = {}
      <3>1. DOMAIN <<>> = {} /\ Range(<<>>) = {}
        BY DEF Range
      <3> QED BY <2>3, <3>1
    <2>5. Held(base) = {}
      BY <2>2, <2>4 DEF Held
    <2>6. Once(base)
      BY <2>2, <2>4 DEF Once
    <2>7. Weighed(base)
      <3>1. TotalWeight(<<>>) = 0
        <4>1. CASE T = {}
          <5>1. <<>> \in Seq(T) /\ Len(<<>>) = 0
            OBVIOUS
          <5>2. PICK e : TotalSteps(e, <<>>)
            BY <5>1, TotalUnrolls
          <5> QED BY <5>1, <5>2 DEF TotalSteps
        <4>2. CASE T # {}
          BY <4>2, <1>3, TotalOfMore
        <4> QED BY <4>1, <4>2
      <3> QED BY <2>2, <2>3, <3>1 DEF Weighed
    <2>8. Balanced(base)
      BY <2>2, <2>3 DEF Balanced
    <2> QED BY <2>2, <2>5, <2>6, <2>7, <2>8
  <1>8. /\ spread \in LaneList(workers, T) /\ Held(spread) = Range(o) /\ Weighed(spread) /\ Balanced(spread)
        /\ IsInjective(tasks) => Once(spread)
    <2> HIDE DEF base
    <2>1. IsInjective(tasks) => IsInjective(o) /\ Range(o) \cap Held(base) = {}
      BY <1>3, <1>7
    <2>2. Held(spread) = Held(base) \cup Range(o)
      BY <1>3, <1>6, <1>7, PlaceAllKeeps
    <2>3. spread \in LaneList(workers, T) /\ Weighed(spread) /\ Balanced(spread) /\ (IsInjective(tasks) => Once(spread))
      BY <2>1, <1>3, <1>6, <1>7, PlaceAllKeeps
    <2> HIDE DEF spread
    <2> QED BY <2>2, <2>3, <1>7
  <1> HIDE DEF spread
  <1>9. ASSUME NEW k \in Nat \ {0}, NEW x \in LaneList(k, T) PROVE x \in Seq(R) /\ Len(x) = k /\ DOMAIN x = 1..k
    <2>1. x \in [1..k -> R]
      BY DEF LaneList
    <2> HIDE DEF R
    <2> QED BY <2>1
  <1>10. CASE dedicated
    <2> DEFINE all == Append(spread, own)
               W == workers
    <2>1. lanes = all
      BY <1>10
    <2>2. own \in R /\ own.tasks = b /\ own.weight = TotalWeight(b)
      <3>1. TotalWeight(b) \in Nat
        <4>1. PICK e : TotalSteps(e, b)
          BY <1>3, TotalUnrolls
        <4>2. Len(b) \in 0..Len(b)
          BY <1>3
        <4> QED BY <4>1, <4>2 DEF TotalSteps
      <3> QED BY <3>1, <1>3 DEF Lane
    <2> HIDE DEF own, R
    <2>3. /\ all \in Seq(R) /\ Len(all) = W + 1 /\ DOMAIN all = 1..(W + 1) /\ all[W + 1] = own
          /\ \A l \in 1..W : all[l] = spread[l]
      BY <2>2, <1>6, <1>8, <1>9
    <2>4. DOMAIN spread = 1..W /\ W + 1 = effective /\ serialize /\ b # <<>> /\ W \in Nat
      BY <1>4, <1>5, <1>6, <1>8, <1>9, <1>10, <1>2
    <2>5. \A l \in 1..(W + 1) : l \in 1..W \/ l = W + 1
      BY <2>4
    <2> HIDE DEF all, W
    <2>6. Held(all) = Range(tasks)
      <3>1. Held(all) = Held(spread) \cup Range(b)
        <4>1. ASSUME NEW x PROVE x \in Held(all) <=> x \in Held(spread) \/ x \in Range(b)
          <5>1. x \in Held(all) <=> \E l \in 1..(W + 1) : x \in Range(all[l].tasks)
            BY <2>3 DEF Held
          <5>2. x \in Held(spread) <=> \E l \in 1..W : x \in Range(spread[l].tasks)
            BY <2>4 DEF Held
          <5>3. W + 1 \in 1..(W + 1) /\ 1..W \subseteq 1..(W + 1)
            BY <2>4
          <5> QED BY <5>1, <5>2, <5>3, <2>2, <2>3, <2>5
        <4> QED BY <4>1
      <3> QED BY <3>1, <1>3, <1>8
    <2>7. \A l \in 1..W : ~BrowserLane(all[l])
      <3> SUFFICES ASSUME NEW l \in 1..W, NEW i \in DOMAIN spread[l].tasks PROVE ~IsBrowser(spread[l].tasks[i])
        BY <2>3 DEF BrowserLane
      <3>1. spread[l].tasks[i] \in Held(spread)
        BY <2>4 DEF Held, Range
      <3> QED BY <3>1, <1>3, <1>8
    <2>8. BrowserLane(all[W + 1])
      <3>1. 1 \in DOMAIN b
        BY <2>4, <1>3
      <3>2. b[1] \in Range(b)
        BY <3>1 DEF Range
      <3> QED BY <3>1, <3>2, <2>2, <2>3, <1>3 DEF BrowserLane
    <2>9. BrowsersApart(all)
      BY <2>3, <2>5, <2>7 DEF BrowsersApart
    <2>10. Even(all, serialize)
      <3> SUFFICES ASSUME NEW l \in 1..(W + 1), NEW k \in 1..(W + 1), all[l].tasks # <<>>,
                          ~BrowserLane(all[l]), ~BrowserLane(all[k])
                   PROVE  all[l].weight - TaskWeight(Last(all[l].tasks)) <= all[k].weight
        BY <2>3, <2>4 DEF Even
      <3>1. l \in 1..W /\ k \in 1..W
        BY <2>5, <2>8
      <3> QED BY <3>1, <2>3, <2>4, <1>8 DEF Balanced
    <2>11. Weighed(all)
      BY <2>2, <2>3, <2>4, <2>5, <1>8 DEF Weighed
    <2>12. ASSUME IsInjective(tasks) PROVE Once(all)
      <3>1. Once(spread) /\ IsInjective(b)
        BY <2>12, <1>3, <1>8
      <3>2. ASSUME NEW l \in 1..W, NEW i \in DOMAIN all[l].tasks, NEW j \in DOMAIN b PROVE all[l].tasks[i] # b[j]
        <4>1. ~IsBrowser(all[l].tasks[i])
          BY <2>7 DEF BrowserLane
        <4>2. b[j] \in Range(b)
          BY DEF Range
        <4> QED BY <4>1, <4>2, <1>3
      <3> SUFFICES ASSUME NEW l \in 1..(W + 1), NEW k \in 1..(W + 1),
                          NEW i \in DOMAIN all[l].tasks, NEW j \in DOMAIN all[k].tasks, all[l].tasks[i] = all[k].tasks[j]
                   PROVE  l = k /\ i = j
        BY <2>3 DEF Once
      <3>3. CASE l \in 1..W /\ k \in 1..W
        BY <3>1, <3>3, <2>3, <2>4 DEF Once
      <3>4. CASE l = W + 1 /\ k = W + 1
        BY <3>1, <3>4, <2>2, <2>3 DEF IsInjective
      <3>5. CASE l \in 1..W /\ k = W + 1
        BY <3>2, <3>5, <2>2, <2>3
      <3>6. CASE l = W + 1 /\ k \in 1..W
        BY <3>2, <3>6, <2>2, <2>3
      <3> QED BY <2>5, <3>3, <3>4, <3>5, <3>6
    <2>13. Len(all) <= 1 \/ Len(all) <= requested
      BY <2>3, <2>4, <1>2
    <2>14. Spreads(all, tasks, requested, serialize, T)
      <3> HIDE DEF lanes
      <3> QED BY <1>1, <2>1, <2>3, <2>6, <2>9, <2>10, <2>11, <2>12, <2>13 DEF Spreads, R
    <2> QED BY <2>14
  <1>11. CASE ~dedicated
    <2> DEFINE all == PlaceAll(spread, b)
    <2>1. lanes = all
      BY <1>11
    <2>2. Held(all) = Held(spread) \cup Range(b)
      BY <1>3, <1>6, <1>8, PlaceAllKeeps
    <2>3. all \in LaneList(workers, T) /\ Weighed(all) /\ Balanced(all)
      BY <1>3, <1>6, <1>8, PlaceAllKeeps
    <2>4. IsInjective(tasks) => Once(all)
      <3>1. IsInjective(tasks) => IsInjective(b) /\ Range(b) \cap Held(spread) = {}
        BY <1>3, <1>8
      <3> QED BY <3>1, <1>3, <1>6, <1>8, PlaceAllKeeps
    <2> HIDE DEF all, R
    <2>5. all \in Seq(R) /\ Len(all) = effective /\ DOMAIN all = 1..effective
      BY <2>3, <1>5, <1>6, <1>9, <1>11
    <2>6. Held(all) = Range(tasks)
      BY <2>2, <1>3, <1>8
    <2>7. ASSUME serialize PROVE BrowsersApart(all)
      <3>1. CASE effective = 1
        <4>1. \A l, k \in 1..1 : l = k
          OBVIOUS
        <4> QED BY <3>1, <4>1, <2>5 DEF BrowsersApart
      <3>2. CASE effective # 1
        <4>1. b = <<>>
          BY <3>2, <2>7, <1>2, <1>4, <1>11
        <4>2. Range(b) = {}
          BY <4>1 DEF Range
        <4>3. \A l \in DOMAIN all : ~BrowserLane(all[l])
          <5> SUFFICES ASSUME NEW l \in DOMAIN all, NEW i \in DOMAIN all[l].tasks PROVE ~IsBrowser(all[l].tasks[i])
            BY DEF BrowserLane
          <5>1. all[l].tasks[i] \in Held(all)
            BY DEF Held, Range
          <5> QED BY <5>1, <2>6, <4>2, <1>3
        <4> QED BY <4>3 DEF BrowsersApart
      <3> QED BY <3>1, <3>2
    <2>8. Even(all, serialize)
      BY <2>3 DEF Balanced, Even
    <2>9. Spreads(all, tasks, requested, serialize, T)
      <3> HIDE DEF lanes
      <3> QED BY <1>1, <1>2, <2>1, <2>3, <2>4, <2>5, <2>6, <2>7, <2>8 DEF Spreads, R
    <2> QED BY <2>9
  <1> QED BY <1>4, <1>10, <1>11

\* The lanes that are left when those without a task are dropped.
LEMMA PlanKeeps ==
  ASSUME NEW T, Weighable(T), NEW tasks \in Seq(T), NEW requested \in Int, NEW serialize \in BOOLEAN
  PROVE  LET lanes == Plan(tasks, requested, serialize) IN
         /\ lanes \in Seq([tasks : Seq(T), weight : Nat])
         /\ Len(lanes) <= 1 \/ Len(lanes) <= requested
         /\ \A l \in DOMAIN lanes : lanes[l].tasks # <<>>
         /\ Held(lanes) = Range(tasks) /\ (IsInjective(tasks) => Once(lanes)) /\ Weighed(lanes)
         /\ serialize => BrowsersApart(lanes)
         /\ Even(lanes, serialize)
  <1> DEFINE R == [tasks : Seq(T), weight : Nat]
             plan == Plan(tasks, requested, serialize)
  <1>1. PICK lanes : Spreads(lanes, tasks, requested, serialize, T)
    BY PlanSpreads
  <1> DEFINE kept == Range(lanes) \ {IdleLane}
  <1>2. /\ lanes \in Seq(R) /\ plan = Among(lanes, kept)
        /\ Len(lanes) <= 1 \/ Len(lanes) <= requested
        /\ Held(lanes) = Range(tasks) /\ (IsInjective(tasks) => Once(lanes)) /\ Weighed(lanes)
        /\ serialize => BrowsersApart(lanes)
        /\ Even(lanes, serialize)
    BY <1>1 DEF Spreads
  <1> HIDE DEF plan, R
  <1>3. plan \in Seq(R) /\ Len(plan) <= Len(lanes)
    BY <1>2, AmongType, AmongHolds
  <1>4. PICK e : Embeds(e, plan, lanes, kept)
    BY <1>2, AmongEmbeds
  <1>5. /\ e \in [1..Len(plan) -> 1..Len(lanes)]
        /\ \A i, j \in 1..Len(plan) : i < j => e[i] < e[j]
        /\ \A i \in 1..Len(plan) : plan[i] = lanes[e[i]] /\ lanes[e[i]] \in kept
        /\ \A j \in 1..Len(lanes) : lanes[j] \in kept => \E i \in 1..Len(plan) : e[i] = j
    <2> HIDE DEF kept
    <2> QED BY <1>4 DEF Embeds
  <1>6. DOMAIN plan = 1..Len(plan) /\ DOMAIN lanes = 1..Len(lanes) /\ Len(plan) \in Nat /\ Len(lanes) \in Nat
    BY <1>2, <1>3
  <1>7. \A i \in DOMAIN plan : e[i] \in DOMAIN lanes /\ plan[i] = lanes[e[i]]
    BY <1>5, <1>6
  <1>8. \A i, j \in DOMAIN plan : e[i] = e[j] => i = j
    <2> SUFFICES ASSUME NEW i \in 1..Len(plan), NEW j \in 1..Len(plan), i < j, e[i] = e[j] PROVE FALSE
      BY <1>6
    <2>1. e[i] < e[j] /\ e[i] \in 1..Len(lanes)
      BY <1>5
    <2> QED BY <2>1, <1>6
  <1>9. ASSUME NEW j \in DOMAIN lanes, lanes[j].tasks # <<>> PROVE \E i \in DOMAIN plan : e[i] = j
    <2>1. lanes[j] # IdleLane
      BY <1>9 DEF IdleLane, Lane
    <2>2. lanes[j] \in kept
      BY <2>1 DEF Range
    <2> HIDE DEF kept
    <2> QED BY <2>2, <1>5, <1>6
  <1>10. ASSUME NEW l \in DOMAIN plan PROVE plan[l].tasks # <<>>
    <2> DEFINE lane == lanes[e[l]]
    <2>1. plan[l] = lane /\ lane # IdleLane /\ e[l] \in DOMAIN lanes
      BY <1>5, <1>6
    <2>2. lane \in R /\ lane.weight = TotalWeight(lane.tasks)
      BY <2>1, <1>2, <1>6 DEF Weighed
    <2> HIDE DEF lane
    <2> SUFFICES ASSUME lane.tasks = <<>> PROVE FALSE
      BY <2>1
    <2>3. TotalWeight(<<>>) = 0
      <3>1. <<>> \in Seq(T) /\ Len(<<>>) = 0
        OBVIOUS
      <3>2. PICK h : TotalSteps(h, <<>>)
        BY <3>1, TotalUnrolls
      <3> QED BY <3>1, <3>2 DEF TotalSteps
    <2>4. lane = [tasks |-> <<>>, weight |-> 0]
      BY <2>2, <2>3 DEF R
    <2> QED BY <2>1, <2>4 DEF IdleLane, Lane
  <1>11. Held(plan) = Held(lanes)
    <2>1. ASSUME NEW x PROVE x \in Held(plan) <=> x \in Held(lanes)
      <3>1. ASSUME x \in Held(plan) PROVE x \in Held(lanes)
        <4>1. PICK l \in DOMAIN plan : x \in Range(plan[l].tasks)
          BY <3>1 DEF Held
        <4> QED BY <4>1, <1>7 DEF Held
      <3>2. ASSUME x \in Held(lanes) PROVE x \in Held(plan)
        <4>1. PICK j \in DOMAIN lanes : x \in Range(lanes[j].tasks)
          BY <3>2 DEF Held
        <4>2. lanes[j].tasks # <<>>
          BY <4>1 DEF Range
        <4>3. PICK i \in DOMAIN plan : e[i] = j
          BY <4>2, <1>9
        <4> QED BY <4>1, <4>3, <1>7 DEF Held
      <3> QED BY <3>1, <3>2
    <2> QED BY <2>1
  <1>12. Weighed(plan)
    BY <1>2, <1>7 DEF Weighed
  <1>13. ASSUME Once(lanes) PROVE Once(plan)
    <2> SUFFICES ASSUME NEW l \in DOMAIN plan, NEW k \in DOMAIN plan,
                        NEW m \in DOMAIN plan[l].tasks, NEW n \in DOMAIN plan[k].tasks,
                        plan[l].tasks[m] = plan[k].tasks[n]
                 PROVE  l = k /\ m = n
      BY DEF Once
    <2>1. e[l] = e[k] /\ m = n
      BY <1>7, <1>13 DEF Once
    <2> QED BY <2>1, <1>8
  <1>14. ASSUME serialize PROVE BrowsersApart(plan)
    <2> SUFFICES ASSUME NEW l \in DOMAIN plan, NEW k \in DOMAIN plan, BrowserLane(plan[l]), BrowserLane(plan[k])
                 PROVE  l = k
      BY DEF BrowsersApart
    <2>1. e[l] = e[k]
      BY <1>2, <1>7, <1>14 DEF BrowsersApart
    <2> QED BY <2>1, <1>8
  <1>15. Even(plan, serialize)
    <2> SUFFICES ASSUME NEW l \in DOMAIN plan, NEW k \in DOMAIN plan, plan[l].tasks # <<>>,
                        serialize => ~BrowserLane(plan[l]) /\ ~BrowserLane(plan[k])
                 PROVE  plan[l].weight - TaskWeight(Last(plan[l].tasks)) <= plan[k].weight
      BY DEF Even
    <2>1. /\ e[l] \in DOMAIN lanes /\ plan[l] = lanes[e[l]]
          /\ e[k] \in DOMAIN lanes /\ plan[k] = lanes[e[k]]
      BY <1>7
    <2> HIDE DEF kept
    <2>2. lanes[e[l]].weight - TaskWeight(Last(lanes[e[l]].tasks)) <= lanes[e[k]].weight
      BY <1>2, <2>1 DEF Even
    <2> QED BY <2>1, <2>2
  <1>16. Len(plan) <= 1 \/ Len(plan) <= requested
    BY <1>2, <1>3, <1>6
  <1> HIDE DEF kept
  <1> QED BY <1>2, <1>3, <1>10, <1>11, <1>12, <1>13, <1>14, <1>15, <1>16 DEF R, plan

\* Every task of a job comes to exactly one lane, once, and no lane holds another's: no run is left
\* out or made twice by being run in parallel (_plan_parallel_lanes).
THEOREM PlanHoldsEveryTask ==
  ASSUME NEW T, Weighable(T), NEW tasks \in Seq(T), IsInjective(tasks), NEW requested \in Int, NEW serialize \in BOOLEAN
  PROVE  /\ Held(Plan(tasks, requested, serialize)) = Range(tasks)
         /\ Once(Plan(tasks, requested, serialize))
  BY PlanKeeps

\* There are no more lanes than were asked for, and none of them is without a task: each becomes a
\* gateway and a coroutine (_plan_parallel_lanes, worker.py:552-556).
THEOREM PlanFits ==
  ASSUME NEW T, Weighable(T), NEW tasks \in Seq(T), NEW requested \in Nat \ {0}, NEW serialize \in BOOLEAN
  PROVE  /\ Len(Plan(tasks, requested, serialize)) <= requested
         /\ \A l \in DOMAIN Plan(tasks, requested, serialize) : Plan(tasks, requested, serialize)[l].tasks # <<>>
  <1> DEFINE plan == Plan(tasks, requested, serialize)
  <1>1. plan \in Seq([tasks : Seq(T), weight : Nat]) /\ (Len(plan) <= 1 \/ Len(plan) <= requested)
        /\ \A l \in DOMAIN plan : plan[l].tasks # <<>>
    BY PlanKeeps
  <1> HIDE DEF plan
  <1>2. Len(plan) \in Nat
    BY <1>1
  <1> QED BY <1>1, <1>2 DEF plan

\* Browser tasks that must not run side by side are all on one lane, however many there are
\* (_plan_parallel_lanes, worker.py:527-546).
THEOREM PlanSerializes ==
  ASSUME NEW T, Weighable(T), NEW tasks \in Seq(T), NEW requested \in Int
  PROVE  BrowsersApart(Plan(tasks, requested, TRUE))
  BY PlanKeeps

\* The estimate of a lane is what its tasks weigh, and of the lanes that share tasks out no two
\* differ by more than the last task the heavier of them got (_plan_parallel_lanes, worker.py:538-551).
THEOREM PlanIsEven ==
  ASSUME NEW T, Weighable(T), NEW tasks \in Seq(T), NEW requested \in Int, NEW serialize \in BOOLEAN
  PROVE  /\ Weighed(Plan(tasks, requested, serialize))
         /\ Even(Plan(tasks, requested, serialize), serialize)
  BY PlanKeeps

-----------------------------------------------------------------------------
Checks == INSTANCE CompletionChecks
Scores == INSTANCE RunScoring

\* A share is a number of thousandths.
Shares == 0..Scores!One

\* The weights of a score make a share of shares.
LEMMA ScoreIsShare ==
  ASSUME NEW c \in Shares, NEW t \in Shares, NEW b \in Shares, NEW j \in Shares
  PROVE  /\ (4 * c + 3 * t + 2 * b) \div 9 \in Shares
         /\ (4 * c + 3 * t + 2 * b + j) \div 10 \in Shares
         /\ (2 * c + 2 * t + b + 5 * j) \div 10 \in Shares
  BY DEF Shares, Scores!One

\* The judge never rescues a run whose checks failed, counts for nothing where it was not asked for,
\* and moves the score of a run that was verified by a tenth at most (combine_run_score,
\* scorer.py:188-262).
THEOREM JudgeRescuesNothing ==
  ASSUME NEW completion \in Shares, NEW trajectory \in Shares, NEW behavior \in Shares, NEW judge \in Shares,
         NEW verified \in BOOLEAN, NEW include \in BOOLEAN
  PROVE  LET score(opinion) == Scores!RunScore(completion, trajectory, behavior, opinion, verified, include)
             alone == score(Scores!NoScore)
         IN  /\ score(judge) \in Shares /\ alone \in Shares
             /\ ~include \/ (verified /\ completion < Scores!One) => score(judge) = alone
             /\ verified => score(judge) - alone \in -100..100
  <1> DEFINE three == (4 * completion + 3 * trajectory + 2 * behavior) \div 9
             capped == (4 * completion + 3 * trajectory + 2 * behavior + judge) \div 10
             half == (2 * completion + 2 * trajectory + behavior + 5 * judge) \div 10
             score(opinion) == Scores!RunScore(completion, trajectory, behavior, opinion, verified, include)
  <1>1. Scores!NoScore \in Int /\ Scores!NoScore \notin Shares /\ Scores!One = 1000
    BY DEF Scores!NoScore, Shares, Scores!One
  <1>2. ASSUME NEW opinion \in Int, ~include \/ opinion = Scores!NoScore \/ (verified /\ completion < Scores!One)
        PROVE  score(opinion) = three
    <2>1. Scores!Weights(completion, IF include THEN opinion ELSE Scores!NoScore, verified) = <<4, 3, 2, 0>>
      BY <1>2 DEF Scores!Weights
    <2> QED BY <2>1 DEF Scores!RunScore, Shares
  <1>3. ASSUME include, verified, ~(completion < Scores!One) PROVE score(judge) = capped
    <2>1. Scores!Weights(completion, IF include THEN judge ELSE Scores!NoScore, verified) = <<4, 3, 2, 1>>
      BY <1>1, <1>3 DEF Scores!Weights
    <2> QED BY <2>1 DEF Scores!RunScore, Shares
  <1>4. ASSUME include, ~verified PROVE score(judge) = half
    <2>1. Scores!Weights(completion, IF include THEN judge ELSE Scores!NoScore, verified) = <<2, 2, 1, 5>>
      BY <1>1, <1>4 DEF Scores!Weights
    <2> QED BY <2>1 DEF Scores!RunScore, Shares
  <1>5. three \in Shares /\ capped \in Shares /\ half \in Shares
    BY ScoreIsShare
  <1>6. capped - three \in -100..100
    BY <1>1 DEF Shares
  <1>7. judge \in Int
    BY DEF Shares
  <1> HIDE DEF three, capped, half, score
  <1>8. score(Scores!NoScore) = three
    BY <1>1, <1>2
  <1>9. score(judge) \in {three, capped, half}
    BY <1>2, <1>3, <1>4, <1>7
  <1>10. ~include \/ (verified /\ completion < Scores!One) => score(judge) = three
    BY <1>2, <1>7
  <1>11. verified => score(judge) \in {three, capped}
    BY <1>2, <1>3, <1>7
  <1>12. verified => score(judge) - score(Scores!NoScore) \in -100..100
    <2>1. three - three = 0
      BY <1>5 DEF Shares
    <2> QED BY <2>1, <1>6, <1>8, <1>11
  <1> QED BY <1>5, <1>8, <1>9, <1>10, <1>12 DEF score

-----------------------------------------------------------------------------
\* A share of a whole that is not empty is the whole exactly if nothing is missing.
LEMMA ShareOfWhole ==
  ASSUME NEW n \in Nat \ {0}, NEW k \in 0..n
  PROVE  /\ (1000 * k) \div n \in 0..1000
         /\ (1000 * k) \div n = 1000 <=> k = n
  <1> DEFINE q == (1000 * k) \div n
  <1>1. q \in Int /\ q * n <= 1000 * k /\ 1000 * k < (q + 1) * n
    OBVIOUS
  <1> HIDE DEF q
  <1>2. q >= 0
    <2> SUFFICES ASSUME q + 1 <= 0 PROVE FALSE
      BY <1>1
    <2>1. (q + 1) * n <= 0
      BY <1>1
    <2> QED BY <2>1, <1>1
  <1>3. q <= 1000
    <2> SUFFICES ASSUME q >= 1001 PROVE FALSE
      BY <1>1
    <2>1. q * n >= 1001 * n
      BY <1>1
    <2> QED BY <2>1, <1>1
  <1>4. ASSUME q = 1000 PROVE k = n
    BY <1>1, <1>4
  <1>5. ASSUME k = n PROVE q = 1000
    <2>1. 1000 * n < (q + 1) * n
      BY <1>1, <1>5
    <2> SUFFICES ASSUME q + 1 <= 1000 PROVE FALSE
      BY <1>1, <1>3
    <2>2. (q + 1) * n <= 1000 * n
      BY <1>1
    <2> QED BY <2>1, <2>2, <1>1
  <1> QED BY <1>1, <1>2, <1>3, <1>4, <1>5 DEF q

\* Of some results, those that hold are all of them exactly if none does not.
LEMMA PassedAll ==
  ASSUME NEW S, NEW results \in Seq(S)
  PROVE  LET passed == Cardinality({i \in DOMAIN results : results[i]}) IN
         /\ passed \in 0..Len(results)
         /\ passed = Len(results) <=> {j \in DOMAIN results : ~results[j]} = {}
  <1> DEFINE N == Len(results)
             good == {i \in DOMAIN results : results[i]}
  <1>1. N \in Nat /\ DOMAIN results = 1..N
    OBVIOUS
  <1>2. IsFiniteSet(1..N) /\ Cardinality(1..N) = N
    <2> HIDE DEF N
    <2>1. IsFiniteSet(1..N) /\ Cardinality(1..N) = IF 1 > N THEN 0 ELSE N - 1 + 1
      BY <1>1, FS_Interval
    <2> QED BY <2>1, <1>1
  <1>3. good \subseteq 1..N
    BY <1>1
  <1>4. IsFiniteSet(good) /\ Cardinality(good) <= N /\ (Cardinality(good) = N => good = 1..N)
    <2> HIDE DEF good, N
    <2> QED BY <1>2, <1>3, FS_Subset
  <1>5. Cardinality(good) \in Nat
    BY <1>4, FS_CardinalityType
  <1>6. good = 1..N <=> {j \in DOMAIN results : ~results[j]} = {}
    BY <1>1
  <1>7. Cardinality(good) \in 0..N /\ (Cardinality(good) = N <=> good = 1..N)
    <2> HIDE DEF good, N
    <2> QED BY <1>1, <1>2, <1>4, <1>5
  <1>8. Cardinality(good) = N <=> {j \in DOMAIN results : ~results[j]} = {}
    BY <1>6, <1>7
  <1> QED BY <1>7, <1>8

\* What the completion of a task comes to, of its results and what kinds they are of.
Completes(c, results) ==
    /\ c.total = Len(results)
    /\ c.passed = Cardinality({i \in DOMAIN results : results[i]})
    /\ c.failed = {} <=> {j \in DOMAIN results : ~results[j]} = {}
    /\ c.score = IF results = <<>> THEN Checks!One ELSE (Checks!One * c.passed) \div Len(results)

\* A task: what it asks of the world, in lists.
IsTask(task) ==
    \E T : {task.files, task.memory, task.session, task.cron, task.gateway, task.checks} \subseteq Seq(T)

\* The instance counts as this module does.
LEMMA SameCardinality == \A S : Checks!Cardinality(S) = Cardinality(S)
  BY DEF Checks!Cardinality, Cardinality

\* Every check comes to a result, unless one raises.
LEMMA CompletionIsOfResults ==
  ASSUME NEW task, IsTask(task), NEW world, ~Checks!CompletionRaises(task, world)
  PROVE  \E S : \E results \in Seq(S) : Completes(Checks!VerifyCompletion(task, world), results)
  <1> DEFINE results == Checks!CheckResults(task, world)
             c == Checks!VerifyCompletion(task, world)
  <1>1. \E S : results \in Seq(S)
    <2>1. PICK T : {task.files, task.memory, task.session, task.cron, task.gateway, task.checks} \subseteq Seq(T)
      BY DEF IsTask
    <2> DEFINE files == [i \in DOMAIN task.files |-> Checks!VerifyFile(task.files[i], world.files)]
               memory == [i \in DOMAIN task.memory |-> Checks!VerifyMemory(task.memory[i], world.search, world.agent,
                                                             Checks!AgentMemory(world.memory), world.calls)]
               session == [i \in DOMAIN task.session |-> Checks!VerifySession(task.session[i], world.session)]
               cron == [i \in DOMAIN task.cron |-> Checks!VerifyCron(task.cron[i], world.cron)]
               gateways == [i \in DOMAIN task.gateway |-> Checks!VerifyGateway(task.gateway[i], world.gateway)]
               ran == [i \in DOMAIN task.checks |-> Checks!RunExecutionCheck(task.checks[i], world.ended)]
               S == Range(files) \cup Range(memory) \cup Range(session) \cup Range(cron) \cup Range(gateways) \cup Range(ran)
    <2>2. results = files \o memory \o session \o cron \o gateways \o ran
      BY DEF Checks!CheckResults
    <2>3. ASSUME NEW specs \in Seq(T), NEW f, DOMAIN f = DOMAIN specs, f = [i \in DOMAIN f |-> f[i]], Range(f) \subseteq S
          PROVE  f \in Seq(S)
      <3> HIDE DEF S
      <3>1. DOMAIN f = 1..Len(specs) /\ Len(specs) \in Nat
        BY <2>3
      <3>2. \A i \in DOMAIN f : f[i] \in S
        BY <2>3 DEF Range
      <3> QED BY <3>1, <3>2, <2>3
    <2>4. /\ Range(files) \subseteq S /\ Range(memory) \subseteq S /\ Range(session) \subseteq S
          /\ Range(cron) \subseteq S /\ Range(gateways) \subseteq S /\ Range(ran) \subseteq S
      <3> HIDE DEF files, memory, session, cron, gateways, ran
      <3> QED OBVIOUS
    <2>5. /\ DOMAIN files = DOMAIN task.files /\ files = [i \in DOMAIN files |-> files[i]]
          /\ DOMAIN memory = DOMAIN task.memory /\ memory = [i \in DOMAIN memory |-> memory[i]]
          /\ DOMAIN session = DOMAIN task.session /\ session = [i \in DOMAIN session |-> session[i]]
          /\ DOMAIN cron = DOMAIN task.cron /\ cron = [i \in DOMAIN cron |-> cron[i]]
          /\ DOMAIN gateways = DOMAIN task.gateway /\ gateways = [i \in DOMAIN gateways |-> gateways[i]]
          /\ DOMAIN ran = DOMAIN task.checks /\ ran = [i \in DOMAIN ran |-> ran[i]]
      OBVIOUS
    <2> HIDE DEF files, memory, session, cron, gateways, ran, S, results
    <2>6. /\ files \in Seq(S) /\ memory \in Seq(S) /\ session \in Seq(S)
          /\ cron \in Seq(S) /\ gateways \in Seq(S) /\ ran \in Seq(S)
      BY <2>1, <2>3, <2>4, <2>5
    <2> QED BY <2>2, <2>6
  <1> DEFINE passed == Checks!Cardinality({i \in DOMAIN results : results[i]})
             failing == {j \in DOMAIN results : ~results[j]}
             kinds == Checks!CheckKinds(task)
  <1>2. c = [total |-> Len(results), passed |-> passed, failed |-> {kinds[i] : i \in failing},
             score |-> IF results = <<>> THEN Checks!One ELSE (Checks!One * passed) \div Len(results)]
    BY DEF Checks!VerifyCompletion
  <1>4. passed = Cardinality({i \in DOMAIN results : results[i]})
    BY SameCardinality
  <1>3. Completes(c, results)
    <2> HIDE DEF c, results, passed, failing, kinds
    <2>1. /\ c.total = Len(results) /\ c.passed = passed /\ c.failed = {kinds[i] : i \in failing}
          /\ c.score = IF results = <<>> THEN Checks!One ELSE (Checks!One * passed) \div Len(results)
      BY <1>2
    <2>2. c.failed = {} <=> failing = {}
      BY <2>1
    <2> QED BY <2>1, <2>2, <1>4 DEF Completes, failing
  <1> HIDE DEF c, results, passed, failing, kinds
  <1> QED BY <1>1, <1>3 DEF c

\* A task is complete, by the count of its checks and by the score, exactly if no check raised or
\* failed, and only then can its run be a pass, however high its score (verify_completion,
\* environment.py:31-102; _is_passing_run, harness.py:865-871).
THEOREM OnlyWholeRunsPass ==
  ASSUME NEW task, IsTask(task), NEW world
  PROVE  LET c == Checks!VerifyCompletion(task, world)
             whole == ~Checks!CompletionRaises(task, world) /\ c.failed = {}
         IN  /\ c.total \in Nat /\ c.passed \in 0..c.total /\ c.score \in Shares
             /\ whole => c.passed = c.total
             /\ c.score = Scores!One <=> whole
             /\ Scores!AllAsserted(c) <=> whole
             /\ \A score : Scores!Passes(task, c, score) => whole
  <1> DEFINE c == Checks!VerifyCompletion(task, world)
  <1>0. Scores!One = 1000 /\ Shares = 0..1000
    BY DEF Scores!One, Shares
  <1>r. CASE Checks!CompletionRaises(task, world)
    <2>1. c = [total |-> 0, passed |-> 0, failed |-> {}, score |-> 0]
      BY <1>r DEF Checks!VerifyCompletion, Checks!Unchecked
    <2>2. c.total = 0 /\ c.passed = 0 /\ c.score = 0
      BY <2>1
    <2> HIDE DEF c
    <2>3. ~Scores!AllAsserted(c)
      BY <2>2 DEF Scores!AllAsserted, Scores!One
    <2>4. \A score : ~Scores!Passes(task, c, score)
      BY <2>3 DEF Scores!Passes
    <2> QED BY <1>r, <1>0, <2>2, <2>3, <2>4 DEF c
  <1>a. SUFFICES ASSUME ~Checks!CompletionRaises(task, world)
                 PROVE  /\ c.total \in Nat /\ c.passed \in 0..c.total /\ c.score \in Shares
                        /\ c.passed = c.total <=> c.failed = {}
                        /\ c.score = Scores!One <=> c.failed = {}
                        /\ Scores!AllAsserted(c) <=> c.failed = {}
                        /\ \A score : Scores!Passes(task, c, score) => c.failed = {}
    BY <1>r
  <1>1. PICK S : \E results \in Seq(S) : Completes(c, results)
    BY <1>a, CompletionIsOfResults
  <1> HIDE DEF c
  <1>2. PICK results \in Seq(S) : Completes(c, results)
    BY <1>1
  <1>3. /\ c.total = Len(results) /\ c.total \in Nat
        /\ c.score = IF results = <<>> THEN 1000 ELSE (1000 * c.passed) \div c.total
    BY <1>2 DEF Completes, Checks!One
  <1>4. c.passed \in 0..c.total /\ (c.passed = c.total <=> c.failed = {})
    <2> DEFINE passed == Cardinality({i \in DOMAIN results : results[i]})
               failing == {j \in DOMAIN results : ~results[j]}
    <2>1. passed \in 0..Len(results) /\ (passed = Len(results) <=> failing = {})
      BY PassedAll
    <2>2. c.passed = passed /\ (c.failed = {} <=> failing = {})
      BY <1>2 DEF Completes
    <2> HIDE DEF passed, failing
    <2> QED BY <2>1, <2>2, <1>3
  <1>5. c.score \in 0..1000 /\ (c.score = 1000 <=> c.failed = {})
    <2>1. CASE results = <<>>
      <3>1. c.total = 0
        BY <2>1, <1>3
      <3> QED BY <3>1, <2>1, <1>3, <1>4
    <2>2. CASE results # <<>>
      <3>1. c.total \in Nat \ {0}
        BY <2>2, <1>3
      <3> DEFINE k == c.passed
                 n == c.total
      <3>2. n \in Nat \ {0} /\ k \in 0..n /\ (k = n <=> c.failed = {})
        BY <3>1, <1>4
      <3>3. c.score = (1000 * k) \div n
        BY <2>2, <1>3
      <3> HIDE DEF k, n
      <3>4. (1000 * k) \div n \in 0..1000 /\ ((1000 * k) \div n = 1000 <=> k = n)
        <4>1. n \in Nat \ {0} /\ k \in 0..n
          BY <3>2
        <4> QED BY <4>1, ShareOfWhole
      <3> QED BY <3>2, <3>3, <3>4
    <2> QED BY <2>1, <2>2
  <1>6. Scores!AllAsserted(c) <=> c.failed = {}
    <2>1. Scores!AllAsserted(c) <=> IF c.total > 0 THEN c.passed >= c.total ELSE c.score >= 1000
      BY DEF Scores!AllAsserted, Scores!One
    <2>2. c.total > 0 => (c.passed >= c.total <=> c.passed = c.total)
      BY <1>3, <1>4
    <2>3. c.score >= 1000 <=> c.score = 1000
      <3> DEFINE s == c.score
      <3>1. s \in 0..1000
        BY <1>5
      <3> HIDE DEF s
      <3>2. s >= 1000 <=> s = 1000
        BY <3>1
      <3> QED BY <3>2 DEF s
    <2> QED BY <2>1, <2>2, <2>3, <1>4, <1>5
  <1>7. \A score : Scores!Passes(task, c, score) => c.failed = {}
    BY <1>6 DEF Scores!Passes
  <1> QED BY <1>0, <1>3, <1>4, <1>5, <1>6, <1>7 DEF c

-----------------------------------------------------------------------------
\* A judge's answer, as far as it can be read: numbers that may be anything, NaN, or none.
Numbers == {<<>>, Checks!NaN} \cup {<<n>> : n \in Int}

\* A number is brought into its bounds: none is nothing, and none gets greater but to nothing.
LEMMA ClampIsShare ==
  ASSUME NEW value \in Numbers
  PROVE  /\ Checks!Clamp(value) \in Shares
         /\ value = <<>> => Checks!Clamp(value) = 0
         /\ \A n \in Int : value = <<n>> => Checks!Clamp(value) = 0 \/ Checks!Clamp(value) <= n
  <1>1. PICK n \in Int : value \in {<<>>, Checks!NaN, <<n>>}
    <2>1. \E n \in Int : value \in {<<>>, Checks!NaN, <<n>>}
      BY DEF Numbers
    <2> QED BY <2>1
  <1>2. Checks!Min({1000, n}) = Min({1000, n}) /\ \A S : Checks!Max(S) = Max(S)
    BY DEF Checks!Min, Min, Checks!Max, Max
  <1>3. Min({1000, n}) = IF 1000 <= n THEN 1000 ELSE n
    BY MinOfTwo
  <1> DEFINE m == Min({1000, n})
  <1>4. m \in Int /\ m <= 1000 /\ m <= n
    BY <1>3
  <1>5. <<n>> # <<>> /\ <<n>>[1] = n /\ <<n>> # Checks!NaN /\ Checks!NaN # <<>>
    BY DEF Checks!NaN
  <1>6. Checks!Clamp(<<n>>) = Max({0, m})
    <2> DEFINE k == <<n>>[1]
    <2>1. Checks!Clamp(<<n>>) = Checks!Max({0, Checks!Min({1000, k})})
      BY <1>5 DEF Checks!Clamp, Checks!One
    <2>2. k = n
      OBVIOUS
    <2> HIDE DEF k
    <2>3. Checks!Clamp(<<n>>) = Checks!Max({0, Checks!Min({1000, n})})
      BY <2>1, <2>2
    <2>4. Checks!Clamp(<<n>>) = Checks!Max({0, m})
      BY <1>2, <2>3
    <2> HIDE DEF m
    <2> QED BY <1>2, <2>4
  <1> HIDE DEF m
  <1>7. Max({0, m}) = IF 0 >= m THEN 0 ELSE m
    BY <1>4, MaxOfTwo
  <1>8. Checks!Clamp(<<>>) = 0 /\ Checks!Clamp(Checks!NaN) = 1000
    BY <1>5 DEF Checks!Clamp, Checks!One
  <1>9. 0 \in Shares /\ 1000 \in Shares /\ (m > 0 => m \in Shares)
    BY <1>4 DEF Shares, Scores!One
  <1>10. Checks!Clamp(<<n>>) \in {0, m} /\ (Checks!Clamp(<<n>>) = 0 \/ m > 0)
    BY <1>4, <1>6, <1>7
  <1>11. CASE value = <<>>
    BY <1>8, <1>9, <1>11
  <1>12. CASE value = Checks!NaN
    <2>1. \A k \in Int : value # <<k>>
      BY <1>12 DEF Checks!NaN
    <2> QED BY <1>5, <1>8, <1>9, <1>12, <2>1
  <1>13. CASE value = <<n>>
    <2>1. \A k \in Int : value = <<k>> => k = n
      <3> SUFFICES ASSUME NEW k \in Int, value = <<k>> PROVE k = n
        OBVIOUS
      <3>1. <<k>>[1] = k /\ <<n>>[1] = n
        OBVIOUS
      <3> QED BY <3>1, <1>13
    <2>2. Checks!Clamp(value) \in Shares /\ Checks!Clamp(value) \in {0, m}
      BY <1>9, <1>10, <1>13
    <2> QED BY <1>4, <1>5, <1>13, <2>1, <2>2
  <1> QED BY <1>1, <1>11, <1>12, <1>13

\* A thing twice: the first of both is the thing.
LEMMA TwiceTheSame == \A p : <<p>> \o <<p>> # <<>> /\ (<<p>> \o <<p>>)[1] = p
  <1>1. \A p : <<p>> \o <<p>> # <<>>
    OBVIOUS
  <1>2. \A p : (<<p>> \o <<p>>)[1] = p
    OBVIOUS
  <1> QED BY <1>1, <1>2

\* Whatever a judge answers, its score and confidence are shares; it passes a run only with a number
\* that is at the threshold or over it, or with NaN, which is the full score; and one that raised or
\* cannot be read has erred: its opinion is then no part of the run's score (judge_task_run,
\* judge.py:27-86; _clamp_float, 360-365).
THEOREM AnswersAreBounded ==
  ASSUME NEW model, NEW rubric \in BOOLEAN, NEW threshold \in Nat \ {0}, NEW promptRaises \in BOOLEAN, NEW session,
         session.answer.payload.score \in Numbers, session.answer.payload.confidence \in Numbers
  PROVE  LET judge == Checks!JudgeRun(model, rubric, threshold, promptRaises, session).result
             answer == session.answer
             number == answer.payload.score
             unread == session.raises # Checks!None
                       \/ (Checks!ExtractJson(answer) = <<>> /\ Checks!ExtractLabeled(answer) = <<>>)
         IN  /\ judge.score \in Shares /\ judge.confidence \in Shares
             /\ judge.enabled /\ unread => judge.error
             /\ judge.passed =>
                  /\ rubric /\ ~promptRaises /\ ~unread /\ judge.score >= threshold
                  /\ \/ number = Checks!NaN
                     \/ \E n \in Int : number = <<n>> /\ n >= threshold
  <1> DEFINE judge == Checks!JudgeRun(model, rubric, threshold, promptRaises, session).result
             answer == session.answer
             number == answer.payload.score
             payload == Checks!ExtractJson(answer) \o Checks!ExtractLabeled(answer)
             score == Checks!Clamp(number)
             confidence == Checks!Clamp(answer.payload.confidence)
             Silent(on) == [enabled |-> on, error |-> on, score |-> 0, confidence |-> 0, passed |-> FALSE]
  <1>1. score \in Shares /\ confidence \in Shares /\ 0 \in Shares
    <2>1. 0 \in Shares
      BY DEF Shares, Scores!One
    <2> QED BY <2>1, ClampIsShare
  <1>2. /\ Checks!ExtractJson(answer) \in {<<>>, <<answer.payload>>}
        /\ Checks!ExtractLabeled(answer) \in {<<>>, <<answer.payload>>}
    BY DEF Checks!ExtractJson, Checks!ExtractLabeled
  <1>3. /\ payload = <<>> <=> Checks!ExtractJson(answer) = <<>> /\ Checks!ExtractLabeled(answer) = <<>>
        /\ payload # <<>> => payload[1] = answer.payload
    <2> DEFINE x == Checks!ExtractJson(answer)
               y == Checks!ExtractLabeled(answer)
               p == answer.payload
    <2>1. x \in {<<>>, <<p>>} /\ y \in {<<>>, <<p>>}
      BY <1>2
    <2> HIDE DEF x, y, p
    <2>2. <<>> \o <<>> = <<>> /\ <<>> \o <<p>> = <<p>> /\ <<p>> \o <<>> = <<p>>
      OBVIOUS
    <2>3. <<p>> # <<>> /\ <<p>>[1] = p
      OBVIOUS
    <2>5. <<p>> \o <<p>> # <<>> /\ (<<p>> \o <<p>>)[1] = p
      BY TwiceTheSame
    <2>4. (x \o y = <<>> <=> x = <<>> /\ y = <<>>) /\ (x \o y # <<>> => (x \o y)[1] = p)
      <3>1. CASE x = <<>> /\ y = <<>>
        BY <3>1, <2>2
      <3>2. CASE x = <<>> /\ y = <<p>>
        BY <3>2, <2>2, <2>3
      <3>3. CASE x = <<p>> /\ y = <<>>
        BY <3>3, <2>2, <2>3
      <3>4. CASE x = <<p>> /\ y = <<p>>
        BY <3>4, <2>3, <2>5
      <3> QED BY <2>1, <3>1, <3>2, <3>3, <3>4
    <2> QED BY <2>4 DEF x, y, p
  <1>4. score >= threshold => number = Checks!NaN \/ \E n \in Int : number = <<n>> /\ n >= threshold
    <2>1. /\ number = <<>> => score = 0
          /\ \A n \in Int : number = <<n>> => score = 0 \/ score <= n
      BY ClampIsShare
    <2>2. number \in {<<>>, Checks!NaN} \/ \E n \in Int : number = <<n>>
      BY DEF Numbers
    <2> HIDE DEF score, number
    <2>3. score \in Int
      BY <1>1 DEF Shares, Scores!One
    <2> QED BY <2>1, <2>2, <2>3
  <1> DEFINE Read == [enabled |-> TRUE, error |-> FALSE, score |-> score, confidence |-> confidence, passed |-> score >= threshold]
  <1>5. Checks!ParseJudge(answer, threshold) = IF payload = <<>> THEN Silent(TRUE) ELSE Read
    <2> HIDE DEF payload
    <2>1. CASE payload = <<>>
      BY <2>1 DEF Checks!ParseJudge, payload
    <2>2. CASE payload # <<>>
      <3>1. payload[1] = answer.payload
        BY <2>2, <1>3 DEF payload
      <3> QED BY <2>2, <3>1 DEF Checks!ParseJudge, payload
    <2> QED BY <2>1, <2>2
  <1>6. judge = IF ~(model # Checks!None /\ rubric) \/ promptRaises THEN Silent(FALSE)
                ELSE IF session.raises = Checks!None THEN Checks!ParseJudge(answer, threshold) ELSE Silent(TRUE)
    BY DEF Checks!JudgeRun
  <1> DEFINE silent == model = Checks!None \/ ~rubric \/ promptRaises
  <1> HIDE DEF judge, payload, score, confidence, number
  <1>7. CASE silent
    BY <1>1, <1>6, <1>7 DEF judge
  <1>8. CASE ~silent /\ (session.raises # Checks!None \/ payload = <<>>)
    <2>1. judge = Silent(TRUE)
      BY <1>5, <1>6, <1>8
    <2> QED BY <2>1, <1>1 DEF judge
  <1>9. CASE ~silent /\ session.raises = Checks!None /\ payload # <<>>
    <2>1. judge = Read
      BY <1>5, <1>6, <1>9
    <2>2. /\ judge.score = score /\ judge.confidence = confidence
          /\ judge.enabled /\ ~judge.error /\ (judge.passed <=> score >= threshold)
      BY <2>1
    <2> QED BY <2>2, <1>1, <1>3, <1>4, <1>9 DEF judge, number
  <1> QED BY <1>7, <1>8, <1>9

-----------------------------------------------------------------------------
\* Where each block of a text ends, with the empty line behind it.
Ends(h, blocks) ==
    /\ h \in [0..Len(blocks) -> Int] /\ h[0] = 0
    /\ \A n \in 1..Len(blocks) : h[n] = h[n - 1] + blocks[n] + 2

\* What the judge was shown so far, out of a budget.
Shown(budget) ==
    {shown \in [blocks : Seq(Nat), remaining : Int] :
        \E h : /\ Ends(h, shown.blocks)
               /\ h[Len(shown.blocks)] + shown.remaining = budget
               /\ shown.blocks = <<>> \/ shown.remaining >= -2}

Artifacts == [kind : {"file", "missing"}, length : Nat]

\* One artifact more is cut to what is left.
LEMMA ShowKeeps ==
  ASSUME NEW budget \in Int, NEW Header \in Nat, NEW shown \in Shown(budget), NEW artifact \in Artifacts
  PROVE  Checks!ShowArtifact(shown, artifact, Header) \in Shown(budget)
  <1> DEFINE left == shown.remaining
             blocks == shown.blocks
             whole == Checks!ArtifactBlock(artifact, left, Header)
             size == Checks!Cut(whole, left)
             N == Len(blocks)
  <1>1. PICK h : Ends(h, blocks) /\ h[N] + left = budget /\ (blocks = <<>> \/ left >= -2)
    BY DEF Shown
  <1>2. left \in Int /\ blocks \in Seq(Nat) /\ N \in Nat
    BY DEF Shown
  <1>3. CASE left <= 0
    BY <1>3 DEF Checks!ShowArtifact
  <1>4. CASE ~(left <= 0)
    <2> DEFINE more == Append(blocks, size)
               after == [blocks |-> more, remaining |-> left - size - 2]
               g == [n \in 0..(N + 1) |-> IF n = N + 1 THEN h[N] + size + 2 ELSE h[n]]
    <2>1. Checks!ShowArtifact(shown, artifact, Header) = after
      BY <1>4 DEF Checks!ShowArtifact
    <2>2. whole \in Nat
      <3>1. \A S : Checks!Max(S) = Max(S)
        BY DEF Checks!Max, Max
      <3> DEFINE room == Max({0, left - Header - 11})
      <3>2. room \in Nat
        <4> DEFINE m == left - Header - 11
        <4>1. m \in Int
          BY <1>2
        <4> HIDE DEF m
        <4>2. Max({0, m}) = IF 0 >= m THEN 0 ELSE m
          BY <4>1, MaxOfTwo
        <4> QED BY <4>1, <4>2 DEF m
      <3>3. whole = IF artifact.kind # "file" THEN Header + 10 ELSE Header + Checks!Cut(artifact.length, room)
        BY <3>1 DEF Checks!ArtifactBlock
      <3> HIDE DEF room
      <3>4. artifact.length \in Nat
        BY DEF Artifacts
      <3>5. Checks!Cut(artifact.length, room) \in Nat
        BY <3>2, <3>4 DEF Checks!Cut
      <3> HIDE DEF whole
      <3> QED BY <3>3, <3>5
    <2> HIDE DEF whole
    <2>3. size \in Nat /\ size <= left
      BY <1>2, <1>4, <2>2 DEF Checks!Cut
    <2> HIDE DEF size, left, blocks
    <2>4. more \in Seq(Nat) /\ Len(more) = N + 1 /\ more[N + 1] = size /\ \A n \in 1..N : more[n] = blocks[n]
      BY <1>2, <2>3
    <2>5. /\ h \in [0..N -> Int] /\ h[0] = 0
          /\ \A n \in 1..N : h[n] = h[n - 1] + blocks[n] + 2
      BY <1>1 DEF Ends
    <2> HIDE DEF N, more
    <2>6. h[N] \in Int /\ N + 1 \in Nat
      BY <1>2, <2>5
    <2>7. g \in [0..(N + 1) -> Int]
      <3>1. \A n \in 0..(N + 1) : n # N + 1 => n \in 0..N
        BY <1>2
      <3> QED BY <3>1, <2>3, <2>5, <2>6
    <2>8. g[0] = 0 /\ g[N + 1] = h[N] + size + 2
      BY <1>2, <2>5
    <2>9. ASSUME NEW n \in 1..(N + 1) PROVE g[n] = g[n - 1] + more[n] + 2
      <3>1. n - 1 \in 0..(N + 1) /\ n - 1 # N + 1 /\ n \in 0..(N + 1) /\ g[n - 1] = h[n - 1]
        BY <1>2
      <3>2. CASE n = N + 1
        BY <3>1, <3>2, <1>2, <2>4
      <3>3. CASE n # N + 1
        <4>1. n \in 1..N /\ g[n] = h[n]
          BY <3>1, <3>3, <1>2
        <4> HIDE DEF g
        <4> QED BY <3>1, <4>1, <2>4, <2>5
      <3> QED BY <3>2, <3>3
    <2> HIDE DEF g
    <2>10. Ends(g, more)
      BY <2>4, <2>7, <2>8, <2>9 DEF Ends
    <2>11. g[Len(more)] + (left - size - 2) = budget /\ left - size - 2 >= -2 /\ left - size - 2 \in Int
      BY <1>1, <1>2, <2>3, <2>4, <2>6, <2>8
    <2>12. after \in Shown(budget)
      BY <2>4, <2>10, <2>11 DEF Shown
    <2> QED BY <2>1, <2>12
  <1> QED BY <1>3, <1>4

\* What the judge is shown of the artifacts fits its budget, with the lines between them
\* (_render_artifacts, judge.py:182-213).
THEOREM ArtifactsFitTheBudget ==
  ASSUME NEW budget \in Nat, NEW Header \in Nat, NEW artifacts \in Seq(Artifacts)
  PROVE  LET blocks == Checks!RenderArtifacts(artifacts, budget, Header)
         IN  /\ blocks \in Seq(Nat)
             /\ \E h : Ends(h, blocks) /\ (blocks # <<>> => h[Len(blocks)] - 2 <= budget)
  <1> DEFINE N == Len(artifacts)
             A == Shown(budget)
             start == [blocks |-> <<>>, remaining |-> budget]
             show(shown, i) == Checks!ShowArtifact(shown, artifacts[i], Header)
             step == [x \in (1..N) \X A |-> show(x[2], x[1])]
             Val(F, S) == IF S = {} THEN start ELSE show(F[S \ {Max(S)}], Max(S))
  <1>1. N \in Nat /\ DOMAIN artifacts = 1..N /\ \A i \in 1..N : artifacts[i] \in Artifacts
    OBVIOUS
  <1>2. start \in A
    <2>1. Ends([n \in 0..0 |-> 0], <<>>)
      BY DEF Ends
    <2>2. start \in [blocks : Seq(Nat), remaining : Int] /\ start.blocks = <<>> /\ start.remaining = budget
      OBVIOUS
    <2> HIDE DEF start
    <2>3. [n \in 0..0 |-> 0][Len(<<>>)] + budget = budget
      OBVIOUS
    <2> QED BY <2>1, <2>2, <2>3 DEF Shown
  <1>3. \A x \in A, i \in 1..N : show(x, i) \in A
    BY <1>1, ShowKeeps
  <1> HIDE DEF show, A, N, start
  <1>4. step \in [(1..N) \X A -> A]
    BY <1>3
  <1>5. PICK F : FoldSteps(F, N, A, start, step)
    <2> HIDE DEF step
    <2> QED BY <1>1, <1>2, <1>4, FoldExists
  <1>6. /\ F \in [SUBSET (1..N) -> A]
        /\ \A S \in SUBSET (1..N) : F[S] = IF S = {} THEN start ELSE step[<<Max(S), F[S \ {Max(S)}]>>]
    <2> HIDE DEF step
    <2> QED BY <1>5 DEF FoldSteps
  <1>7. ASSUME NEW S \in SUBSET (1..N) PROVE F[S] = Val(F, S)
    <2>1. CASE S = {}
      BY <2>1, <1>6
    <2>2. CASE S # {}
      <3>1. Max(S) \in 1..N /\ S \ {Max(S)} \in SUBSET (1..N)
        BY <2>2, <1>1, Greatest
      <3>2. F[S \ {Max(S)}] \in A
        BY <1>6, <3>1
      <3> DEFINE x == <<Max(S), F[S \ {Max(S)}]>>
      <3>3. x \in (1..N) \X A
        BY <3>1, <3>2
      <3>4. F[S] = step[x]
        BY <2>2, <1>6
      <3> QED BY <2>2, <3>3, <3>4
    <2> QED BY <2>1, <2>2
  <1>8. F = [S \in SUBSET (1..N) |-> Val(F, S)]
    <2> HIDE DEF Val
    <2> QED BY <1>6, <1>7
  <1> DEFINE G == CHOOSE G : G = [S \in SUBSET (1..N) |-> Val(G, S)]
  <1>9. G = [S \in SUBSET (1..N) |-> Val(G, S)]
    <2> HIDE DEF Val
    <2> QED BY <1>8
  <1>10. Checks!RenderArtifacts(artifacts, budget, Header) = G[1..N].blocks
    <2>1. \A S : Checks!Max(S) = Max(S)
      BY DEF Checks!Max, Max
    <2> QED BY <2>1, <1>1 DEF Checks!RenderArtifacts, Checks!FoldLeft, Checks!MapThenFoldSet, show, start
  <1> HIDE DEF G
  <1>11. \A n \in 0..N : G[1..n] \in A
    <2> DEFINE Bad == {n \in 0..N : G[1..n] \notin A}
    <2> SUFFICES ASSUME Bad # {} PROVE FALSE
      OBVIOUS
    <2>1. PICK n \in Bad : \A m \in Bad : n <= m
      <3>1. Bad \subseteq Nat
        BY <1>1
      <3> HIDE DEF Bad
      <3> QED BY <3>1, Least
    <2>2. n \in 0..N /\ G[1..n] \notin A
      OBVIOUS
    <2>3. n # 0
      <3> SUFFICES ASSUME n = 0 PROVE FALSE
        OBVIOUS
      <3>1. 1..n = {} /\ {} \in SUBSET (1..N)
        OBVIOUS
      <3>2. G[1..n] = start
        BY <3>1, <1>9
      <3> QED BY <3>2, <2>2, <1>2
    <2>4. n \in 1..N /\ n - 1 \in 0..N /\ ~(n <= n - 1)
      BY <2>2, <2>3, <1>1
    <2>5. G[1..(n - 1)] \in A
      <3>1. n - 1 \notin Bad
        <4> HIDE DEF Bad
        <4> QED BY <2>1, <2>4
      <3> QED BY <3>1, <2>4
    <2>6. 1..n \in SUBSET (1..N) /\ 1..n # {} /\ Max(1..n) = n /\ (1..n) \ {n} = 1..(n - 1)
      BY <1>1, <2>4, FirstPlaces
    <2>7. G[1..n] = Val(G, 1..n)
      <3> HIDE DEF Val
      <3> QED BY <1>9, <2>6
    <2>8. G[1..n] = show(G[1..(n - 1)], n)
      BY <2>6, <2>7
    <2> QED BY <2>2, <2>4, <2>5, <2>8, <1>3
  <1>12. G[1..N] \in A
    BY <1>11, <1>1
  <1> DEFINE shown == G[1..N]
  <1>13. Checks!RenderArtifacts(artifacts, budget, Header) = shown.blocks
    BY <1>10
  <1> HIDE DEF shown
  <1>14. PICK h : /\ Ends(h, shown.blocks) /\ h[Len(shown.blocks)] + shown.remaining = budget
                  /\ shown.blocks = <<>> \/ shown.remaining >= -2
    BY <1>12 DEF A, Shown, shown
  <1>15. shown.remaining \in Int /\ h[Len(shown.blocks)] \in Int
    <2> DEFINE n == Len(shown.blocks)
    <2>1. shown.remaining \in Int /\ shown.blocks \in Seq(Nat)
      BY <1>12 DEF A, Shown, shown
    <2>2. n \in Nat
      BY <2>1
    <2>3. h \in [0..n -> Int]
      BY <1>14 DEF Ends
    <2> HIDE DEF n
    <2>4. n \in 0..n
      BY <2>2
    <2>5. h[n] \in Int
      BY <2>3, <2>4
    <2> QED BY <2>1, <2>5 DEF n
  <1>16. shown.blocks # <<>> => h[Len(shown.blocks)] - 2 <= budget
    <2> DEFINE e == h[Len(shown.blocks)]
               r == shown.remaining
    <2>1. e \in Int /\ r \in Int /\ e + r = budget /\ (shown.blocks # <<>> => r >= -2)
      BY <1>14, <1>15
    <2> HIDE DEF e, r
    <2>2. r >= -2 => e - 2 <= budget
      BY <2>1
    <2> QED BY <2>1, <2>2 DEF e
  <1>17. shown.blocks \in Seq(Nat)
    BY <1>12 DEF A, Shown, shown
  <1> QED BY <1>13, <1>14, <1>16, <1>17
=============================================================================
