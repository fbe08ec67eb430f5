----------------------------- MODULE ExecProofs -----------------------------
(***************************************************************************)
(* Induction, sums over a finite set, and the slots of a program (Exec).   *)
(* The control-flow graph and the interpreter's loader both count slots:   *)
(* where an instruction starts, and that no two start together.  A sum     *)
(* does not depend on the order it is taken in.                            *)
(***************************************************************************)
EXTENDS Exec, FiniteSetTheorems, WellFoundedInduction, TLAPS

-----------------------------------------------------------------------------
(***************************************************************************)
(* Induction.  What is to hold of all numbers, or of all subsets of a      *)
(* finite set, is given as the set of those it holds of.                   *)
(***************************************************************************)

LEMMA LeastElement ==
    ASSUME NEW S \in SUBSET Nat, S # {}
    PROVE  \E m \in S : \A k \in S : m <= k
  <1>1. PICK m \in S : \A k \in S : ~ (<<k, m>> \in OpToRel(<, Nat))
    BY NatLessThanWellFounded, WFMin, Zenon
  <1>2. \A k \in S : ~ (k < m)
    BY <1>1 DEF OpToRel
  <1>. QED  BY <1>2

Inductive(Good) == 0 \in Good /\ \A n \in Nat : n \in Good => n + 1 \in Good

LEMMA NumberInduction == ASSUME NEW Good, Inductive(Good) PROVE Nat \subseteq Good
  <1> DEFINE Bad == Nat \ Good
  <1>1. SUFFICES ASSUME Bad # {} PROVE FALSE
    OBVIOUS
  <1>2. PICK m \in Bad : \A k \in Bad : m <= k
    <2>1. Bad \in SUBSET Nat
      OBVIOUS
    <2> HIDE DEF Bad
    <2>. QED  BY <1>1, <2>1, LeastElement, Zenon
  <1>3. m # 0 /\ m \in Nat /\ m \notin Good
    BY DEF Inductive
  <1>4. m - 1 \in Nat /\ m - 1 + 1 = m
    BY <1>3
  <1>5. m - 1 \in Good
    BY <1>2, <1>4
  <1>. QED  BY <1>3, <1>4, <1>5 DEF Inductive

Closed(S, Good) == \A s \in SUBSET S : (\A x \in s : s \ {x} \in Good) => s \in Good

LEMMA SubsetInduction ==
    ASSUME NEW S, IsFiniteSet(S), NEW Good, Closed(S, Good)
    PROVE  SUBSET S \subseteq Good
  <1> DEFINE Sizes == {n \in Nat : \A s \in SUBSET S : Cardinality(s) = n => s \in Good}
  <1>1. \A s \in SUBSET S : IsFiniteSet(s) /\ Cardinality(s) \in Nat
    BY FS_Subset, FS_CardinalityType
  <1>2. 0 \in Sizes
    <2>1. ASSUME NEW s \in SUBSET S, Cardinality(s) = 0 PROVE s \in Good
      <3>1. s = {}
        BY <1>1, <2>1, FS_EmptySet
      <3>. QED  BY <3>1 DEF Closed
    <2>. QED  BY <2>1
  <1>3. ASSUME NEW n \in Nat, n \in Sizes PROVE n + 1 \in Sizes
    <2>1. ASSUME NEW s \in SUBSET S, Cardinality(s) = n + 1 PROVE s \in Good
      <3>1. ASSUME NEW x \in s PROVE s \ {x} \in Good
        <4>1. s \ {x} \in SUBSET S /\ Cardinality(s \ {x}) = Cardinality(s) - 1
          BY <1>1, FS_RemoveElement
        <4>2. Cardinality(s \ {x}) = n
          BY <2>1, <4>1
        <4>. QED  BY <1>3, <4>1, <4>2
      <3>. QED  BY <3>1 DEF Closed
    <2>. QED  BY <2>1
  <1>4. Nat \subseteq Sizes
    <2>1. Inductive(Sizes)
      <3> HIDE DEF Sizes
      <3>. QED  BY <1>2, <1>3 DEF Inductive
    <2> HIDE DEF Sizes
    <2>. QED  BY <2>1, NumberInduction
  <1>. QED  BY <1>1, <1>4

-----------------------------------------------------------------------------
(***************************************************************************)
(* Sums over a finite set                                                  *)
(***************************************************************************)

\* One step of the sum of the weights over s.
Pick(s) == CHOOSE x \in s : TRUE
SumStep(weight, f, s) == IF s = {} THEN 0 ELSE weight[Pick(s)] + f[s \ {Pick(s)}]

IsSum(S, weight, f) == f = [s \in SUBSET S |-> SumStep(weight, f, s)]
Accumulates(S, weight, g) ==
    g[{}] = 0 /\ \A s \in SUBSET S : \A x \in s : g[s] = weight[x] + g[s \ {x}]

LEMMA SumUnfolds ==
    ASSUME NEW S, NEW weight, NEW f, IsSum(S, weight, f)
    PROVE  \A s \in SUBSET S : f[s] = SumStep(weight, f, s)
  <1> DEFINE h == [s \in SUBSET S |-> SumStep(weight, f, s)]
  <1>1. \A s \in SUBSET S : h[s] = SumStep(weight, f, s)
    OBVIOUS
  <1>2. f = h
    BY DEF IsSum
  <1> HIDE DEF h
  <1>. QED  BY <1>1, <1>2

\* A function that grows by the weight of each element is the sum.
LEMMA SumIs ==
    ASSUME NEW S, IsFiniteSet(S), NEW weight, NEW g, NEW f,
           IsSum(S, weight, f), Accumulates(S, weight, g)
    PROVE  f[S] = g[S]
  <1> DEFINE Good == {s \in SUBSET S : f[s] = g[s]}
  <1>1. ASSUME NEW s \in SUBSET S, \A x \in s : s \ {x} \in Good
        PROVE  f[s] = g[s]
    <2>1. f[s] = SumStep(weight, f, s)
      BY SumUnfolds
    <2>2. CASE s = {}
      BY <2>1, <2>2 DEF SumStep, Accumulates
    <2>3. CASE s # {}
      <3>1. PICK x \in s : x = Pick(s)
        BY <2>3 DEF Pick
      <3>2. f[s] = weight[x] + f[s \ {x}] /\ f[s \ {x}] = g[s \ {x}]
        BY <1>1, <2>1, <2>3, <3>1 DEF SumStep
      <3>. QED  BY <3>2 DEF Accumulates
    <2>. QED  BY <2>2, <2>3
  <1>2. Closed(S, Good)
    BY <1>1 DEF Closed
  <1>3. SUBSET S \subseteq Good
    <2> HIDE DEF Good
    <2>. QED  BY <1>2, SubsetInduction
  <1>. QED  BY <1>3

\* There is one for all weights: a sum over sets of up to n elements makes
\* one over sets of up to n + 1.
LEMMA SumExists ==
    ASSUME NEW S, IsFiniteSet(S), NEW weight
    PROVE  \E f : IsSum(S, weight, f)
  <1> DEFINE Upto(n, f) == /\ f = [s \in SUBSET S |-> f[s]]
                           /\ \A s \in SUBSET S : Cardinality(s) <= n => f[s] = SumStep(weight, f, s)
             Good == {n \in Nat : \E f : Upto(n, f)}
  <1>1. \A s \in SUBSET S : /\ IsFiniteSet(s) /\ Cardinality(s) \in Nat
                            /\ Cardinality(s) <= Cardinality(S)
                            /\ Cardinality(s) = 0 <=> s = {}
    BY FS_Subset, FS_CardinalityType, FS_EmptySet
  <1>2. 0 \in Good
    <2>1. PICK f : f = [s \in SUBSET S |-> 0]
      OBVIOUS
    <2>2. ASSUME NEW s \in SUBSET S, Cardinality(s) <= 0 PROVE f[s] = SumStep(weight, f, s)
      <3>1. s = {}
        BY <1>1, <2>2
      <3>. QED  BY <2>1, <3>1 DEF SumStep
    <2>3. Upto(0, f)
      BY <2>1, <2>2
    <2>. QED  BY <2>3
  <1>3. ASSUME NEW n \in Nat, n \in Good PROVE n + 1 \in Good
    <2>1. PICK f : Upto(n, f)
      BY <1>3
    <2>2. PICK h : h = [s \in SUBSET S |-> IF Cardinality(s) <= n THEN f[s] ELSE SumStep(weight, f, s)]
      OBVIOUS
    <2>3. \A s \in SUBSET S : h[s] = IF Cardinality(s) <= n THEN f[s] ELSE SumStep(weight, f, s)
      BY <2>2
    <2>4. ASSUME NEW s \in SUBSET S, Cardinality(s) <= n + 1 PROVE h[s] = SumStep(weight, h, s)
      <3>1. h[s] = SumStep(weight, f, s)
        BY <2>1, <2>3
      <3>2. CASE s = {}
        BY <3>1, <3>2 DEF SumStep
      <3>3. CASE s # {}
        <4>1. PICK x \in s : x = Pick(s)
          BY <3>3 DEF Pick
        <4>2. s \ {x} \in SUBSET S /\ Cardinality(s \ {x}) = Cardinality(s) - 1
          BY <1>1, FS_RemoveElement
        <4>3. Cardinality(s \ {x}) <= n
          BY <1>1, <2>4, <4>2
        <4>4. h[s \ {x}] = f[s \ {x}]
          BY <2>3, <4>2, <4>3
        <4>. QED  BY <3>1, <3>3, <4>1, <4>4 DEF SumStep
      <3>. QED  BY <3>2, <3>3
    <2>5. h = [s \in SUBSET S |-> h[s]]
      BY <2>2
    <2>6. Upto(n + 1, h)
      BY <2>4, <2>5
    <2> HIDE DEF Upto
    <2>. QED  BY <2>6
  <1>4. Nat \subseteq Good
    <2>1. Inductive(Good)
      <3> HIDE DEF Good
      <3>. QED  BY <1>2, <1>3 DEF Inductive
    <2> HIDE DEF Good
    <2>. QED  BY <2>1, NumberInduction
  <1>5. Cardinality(S) \in Nat
    BY FS_CardinalityType
  <1>6. PICK f : Upto(Cardinality(S), f)
    BY <1>4, <1>5
  <1>7. \A s \in SUBSET S : f[s] = SumStep(weight, f, s)
    BY <1>1, <1>6
  <1>8. f = [s \in SUBSET S |-> SumStep(weight, f, s)]
    BY <1>6, <1>7
  <1>. QED  BY <1>8 DEF IsSum

\* The weights are integers.
Weighs(S, weight) == \A x \in S : weight[x] \in Int

LEMMA SumTyped ==
    ASSUME NEW S, IsFiniteSet(S), NEW weight, NEW f, IsSum(S, weight, f), Weighs(S, weight)
    PROVE  \A s \in SUBSET S : f[s] \in Int
  <1> DEFINE Good == {s \in SUBSET S : f[s] \in Int}
  <1>1. ASSUME NEW s \in SUBSET S, \A x \in s : s \ {x} \in Good
        PROVE  f[s] \in Int
    <2>1. f[s] = SumStep(weight, f, s)
      BY SumUnfolds
    <2>2. CASE s = {}
      BY <2>1, <2>2 DEF SumStep
    <2>3. CASE s # {}
      <3>1. PICK x \in s : x = Pick(s)
        BY <2>3 DEF Pick
      <3>2. f[s \ {x}] \in Int /\ weight[x] \in Int
        BY <1>1 DEF Weighs
      <3>. QED  BY <2>1, <2>3, <3>1, <3>2 DEF SumStep
    <2>. QED  BY <2>2, <2>3
  <1>2. Closed(S, Good)
    BY <1>1 DEF Closed
  <1>3. SUBSET S \subseteq Good
    <2> HIDE DEF Good
    <2>. QED  BY <1>2, SubsetInduction
  <1>. QED  BY <1>3

\* The last term of a sum may be any of them.
LEMMA SumAccumulates ==
    ASSUME NEW S, IsFiniteSet(S), NEW weight, NEW f, IsSum(S, weight, f), Weighs(S, weight)
    PROVE  Accumulates(S, weight, f)
  <1> DEFINE Good == {s \in SUBSET S : \A x \in s : f[s] = weight[x] + f[s \ {x}]}
  <1>1. \A s \in SUBSET S : f[s] \in Int
    BY SumTyped
  <1>2. ASSUME NEW s \in SUBSET S, \A x \in s : s \ {x} \in Good, NEW x \in s
        PROVE  f[s] = weight[x] + f[s \ {x}]
    <2>1. PICK p \in s : p = Pick(s)
      BY DEF Pick
    <2>2. f[s] = weight[p] + f[s \ {p}]
      BY <2>1, SumUnfolds DEF SumStep
    <2>3. CASE x # p
      <3>1. f[s \ {p}] = weight[x] + f[(s \ {p}) \ {x}]
        BY <1>2, <2>3
      <3>2. f[s \ {x}] = weight[p] + f[(s \ {x}) \ {p}]
        BY <1>2, <2>3
      <3>3. (s \ {p}) \ {x} = (s \ {x}) \ {p} /\ (s \ {x}) \ {p} \in SUBSET S
        OBVIOUS
      <3>4. PICK a \in Int, b \in Int, c \in Int :
               a = weight[x] /\ b = weight[p] /\ c = f[(s \ {x}) \ {p}]
        BY <1>1, <3>3 DEF Weighs
      <3>5. f[s] = b + (a + c) /\ f[s \ {x}] = b + c
        BY <2>2, <3>1, <3>2, <3>3, <3>4
      <3>. QED  BY <3>4, <3>5
    <2>. QED  BY <2>2, <2>3
  <1>3. Closed(S, Good)
    BY <1>2 DEF Closed
  <1>4. SUBSET S \subseteq Good
    <2> HIDE DEF Good
    <2>. QED  BY <1>3, SubsetInduction
  <1>5. f[{}] = 0
    BY SumUnfolds DEF SumStep
  <1>. QED  BY <1>4, <1>5 DEF Accumulates

\* The sum of the community modules is one of these.
LEMMA FunctionSum ==
    ASSUME NEW S, IsFiniteSet(S), NEW weight
    PROVE  \E f : IsSum(S, weight, f) /\ SumFunctionOnSet(weight, S) = f[S]
  <1> DEFINE Sum(f) == f = [s \in SUBSET S |->
                              IF s = {} THEN 0 ELSE weight[Pick(s)] + f[s \ {Pick(s)}]]
  <1>1. ASSUME NEW f PROVE Sum(f) <=> IsSum(S, weight, f)
    BY Zenon DEF IsSum, SumStep
  <1>2. SumFunctionOnSet(weight, S) = (CHOOSE f : Sum(f))[S]
    BY DEF SumFunctionOnSet, FoldFunctionOnSet, MapThenFoldSet, Pick
  <1> HIDE DEF Sum
  <1>3. \E f : Sum(f)
    BY <1>1, SumExists
  <1>4. PICK f : f = (CHOOSE h : Sum(h)) /\ Sum(f)
    BY <1>3
  <1>. QED  BY <1>1, <1>2, <1>4

LEMMA FunctionSumTyped ==
    ASSUME NEW S, IsFiniteSet(S), NEW weight, \A x \in S : weight[x] \in Nat
    PROVE  SumFunctionOnSet(weight, S) \in Nat
  <1>1. PICK f : IsSum(S, weight, f) /\ SumFunctionOnSet(weight, S) = f[S]
    BY FunctionSum
  <1>2. Accumulates(S, weight, f)
    BY <1>1, SumAccumulates DEF Weighs
  <1> DEFINE Good == {s \in SUBSET S : f[s] \in Nat}
  <1>3. ASSUME NEW s \in SUBSET S, \A x \in s : s \ {x} \in Good PROVE f[s] \in Nat
    <2>1. CASE s = {}
      BY <1>2, <2>1 DEF Accumulates
    <2>2. CASE s # {}
      <3>1. PICK x \in s : f[s] = weight[x] + f[s \ {x}]
        BY <1>2, <2>2 DEF Accumulates
      <3>2. weight[x] \in Nat /\ f[s \ {x}] \in Nat
        BY <1>3
      <3>. QED  BY <3>1, <3>2
    <2>. QED  BY <2>1, <2>2
  <1>4. Closed(S, Good)
    BY <1>3 DEF Closed
  <1>5. SUBSET S \subseteq Good
    <2> HIDE DEF Good
    <2>. QED  BY <1>4, SubsetInduction
  <1>. QED  BY <1>1, <1>5

\* When no weight grows the sum does not grow either, and what one weight loses
\* the sum loses.
LEMMA FunctionSumBelow ==
    ASSUME NEW S, IsFiniteSet(S), NEW v, NEW w, Weighs(S, v), Weighs(S, w),
           \A x \in S : v[x] <= w[x]
    PROVE  /\ SumFunctionOnSet(v, S) \in Int /\ SumFunctionOnSet(w, S) \in Int
           /\ SumFunctionOnSet(v, S) <= SumFunctionOnSet(w, S)
           /\ \A t \in S : \A d \in Nat : v[t] + d <= w[t] =>
                 SumFunctionOnSet(v, S) + d <= SumFunctionOnSet(w, S)
  <1>1. PICK f : IsSum(S, v, f) /\ SumFunctionOnSet(v, S) = f[S]
    BY FunctionSum
  <1>2. PICK g : IsSum(S, w, g) /\ SumFunctionOnSet(w, S) = g[S]
    BY FunctionSum
  <1>3. /\ Accumulates(S, v, f) /\ \A s \in SUBSET S : f[s] \in Int
        /\ Accumulates(S, w, g) /\ \A s \in SUBSET S : g[s] \in Int
    BY <1>1, <1>2, SumAccumulates, SumTyped
  <1> DEFINE Good == {s \in SUBSET S : f[s] <= g[s]}
  <1>4. ASSUME NEW s \in SUBSET S, \A x \in s : s \ {x} \in Good PROVE f[s] <= g[s]
    <2>1. CASE s = {}
      BY <1>3, <2>1 DEF Accumulates
    <2>2. CASE s # {}
      <3>1. PICK x \in s : TRUE
        BY <2>2
      <3>2. f[s] = v[x] + f[s \ {x}] /\ g[s] = w[x] + g[s \ {x}]
        BY <1>3 DEF Accumulates
      <3>3. v[x] <= w[x] /\ v[x] \in Int /\ w[x] \in Int
        BY DEF Weighs
      <3>4. f[s \ {x}] \in Int /\ g[s \ {x}] \in Int /\ f[s \ {x}] <= g[s \ {x}]
        BY <1>3, <1>4
      <3>. QED  BY <3>2, <3>3, <3>4
    <2>. QED  BY <2>1, <2>2
  <1>5. Closed(S, Good)
    BY <1>4 DEF Closed
  <1>6. SUBSET S \subseteq Good
    <2> HIDE DEF Good
    <2>. QED  BY <1>5, SubsetInduction
  <1>7. ASSUME NEW t \in S, NEW d \in Nat, v[t] + d <= w[t] PROVE f[S] + d <= g[S]
    <2>1. f[S] = v[t] + f[S \ {t}] /\ g[S] = w[t] + g[S \ {t}]
      BY <1>3 DEF Accumulates
    <2>2. S \ {t} \in SUBSET S
      OBVIOUS
    <2>3. f[S \ {t}] \in Int /\ g[S \ {t}] \in Int /\ f[S \ {t}] <= g[S \ {t}]
      BY <1>3, <1>6, <2>2
    <2>4. v[t] \in Int /\ w[t] \in Int
      BY DEF Weighs
    <2>. QED  BY <1>7, <2>1, <2>3, <2>4
  <1>. QED  BY <1>1, <1>2, <1>3, <1>6, <1>7

\* Terms that fit between the members of a growing series, each in a place
\* of its own: digits and their powers.
Places(n, p) ==
    /\ \A i \in 0 .. n : p[i] \in Int
    /\ \A i \in 0 .. (n - 1) : p[i] <= p[i + 1]
Digits(S, n, weight, p) ==
    \A i \in S : i \in 0 .. (n - 1) /\ weight[i] \in Nat /\ weight[i] <= p[i + 1] - p[i]

LEMMA SumBelow ==
    ASSUME NEW n \in Nat, NEW p, Places(n, p), NEW S, IsFiniteSet(S),
           NEW weight, Digits(S, n, weight, p), NEW f, IsSum(S, weight, f)
    PROVE  f[S] \in 0 .. (p[n] - p[0])
  <1> DEFINE Good == {m \in Nat : m <= n =>
                        \A s \in SUBSET S : s \subseteq 0 .. (m - 1) => f[s] \in 0 .. (p[m] - p[0])}
  <1>1. Accumulates(S, weight, f)
    <2>1. Weighs(S, weight)
      BY DEF Weighs, Digits
    <2>. QED  BY <2>1, SumAccumulates
  <1>2. 0 \in Good
    <2>1. ASSUME NEW s \in SUBSET S, s \subseteq 0 .. (0 - 1) PROVE f[s] \in 0 .. (p[0] - p[0])
      <3>1. s = {} /\ p[0] \in Int
        BY <2>1 DEF Places
      <3>. QED  BY <1>1, <3>1 DEF Accumulates
    <2>. QED  BY <2>1
  <1>3. ASSUME NEW m \in Nat, m \in Good PROVE m + 1 \in Good
    <2>1. ASSUME m + 1 <= n, NEW s \in SUBSET S, s \subseteq 0 .. (m + 1 - 1)
          PROVE  f[s] \in 0 .. (p[m + 1] - p[0])
      <3>1. p[m] \in Int /\ p[m + 1] \in Int /\ p[m] <= p[m + 1] /\ m <= n /\ p[0] \in Int
        BY <2>1 DEF Places
      <3>2. CASE m \notin s
        <4>1. s \subseteq 0 .. (m - 1)
          BY <2>1, <3>2
        <4>2. f[s] \in 0 .. (p[m] - p[0])
          BY <1>3, <3>1, <4>1
        <4>. QED  BY <3>1, <4>2
      <3>3. CASE m \in s
        <4>1. s \ {m} \in SUBSET S /\ s \ {m} \subseteq 0 .. (m - 1)
          BY <2>1
        <4>2. f[s \ {m}] \in 0 .. (p[m] - p[0])
          BY <1>3, <3>1, <4>1
        <4>3. f[s] = weight[m] + f[s \ {m}]
          BY <1>1, <3>3 DEF Accumulates
        <4>4. weight[m] \in Nat /\ weight[m] <= p[m + 1] - p[m]
          BY <3>3 DEF Digits
        <4>. QED  BY <3>1, <4>2, <4>3, <4>4
      <3>. QED  BY <3>2, <3>3
    <2>. QED  BY <2>1
  <1>4. Nat \subseteq Good
    <2>1. Inductive(Good)
      <3> HIDE DEF Good
      <3>. QED  BY <1>2, <1>3 DEF Inductive
    <2> HIDE DEF Good
    <2>. QED  BY <2>1, NumberInduction
  <1>5. S \subseteq 0 .. (n - 1)
    BY DEF Digits
  <1>. QED  BY <1>4, <1>5

\* Terms that a number divides do not show in the remainder.
Congruent(a, b, m) == \E q \in Int : a = b + q * m
Divides(S, T, weight, m) == \A x \in S \ T : \E q \in Int : weight[x] = q * m

LEMMA SumModulo ==
    ASSUME NEW S, IsFiniteSet(S), NEW weight, Weighs(S, weight), NEW f, IsSum(S, weight, f),
           NEW T, NEW m \in Int, Divides(S, T, weight, m)
    PROVE  Congruent(f[S], f[S \cap T], m)
  <1> DEFINE Good == {s \in SUBSET S : \E q \in Int : f[s] = f[s \cap T] + q * m}
  <1>1. Accumulates(S, weight, f) /\ \A s \in SUBSET S : f[s] \in Int
    BY SumAccumulates, SumTyped
  <1>2. ASSUME NEW s \in SUBSET S, \A x \in s : s \ {x} \in Good
        PROVE  \E q \in Int : f[s] = f[s \cap T] + q * m
    <2>1. CASE s = {}
      <3>1. PICK k \in Int : k = f[s] /\ k = f[s \cap T]
        BY <1>1, <2>1
      <3>2. k = k + 0 * m
        OBVIOUS
      <3>3. \E q \in Int : k = k + q * m
        BY <3>2
      <3>. QED  BY <3>1, <3>3
    <2>2. ASSUME NEW x \in s PROVE \E q \in Int : f[s] = f[s \cap T] + q * m
      <3>1. PICK q \in Int : f[s \ {x}] = f[(s \ {x}) \cap T] + q * m
        BY <1>2
      <3>2. f[s] = weight[x] + f[s \ {x}] /\ weight[x] \in Int
        BY <1>1 DEF Accumulates, Weighs
      <3>3. CASE x \in T
        <4>1. (s \ {x}) \cap T = (s \cap T) \ {x} /\ x \in s \cap T /\ s \cap T \in SUBSET S
              /\ (s \cap T) \ {x} \in SUBSET S
          BY <3>3
        <4>2. f[s \cap T] = weight[x] + f[(s \cap T) \ {x}]
          BY <1>1, <4>1 DEF Accumulates
        <4>3. PICK a \in Int, b \in Int, c \in Int : a = weight[x] /\ b = f[(s \cap T) \ {x}] /\ c = q * m
          BY <1>1, <3>2, <4>1
        <4>4. f[s] = a + (b + c) /\ f[s \cap T] = a + b
          BY <3>1, <3>2, <4>1, <4>2, <4>3
        <4>. QED  BY <4>3, <4>4
      <3>4. CASE x \notin T
        <4>1. (s \ {x}) \cap T = s \cap T /\ s \cap T \in SUBSET S
          BY <3>4
        <4>2. PICK r \in Int : weight[x] = r * m
          BY <3>4 DEF Divides
        <4>3. PICK b \in Int : b = f[s \cap T]
          BY <1>1, <4>1
        <4>4. f[s] = r * m + (b + q * m)
          BY <3>1, <3>2, <4>1, <4>2, <4>3
        <4>5. r * m + (b + q * m) = b + (r + q) * m /\ r + q \in Int
          OBVIOUS
        <4>6. f[s] = b + (r + q) * m
          BY <4>4, <4>5
        <4>. QED  BY <4>3, <4>5, <4>6
      <3>. QED  BY <3>3, <3>4
    <2>. QED  BY <2>1, <2>2
  <1>3. Closed(S, Good)
    BY <1>2 DEF Closed
  <1>4. SUBSET S \subseteq Good
    <2> HIDE DEF Good
    <2>. QED  BY <1>3, SubsetInduction
  <1>5. \E q \in Int : f[S] = f[S \cap T] + q * m
    BY <1>4
  <1>. QED  BY <1>5 DEF Congruent

-----------------------------------------------------------------------------
(***************************************************************************)
(* Slots                                                                   *)
(***************************************************************************)

\* How many slots the instructions at the positions in s take.
Wide(c, s) == {j \in s : c[j].insn = "LoadImm64"}
SlotCount(c, s) == Cardinality(s) + Cardinality(Wide(c, s))

LEMMA SlotCountSteps ==
    ASSUME NEW c, NEW S, IsFiniteSet(S), NEW s \in SUBSET S
    PROVE  /\ SlotCount(c, s) \in Nat /\ IsFiniteSet(s) /\ IsFiniteSet(Wide(c, s))
           /\ s = {} => SlotCount(c, s) = 0
           /\ \A x \in s : SlotCount(c, s) = Slots(c[x]) + SlotCount(c, s \ {x})
  <1>1. IsFiniteSet(s) /\ IsFiniteSet(Wide(c, s))
    <2>1. Wide(c, s) \in SUBSET S
      BY DEF Wide
    <2>. QED  BY <2>1, FS_Subset
  <1>2. Cardinality(s) \in Nat /\ Cardinality(Wide(c, s)) \in Nat
    BY <1>1, FS_CardinalityType
  <1>3. s = {} => SlotCount(c, s) = 0
    <2>1. s = {} => Wide(c, s) = {}
      BY DEF Wide
    <2>. QED  BY <2>1, FS_EmptySet DEF SlotCount
  <1>4. ASSUME NEW x \in s
        PROVE  SlotCount(c, s) = Slots(c[x]) + SlotCount(c, s \ {x})
    <2>1. Cardinality(s \ {x}) = Cardinality(s) - 1
      BY <1>1, FS_RemoveElement
    <2>2. Wide(c, s \ {x}) = Wide(c, s) \ {x}
      BY DEF Wide
    <2>3. Cardinality(Wide(c, s) \ {x}) =
             IF x \in Wide(c, s) THEN Cardinality(Wide(c, s)) - 1 ELSE Cardinality(Wide(c, s))
      BY <1>1, FS_RemoveElement
    <2>4. x \in Wide(c, s) <=> c[x].insn = "LoadImm64"
      BY DEF Wide
    <2>5. SlotCount(c, s \ {x}) = Cardinality(s) - 1 + Cardinality(Wide(c, s) \ {x})
      BY <2>1, <2>2 DEF SlotCount
    <2>6. CASE c[x].insn = "LoadImm64"
      <3>1. Cardinality(Wide(c, s) \ {x}) = Cardinality(Wide(c, s)) - 1 /\ Slots(c[x]) = 2
        BY <2>3, <2>4, <2>6 DEF Slots
      <3>. QED  BY <1>2, <2>5, <3>1 DEF SlotCount
    <2>7. CASE c[x].insn # "LoadImm64"
      <3>1. Cardinality(Wide(c, s) \ {x}) = Cardinality(Wide(c, s)) /\ Slots(c[x]) = 1
        BY <2>3, <2>4, <2>7 DEF Slots
      <3>. QED  BY <1>2, <2>5, <3>1 DEF SlotCount
    <2>. QED  BY <2>6, <2>7
  <1>. QED  BY <1>1, <1>2, <1>3, <1>4 DEF SlotCount

LEMMA SlotsAreCounted ==
    ASSUME NEW c, NEW i \in Nat
    PROVE  Slot(c, i) = SlotCount(c, 1 .. (i - 1)) /\ Slot(c, i) \in Nat
  <1> DEFINE S == 1 .. (i - 1)
             Sum(f) == f = [s \in SUBSET S |->
                              IF s = {} THEN 0 ELSE Slots(c[Pick(s)]) + f[s \ {Pick(s)}]]
             g == [s \in SUBSET S |-> SlotCount(c, s)]
             weight == [j \in S |-> Slots(c[j])]
  <1>1. IsFiniteSet(S)
    BY FS_Interval
  <1>2. Accumulates(S, weight, g)
    <2>1. \A s \in SUBSET S : \A x \in s :
             g[s \ {x}] = SlotCount(c, s \ {x}) /\ weight[x] = Slots(c[x]) /\ g[s] = SlotCount(c, s)
      OBVIOUS
    <2>2. g[{}] = SlotCount(c, {})
      OBVIOUS
    <2> HIDE DEF g, weight, S
    <2>3. SlotCount(c, {}) = 0
      <3>1. {} \in SUBSET S
        OBVIOUS
      <3>. QED  BY <1>1, <3>1, SlotCountSteps
    <2>4. \A s \in SUBSET S : \A x \in s : SlotCount(c, s) = Slots(c[x]) + SlotCount(c, s \ {x})
      BY <1>1, SlotCountSteps
    <2>. QED  BY <2>1, <2>2, <2>3, <2>4 DEF Accumulates
  <1>3. \A s \in SUBSET S : s # {} => Pick(s) \in s
    BY DEF Pick
  <1>4. Sum(g)
    <2>1. ASSUME NEW s \in SUBSET S
          PROVE  SlotCount(c, s) = IF s = {} THEN 0 ELSE Slots(c[Pick(s)]) + g[s \ {Pick(s)}]
      <3>1. g[s] = SlotCount(c, s) /\ (s # {} => weight[Pick(s)] = Slots(c[Pick(s)]))
        BY <1>3
      <3> HIDE DEF g, weight
      <3>. QED  BY <1>2, <1>3, <3>1 DEF Accumulates
    <2>. QED  BY <2>1
  <1>5. PICK f : f = (CHOOSE h : Sum(h)) /\ Sum(f)
    <2> HIDE DEF Sum, g
    <2>. QED  BY <1>4
  <1>6. IsSum(S, weight, f)
    <2>1. \A s \in SUBSET S :
             SumStep(weight, f, s) = IF s = {} THEN 0 ELSE Slots(c[Pick(s)]) + f[s \ {Pick(s)}]
      BY <1>3 DEF SumStep
    <2>2. f = [s \in SUBSET S |-> IF s = {} THEN 0 ELSE Slots(c[Pick(s)]) + f[s \ {Pick(s)}]]
      BY <1>5
    <2> HIDE DEF g, weight, S, Sum
    <2>. QED  BY <2>1, <2>2, Zenon DEF IsSum
  <1>7. Slot(c, i) = (CHOOSE h : Sum(h))[S]
    BY DEF Slot, MapThenSumSet, MapThenFoldSet, Pick
  <1>8. g[S] = SlotCount(c, S)
    OBVIOUS
  <1> HIDE DEF Sum, g, weight, S
  <1>9. f[S] = g[S]
    BY <1>1, <1>2, <1>6, SumIs, Zenon
  <1>10. SlotCount(c, S) \in Nat
    <2>1. S \in SUBSET S
      OBVIOUS
    <2>. QED  BY <1>1, <2>1, SlotCountSteps
  <1>. QED  BY <1>5, <1>7, <1>8, <1>9, <1>10 DEF S

\* No two instructions start at the same slot.
LEMMA SlotsDiffer ==
    ASSUME NEW c, NEW i \in Nat \ {0}, NEW j \in Nat, i < j
    PROVE  Slot(c, i) < Slot(c, j)
  <1> DEFINE Before(k) == 1 .. (k - 1)
  <1>1. /\ IsFiniteSet(Before(i)) /\ IsFiniteSet(Before(j))
        /\ Cardinality(Before(i)) = i - 1 /\ Cardinality(Before(j)) = j - 1
    BY FS_Interval
  <1>2. Wide(c, Before(i)) \in SUBSET Wide(c, Before(j))
    BY DEF Wide
  <1> HIDE DEF Before
  <1>3. IsFiniteSet(Wide(c, Before(j))) /\ IsFiniteSet(Wide(c, Before(i)))
    BY <1>1, SlotCountSteps
  <1>4. /\ Cardinality(Wide(c, Before(i))) <= Cardinality(Wide(c, Before(j)))
        /\ Cardinality(Wide(c, Before(i))) \in Nat /\ Cardinality(Wide(c, Before(j))) \in Nat
    BY <1>2, <1>3, FS_Subset, FS_CardinalityType
  <1>. QED  BY <1>1, <1>4, SlotsAreCounted DEF SlotCount, Before

\* The next instruction starts behind the slots of this one.
LEMMA SlotStep ==
    ASSUME NEW c, NEW i \in Nat \ {0}
    PROVE  Slot(c, i + 1) = Slot(c, i) + Slots(c[i])
  <1>1. PICK S, T : S = 1 .. i /\ T = 1 .. (i - 1)
    OBVIOUS
  <1>2. IsFiniteSet(S) /\ S \in SUBSET S /\ i \in S /\ S \ {i} = T
    <2>1. IsFiniteSet(1 .. i)
      BY FS_Interval
    <2>2. i \in S /\ S \ {i} = T
      BY <1>1
    <2>. QED  BY <1>1, <2>1, <2>2
  <1>3. \A x \in S : SlotCount(c, S) = Slots(c[x]) + SlotCount(c, S \ {x})
    BY <1>2, SlotCountSteps
  <1>4. SlotCount(c, S) = Slots(c[i]) + SlotCount(c, T)
    BY <1>2, <1>3
  <1>5. Slot(c, i) = SlotCount(c, T) /\ Slot(c, i) \in Nat
    BY <1>1, SlotsAreCounted
  <1>6. Slot(c, i + 1) = SlotCount(c, S)
    <2>1. i + 1 \in Nat \ {0} /\ i + 1 - 1 = i
      OBVIOUS
    <2>2. Slot(c, i + 1) = SlotCount(c, 1 .. (i + 1 - 1))
      BY <2>1, SlotsAreCounted
    <2>. QED  BY <1>1, <2>1, <2>2
  <1>7. Slots(c[i]) \in Nat
    BY DEF Slots
  <1>8. PICK a \in Nat, b \in Nat : a = Slots(c[i]) /\ b = Slot(c, i)
    BY <1>5, <1>7
  <1>. QED  BY <1>4, <1>5, <1>6, <1>8

LEMMA FirstSlot == \A c : Slot(c, 1) = 0
  <1> TAKE c
  <1>1. 1 .. (1 - 1) = {}
    OBVIOUS
  <1>2. SlotCount(c, {}) = 0
    BY FS_EmptySet, SlotCountSteps
  <1>. QED  BY <1>1, <1>2, SlotsAreCounted

\* The slots of the instructions lie within the program, and each of them
\* belongs to one instruction.
LEMMA SlotsInside ==
    ASSUME NEW c, NEW n \in Nat, DOMAIN c = 1 .. n, NEW i \in 1 .. n
    PROVE  /\ Slot(c, i) \in 0 .. (Slot(c, n + 1) - 1)
           /\ At(c, Slot(c, i)) = {i}
  <1>1. Slot(c, i) \in Nat /\ Slot(c, n + 1) \in Nat /\ Slot(c, i) < Slot(c, n + 1)
    BY SlotsAreCounted, SlotsDiffer
  <1>2. ASSUME NEW j \in 1 .. n, Slot(c, j) = Slot(c, i) PROVE j = i
    <2>1. Slot(c, j) \in Nat /\ j \in Nat \ {0} /\ i \in Nat \ {0}
      BY SlotsAreCounted
    <2>2. i < j => Slot(c, i) < Slot(c, j)
      BY <2>1, SlotsDiffer
    <2>3. j < i => Slot(c, j) < Slot(c, i)
      BY <2>1, SlotsDiffer
    <2>. QED  BY <1>1, <1>2, <2>1, <2>2, <2>3
  <1>. QED  BY <1>1, <1>2 DEF At

=============================================================================
