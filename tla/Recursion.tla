------------------------------ MODULE Recursion ------------------------------
(***************************************************************************)
(* Induction and recursion, in terms of sets and functions: facts about    *)
(* what the recursive functions of the other modules and the folds of the  *)
(* community modules compute.                                              *)
(***************************************************************************)
EXTENDS Integers, FiniteSets, WellFoundedInduction, FiniteSetTheorems, TLAPS

(* A set of natural numbers has a least one. *)
LEMMA Least ==
  ASSUME NEW S \in SUBSET Nat, S # {}
  PROVE  \E n \in S : \A m \in S : n <= m
<1>1. IsWellFoundedOn(OpToRel(<, Nat), Nat)
  BY NatLessThanWellFounded, Zenon
<1>2. PICK n \in S : \A m \in S : ~ (<<m, n>> \in OpToRel(<, Nat))
  BY <1>1, WFMin
<1>3. \A m \in S : ~ (m < n)
  BY <1>2 DEF OpToRel
<1> QED
  BY <1>3

(* Induction, with the set of the numbers that have the property. *)
LEMMA Induction ==
  ASSUME NEW S, 0 \in S, \A n \in Nat : n \in S => n + 1 \in S
  PROVE  Nat \subseteq S
<1> SUFFICES ASSUME NEW k \in Nat, k \notin S PROVE FALSE
  OBVIOUS
<1>1. PICK n \in Nat \ S : \A m \in Nat \ S : n <= m
  BY Least
<1>2. n # 0 /\ n - 1 \in Nat
  BY <1>1
<1>3. n - 1 \in S
  BY <1>1, <1>2
<1> QED
  BY <1>2, <1>3

(* The function g on D goes from x to the recursive call next[x] until it  *)
(* meets an argument of stop.                                              *)
Recursive(g, D, stop, base, step, next) ==
  \A x \in D : g[x] = IF x \in stop THEN base[x] ELSE step[x][g[next[x]]]

(* The measure of the argument falls with each call. *)
Ends(D, stop, next, measure) ==
  /\ next \in [D -> D]
  /\ measure \in [D -> Nat]
  /\ \A x \in D \ stop : measure[next[x]] < measure[x]

(* Two such functions agree. *)
LEMMA RecursionUnique ==
  ASSUME NEW D, NEW stop, NEW base, NEW step, NEW next, NEW measure,
         Ends(D, stop, next, measure),
         NEW C \in SUBSET D, \A x \in C \ stop : next[x] \in C,
         NEW g, Recursive(g, C, stop, base, step, next),
         NEW h, Recursive(h, C, stop, base, step, next)
  PROVE  \A x \in C : g[x] = h[x]
<1> DEFINE S == {n \in Nat : \A x \in C : measure[x] < n => g[x] = h[x]}
<1>1. 0 \in S
  BY DEF Ends
<1>2. ASSUME NEW n \in Nat, n \in S PROVE n + 1 \in S
  <2> SUFFICES ASSUME NEW x \in C, measure[x] < n + 1 PROVE g[x] = h[x]
    OBVIOUS
  <2>1. CASE x \in stop
    BY <2>1 DEF Recursive
  <2>2. CASE x \notin stop
    <3>1. next[x] \in C /\ measure[next[x]] < measure[x] /\ measure[x] \in Nat /\ measure[next[x]] \in Nat
      BY <2>2 DEF Ends
    <3>2. g[next[x]] = h[next[x]]
      BY <3>1, <1>2
    <3> QED
      BY <3>2, <2>2 DEF Recursive
  <2> QED
    BY <2>1, <2>2
<1>3. Nat \subseteq S
  <2> HIDE DEF S
  <2> QED
    BY <1>1, <1>2, Induction
<1> SUFFICES ASSUME NEW x \in C PROVE g[x] = h[x]
  OBVIOUS
<1>4. measure[x] + 1 \in S /\ measure[x] \in Nat /\ measure[x] < measure[x] + 1
  BY <1>3 DEF Ends
<1> QED
  BY <1>4

(* There is one. *)
LEMMA RecursionExists ==
  ASSUME NEW D, NEW stop, NEW base, NEW step, NEW next, NEW measure,
         Ends(D, stop, next, measure),
         NEW R, \A x \in D : base[x] \in R, \A x \in D \ stop, r \in R : step[x][r] \in R
  PROVE  \E g \in [D -> R] : Recursive(g, D, stop, base, step, next)
<1> DEFINE Below(n) == {x \in D : measure[x] < n}
           Good(g, n) == g \in [Below(n) -> R] /\ Recursive(g, Below(n), stop, base, step, next)
           S == {n \in Nat : \E g : Good(g, n)}
<1>0. \A n \in Nat : Below(n) \in SUBSET D /\ \A x \in Below(n) \ stop : next[x] \in Below(n)
  BY DEF Ends
<1>1. 0 \in S
  <2>1. Below(0) = {}
    BY DEF Ends
  <2>2. Good([x \in {} |-> base[x]], 0)
    BY <2>1 DEF Recursive
  <2> QED
    BY <2>2
<1>2. ASSUME NEW n \in Nat, n \in S PROVE n + 1 \in S
  <2>1. PICK g : Good(g, n)
    BY <1>2
  <2> DEFINE h == [x \in Below(n + 1) |-> IF x \in stop THEN base[x] ELSE step[x][g[next[x]]]]
  <2>2. ASSUME NEW x \in Below(n + 1), x \notin stop PROVE next[x] \in Below(n) /\ next[x] \in D
    BY <2>2 DEF Ends
  <2>3. \A x \in Below(n) : h[x] = g[x]
    <3>1. \A x \in Below(n) : x \in Below(n + 1)
      BY DEF Ends
    <3> QED
      BY <3>1, <2>1 DEF Recursive
  <2>4. h \in [Below(n + 1) -> R]
    <3> SUFFICES ASSUME NEW x \in Below(n + 1) PROVE h[x] \in R
      OBVIOUS
    <3>1. CASE x \in stop
      BY <3>1
    <3>2. CASE x \notin stop
      <4>1. g[next[x]] \in R
        BY <3>2, <2>2, <2>1
      <4> QED
        BY <4>1, <3>2
    <3> QED
      BY <3>1, <3>2
  <2>5. Recursive(h, Below(n + 1), stop, base, step, next)
    <3> SUFFICES ASSUME NEW x \in Below(n + 1)
                 PROVE  h[x] = IF x \in stop THEN base[x] ELSE step[x][h[next[x]]]
      BY DEF Recursive
    <3>1. x \notin stop => h[next[x]] = g[next[x]]
      BY <2>2, <2>3
    <3> QED
      BY <3>1
  <2>6. Good(h, n + 1)
    BY <2>4, <2>5
  <2> HIDE DEF h, Good
  <2> QED
    BY <2>6
<1>3. Nat \subseteq S
  <2> HIDE DEF S
  <2> QED
    BY <1>1, <1>2, Induction
<1> DEFINE G(n) == CHOOSE g : Good(g, n)
           f == [x \in D |-> G(measure[x] + 1)[x]]
<1>4. \A n \in Nat : Good(G(n), n)
  BY <1>3
<1>5. ASSUME NEW k \in Nat, NEW n \in Nat, k <= n PROVE \A x \in Below(k) : G(k)[x] = G(n)[x]
  <2>1. Recursive(G(k), Below(k), stop, base, step, next)
    BY <1>4
  <2>2. Recursive(G(n), Below(n), stop, base, step, next)
    BY <1>4
  <2>3. Below(k) \subseteq Below(n)
    BY <1>5 DEF Ends
  <2>4. Recursive(G(n), Below(k), stop, base, step, next)
    BY <2>2, <2>3 DEF Recursive
  <2> HIDE DEF G, Below
  <2> QED
    BY <2>1, <2>4, <1>0, RecursionUnique
<1>6. \A x \in D : measure[x] \in Nat /\ measure[x] + 1 \in Nat /\ x \in Below(measure[x] + 1)
  BY DEF Ends
<1>7. f \in [D -> R]
  <2> HIDE DEF G
  <2> QED
    BY <1>4, <1>6
<1>8. Recursive(f, D, stop, base, step, next)
  <2> SUFFICES ASSUME NEW x \in D
               PROVE  f[x] = IF x \in stop THEN base[x] ELSE step[x][f[next[x]]]
    BY DEF Recursive
  <2> HIDE DEF G
  <2>1. G(measure[x] + 1)[x]
          = IF x \in stop THEN base[x] ELSE step[x][G(measure[x] + 1)[next[x]]]
    BY <1>4, <1>6 DEF Recursive
  <2>2. ASSUME x \notin stop PROVE f[next[x]] = G(measure[x] + 1)[next[x]]
    <3>1. next[x] \in D /\ measure[next[x]] + 1 <= measure[x] + 1
      BY <2>2 DEF Ends
    <3>2. measure[next[x]] + 1 \in Nat /\ measure[x] + 1 \in Nat /\ next[x] \in Below(measure[next[x]] + 1)
      BY <3>1, <1>6
    <3> HIDE DEF Below
    <3>3. G(measure[next[x]] + 1)[next[x]] = G(measure[x] + 1)[next[x]]
      BY <3>1, <3>2, <1>5
    <3> QED
      BY <3>1, <3>3
  <2> QED
    BY <2>1, <2>2
<1> QED
  BY <1>7, <1>8

(***************************************************************************)
(* Loops: functions that only pass on what the recursive call returns.     *)
(***************************************************************************)
(* The function f runs from x to next[x] until it meets an argument of     *)
(* stop, and returns what base has there.                                  *)
Iteration(f, D, stop, base, next) ==
  f = [x \in D |-> IF x \in stop THEN base[x] ELSE f[next[x]]]

(* A loop that ends is defined. *)
LEMMA IterationExists ==
  ASSUME NEW D, NEW stop, NEW base, NEW next, NEW measure, Ends(D, stop, next, measure)
  PROVE  \E f : Iteration(f, D, stop, base, next)
<1> DEFINE R == {base[x] : x \in D}
           step == [x \in D |-> [r \in R |-> r]]
<1>1. \A x \in D : base[x] \in R
  OBVIOUS
<1>2. \A x \in D \ stop, r \in R : step[x][r] \in R
  OBVIOUS
<1>3. \A x \in D, r \in R : step[x][r] = r
  OBVIOUS
<1> HIDE DEF R, step
<1>4. PICK f \in [D -> R] : Recursive(f, D, stop, base, step, next)
  BY <1>1, <1>2, RecursionExists
<1>5. \A x \in D : f[next[x]] \in R
  BY DEF Ends
<1>6. \A x \in D : f[x] = IF x \in stop THEN base[x] ELSE f[next[x]]
  BY <1>3, <1>4, <1>5 DEF Recursive
<1> QED
  BY <1>6 DEF Iteration

(* What holds of the arguments on the way holds where the loop stops. *)
LEMMA IterationRule ==
  ASSUME NEW D, NEW stop, NEW base, NEW next, NEW measure, Ends(D, stop, next, measure),
         NEW f, Iteration(f, D, stop, base, next),
         NEW I \in SUBSET D, \A x \in I \ stop : next[x] \in I
  PROVE  \A x \in I : \E y \in I \cap stop : f[x] = base[y]
<1> DEFINE S == {n \in Nat : \A x \in I : measure[x] < n => \E y \in I \cap stop : f[x] = base[y]}
<1>1. 0 \in S
  BY DEF Ends
<1>2. ASSUME NEW n \in Nat, n \in S PROVE n + 1 \in S
  <2> SUFFICES ASSUME NEW x \in I, measure[x] < n + 1 PROVE \E y \in I \cap stop : f[x] = base[y]
    OBVIOUS
  <2>1. CASE x \in stop
    BY <2>1 DEF Iteration
  <2>2. CASE x \notin stop
    <3>1. next[x] \in I /\ measure[next[x]] < measure[x] /\ measure[x] \in Nat /\ measure[next[x]] \in Nat
      BY <2>2 DEF Ends
    <3>2. PICK y \in I \cap stop : f[next[x]] = base[y]
      BY <3>1, <1>2
    <3> QED
      BY <3>2, <2>2 DEF Iteration
  <2> QED
    BY <2>1, <2>2
<1>3. Nat \subseteq S
  <2> HIDE DEF S
  <2> QED
    BY <1>1, <1>2, Induction
<1> SUFFICES ASSUME NEW x \in I PROVE \E y \in I \cap stop : f[x] = base[y]
  OBVIOUS
<1>4. measure[x] + 1 \in S /\ measure[x] \in Nat /\ measure[x] < measure[x] + 1
  BY <1>3 DEF Ends
<1> QED
  BY <1>4

(***************************************************************************)
(* Sums over a finite set, as MapThenSumSet computes them.                 *)
(***************************************************************************)
Some(s) == CHOOSE x \in s : TRUE

(* The function that MapThenSumSet computes for the summands f. *)
IsSum(g, f, S) ==
  g = [s \in SUBSET S |-> IF s = {} THEN 0 ELSE f[Some(s)] + g[s \ {Some(s)}]]

(* What removing an element does to a finite set. *)
LEMMA FiniteSubset ==
  ASSUME NEW S, IsFiniteSet(S), NEW T \in SUBSET S
  PROVE  /\ IsFiniteSet(T) /\ Cardinality(T) \in Nat
         /\ \A x \in T : Cardinality(T \ {x}) = Cardinality(T) - 1
         /\ T = {} <=> Cardinality(T) = 0
<1>1. IsFiniteSet(T)
  BY FS_Subset
<1> QED
  BY <1>1, FS_CardinalityType, FS_RemoveElement, FS_EmptySet

(* The fold removes an element with each call. *)
LEMMA SumEnds ==
  ASSUME NEW S, IsFiniteSet(S)
  PROVE  Ends(SUBSET S, {{}}, [s \in SUBSET S |-> s \ {Some(s)}], [s \in SUBSET S |-> Cardinality(s)])
<1>1. ASSUME NEW s \in SUBSET S PROVE s \ {Some(s)} \in SUBSET S /\ Cardinality(s) \in Nat
  BY FiniteSubset
<1>2. ASSUME NEW s \in SUBSET S, s # {} PROVE Cardinality(s \ {Some(s)}) < Cardinality(s)
  <2>1. Some(s) \in s
    BY <1>2 DEF Some
  <2>2. Cardinality(s \ {Some(s)}) = Cardinality(s) - 1 /\ Cardinality(s) \in Nat
    BY <2>1, FiniteSubset
  <2> QED
    BY <2>2
<1> QED
  BY <1>1, <1>2 DEF Ends

SumStep(f, S) == [s \in SUBSET S |-> [r \in Int |-> f[Some(s)] + r]]

(* The fold as a recursive function. *)
LEMMA SumIsRecursive ==
  ASSUME NEW S, NEW f, NEW g \in [SUBSET S -> Int]
  PROVE  IsSum(g, f, S) <=>
           Recursive(g, SUBSET S, {{}}, [s \in SUBSET S |-> 0], SumStep(f, S), [s \in SUBSET S |-> s \ {Some(s)}])
<1>1. ASSUME NEW s \in SUBSET S
      PROVE  /\ s \ {Some(s)} \in SUBSET S
             /\ SumStep(f, S)[s][g[s \ {Some(s)}]] = f[Some(s)] + g[s \ {Some(s)}]
  BY DEF SumStep
<1> QED
  BY <1>1 DEF Recursive, IsSum

(* So the fold is defined, ... *)
LEMMA SumExists ==
  ASSUME NEW S, IsFiniteSet(S), NEW f \in [S -> Int]
  PROVE  \E g \in [SUBSET S -> Int] : IsSum(g, f, S)
<1> DEFINE base == [s \in SUBSET S |-> 0]
           next == [s \in SUBSET S |-> s \ {Some(s)}]
           measure == [s \in SUBSET S |-> Cardinality(s)]
<1>1. ASSUME NEW s \in (SUBSET S) \ {{}}, NEW r \in Int PROVE SumStep(f, S)[s][r] \in Int
  BY DEF SumStep, Some
<1>2. \A s \in SUBSET S : base[s] \in Int
  OBVIOUS
<1>3. Ends(SUBSET S, {{}}, next, measure)
  BY SumEnds
<1>4. \A g \in [SUBSET S -> Int] :
        IsSum(g, f, S) <=> Recursive(g, SUBSET S, {{}}, base, SumStep(f, S), next)
  BY SumIsRecursive
<1> HIDE DEF base, next, measure
<1>5. \E g \in [SUBSET S -> Int] : Recursive(g, SUBSET S, {{}}, base, SumStep(f, S), next)
  BY <1>1, <1>2, <1>3, RecursionExists
<1> QED
  BY <1>4, <1>5

(* ... and is one function, ... *)
LEMMA SumUnique ==
  ASSUME NEW S, IsFiniteSet(S), NEW f, NEW g, IsSum(g, f, S), NEW h, IsSum(h, f, S)
  PROVE  g = h
<1> DEFINE C == {n \in Nat : \A s \in SUBSET S : Cardinality(s) = n => g[s] = h[s]}
<1>0. \A s \in SUBSET S : s # {} => Some(s) \in s /\ s \ {Some(s)} \in SUBSET S
  BY DEF Some
<1>1. 0 \in C
  BY FiniteSubset DEF IsSum
<1>2. ASSUME NEW n \in Nat, n \in C PROVE n + 1 \in C
  <2> SUFFICES ASSUME NEW s \in SUBSET S, Cardinality(s) = n + 1 PROVE g[s] = h[s]
    OBVIOUS
  <2>1. s # {}
    BY FiniteSubset
  <2>2. Cardinality(s \ {Some(s)}) = n
    BY <2>1, <1>0, FiniteSubset
  <2>3. g[s \ {Some(s)}] = h[s \ {Some(s)}]
    BY <2>1, <2>2, <1>0, <1>2
  <2> QED
    BY <2>1, <2>3, <1>0 DEF IsSum
<1>3. Nat \subseteq C
  <2> HIDE DEF C
  <2> QED
    BY <1>1, <1>2, Induction
<1>4. \A s \in SUBSET S : g[s] = h[s]
  BY <1>3, FiniteSubset
<1> QED
  BY <1>4 DEF IsSum

(* ... of numbers. *)
LEMMA SumType ==
  ASSUME NEW S, IsFiniteSet(S), NEW f \in [S -> Int], NEW g, IsSum(g, f, S)
  PROVE  g \in [SUBSET S -> Int]
<1>1. PICK h \in [SUBSET S -> Int] : IsSum(h, f, S)
  BY SumExists
<1> QED
  BY <1>1, SumUnique

(* A sum does not depend on the order in which it chooses its summands. *)
LEMMA SumRemove ==
  ASSUME NEW S, IsFiniteSet(S), NEW f \in [S -> Int], NEW g, IsSum(g, f, S),
         NEW t \in SUBSET S, NEW y \in t
  PROVE  g[t] = f[y] + g[t \ {y}]
<1> DEFINE C == {n \in Nat : \A s \in SUBSET S : Cardinality(s) = n =>
                                \A x \in s : g[s] = f[x] + g[s \ {x}]}
<1>1. g \in [SUBSET S -> Int]
  BY SumType
<1>2. 0 \in C
  BY FiniteSubset
<1>3. ASSUME NEW n \in Nat, n \in C PROVE n + 1 \in C
  <2> SUFFICES ASSUME NEW s \in SUBSET S, Cardinality(s) = n + 1, NEW x \in s
               PROVE  g[s] = f[x] + g[s \ {x}]
    OBVIOUS
  <2>1. PICK c \in s : c = Some(s)
    BY DEF Some
  <2>2. g[s] = f[c] + g[s \ {c}]
    BY <2>1 DEF IsSum
  <2>3. CASE x = c
    BY <2>2, <2>3
  <2>4. CASE x # c
    <3>1. /\ s \ {c} \in SUBSET S /\ s \ {x} \in SUBSET S
          /\ Cardinality(s \ {c}) = n /\ Cardinality(s \ {x}) = n
      BY FiniteSubset
    <3>2. g[s \ {c}] = f[x] + g[(s \ {c}) \ {x}]
      BY <3>1, <2>4, <1>3
    <3>3. g[s \ {x}] = f[c] + g[(s \ {x}) \ {c}]
      BY <3>1, <2>4, <1>3
    <3>4. (s \ {x}) \ {c} = (s \ {c}) \ {x} /\ (s \ {c}) \ {x} \in SUBSET S
      OBVIOUS
    <3>5. f[c] \in Int /\ f[x] \in Int /\ g[(s \ {c}) \ {x}] \in Int
      BY <1>1, <3>4
    <3> DEFINE rest == g[(s \ {c}) \ {x}]
    <3>6. g[s \ {x}] = f[c] + rest /\ g[s] = f[c] + (f[x] + rest)
      BY <2>2, <3>2, <3>3, <3>4
    <3> HIDE DEF rest
    <3> QED
      BY <3>5, <3>6 DEF rest
  <2> QED
    BY <2>3, <2>4
<1>4. Nat \subseteq C
  <2> HIDE DEF C
  <2> QED
    BY <1>2, <1>3, Induction
<1> QED
  BY <1>4, FiniteSubset

(* The sum of the values of a function. *)
Sum(f) == (CHOOSE g : IsSum(g, f, DOMAIN f))[DOMAIN f]

Without(f, x) == [y \in DOMAIN f \ {x} |-> f[y]]

(* A sum of numbers is a number, and zero without any. *)
LEMMA SumInt ==
  ASSUME NEW S, IsFiniteSet(S), NEW f \in [S -> Int]
  PROVE  Sum(f) \in Int /\ (S = {} => Sum(f) = 0)
<1> DEFINE g == CHOOSE h : IsSum(h, f, S)
<1>1. IsSum(g, f, S)
  BY SumExists
<1>2. Sum(f) = g[S]
  BY DEF Sum
<1> HIDE DEF g
<1>3. g \in [SUBSET S -> Int]
  BY <1>1, SumType
<1>4. S = {} => g[S] = 0
  BY <1>1 DEF IsSum
<1> QED
  BY <1>2, <1>3, <1>4

(* A summand can be taken out. *)
LEMMA SumWithout ==
  ASSUME NEW S, IsFiniteSet(S), NEW f \in [S -> Int], NEW x \in S
  PROVE  Sum(f) = f[x] + Sum(Without(f, x))
<1> DEFINE T == S \ {x}
           e == Without(f, x)
           g == CHOOSE h : IsSum(h, f, S)
           k == CHOOSE h : IsSum(h, e, T)
           r == [s \in SUBSET T |-> g[s]]
<1>1. T \in SUBSET S /\ S \in SUBSET S /\ T \in SUBSET T /\ IsFiniteSet(T) /\ T = S \ {x}
  BY FS_Subset
<1>2. e \in [T -> Int] /\ \A y \in T : e[y] = f[y]
  BY DEF Without
<1>3. IsSum(g, f, S)
  BY SumExists
<1>4. Sum(f) = g[S]
  BY DEF Sum
<1> HIDE DEF e, T, g
<1>5. IsSum(k, e, T)
  BY <1>1, <1>2, SumExists
<1>6. Sum(e) = k[T]
  BY <1>2 DEF Sum
<1> HIDE DEF k
<1>7. IsSum(r, e, T)
  <2>1. ASSUME NEW s \in SUBSET T, s # {}
        PROVE  Some(s) \in T /\ s \ {Some(s)} \in SUBSET T /\ s \in SUBSET S
    BY <2>1, <1>1 DEF Some
  <2> QED
    BY <2>1, <1>1, <1>2, <1>3 DEF IsSum
<1> HIDE DEF r
<1>8. k = r
  BY <1>1, <1>5, <1>7, SumUnique
<1>9. g[S] = f[x] + g[S \ {x}]
  BY <1>1, <1>3, SumRemove
<1> QED
  BY <1>1, <1>4, <1>6, <1>8, <1>9 DEF r, e
=============================================================================
