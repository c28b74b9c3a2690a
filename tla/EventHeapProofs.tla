-------------------------- MODULE EventHeapProofs --------------------------
(***************************************************************************)
(* Theorems of EventHeap: the slice stays a heap, and the heap keeps the   *)
(* promise of EventQueue, for any events and any length of the queue.      *)
(***************************************************************************)
EXTENDS EventHeap, Recursion, SequenceTheorems

(***************************************************************************)
(* The order of the events, and the slices.                                *)
(***************************************************************************)
LEMMA LessOrder ==
  ASSUME NEW a \in Events, NEW b \in Events, NEW c \in Events
  PROVE  /\ Less(a, b) => ~Less(b, a)
         /\ Less(a, b) /\ ~Less(c, b) => ~Less(c, a)
         /\ ~Less(b, a) /\ ~Less(c, b) => ~Less(c, a)
<1>1. a.block \in Nat /\ b.block \in Nat /\ c.block \in Nat /\ a.idx \in Nat /\ b.idx \in Nat /\ c.idx \in Nat
  BY EventsAssumption
<1> QED
  BY <1>1 DEF Less

(* The parent of a position, as the children see it. *)
LEMMA Parent ==
  ASSUME NEW j \in Nat, j > 1
  PROVE  /\ j \div 2 \in Nat /\ 1 <= j \div 2 /\ j \div 2 < j
         /\ 2 * (j \div 2) <= j /\ j <= 2 * (j \div 2) + 1
  OBVIOUS

Copies(s, x) == {i \in DOMAIN s : s[i] = x}

(* The slices with the same events. *)
Same(s, t) == t \in Seq(Events) /\ Len(t) = Len(s) /\ ToBag(t) = ToBag(s)

LEMMA BagOf ==
  ASSUME NEW s \in Seq(Events)
  PROVE  /\ ToBag(s) = [x \in {s[i] : i \in DOMAIN s} |-> Cardinality(Copies(s, x))]
         /\ \A x : IsFiniteSet(Copies(s, x)) /\ Cardinality(Copies(s, x)) \in Nat
         /\ \A x : x \in DOMAIN ToBag(s) <=> Copies(s, x) # {}
<1>1. ToBag(s) = [x \in {s[i] : i \in DOMAIN s} |-> Cardinality(Copies(s, x))]
  BY DEF ToBag, Range, Copies
<1>2. ASSUME NEW x PROVE IsFiniteSet(Copies(s, x)) /\ Cardinality(Copies(s, x)) \in Nat
  <2>1. IsFiniteSet(1..Len(s)) /\ Copies(s, x) \subseteq 1..Len(s)
    BY FS_Interval DEF Copies
  <2> QED
    BY <2>1, FS_Subset, FS_CardinalityType
<1>3. \A x : x \in DOMAIN ToBag(s) <=> Copies(s, x) # {}
  BY <1>1 DEF Copies
<1> QED
  BY <1>1, <1>2, <1>3

LEMMA SameBag ==
  ASSUME NEW s \in Seq(Events), NEW t \in Seq(Events),
         \A x : Cardinality(Copies(s, x)) = Cardinality(Copies(t, x))
  PROVE  ToBag(s) = ToBag(t)
<1>1. \A x : Copies(s, x) = {} <=> Copies(t, x) = {}
  BY BagOf, FS_EmptySet
<1>2. DOMAIN ToBag(s) = DOMAIN ToBag(t)
  BY <1>1, BagOf
<1> QED
  BY <1>2, BagOf

LEMMA SwapOK ==
  ASSUME NEW s \in Seq(Events), NEW i \in DOMAIN s, NEW j \in DOMAIN s
  PROVE  /\ Same(s, Swap(s, i, j))
         /\ Swap(s, i, j)[i] = s[j] /\ Swap(s, i, j)[j] = s[i]
         /\ \A k \in DOMAIN s \ {i, j} : Swap(s, i, j)[k] = s[k]
<1> DEFINE t == Swap(s, i, j)
           tau == [k \in DOMAIN s |-> IF k = i THEN j ELSE IF k = j THEN i ELSE k]
<1>1. t \in Seq(Events) /\ Len(t) = Len(s) /\ DOMAIN t = DOMAIN s
  BY DEF Swap
<1>2. t[i] = s[j] /\ t[j] = s[i] /\ \A k \in DOMAIN s \ {i, j} : t[k] = s[k]
  BY DEF Swap
<1> HIDE DEF t
<1>3. \A k \in DOMAIN s : tau[k] \in DOMAIN s /\ t[tau[k]] = s[k] /\ tau[tau[k]] = k
  BY <1>2
<1> HIDE DEF tau
<1>4. ASSUME NEW x PROVE Cardinality(Copies(s, x)) = Cardinality(Copies(t, x))
  <2> DEFINE S == Copies(s, x)
             T == Copies(t, x)
             f == [k \in S |-> tau[k]]
  <2>1. \A k \in S : f[k] = tau[k] /\ tau[k] \in T
    BY <1>1, <1>3 DEF Copies
  <2>2. \A k \in T : tau[k] \in S /\ tau[tau[k]] = k
    BY <1>1, <1>3 DEF Copies
  <2>3. S \subseteq DOMAIN s
    BY DEF Copies
  <2>4. f \in Bijection(S, T)
    <3>1. f \in [S -> T]
      BY <2>1
    <3>2. \A a, b \in S : f[a] = f[b] => a = b
      BY <2>1, <2>3, <1>3
    <3>3. \A b \in T : \E a \in S : f[a] = b
      BY <2>1, <2>2
    <3> HIDE DEF f, S, T
    <3> QED
      BY <3>1, <3>2, <3>3 DEF Bijection, Injection, Surjection, IsInjective
  <2> HIDE DEF f
  <2>5. ExistsBijection(S, T)
    BY <2>4 DEF ExistsBijection
  <2>6. IsFiniteSet(S)
    BY BagOf
  <2> HIDE DEF S, T
  <2>7. Cardinality(S) = Cardinality(T)
    BY <2>5, <2>6, FS_Bijection
  <2> QED
    BY <2>7 DEF S, T
<1>5. ToBag(t) = ToBag(s)
  BY <1>1, <1>4, SameBag
<1> QED
  BY <1>1, <1>2, <1>5 DEF Same, t

(***************************************************************************)
(* Up.                                                                     *)
(***************************************************************************)
(* The argument of a call: an event of a slice. *)
UpStops == {x \in Places : ~(x[2] > 1 /\ Less(x[1][x[2]], x[1][x[2] \div 2]))}

UpNext ==
  [x \in Places |-> IF x \in UpStops THEN x ELSE <<Swap(x[1], x[2] \div 2, x[2]), x[2] \div 2>>]

LEMMA UpEnds == Ends(Places, UpStops, UpNext, [x \in Places |-> x[2]])
<1>1. ASSUME NEW x \in Places, x \notin UpStops
      PROVE  /\ <<Swap(x[1], x[2] \div 2, x[2]), x[2] \div 2>> \in Places
             /\ x[2] \div 2 < x[2]
  <2>1. x[1] \in Seq(Events) /\ x[2] \in DOMAIN x[1] /\ x[2] \in Nat /\ x[2] > 1
    BY <1>1 DEF Places, UpStops
  <2>2. x[2] \div 2 \in Nat /\ 1 <= x[2] \div 2 /\ x[2] \div 2 < x[2]
    BY <2>1, Parent
  <2>3. x[2] \div 2 \in DOMAIN x[1]
    BY <2>1, <2>2
  <2>4. Swap(x[1], x[2] \div 2, x[2]) \in Seq(Events) /\ Len(Swap(x[1], x[2] \div 2, x[2])) = Len(x[1])
    <3>1. Same(x[1], Swap(x[1], x[2] \div 2, x[2]))
      BY <2>1, <2>3, SwapOK
    <3> QED
      BY <3>1 DEF Same
  <2>5. x[2] \div 2 \in DOMAIN Swap(x[1], x[2] \div 2, x[2])
    BY <2>1, <2>3, <2>4
  <2> QED
    BY <2>2, <2>4, <2>5 DEF Places
<1>2. \A x \in Places : x[2] \in Nat
  BY DEF Places
<1>3. UpNext \in [Places -> Places]
  BY <1>1 DEF UpNext
<1> QED
  BY <1>1, <1>2, <1>3 DEF Ends, UpNext

LEMMA UpIterates == Iteration(Up, Places, UpStops, [x \in Places |-> x[1]], UpNext)
<1> DEFINE base == [x \in Places |-> x[1]]
           body(f) == [x \in Places |-> IF x[2] > 1 /\ Less(x[1][x[2]], x[1][x[2] \div 2])
                                        THEN f[<<Swap(x[1], x[2] \div 2, x[2]), x[2] \div 2>>] ELSE x[1]]
<1>1. Up = CHOOSE f : f = body(f)
  BY DEF Up
<1>2. \A f : Iteration(f, Places, UpStops, base, UpNext) <=> f = body(f)
  BY DEF Iteration, UpStops, UpNext
<1> HIDE DEF body
<1>3. \E f : Iteration(f, Places, UpStops, base, UpNext)
  BY UpEnds, IterationExists
<1> QED
  BY <1>1, <1>2, <1>3

(* A heap but for the item at k, which may be before its parent. *)
Rising(s, k) ==
  /\ \A j \in 2..Len(s) : j # k => ~Less(s[j], s[j \div 2])
  /\ k > 1 => \A j \in 2..Len(s) : j \div 2 = k => ~Less(s[j], s[k \div 2])

LEMMA RisingStep ==
  ASSUME NEW s \in Seq(Events), NEW k \in DOMAIN s, Rising(s, k), k > 1, Less(s[k], s[k \div 2])
  PROVE  Rising(Swap(s, k \div 2, k), k \div 2)
<1> DEFINE i == k \div 2
           t == Swap(s, i, k)
<1>1. k \in Nat /\ i \in Nat /\ 1 <= i /\ i < k /\ i \in DOMAIN s /\ DOMAIN s = 1..Len(s)
  <2>1. k \in 1..Len(s) /\ k \in Nat /\ DOMAIN s = 1..Len(s) /\ Len(s) \in Nat
    OBVIOUS
  <2>2. i \in Nat /\ 1 <= i /\ i < k
    BY <2>1, Parent
  <2> QED
    BY <2>1, <2>2
<1>2. /\ Len(t) = Len(s) /\ t[i] = s[k] /\ t[k] = s[i]
      /\ \A j \in DOMAIN s \ {i, k} : t[j] = s[j]
  <2>1. /\ Same(s, t) /\ t[i] = s[k] /\ t[k] = s[i]
        /\ \A j \in DOMAIN s \ {i, k} : t[j] = s[j]
    BY <1>1, SwapOK
  <2> QED
    BY <2>1 DEF Same
<1>3. \A j \in DOMAIN s : s[j] \in Events
  OBVIOUS
<1>4. \A j \in 2..Len(s) : j \in DOMAIN s /\ j \div 2 \in DOMAIN s /\ j \div 2 < j /\ j \in Nat /\ j > 1
  BY <1>1, Parent
<1>5. Less(s[k], s[i])
  OBVIOUS
<1>6. /\ \A j \in 2..Len(s) : j # k => ~Less(s[j], s[j \div 2])
      /\ \A j \in 2..Len(s) : j \div 2 = k => ~Less(s[j], s[i])
  BY DEF Rising
<1> HIDE DEF t
<1>7. ASSUME NEW j \in 2..Len(s), j # i PROVE ~Less(t[j], t[j \div 2])
  <2>1. CASE j = k
    BY <2>1, <1>1, <1>2, <1>3, <1>5, LessOrder
  <2>2. CASE j # k /\ j \div 2 = i
    <3>1. t[j] = s[j] /\ ~Less(s[j], s[i]) /\ s[j] \in Events /\ s[i] \in Events /\ s[k] \in Events
      BY <2>2, <1>1, <1>2, <1>3, <1>4, <1>6, <1>7
    <3>2. ~Less(s[j], s[k])
      BY <3>1, <1>5, LessOrder
    <3> QED
      BY <2>2, <3>1, <3>2, <1>2
  <2>3. CASE j # k /\ j \div 2 = k
    BY <2>3, <1>1, <1>2, <1>4, <1>6, <1>7
  <2>4. CASE j # k /\ j \div 2 # k /\ j \div 2 # i
    BY <2>4, <1>1, <1>2, <1>4, <1>6, <1>7
  <2> QED
    BY <2>1, <2>2, <2>3, <2>4
<1>8. ASSUME i > 1, NEW j \in 2..Len(s), j \div 2 = i PROVE ~Less(t[j], t[i \div 2])
  <2>1. i \div 2 \in DOMAIN s /\ i \div 2 < i /\ ~Less(s[i], s[i \div 2]) /\ i # k /\ i \div 2 # k
    BY <1>1, <1>4, <1>6, <1>8
  <2>2. t[i \div 2] = s[i \div 2]
    BY <1>1, <1>2, <2>1
  <2>3. CASE j = k
    BY <2>1, <2>2, <2>3, <1>2
  <2>4. CASE j # k
    <3>1. t[j] = s[j] /\ ~Less(s[j], s[i])
      BY <2>4, <1>1, <1>2, <1>4, <1>6, <1>8
    <3>2. s[j] \in Events /\ s[i] \in Events /\ s[i \div 2] \in Events
      BY <1>1, <1>3, <1>4, <2>1
    <3> QED
      BY <2>1, <2>2, <3>1, <3>2, LessOrder
  <2> QED
    BY <2>3, <2>4
<1> QED
  BY <1>2, <1>7, <1>8 DEF Rising, t

Heap(s) == \A j \in 2..Len(s) : ~Less(s[j], s[j \div 2])

(* A new last item of a heap ends up where the slice is a heap again. *)
LEMMA UpOK ==
  ASSUME NEW s \in Seq(Events), NEW k \in DOMAIN s, Rising(s, k)
  PROVE  Same(s, Up[<<s, k>>]) /\ Heap(Up[<<s, k>>])
<1> DEFINE I == {x \in Places : Same(s, x[1]) /\ Rising(x[1], x[2])}
           base == [x \in Places |-> x[1]]
           measure == [x \in Places |-> x[2]]
<1>1. ASSUME NEW x \in I, x \notin UpStops PROVE UpNext[x] \in I
  <2> DEFINE t == x[1]
             j == x[2]
             i == j \div 2
  <2>1. /\ x \in Places /\ t \in Seq(Events) /\ j \in DOMAIN t /\ Same(s, t) /\ Rising(t, j)
        /\ j > 1 /\ Less(t[j], t[i])
    BY <1>1 DEF Places, UpStops
  <2>2. UpNext[x] = <<Swap(t, i, j), i>> /\ UpNext[x] \in Places
    BY <1>1, <2>1, UpEnds DEF UpNext, Ends
  <2> HIDE DEF t, j
  <2>3. i \in DOMAIN t
    <3>1. j \in Nat
      BY <2>1
    <3> QED
      BY <2>1, <3>1, Parent
  <2>4. Same(s, Swap(t, i, j))
    BY <2>1, <2>3, SwapOK DEF Same
  <2>5. Rising(Swap(t, i, j), i)
    BY <2>1, RisingStep
  <2> QED
    BY <2>2, <2>4, <2>5
<1>2. <<s, k>> \in I
  BY DEF Places, Same
<1>3. \A x \in I \cap UpStops : Same(s, base[x]) /\ Heap(base[x])
  <2> SUFFICES ASSUME NEW x \in I, x \in UpStops PROVE Same(s, x[1]) /\ Heap(x[1])
    OBVIOUS
  <2>1. x[2] \in Nat /\ Same(s, x[1]) /\ Rising(x[1], x[2]) /\ ~(x[2] > 1 /\ Less(x[1][x[2]], x[1][x[2] \div 2]))
    BY DEF Places, UpStops
  <2>2. ASSUME NEW j \in 2..Len(x[1]) PROVE ~Less(x[1][j], x[1][j \div 2])
    <3>1. CASE j = x[2]
      BY <2>1, <3>1
    <3>2. CASE j # x[2]
      BY <2>1, <3>2 DEF Rising
    <3> QED
      BY <3>1, <3>2
  <2> QED
    BY <2>1, <2>2 DEF Heap
<1>4. Ends(Places, UpStops, UpNext, measure) /\ Iteration(Up, Places, UpStops, base, UpNext)
  BY UpEnds, UpIterates
<1>5. I \in SUBSET Places
  OBVIOUS
<1> HIDE DEF I, base, measure
<1>6. \A x \in I : \E y \in I \cap UpStops : Up[x] = base[y]
  BY <1>1, <1>4, <1>5, IterationRule
<1> QED
  BY <1>2, <1>3, <1>6

(***************************************************************************)
(* Down.                                                                   *)
(***************************************************************************)
(* The earlier child of a position, for the arguments of a call. *)
EarlierChild(x) == Child(x[1], x[2], Len(x[1]) - 1)

DownStops ==
  {x \in Places : ~(2 * x[2] <= Len(x[1]) - 1 /\ Less(x[1][EarlierChild(x)], x[1][x[2]]))}

DownNext ==
  [x \in Places |-> IF x \in DownStops THEN x
                    ELSE <<Swap(x[1], x[2], EarlierChild(x)), EarlierChild(x)>>]

(* No child of i, but for the last item, is before its child c. *)
Earlier(s, i, c) ==
  /\ c \in Nat /\ i < c /\ c <= Len(s) - 1 /\ c \in DOMAIN s /\ c \div 2 = i
  /\ \A j \in 2..(Len(s) - 1) : j \div 2 = i => ~Less(s[j], s[c])

LEMMA ChildOK ==
  ASSUME NEW s \in Seq(Events), NEW i \in DOMAIN s, 2 * i <= Len(s) - 1
  PROVE  Earlier(s, i, Child(s, i, Len(s) - 1))
<1> DEFINE n == Len(s) - 1
           c == Child(s, i, n)
<1>0. n \in Nat /\ 2 * i <= n /\ n = Len(s) - 1
  OBVIOUS
<1> HIDE DEF n
<1>1. i \in Nat /\ 1 <= i /\ DOMAIN s = 1..Len(s)
  OBVIOUS
<1>2. c \in {2 * i, 2 * i + 1} /\ c <= n
  BY <1>0, <1>1 DEF Child
<1> HIDE DEF c
<1>3. c \in Nat /\ i < c /\ c \in DOMAIN s /\ c \div 2 = i
  BY <1>0, <1>1, <1>2
<1>4. \A j \in 2..n : j \div 2 = i => j \in {2 * i, 2 * i + 1}
  BY <1>0, <1>1
<1>5. \A j \in DOMAIN s : s[j] \in Events
  OBVIOUS
<1>6. \A a \in Events : ~Less(a, a)
  BY LessOrder
<1>7. ASSUME NEW j \in 2..n, j \div 2 = i PROVE ~Less(s[j], s[c])
  <2>1. j \in {2 * i, 2 * i + 1} /\ j \in DOMAIN s
    BY <1>0, <1>1, <1>4, <1>7
  <2>2. CASE j = c
    BY <2>1, <2>2, <1>5, <1>6
  <2>3. CASE j # c /\ c = 2 * i + 1
    <3>1. j = 2 * i /\ Less(s[2 * i + 1], s[2 * i])
      BY <2>1, <2>3, <1>1 DEF Child, c
    <3>2. s[2 * i] \in Events /\ s[2 * i + 1] \in Events
      BY <2>1, <2>3, <3>1, <1>3, <1>5
    <3> QED
      BY <3>1, <3>2, <2>3, LessOrder
  <2>4. CASE j # c /\ c = 2 * i
    <3>0. j = 2 * i + 1 /\ 2 * i < n
      BY <2>1, <2>4, <1>0, <1>1
    <3>1. ~Less(s[2 * i + 1], s[2 * i])
      BY <2>4, <3>0, <1>1 DEF Child, c
    <3> QED
      BY <3>0, <3>1, <2>4
  <2> QED
    BY <2>1, <2>2, <2>3, <2>4, <1>2
<1> QED
  BY <1>0, <1>2, <1>3, <1>7 DEF Earlier, n, c

LEMMA DownEnds == Ends(Places, DownStops, DownNext, [x \in Places |-> Len(x[1]) - x[2]])
<1>1. ASSUME NEW x \in Places, x \notin DownStops
      PROVE  /\ <<Swap(x[1], x[2], EarlierChild(x)), EarlierChild(x)>> \in Places
             /\ Len(Swap(x[1], x[2], EarlierChild(x))) - EarlierChild(x) < Len(x[1]) - x[2]
  <2>1. x[1] \in Seq(Events) /\ x[2] \in DOMAIN x[1] /\ x[2] \in Nat /\ 2 * x[2] <= Len(x[1]) - 1
    BY <1>1 DEF Places, DownStops
  <2>2. Len(x[1]) - 1 \in Nat /\ Len(x[1]) \in Nat
    BY <2>1
  <2>3. EarlierChild(x) \in Nat /\ x[2] < EarlierChild(x) /\ EarlierChild(x) \in DOMAIN x[1]
    BY <2>1, ChildOK DEF EarlierChild, Earlier
  <2>4. /\ Swap(x[1], x[2], EarlierChild(x)) \in Seq(Events)
        /\ Len(Swap(x[1], x[2], EarlierChild(x))) = Len(x[1])
    BY <2>1, <2>3, SwapOK DEF Same
  <2>5. EarlierChild(x) \in DOMAIN Swap(x[1], x[2], EarlierChild(x))
    BY <2>1, <2>3, <2>4
  <2> QED
    BY <2>1, <2>2, <2>3, <2>4, <2>5 DEF Places
<1>2. \A x \in Places : Len(x[1]) - x[2] \in Nat
  BY DEF Places
<1>3. DownNext \in [Places -> Places]
  BY <1>1 DEF DownNext
<1> QED
  BY <1>1, <1>2, <1>3 DEF Ends, DownNext

LEMMA DownIterates == Iteration(Down, Places, DownStops, [x \in Places |-> x[1]], DownNext)
<1> DEFINE base == [x \in Places |-> x[1]]
           body(f) == [x \in Places |->
             IF 2 * x[2] <= Len(x[1]) - 1 /\ Less(x[1][EarlierChild(x)], x[1][x[2]])
             THEN f[<<Swap(x[1], x[2], EarlierChild(x)), EarlierChild(x)>>] ELSE x[1]]
<1>1. Down = CHOOSE f : f = body(f)
  BY DEF Down, EarlierChild
<1>2. \A f : Iteration(f, Places, DownStops, base, DownNext) <=> f = body(f)
  BY DEF Iteration, DownStops, DownNext
<1> HIDE DEF body
<1>3. \E f : Iteration(f, Places, DownStops, base, DownNext)
  BY DownEnds, IterationExists
<1> QED
  BY <1>1, <1>2, <1>3

(* A heap but for the last item, and the item at k, which may be after its *)
(* children.                                                               *)
Sinking(s, k) ==
  /\ \A j \in 2..(Len(s) - 1) : j \div 2 # k => ~Less(s[j], s[j \div 2])
  /\ k > 1 => \A j \in 2..(Len(s) - 1) : j \div 2 = k => ~Less(s[j], s[k \div 2])

LEMMA SinkingStep ==
  ASSUME NEW s \in Seq(Events), NEW i \in DOMAIN s, Sinking(s, i), NEW c, Earlier(s, i, c), Less(s[c], s[i])
  PROVE  Sinking(Swap(s, i, c), c) /\ Swap(s, i, c)[Len(s)] = s[Len(s)]
<1> DEFINE t == Swap(s, i, c)
           n == Len(s) - 1
<1>1. /\ i \in Nat /\ 1 <= i /\ c \in Nat /\ i < c /\ c <= n /\ c \in DOMAIN s /\ c \div 2 = i
      /\ \A j \in 2..n : j \div 2 = i => ~Less(s[j], s[c])
      /\ n \in Int /\ n < Len(s)
  BY DEF Earlier
<1>2. /\ Len(t) = Len(s) /\ t[i] = s[c] /\ t[c] = s[i]
      /\ \A j \in DOMAIN s \ {i, c} : t[j] = s[j]
  BY <1>1, SwapOK DEF Same
<1>3. \A j \in DOMAIN s : s[j] \in Events
  OBVIOUS
<1>4. \A j \in 2..n : /\ j \in DOMAIN s /\ j \div 2 \in DOMAIN s
                      /\ j \div 2 < j /\ j \div 2 \in Nat /\ j \in Nat /\ j > 1
  BY <1>1, Parent
<1>5. Less(s[c], s[i])
  OBVIOUS
<1>6. /\ \A j \in 2..n : j \div 2 # i => ~Less(s[j], s[j \div 2])
      /\ i > 1 => ~Less(s[c], s[i \div 2])
  BY <1>1 DEF Sinking
<1> HIDE DEF t, n
<1>7. ASSUME NEW j \in 2..n, j \div 2 # c PROVE ~Less(t[j], t[j \div 2])
  <2>1. CASE j = c
    BY <2>1, <1>1, <1>2, <1>3, <1>5, LessOrder
  <2>2. CASE j # c /\ j \div 2 = i
    <3>1. j \in DOMAIN s \ {i, c}
      BY <2>2, <1>1, <1>4
    <3>2. t[j] = s[j] /\ t[j \div 2] = s[c] /\ ~Less(s[j], s[c])
      BY <2>2, <3>1, <1>1, <1>2
    <3> QED
      BY <3>2
  <2>3. CASE j = i
    <3>1. i > 1 /\ i \div 2 \in DOMAIN s /\ i \div 2 # i /\ i \div 2 # c
      BY <2>3, <1>1, <1>4
    <3>2. t[i \div 2] = s[i \div 2]
      BY <3>1, <1>2
    <3> QED
      BY <2>3, <3>1, <3>2, <1>2, <1>6
  <2>4. CASE j # c /\ j # i /\ j \div 2 # i
    BY <2>4, <1>2, <1>4, <1>6, <1>7
  <2> QED
    BY <2>1, <2>2, <2>3, <2>4
<1>8. ASSUME NEW j \in 2..n, j \div 2 = c PROVE ~Less(t[j], t[c \div 2])
  <2>1. j # i /\ j # c /\ j \div 2 # i
    BY <1>1, <1>4, <1>8
  <2>2. t[j] = s[j] /\ ~Less(s[j], s[c])
    BY <2>1, <1>2, <1>4, <1>6, <1>8
  <2> QED
    BY <2>2, <1>1, <1>2
<1>9. t[Len(s)] = s[Len(s)]
  <2>1. Len(s) \in DOMAIN s /\ Len(s) # i /\ Len(s) # c
    BY <1>1
  <2> QED
    BY <2>1, <1>2
<1> QED
  BY <1>2, <1>7, <1>8, <1>9 DEF Sinking, t, n

(* The first item of a heap that its last item has left sinks to where the *)
(* rest is a heap again.                                                   *)
LEMMA DownOK ==
  ASSUME NEW s \in Seq(Events), NEW k \in DOMAIN s, Sinking(s, k)
  PROVE  /\ Same(s, Down[<<s, k>>]) /\ Down[<<s, k>>][Len(s)] = s[Len(s)]
         /\ \A j \in 2..(Len(s) - 1) : ~Less(Down[<<s, k>>][j], Down[<<s, k>>][j \div 2])
<1> DEFINE I == {x \in Places : Same(s, x[1]) /\ x[1][Len(s)] = s[Len(s)] /\ Sinking(x[1], x[2])}
           base == [x \in Places |-> x[1]]
           measure == [x \in Places |-> Len(x[1]) - x[2]]
<1>1. ASSUME NEW x \in I, x \notin DownStops PROVE DownNext[x] \in I
  <2> DEFINE t == x[1]
             i == x[2]
             n == Len(t) - 1
             c == Child(t, i, n)
  <2>1. /\ x \in Places /\ t \in Seq(Events) /\ i \in DOMAIN t /\ Same(s, t)
        /\ t[Len(s)] = s[Len(s)] /\ Sinking(t, i)
        /\ 2 * i <= n /\ Less(t[c], t[i])
    BY <1>1 DEF Places, DownStops, EarlierChild
  <2>2. DownNext[x] = <<Swap(t, i, c), c>> /\ DownNext[x] \in Places
    BY <1>1, <2>1, DownEnds DEF DownNext, Ends, EarlierChild
  <2>3. n \in Nat /\ n = Len(t) - 1
    BY <2>1
  <2> HIDE DEF t, i, n, c
  <2>4. Earlier(t, i, c) /\ c \in DOMAIN t
    BY <2>1, ChildOK DEF Earlier, n, c
  <2>5. Same(t, Swap(t, i, c)) /\ Len(t) = Len(s)
    BY <2>1, <2>4, SwapOK DEF Same
  <2>6. Sinking(Swap(t, i, c), c) /\ Swap(t, i, c)[Len(t)] = t[Len(t)]
    BY <2>1, <2>4, SinkingStep
  <2> QED
    BY <2>1, <2>2, <2>5, <2>6 DEF Same
<1>2. <<s, k>> \in I
  BY DEF Places, Same
<1>3. ASSUME NEW x \in I, x \in DownStops
      PROVE  /\ Same(s, x[1]) /\ x[1][Len(s)] = s[Len(s)]
             /\ \A j \in 2..(Len(s) - 1) : ~Less(x[1][j], x[1][j \div 2])
  <2> DEFINE t == x[1]
             i == x[2]
             n == Len(t) - 1
             c == Child(t, i, n)
  <2>1. /\ t \in Seq(Events) /\ i \in DOMAIN t /\ Same(s, t)
        /\ t[Len(s)] = s[Len(s)] /\ Sinking(t, i)
        /\ ~(2 * i <= n /\ Less(t[c], t[i]))
    BY <1>3 DEF Places, DownStops, EarlierChild
  <2>2. n \in Nat /\ n = Len(t) - 1 /\ n = Len(s) - 1
    BY <2>1 DEF Same
  <2> HIDE DEF t, i, n, c
  <2>3. ASSUME NEW j \in 2..n PROVE ~Less(t[j], t[j \div 2])
    <3>1. CASE j \div 2 # i
      BY <2>1, <2>2, <3>1 DEF Sinking
    <3>2. CASE j \div 2 = i
      <4>1. 2 * i <= n
        BY <2>2, <3>2
      <4>2. c \in DOMAIN t /\ ~Less(t[j], t[c])
        BY <2>1, <2>2, <4>1, <3>2, ChildOK DEF Earlier, c, n
      <4>3. t[j] \in Events /\ t[c] \in Events /\ t[i] \in Events
        BY <2>1, <2>2, <4>2
      <4> QED
        BY <2>1, <3>2, <4>1, <4>2, <4>3, LessOrder
    <3> QED
      BY <3>1, <3>2
  <2> QED
    BY <2>1, <2>2, <2>3 DEF t
<1>4. Ends(Places, DownStops, DownNext, measure) /\ Iteration(Down, Places, DownStops, base, DownNext)
  BY DownEnds, DownIterates
<1>5. I \in SUBSET Places
  OBVIOUS
<1>6. \A x \in I : base[x] = x[1]
  OBVIOUS
<1> HIDE DEF I, base, measure
<1>7. \A x \in I : \E y \in I \cap DownStops : Down[x] = base[y]
  BY <1>1, <1>4, <1>5, IterationRule
<1>8. PICK y \in I \cap DownStops : Down[<<s, k>>] = y[1]
  BY <1>2, <1>6, <1>7
<1> QED
  BY <1>3, <1>8

(***************************************************************************)
(* The bag of the events of a slice.                                       *)
(***************************************************************************)
LEMMA CopiesAppend ==
  ASSUME NEW s \in Seq(Events), NEW e \in Events
  PROVE  /\ Cardinality(Copies(Append(s, e), e)) = Cardinality(Copies(s, e)) + 1
         /\ \A x : x # e => Copies(Append(s, e), x) = Copies(s, x)
<1>1. /\ DOMAIN Append(s, e) = DOMAIN s \cup {Len(s) + 1} /\ Len(s) + 1 \notin DOMAIN s
      /\ Append(s, e)[Len(s) + 1] = e /\ \A i \in DOMAIN s : Append(s, e)[i] = s[i]
  OBVIOUS
<1>2. Copies(Append(s, e), e) = Copies(s, e) \cup {Len(s) + 1} /\ Len(s) + 1 \notin Copies(s, e)
  BY <1>1 DEF Copies
<1>3. \A x : x # e => Copies(Append(s, e), x) = Copies(s, x)
  BY <1>1 DEF Copies
<1> QED
  BY <1>2, <1>3, BagOf, FS_AddElement

LEMMA BagPositive ==
  ASSUME NEW s \in Seq(Events)
  PROVE  /\ \A x \in DOMAIN ToBag(s) : ToBag(s)[x] = Cardinality(Copies(s, x)) /\ ToBag(s)[x] \in Nat /\ ToBag(s)[x] > 0
         /\ \A x : x \notin DOMAIN ToBag(s) => Cardinality(Copies(s, x)) = 0
<1>1. \A x : IsFiniteSet(Copies(s, x)) /\ Cardinality(Copies(s, x)) \in Nat
             /\ (Cardinality(Copies(s, x)) = 0 <=> Copies(s, x) = {})
  BY BagOf, FS_EmptySet
<1>2. \A x : x \in DOMAIN ToBag(s) <=> Copies(s, x) # {}
  BY BagOf
<1>3. \A x \in DOMAIN ToBag(s) : ToBag(s)[x] = Cardinality(Copies(s, x))
  BY BagOf
<1>4. \A x \in DOMAIN ToBag(s) : ToBag(s)[x] \in Nat /\ ToBag(s)[x] > 0
  BY <1>1, <1>2, <1>3
<1> QED
  BY <1>1, <1>2, <1>3, <1>4

LEMMA BagOfAppend ==
  ASSUME NEW s \in Seq(Events), NEW e \in Events
  PROVE  ToBag(Append(s, e)) = ToBag(s) (+) SetToBag({e})
<1> DEFINE t == Append(s, e)
           B == ToBag(s) (+) SetToBag({e})
<1>1. t \in Seq(Events)
  OBVIOUS
<1>2. /\ Cardinality(Copies(t, e)) = Cardinality(Copies(s, e)) + 1
      /\ \A x : x # e => Copies(t, x) = Copies(s, x)
  BY CopiesAppend
<1>3. B = [x \in DOMAIN ToBag(s) \cup {e} |->
             (IF x \in DOMAIN ToBag(s) THEN ToBag(s)[x] ELSE 0) + (IF x = e THEN 1 ELSE 0)]
  BY DEF (+), SetToBag
<1>4. \A x : Cardinality(Copies(s, x)) \in Nat /\ Cardinality(Copies(t, x)) \in Nat
  BY <1>1, BagOf
<1> HIDE DEF t, B
<1>5. ToBag(t) = [x \in DOMAIN ToBag(t) |-> ToBag(t)[x]]
  BY <1>1, BagOf
<1>6. DOMAIN ToBag(t) = DOMAIN B
  <2>1. \A x : x # e => (x \in DOMAIN ToBag(t) <=> x \in DOMAIN ToBag(s))
    BY <1>1, <1>2, BagOf
  <2>2. e \in DOMAIN ToBag(t)
    <3>1. Cardinality(Copies(t, e)) # 0
      BY <1>2, <1>4
    <3> QED
      BY <3>1, <1>1, BagPositive
  <2> QED
    BY <2>1, <2>2, <1>3
<1>7. ASSUME NEW x \in DOMAIN B PROVE ToBag(t)[x] = B[x]
  <2>1. ToBag(t)[x] = Cardinality(Copies(t, x))
    BY <1>1, <1>6, BagPositive
  <2>2. CASE x \in DOMAIN ToBag(s)
    <3>1. ToBag(s)[x] = Cardinality(Copies(s, x))
      BY <2>2, BagPositive
    <3> QED
      BY <2>1, <2>2, <3>1, <1>2, <1>3, <1>4
  <2>3. CASE x \notin DOMAIN ToBag(s)
    <3>1. x = e /\ Cardinality(Copies(s, x)) = 0
      BY <2>3, <1>3, BagPositive
    <3> QED
      BY <2>1, <2>3, <3>1, <1>2, <1>3
  <2> QED
    BY <2>2, <2>3
<1>8. B = [x \in DOMAIN B |-> B[x]]
  BY <1>3
<1> QED
  BY <1>5, <1>6, <1>7, <1>8 DEF t, B

LEMMA FrontOf ==
  ASSUME NEW s \in Seq(Events), s # <<>>
  PROVE  /\ Front(s) \in Seq(Events) /\ Last(s) \in Events /\ Len(Front(s)) = Len(s) - 1
         /\ \A i \in 1..(Len(s) - 1) : Front(s)[i] = s[i]
         /\ s = Append(Front(s), Last(s))
<1>1. Len(s) \in Nat /\ Len(s) > 0
  OBVIOUS
<1>2. /\ Front(s) \in Seq(Events) /\ Len(Front(s)) = Len(s) - 1
      /\ \A i \in 1..(Len(s) - 1) : Front(s)[i] = s[i]
  <2>1. Front(s) = SubSeq(s, 1, Len(s) - 1)
    BY DEF Front
  <2>2. \A i \in 1..(Len(s) - 1) : s[i] \in Events
    BY <1>1
  <2>3. SubSeq(s, 1, Len(s) - 1) = [i \in 1..(Len(s) - 1) |-> s[i]]
    BY <1>1
  <2> DEFINE n == Len(s) - 1
  <2>4. n \in Nat
    BY <1>1
  <2>5. Front(s) \in [1..n -> Events] /\ \A i \in 1..n : Front(s)[i] = s[i]
    BY <2>1, <2>2, <2>3
  <2> HIDE DEF n
  <2>6. Front(s) \in Seq(Events)
    BY <2>4, <2>5, SeqDef
  <2>7. Len(Front(s)) = n
    BY <2>4, <2>5, <2>6
  <2> QED
    BY <2>5, <2>6, <2>7 DEF n
<1>3. Last(s) \in Events
  BY <1>1 DEF Last
<1>4. \A i \in 1..Len(s) : s[i] = Append(Front(s), Last(s))[i]
  BY <1>1, <1>2, <1>3 DEF Last
<1>5. s = Append(Front(s), Last(s))
  BY <1>1, <1>2, <1>3, <1>4
<1> QED
  BY <1>2, <1>3, <1>5

LEMMA BagOfFront ==
  ASSUME NEW s \in Seq(Events), s # <<>>
  PROVE  ToBag(Front(s)) = ToBag(s) (-) SetToBag({Last(s)})
<1> DEFINE f == Front(s)
           e == Last(s)
           A == ToBag(f)
           B == ToBag(s)
           C == B (-) SetToBag({e})
<1>1. f \in Seq(Events) /\ e \in Events /\ s = Append(f, e)
  BY FrontOf
<1>2. B = [x \in DOMAIN A \cup {e} |-> (IF x \in DOMAIN A THEN A[x] ELSE 0) + (IF x = e THEN 1 ELSE 0)]
  <2> HIDE DEF f, e
  <2>1. B = ToBag(f) (+) SetToBag({e})
    BY <1>1, BagOfAppend
  <2> QED
    BY <2>1 DEF (+), SetToBag
<1>3. C = [x \in {d \in DOMAIN B : (IF d = e THEN B[d] - 1 ELSE B[d]) > 0} |-> IF x = e THEN B[x] - 1 ELSE B[x]]
  BY DEF (-), SetToBag
<1> HIDE DEF f, e
<1>4. \A x \in DOMAIN A : A[x] \in Nat /\ A[x] > 0
  BY <1>1, BagPositive
<1>5. A = [x \in DOMAIN A |-> A[x]]
  BY <1>1, BagOf
<1> HIDE DEF A, B, C
<1>6. \A x \in DOMAIN B : x # e => x \in DOMAIN A /\ B[x] = A[x]
  BY <1>2, <1>4
<1>7. e \in DOMAIN B /\ B[e] = IF e \in DOMAIN A THEN A[e] + 1 ELSE 1
  BY <1>2, <1>4
<1>8. DOMAIN C = DOMAIN A
  <2>1. \A x : x \in DOMAIN C <=> x \in DOMAIN A
    BY <1>2, <1>3, <1>4, <1>6, <1>7
  <2>2. DOMAIN C = {d \in DOMAIN B : (IF d = e THEN B[d] - 1 ELSE B[d]) > 0}
    BY <1>3
  <2> QED
    BY <2>1, <2>2
<1>9. \A x \in DOMAIN A : C[x] = A[x]
  BY <1>3, <1>4, <1>6, <1>7, <1>8
<1>10. C = [x \in DOMAIN C |-> C[x]]
  BY <1>3
<1> QED
  BY <1>5, <1>8, <1>9, <1>10 DEF A, C, B, f, e

LEMMA BagOfNone == ToBag(<<>>) = SetToBag({})
<1>1. ToBag(<<>>) = [x \in {} |-> Cardinality(Copies(<<>>, x))]
  BY DEF ToBag, Range, Copies
<1>2. SetToBag({}) = [x \in {} |-> 1]
  BY DEF SetToBag
<1> QED
  BY <1>1, <1>2

(***************************************************************************)
(* The operations of the queue.                                            *)
(***************************************************************************)
(* No item of a heap is before the first. *)
LEMMA RootFirst ==
  ASSUME NEW s \in Seq(Events), Heap(s)
  PROVE  \A j \in DOMAIN s : ~Less(s[j], s[1])
<1> DEFINE S == {n \in Nat : \A j \in DOMAIN s : j <= n => ~Less(s[j], s[1])}
<1>1. \A j \in DOMAIN s : s[j] \in Events /\ j \in Nat /\ 1 <= j /\ j <= Len(s)
  OBVIOUS
<1>2. 0 \in S
  BY <1>1
<1>3. ASSUME NEW n \in Nat, n \in S PROVE n + 1 \in S
  <2> SUFFICES ASSUME NEW j \in DOMAIN s, j <= n + 1 PROVE ~Less(s[j], s[1])
    OBVIOUS
  <2>1. CASE j = 1
    <3>1. s[1] \in Events
      BY <2>1, <1>1
    <3> QED
      BY <2>1, <3>1, LessOrder
  <2>2. CASE j # 1
    <3>1. j \in Nat /\ j > 1 /\ j \in 2..Len(s)
      BY <2>2, <1>1
    <3>2. j \div 2 \in DOMAIN s /\ j \div 2 <= n /\ 1 \in DOMAIN s
      BY <3>1, Parent
    <3>3. ~Less(s[j \div 2], s[1]) /\ ~Less(s[j], s[j \div 2])
      BY <3>1, <3>2, <1>3 DEF Heap
    <3>4. s[j] \in Events /\ s[j \div 2] \in Events /\ s[1] \in Events
      BY <3>2, <1>1
    <3> QED
      BY <3>3, <3>4, LessOrder
  <2> QED
    BY <2>1, <2>2
<1>4. Nat \subseteq S
  <2> HIDE DEF S
  <2> QED
    BY <1>2, <1>3, Induction
<1>5. ASSUME NEW j \in DOMAIN s PROVE ~Less(s[j], s[1])
  <2>1. j \in S /\ j <= j
    BY <1>1, <1>4
  <2> QED
    BY <2>1
<1> QED
  BY <1>5

LEMMA InsertOK ==
  ASSUME NEW s \in Seq(Events), Heap(s), NEW e \in Events
  PROVE  /\ Up[<<Append(s, e), Len(s) + 1>>] \in Seq(Events)
         /\ Heap(Up[<<Append(s, e), Len(s) + 1>>])
         /\ ToBag(Up[<<Append(s, e), Len(s) + 1>>]) = ToBag(s) (+) SetToBag({e})
<1> DEFINE t == Append(s, e)
           k == Len(s) + 1
<1>1. t \in Seq(Events) /\ k \in DOMAIN t /\ k \in Nat /\ Len(t) = k /\ \A j \in DOMAIN s : t[j] = s[j]
  OBVIOUS
<1>2. \A j \in 2..k : j \div 2 < j /\ 1 <= j \div 2 /\ j \div 2 \in Nat /\ j \in Nat
  BY <1>1, Parent
<1>3. \A j \in 2..k : j # k => j \in 2..Len(s) /\ j \in DOMAIN s /\ j \div 2 \in DOMAIN s
  BY <1>2
<1>4. \A j \in 2..k : j \div 2 # k
  BY <1>1, <1>2
<1> HIDE DEF t, k
<1>5. Rising(t, k)
  BY <1>1, <1>3, <1>4 DEF Rising, Heap
<1>6. Same(t, Up[<<t, k>>]) /\ Heap(Up[<<t, k>>])
  BY <1>1, <1>5, UpOK
<1>7. ToBag(t) = ToBag(s) (+) SetToBag({e})
  BY BagOfAppend DEF t
<1> QED
  BY <1>6, <1>7 DEF Same, t, k

LEMMA NextOK ==
  ASSUME NEW s \in Seq(Events), Heap(s), s # <<>>, NEW d, d = Down[<<Swap(s, 1, Len(s)), 1>>]
  PROVE  /\ Front(d) \in Seq(Events) /\ Heap(Front(d)) /\ Last(d) = s[1]
         /\ ToBag(Front(d)) = ToBag(s) (-) SetToBag({s[1]})
<1> DEFINE n == Len(s)
           t == Swap(s, 1, n)
<1>1. n \in Nat /\ 1 <= n /\ 1 \in DOMAIN s /\ n \in DOMAIN s /\ n = Len(s)
  OBVIOUS
<1> HIDE DEF n
<1>2. /\ Same(s, t) /\ t[n] = s[1] /\ \A k \in DOMAIN s \ {1, n} : t[k] = s[k]
  BY <1>1, SwapOK
<1> HIDE DEF t
<1>3. t \in Seq(Events) /\ Len(t) = n /\ ToBag(t) = ToBag(s) /\ 1 \in DOMAIN t
  BY <1>1, <1>2 DEF Same
<1>4. Sinking(t, 1)
  <2>1. ASSUME NEW j \in 2..(n - 1), j \div 2 # 1 PROVE ~Less(t[j], t[j \div 2])
    <3>1. j \in Nat /\ j > 1 /\ j \in 2..Len(s)
      BY <1>1
    <3>2. j \in DOMAIN s \ {1, n} /\ j \div 2 \in DOMAIN s \ {1, n}
      BY <2>1, <3>1, <1>1, Parent
    <3> QED
      BY <3>1, <3>2, <1>2 DEF Heap
  <2> QED
    BY <2>1, <1>3 DEF Sinking
<1>5. d = Down[<<t, 1>>]
  BY DEF t, n
<1>6. /\ Same(t, d) /\ d[n] = s[1]
      /\ \A j \in 2..(n - 1) : ~Less(d[j], d[j \div 2])
  <2>1. /\ Same(t, Down[<<t, 1>>]) /\ Down[<<t, 1>>][Len(t)] = t[Len(t)]
        /\ \A j \in 2..(Len(t) - 1) : ~Less(Down[<<t, 1>>][j], Down[<<t, 1>>][j \div 2])
    BY <1>3, <1>4, DownOK
  <2> QED
    BY <2>1, <1>2, <1>3, <1>5
<1>7. d \in Seq(Events) /\ Len(d) = n /\ ToBag(d) = ToBag(s) /\ Last(d) = s[1] /\ d # <<>>
  BY <1>1, <1>3, <1>6 DEF Same, Last
<1>8. /\ Front(d) \in Seq(Events) /\ Len(Front(d)) = n - 1
      /\ \A i \in 1..(n - 1) : Front(d)[i] = d[i]
  BY <1>7, FrontOf
<1>9. Heap(Front(d))
  <2>1. ASSUME NEW j \in 2..(n - 1) PROVE j \in 1..(n - 1) /\ j \div 2 \in 1..(n - 1)
    <3>1. j \in Nat /\ j > 1 /\ j <= n - 1
      BY <1>1
    <3> QED
      BY <3>1, <1>1, Parent
  <2> QED
    BY <2>1, <1>6, <1>8 DEF Heap
<1> QED
  BY <1>7, <1>8, <1>9, BagOfFront

(* The first item of a heap is foremost in the bag of its items. *)
LEMMA FirstForemost ==
  ASSUME items \in Seq(Events), Heap(items), items # <<>>
  PROVE  items[1] \in Events /\ Promise!Foremost(items[1])
<1>1. 1 \in DOMAIN items /\ \A j \in DOMAIN items : items[j] \in Events
  OBVIOUS
<1>2. ASSUME NEW x PROVE x \in DOMAIN ToBag(items) <=> \E j \in DOMAIN items : items[j] = x
  <2>1. x \in DOMAIN ToBag(items) <=> Copies(items, x) # {}
    BY BagOf
  <2>2. Copies(items, x) # {} <=> \E j \in DOMAIN items : items[j] = x
    BY DEF Copies
  <2> QED
    BY <2>1, <2>2
<1>3. ASSUME NEW j \in DOMAIN items
      PROVE  /\ items[j].block >= items[1].block
             /\ items[j].block = items[1].block => items[j].idx >= items[1].idx
  <2>1. ~Less(items[j], items[1])
    BY RootFirst
  <2>2. /\ items[j].block \in Nat /\ items[j].idx \in Nat
        /\ items[1].block \in Nat /\ items[1].idx \in Nat
    BY <1>1, EventsAssumption
  <2> QED
    BY <2>1, <2>2 DEF Less
<1> QED
  BY <1>1, <1>2, <1>3 DEF Promise!Foremost, Promise!BagIn, Promise!BagToSet

(***************************************************************************)
(* The theorems.                                                           *)
(***************************************************************************)
HeapInv == items \in Seq(Events) /\ Heap(items)

(* The invariant holds at first, and in each step the bag of the items     *)
(* takes a step of the promise.                                            *)
LEMMA Start == ASSUME Init PROVE HeapInv /\ Promise!Init
<1>1. items = <<>> /\ out = Nil
  BY DEF Init
<1>2. HeapInv
  BY <1>1 DEF HeapInv, Heap
<1> QED
  BY <1>1, <1>2, BagOfNone DEF Promise!Init, Promise!EmptyBag, Promise!SetToBag, SetToBag

LEMMA Step ==
  ASSUME HeapInv, [Next \/ Clear \/ \E e \in Events : Insert(e)]_vars
  PROVE  /\ HeapInv'
         /\ [Promise!Next \/ Promise!Clear \/ \E e \in Events : Promise!Insert(e)]_<<ToBag(items), out>>
<1>1. ASSUME NEW e \in Events, Insert(e) PROVE HeapInv' /\ Promise!Insert(e)
  <2>1. items' = Up[<<Append(items, e), Len(items) + 1>>] /\ out' = out
    BY <1>1 DEF Insert
  <2>2. items' \in Seq(Events) /\ Heap(items') /\ ToBag(items') = ToBag(items) (+) SetToBag({e})
    BY <2>1, InsertOK DEF HeapInv
  <2> QED
    BY <2>1, <2>2 DEF HeapInv, Heap, Promise!Insert, Promise!(+), (+), Promise!SetToBag, SetToBag
<1>2. ASSUME items # <<>>, Next PROVE HeapInv' /\ Promise!Next
  <2> DEFINE d == Down[<<Swap(items, 1, Len(items)), 1>>]
  <2>1. out' = Last(d) /\ items' = Front(d)
    BY <1>2 DEF Next
  <2>2. /\ items' \in Seq(Events) /\ Heap(items') /\ out' = items[1]
        /\ ToBag(items') = ToBag(items) (-) SetToBag({items[1]})
    BY <1>2, <2>1, NextOK DEF HeapInv
  <2>3. items[1] \in Events /\ Promise!Foremost(items[1])
    BY <1>2, FirstForemost DEF HeapInv
  <2> HIDE DEF d
  <2> QED
    BY <2>2, <2>3 DEF HeapInv, Heap, Promise!Next, Promise!(-), (-), Promise!SetToBag, SetToBag
<1>3. ASSUME items = <<>>, Next PROVE HeapInv' /\ Promise!Next
  <2>1. out' = Nil /\ items' = items
    BY <1>3 DEF Next
  <2> QED
    BY <1>3, <2>1, BagOfNone
    DEF HeapInv, Heap, Promise!Next, Promise!EmptyBag, Promise!SetToBag, SetToBag
<1>4. ASSUME Clear PROVE HeapInv' /\ Promise!Clear
  <2>1. items' = <<>> /\ out' = out
    BY <1>4 DEF Clear
  <2> QED
    BY <2>1, BagOfNone DEF HeapInv, Heap, Promise!Clear, Promise!EmptyBag, Promise!SetToBag, SetToBag
<1>5. ASSUME UNCHANGED vars PROVE HeapInv' /\ ToBag(items)' = ToBag(items) /\ out' = out
  BY <1>5 DEF vars, HeapInv, Heap
<1> QED
  BY <1>1, <1>2, <1>3, <1>4, <1>5

LEMMA HeapInvariant == Spec => []HeapInv
BY Start, Step, PTL DEF Spec

(* The slice is in heap order after each Insert, Next and Clear, for any   *)
(* events and any length of the queue (queue.go:52-103).                   *)
THEOREM HeapOrderTheorem == Spec => []HeapOrder
<1>1. HeapInv => HeapOrder
  BY DEF HeapInv, Heap, HeapOrder
<1> QED
  BY <1>1, HeapInvariant, PTL

(* The slice with the operations of container/heap keeps the promise of    *)
(* EventQueue: Insert adds one copy of the event, and Next removes one     *)
(* copy of an event that no queued event is before (queue.go:76-84).       *)
THEOREM PromiseTheorem == Spec => KeepsPromise
BY Start, Step, HeapInvariant, PTL DEF Spec, KeepsPromise, Promise!Spec
=============================================================================
