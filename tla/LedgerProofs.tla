---------------------------- MODULE LedgerProofs ----------------------------
(***************************************************************************)
(* Theorems of Transformer about the rows of positions: they tell the      *)
(* ledger of the vault, and are never rewritten.  For the plain classes of *)
(* events, any holders, amounts and failures.                              *)
(*                                                                         *)
(* The argument: each event changes the rows of the holders whose balance  *)
(* it changes, and of nobody else, by ending the open row below its block  *)
(* and opening one with the new balance (Effect); and rows that told the   *)
(* balances before tell them after (EffectKeeps).                          *)
(***************************************************************************)
EXTENDS TransformerProofs, Recursion

(***************************************************************************)
(* Balances as sums.                                                       *)
(***************************************************************************)
(* The shares of u after n events. *)
Tally(evs, u, n) == MapThenSumSet(LAMBDA i : Change(evs[i], u), 1..n)

Changes(evs, u, n) == [i \in 1..n |-> Change(evs[i], u)]

(* An event changes a balance by a number. *)
LEMMA ChangeType ==
  ASSUME NEW e \in Event, NEW u PROVE Change(e, u) \in Int
<1>1. e.kind # "rate" => e.amount \in Nat
  BY TransformerAssumption DEF Event
<1> QED
  BY <1>1 DEF Change, Event

(* The changes of a holder's balance are finitely many numbers. *)
LEMMA ChangesType ==
  ASSUME NEW evs \in Seq(Event), NEW u, NEW n \in 0..Len(evs)
  PROVE  Changes(evs, u, n) \in [1..n -> Int] /\ IsFiniteSet(1..n)
<1>1. \A i \in 1..n : evs[i] \in Event
  OBVIOUS
<1>2. IsFiniteSet(1..n)
  BY FS_Interval
<1> QED
  BY <1>1, <1>2, ChangeType DEF Changes

(* The fold of the community modules is the sum Recursion proves about. *)
LEMMA TallyIsSum ==
  ASSUME NEW evs \in Seq(Event), NEW u, NEW n \in 0..Len(evs)
  PROVE  Tally(evs, u, n) = Sum(Changes(evs, u, n))
<1> DEFINE S == 1..n
           f == Changes(evs, u, n)
           body(g) == [s \in SUBSET S |-> IF s = {} THEN 0 ELSE Change(evs[Some(s)], u) + g[s \ {Some(s)}]]
           iter == CHOOSE g : g = body(g)
           sum == CHOOSE g : IsSum(g, f, S)
<1>1. Tally(evs, u, n) = iter[S]
  BY DEF Tally, MapThenSumSet, MapThenFoldSet, Some
<1>2. f \in [S -> Int] /\ IsFiniteSet(S)
  BY ChangesType
<1>3. Sum(f) = sum[S]
  BY <1>2 DEF Sum
<1>4. \A s \in SUBSET S : s # {} => f[Some(s)] = Change(evs[Some(s)], u)
  BY DEF Changes, Some
<1> HIDE DEF f, S
<1>5. \A g : body(g) = [s \in SUBSET S |-> IF s = {} THEN 0 ELSE f[Some(s)] + g[s \ {Some(s)}]]
  BY <1>4
<1> HIDE DEF body
<1>6. \A g : IsSum(g, f, S) <=> g = body(g)
  BY <1>5 DEF IsSum
<1>7. \E g : IsSum(g, f, S)
  BY <1>2, SumExists
<1>8. IsSum(iter, f, S) /\ IsSum(sum, f, S)
  BY <1>6, <1>7
<1> HIDE DEF iter, sum
<1>9. iter = sum
  BY <1>2, <1>8, SumUnique
<1> QED
  BY <1>1, <1>3, <1>9 DEF f

(* Nobody has shares before the first event. *)
LEMMA TallyZero == ASSUME NEW evs \in Seq(Event), NEW u PROVE Tally(evs, u, 0) = 0
<1>1. 0 \in 0..Len(evs) /\ 1..0 = {}
  OBVIOUS
<1> QED
  BY <1>1, TallyIsSum, ChangesType, SumInt

(* Each event adds its change. *)
LEMMA TallyStep ==
  ASSUME NEW evs \in Seq(Event), NEW u, NEW n \in 1..Len(evs)
  PROVE  /\ Tally(evs, u, n) \in Int /\ Tally(evs, u, n - 1) \in Int
         /\ Tally(evs, u, n) = Tally(evs, u, n - 1) + Change(evs[n], u)
<1> DEFINE f == Changes(evs, u, n)
<1>1. n \in 0..Len(evs) /\ n - 1 \in 0..Len(evs) /\ n \in 1..n
  OBVIOUS
<1>2. f \in [1..n -> Int] /\ IsFiniteSet(1..n)
  BY <1>1, ChangesType
<1>3. f[n] = Change(evs[n], u) /\ Changes(evs, u, n - 1) = Without(f, n)
  BY <1>1 DEF Changes, Without
<1>4. Tally(evs, u, n) = Sum(f) /\ Tally(evs, u, n - 1) = Sum(Changes(evs, u, n - 1))
  BY <1>1, TallyIsSum
<1>5. Sum(f) \in Int /\ Sum(Changes(evs, u, n - 1)) \in Int
  BY <1>1, ChangesType, SumInt
<1> HIDE DEF f
<1>6. Sum(f) = f[n] + Sum(Without(f, n))
  BY <1>1, <1>2, SumWithout
<1>7. f[n] \in Int
  BY <1>1, <1>2
<1> QED
  BY <1>3, <1>4, <1>5, <1>6, <1>7

(* Only the events counted matter. *)
LEMMA TallyPrefix ==
  ASSUME NEW evs \in Seq(Event), NEW later \in Seq(Event), NEW u,
         NEW n \in 0..Len(evs), n \in 0..Len(later), \A i \in 1..n : later[i] = evs[i]
  PROVE  Tally(later, u, n) = Tally(evs, u, n)
<1>1. Changes(later, u, n) = Changes(evs, u, n)
  BY DEF Changes
<1> QED
  BY <1>1, TallyIsSum

(* The balance at a block is the tally of the events up to it. *)
LEMMA BalanceIsTally ==
  ASSUME NEW u, NEW h, NEW n, {i \in DOMAIN events : events[i].block <= h} = 1..n
  PROVE  Balance(u, h) = Tally(events, u, n)
  BY DEF Balance, Tally, MapThenSumSet, MapThenFoldSet

(***************************************************************************)
(* The inductive invariant.                                                *)
(***************************************************************************)
(* The block of the nth event. *)
Height(evs, n) == IF n = 0 THEN 0 ELSE evs[n].block

InChainOrder(evs) ==
  \A i \in DOMAIN evs :
    /\ evs[i].block # 0
    /\ \A j \in DOMAIN evs : i <= j => evs[i].block <= evs[j].block

(* What the plain classes of events say of e, coming after n events. *)
Lawful(evs, e, n) ==
  /\ e.kind = "deposit" => e.from = e.to
  /\ e.kind = "withdraw" => e.amount <= Tally(evs, e.from, n)
  /\ e.kind = "transfer" /\ Zero \notin {e.from, e.to} =>
       /\ e.from # e.to
       /\ e.amount = Tally(evs, e.from, n) /\ Tally(evs, e.to, n) = 0

LedgerOK(evs) ==
  /\ \A i \in DOMAIN evs : Lawful(evs, evs[i], i - 1)
  /\ \A u \in Users, n \in 0..Len(evs) : Tally(evs, u, n) \in Nat

Law(evs) == InChainOrder(evs) /\ LedgerOK(evs)

Distinct(rows) == \A r, q \in rows : r.idx = q.idx => r = q

RowsOf(rows, u) == {r \in rows : r.owner = u}

(* The open row of a holder of s shares is his last one, and has them; his *)
(* other rows ended before block b.  Without shares his last row is        *)
(* terminated.                                                             *)
CurrentOK(rows, s, b) ==
  /\ \A r \in rows : r.end # Null => r.end < b
  /\ \A r \in rows : r.end = Null =>
       r.shares = s /\ r.start <= b /\ ~r.terminated /\ \A q \in rows : q.idx <= r.idx
  /\ s # 0 => \E r \in rows : r.end = Null
  /\ s = 0 => \A r \in rows : (\A q \in rows : q.idx <= r.idx) => r.terminated

CoveringIn(rows, h) == {r \in rows : r.start <= h /\ (r.end = Null \/ h <= r.end)}

CoverOK(rows, s) == IF s = 0 THEN rows = {} ELSE \E r \in rows : rows = {r} /\ r.shares = s

(* Of the first n events, the first m are those up to block h. *)
Upto(evs, m, h, n) ==
  /\ \A i \in 1..m : evs[i].block <= h
  /\ \A i \in (m + 1)..n : evs[i].block > h

(* The rows of u tell his tally at every block. *)
HistoryOK(rows, evs, u, n) ==
  \A m \in 0..n, h \in Nat : Upto(evs, m, h, n) => CoverOK(CoveringIn(rows, h), Tally(evs, u, m))

HolderOK(rows, evs, u, n) ==
  /\ CurrentOK(RowsOf(rows, u), Tally(evs, u, n), Height(evs, n))
  /\ HistoryOK(RowsOf(rows, u), evs, u, n)

LedgerInv ==
  /\ Law(events) /\ Distinct(positions)
  /\ \A n \in 0..Len(events) : processed = 1..n => \A u \in Users : HolderOK(positions, events, u, n)

(***************************************************************************)
(* What an event does to the rows of a holder.                             *)
(***************************************************************************)
(* The blocks of the events do not fall. *)
LEMMA HeightType ==
  ASSUME NEW evs \in Seq(Event), InChainOrder(evs), NEW n \in Nat, n + 1 \in DOMAIN evs
  PROVE  /\ Height(evs, n) \in Nat /\ Height(evs, n + 1) \in Nat /\ Height(evs, n) <= Height(evs, n + 1)
         /\ Height(evs, n + 1) = evs[n + 1].block
         /\ \A i \in 1..n : evs[i].block <= Height(evs, n + 1)
<1>1. \A i \in DOMAIN evs : evs[i] \in Event /\ evs[i].block \in Nat
  BY DEF Event
<1>2. n # 0 => n \in DOMAIN evs /\ n <= n + 1
  OBVIOUS
<1>3. Height(evs, n + 1) = evs[n + 1].block
  BY DEF Height
<1>4. \A i \in 1..n : i \in DOMAIN evs /\ i <= n + 1
  OBVIOUS
<1> QED
  BY <1>1, <1>2, <1>3, <1>4 DEF Height, InChainOrder

(* A holder whom the event does not change. *)
LEMMA UntouchedHolder ==
  ASSUME NEW evs \in Seq(Event), InChainOrder(evs), NEW u, NEW n \in Nat, n + 1 \in DOMAIN evs,
         Tally(evs, u, n + 1) = Tally(evs, u, n),
         NEW rows \in SUBSET Row, HolderOK(rows, evs, u, n)
  PROVE  HolderOK(rows, evs, u, n + 1)
<1> DEFINE mine == RowsOf(rows, u)
           b == Height(evs, n + 1)
<1>1. Height(evs, n) \in Nat /\ b \in Nat /\ Height(evs, n) <= b /\ b = evs[n + 1].block
      /\ \A i \in 1..n : evs[i].block <= b
  BY HeightType
<1>2. mine \subseteq Row
  BY DEF RowsOf
<1>3. \A r \in mine : r.start \in Nat /\ (r.end # Null => r.end \in Int)
  BY <1>2 DEF Row
<1> HIDE DEF mine, b
<1>4. CurrentOK(mine, Tally(evs, u, n + 1), b)
  BY <1>1, <1>3 DEF HolderOK, CurrentOK, mine
<1>5. HistoryOK(mine, evs, u, n + 1)
  <2> SUFFICES ASSUME NEW m \in 0..(n + 1), NEW h \in Nat, Upto(evs, m, h, n + 1)
               PROVE  CoverOK(CoveringIn(mine, h), Tally(evs, u, m))
    BY DEF HistoryOK
  <2>1. CASE m = n + 1
    <3>1. Upto(evs, n, h, n)
      BY <2>1 DEF Upto
    <3>2. n \in 0..n
      OBVIOUS
    <3> QED
      BY <2>1, <3>1, <3>2 DEF HolderOK, HistoryOK, mine
  <2>2. CASE m # n + 1
    <3>1. m \in 0..n /\ Upto(evs, m, h, n)
      BY <2>2 DEF Upto
    <3> QED
      BY <3>1 DEF HolderOK, HistoryOK, mine
  <2> QED
    BY <2>1, <2>2
<1> QED
  BY <1>4, <1>5 DEF HolderOK, mine, b

(* A holder whom it does: his open row is closed, and the next one opened. *)
Touched(mine, new, close, opened, evs, u, n) ==
  /\ close \in [mine -> Row] /\ opened \in SUBSET Row
  /\ new = {close[r] : r \in mine} \cup opened
  /\ \A r \in mine : r.end # Null => close[r] = r
  /\ \A r \in mine : r.end = Null =>
       /\ close[r].idx = r.idx /\ close[r].start = r.start /\ close[r].shares = r.shares
       /\ close[r].end = Height(evs, n + 1) - 1
       /\ close[r].terminated = (Tally(evs, u, n + 1) = 0)
  /\ Tally(evs, u, n + 1) = 0 => opened = {}
  /\ Tally(evs, u, n + 1) # 0 => \E p \in Row : opened = {p}
  /\ \A p \in opened :
       /\ p.start = Height(evs, n + 1) /\ p.end = Null /\ ~p.terminated
       /\ p.shares = Tally(evs, u, n + 1) /\ \A r \in mine : r.idx < p.idx

(* His rows tell his balances still: below the block of the event the     *)
(* same rows cover, and from it on the new one.                            *)
LEMMA TouchedHolder ==
  ASSUME NEW evs \in Seq(Event), InChainOrder(evs), NEW u, NEW n \in Nat, n + 1 \in DOMAIN evs,
         NEW mine \in SUBSET Row, Distinct(mine),
         CurrentOK(mine, Tally(evs, u, n), Height(evs, n)), HistoryOK(mine, evs, u, n),
         NEW new, NEW close, NEW opened, Touched(mine, new, close, opened, evs, u, n)
  PROVE  /\ CurrentOK(new, Tally(evs, u, n + 1), Height(evs, n + 1))
         /\ HistoryOK(new, evs, u, n + 1)
<1> USE DEF Touched
<1> DEFINE b == Height(evs, n + 1)
           s == Tally(evs, u, n + 1)
<1>1. Height(evs, n) \in Nat /\ b \in Nat /\ Height(evs, n) <= b /\ b = evs[n + 1].block
  BY HeightType
<1>2. \A r \in Row : /\ r.start \in Nat /\ r.idx \in Nat /\ r.shares \in Nat \ {0}
                     /\ r.end \in Int \cup {Null} /\ r.terminated \in BOOLEAN
  BY DEF Row
<1>3. Null \notin Int
  BY UsersAssumption
<1> HIDE DEF b, s
<1>4. \A r \in mine : close[r] \in Row /\ close[r].idx = r.idx /\ close[r].start = r.start
                      /\ close[r].shares = r.shares /\ close[r].end \in Int /\ close[r].end < b
  <2> SUFFICES ASSUME NEW r \in mine
               PROVE  close[r] \in Row /\ close[r].idx = r.idx /\ close[r].start = r.start
                      /\ close[r].shares = r.shares /\ close[r].end \in Int /\ close[r].end < b
    OBVIOUS
  <2>1. CASE r.end = Null
    BY <2>1, <1>1 DEF b
  <2>2. CASE r.end # Null
    BY <2>2, <1>1, <1>2 DEF CurrentOK
  <2> QED
    BY <2>1, <2>2
<1>5. CurrentOK(new, s, b)
  <2>1. \A r \in new : r.end # Null => r.end < b
    BY <1>4 DEF b
  <2>2. \A r \in new : r.end = Null => r \in opened
    BY <1>3, <1>4
  <2>3. \A p \in opened : \A q \in opened : q = p
    BY DEF s
  <2>4. \A p \in opened : \A q \in new : q.idx <= p.idx
    BY <1>2, <1>4, <2>3
  <2>5. \A r \in new : r.end = Null =>
          r.shares = s /\ r.start <= b /\ ~r.terminated /\ \A q \in new : q.idx <= r.idx
    BY <1>1, <2>2, <2>4 DEF b, s
  <2>6. s # 0 => \E r \in new : r.end = Null
    BY DEF s
  <2>7. ASSUME s = 0, NEW q \in new, \A t \in new : t.idx <= q.idx
        PROVE  q.terminated
    <3>1. PICK r \in mine : q = close[r]
      BY <2>7 DEF s
    <3>2. \A t \in mine : t.idx <= r.idx
      BY <2>7, <3>1, <1>4
    <3>3. CASE r.end = Null
      BY <3>1, <3>3, <2>7 DEF s
    <3>4. CASE r.end # Null
      <4>1. ~\E t \in mine : t.end = Null
        <5> SUFFICES ASSUME NEW t \in mine, t.end = Null PROVE FALSE
          OBVIOUS
        <5>1. r.idx <= t.idx /\ t.idx <= r.idx /\ r.idx \in Nat /\ t.idx \in Nat
          BY <3>2, <1>2 DEF CurrentOK
        <5>2. r.idx = t.idx
          BY <5>1
        <5> QED
          BY <5>2, <3>4 DEF Distinct
      <4>2. r.terminated
        BY <4>1, <3>2 DEF CurrentOK
      <4> QED
        BY <4>2, <3>1, <3>4
    <3> QED
      BY <3>3, <3>4
  <2> QED
    BY <2>1, <2>5, <2>6, <2>7 DEF CurrentOK
<1>6. HistoryOK(new, evs, u, n + 1)
  <2> SUFFICES ASSUME NEW m \in 0..(n + 1), NEW h \in Nat, Upto(evs, m, h, n + 1)
               PROVE  CoverOK(CoveringIn(new, h), Tally(evs, u, m))
    BY DEF HistoryOK
  <2>1. CASE m = n + 1
    <3>1. b <= h
      BY <2>1, <1>1 DEF Upto
    <3>2. \A r \in mine : close[r] \notin CoveringIn(new, h)
      BY <3>1, <1>1, <1>3, <1>4 DEF CoveringIn
    <3>3. opened \subseteq CoveringIn(new, h)
      BY <3>1 DEF CoveringIn, b
    <3>4. CoveringIn(new, h) = opened
      BY <3>2, <3>3 DEF CoveringIn
    <3> QED
      BY <2>1, <3>4 DEF CoverOK
  <2>2. CASE m # n + 1
    <3>1. m \in 0..n /\ Upto(evs, m, h, n) /\ h < b
      BY <2>2, <1>1 DEF Upto
    <3>2. CoverOK(CoveringIn(mine, h), Tally(evs, u, m))
      BY <3>1 DEF HistoryOK
    <3>3. \A p \in opened : p \notin CoveringIn(new, h)
      BY <3>1, <1>1 DEF CoveringIn, b
    <3>4. \A r \in mine : close[r] \in CoveringIn(new, h) <=> r \in CoveringIn(mine, h)
      <4> SUFFICES ASSUME NEW r \in mine
                   PROVE  close[r] \in CoveringIn(new, h) <=> r \in CoveringIn(mine, h)
        OBVIOUS
      <4>1. close[r] \in new /\ close[r].start = r.start
        BY <1>4
      <4>2. CASE r.end = Null
        BY <4>1, <4>2, <3>1, <1>1 DEF CoveringIn, b
      <4>3. CASE r.end # Null
        BY <4>1, <4>3 DEF CoveringIn
      <4> QED
        BY <4>2, <4>3
    <3>5. CoveringIn(new, h) = {close[r] : r \in CoveringIn(mine, h)}
      <4>1. CoveringIn(new, h) \subseteq new /\ CoveringIn(mine, h) \subseteq mine
        BY DEF CoveringIn
      <4> QED
        BY <4>1, <3>3, <3>4
    <3>6. CASE Tally(evs, u, m) = 0
      BY <3>2, <3>5, <3>6 DEF CoverOK
    <3>7. CASE Tally(evs, u, m) # 0
      <4>1. PICK r \in CoveringIn(mine, h) : CoveringIn(mine, h) = {r} /\ r.shares = Tally(evs, u, m)
        BY <3>2, <3>7 DEF CoverOK
      <4>2. r \in mine
        BY DEF CoveringIn
      <4>3. CoveringIn(new, h) = {close[r]} /\ close[r].shares = Tally(evs, u, m)
        BY <4>1, <4>2, <3>5, <1>4
      <4> QED
        BY <4>3, <3>7 DEF CoverOK
    <3> QED
      BY <3>6, <3>7
  <2> QED
    BY <2>1, <2>2
<1> QED
  BY <1>5, <1>6 DEF b, s

(* What the transaction of event n + 1 does to the positions: it closes    *)
(* open rows of the holders it changes, and opens one with the new tally.  *)
Closed(r, evs, n, receiver) ==
  [r EXCEPT !.end = Height(evs, n + 1) - 1,
            !.terminated = (Tally(evs, r.owner, n + 1) = 0), !.receiver = receiver]

Opened(p, rows, evs, n) ==
  /\ p.idx = NextIndex(rows) /\ p.start = Height(evs, n + 1) /\ p.end = Null
  /\ ~p.terminated /\ p.receiver = Null /\ p.shares = Tally(evs, p.owner, n + 1)

EffectBy(closed, opened, close, rows, new, evs, n) ==
  /\ new = {close[r] : r \in rows} \cup opened
  /\ \A r \in rows \ closed : close[r] = r
  /\ \A r \in closed : r.end = Null /\ close[r] = Closed(r, evs, n, close[r].receiver)
  /\ \A p \in opened : Opened(p, rows, evs, n) /\ \A q \in opened : p = q
  /\ \A u \in Users :
       IF Tally(evs, u, n + 1) = Tally(evs, u, n) THEN \A r \in closed \cup opened : r.owner # u
       ELSE /\ \A r \in rows : r.owner = u /\ r.end = Null => r \in closed
            /\ Tally(evs, u, n + 1) # 0 => \E p \in opened : p.owner = u

Effect(rows, new, evs, n) ==
  \E closed \in SUBSET rows, opened \in SUBSET Row, close \in [rows -> Row] :
    EffectBy(closed, opened, close, rows, new, evs, n)

(* Rows that told the ledger tell it after the event. *)
LEMMA EffectKeeps ==
  ASSUME NEW evs \in Seq(Event), InChainOrder(evs), NEW n \in Nat, n + 1 \in DOMAIN evs,
         NEW rows, RowsOK(rows), Distinct(rows), \A u \in Users : HolderOK(rows, evs, u, n),
         NEW new, Effect(rows, new, evs, n)
  PROVE  Distinct(new) /\ \A u \in Users : HolderOK(new, evs, u, n + 1)
<1>0. PICK closed \in SUBSET rows, opened \in SUBSET Row, close \in [rows -> Row] :
        EffectBy(closed, opened, close, rows, new, evs, n)
  BY DEF Effect
<1>1. /\ new = {close[r] : r \in rows} \cup opened
      /\ \A r \in rows \ closed : close[r] = r
      /\ \A r \in closed : r.end = Null /\ close[r] = Closed(r, evs, n, close[r].receiver)
      /\ \A p \in opened : Opened(p, rows, evs, n) /\ \A q \in opened : p = q
      /\ \A u \in Users :
           IF Tally(evs, u, n + 1) = Tally(evs, u, n) THEN \A r \in closed \cup opened : r.owner # u
           ELSE /\ \A r \in rows : r.owner = u /\ r.end = Null => r \in closed
                /\ Tally(evs, u, n + 1) # 0 => \E p \in opened : p.owner = u
  BY <1>0 DEF EffectBy
<1>2. rows \subseteq Row /\ \A r \in rows : r.idx \in Nat /\ r.idx < NextIndex(rows)
  BY NextIndexAbove DEF RowsOK, Row, Indices
<1>3. \A r \in closed : /\ close[r].idx = r.idx /\ close[r].owner = r.owner
                        /\ close[r].start = r.start /\ close[r].shares = r.shares
                        /\ close[r].end = Height(evs, n + 1) - 1
                        /\ close[r].terminated = (Tally(evs, r.owner, n + 1) = 0)
  <2>1. \A r \in Row : \A v : /\ Closed(r, evs, n, v).idx = r.idx /\ Closed(r, evs, n, v).owner = r.owner
                                 /\ Closed(r, evs, n, v).start = r.start /\ Closed(r, evs, n, v).shares = r.shares
                          /\ Closed(r, evs, n, v).end = Height(evs, n + 1) - 1
                          /\ Closed(r, evs, n, v).terminated = (Tally(evs, r.owner, n + 1) = 0)
    BY DEF Closed, Row
  <2> QED
    BY <1>1, <1>2, <2>1
<1>4. \A r \in rows : close[r].idx = r.idx /\ close[r].owner = r.owner /\ close[r] \in Row
  BY <1>1, <1>3
<1>5. Distinct(new)
  <2>1. \A r, q \in rows : close[r].idx = close[q].idx => r = q
    BY <1>4 DEF Distinct
  <2>2. \A r \in rows, p \in opened : close[r].idx # p.idx
    BY <1>1, <1>2, <1>4 DEF Opened
  <2>3. \A p, q \in opened : p = q
    BY <1>1
  <2> SUFFICES ASSUME NEW r \in new, NEW q \in new, r.idx = q.idx PROVE r = q
    BY DEF Distinct
  <2> QED
    BY <1>1, <2>1, <2>2, <2>3
<1>6. ASSUME NEW u \in Users PROVE HolderOK(new, evs, u, n + 1)
  <2> DEFINE mine == RowsOf(rows, u)
             own == RowsOf(opened, u)
             k == [r \in mine |-> close[r]]
  <2>1. mine \in SUBSET Row /\ own \in SUBSET Row /\ mine \subseteq rows /\ own \subseteq opened
    BY <1>2 DEF RowsOf
  <2>2. RowsOf(new, u) = {close[r] : r \in mine} \cup own
    BY <1>1, <1>4 DEF RowsOf
  <2>3. \A r \in mine : k[r] = close[r] /\ r.owner = u
    BY DEF RowsOf
  <2>4. \A p \in own : p.owner = u
    BY DEF RowsOf
  <2>5. HolderOK(rows, evs, u, n)
    OBVIOUS
  <2>6. CASE Tally(evs, u, n + 1) = Tally(evs, u, n)
    <3>1. own = {} /\ \A r \in mine : close[r] = r
      BY <2>6, <1>1 DEF RowsOf
    <3>2. RowsOf(new, u) = mine
      BY <3>1, <2>2
    <3>3. HolderOK(rows, evs, u, n + 1)
      BY <2>5, <2>6, <1>2, UntouchedHolder
    <3> QED
      BY <3>2, <3>3 DEF HolderOK
  <2>7. CASE Tally(evs, u, n + 1) # Tally(evs, u, n)
    <3> DEFINE s == Tally(evs, u, n + 1)
               next == RowsOf(new, u)
    <3>1. Distinct(mine) /\ CurrentOK(mine, Tally(evs, u, n), Height(evs, n)) /\ HistoryOK(mine, evs, u, n)
      BY <2>1, <2>5 DEF HolderOK, Distinct
    <3>2. k \in [mine -> Row]
      BY <2>1
    <3>3. \A r \in mine : r.end # Null => k[r] = r
      BY <1>1, <2>1, <2>3
    <3>4. \A r \in mine : r.end = Null =>
            /\ k[r].idx = r.idx /\ k[r].start = r.start /\ k[r].shares = r.shares
            /\ k[r].end = Height(evs, n + 1) - 1
            /\ k[r].terminated = (s = 0)
      BY <1>1, <1>3, <2>1, <2>3, <2>7
    <3>5. \A p \in own : /\ p.start = Height(evs, n + 1) /\ p.end = Null /\ ~p.terminated
                         /\ p.shares = s /\ \A r \in mine : r.idx < p.idx
      BY <1>1, <1>2, <2>1, <2>4 DEF Opened
    <3>6. s = 0 => own = {}
      BY <3>5, <2>1 DEF Row
    <3>7. s # 0 => \E p \in Row : own = {p}
      BY <1>1, <2>1, <2>7 DEF RowsOf
    <3>8. next = {k[r] : r \in mine} \cup own
      BY <2>2, <2>3
    <3>10. Touched(mine, next, k, own, evs, u, n)
      BY <2>1, <3>2, <3>3, <3>4, <3>5, <3>6, <3>7, <3>8 DEF Touched
    <3> HIDE DEF k, mine, own, next
    <3>9. CurrentOK(next, s, Height(evs, n + 1)) /\ HistoryOK(next, evs, u, n + 1)
      BY <2>1, <3>1, <3>10, TouchedHolder
    <3> QED
      BY <3>9 DEF HolderOK, next
  <2> QED
    BY <2>6, <2>7
<1> QED
  BY <1>5, <1>6

(***************************************************************************)
(* The transaction of an event has that effect.                            *)
(***************************************************************************)
(* The lookup of the transformer finds the open row of who has shares, and *)
(* nothing for who has none.                                               *)
LEMMA CurrentPosition ==
  ASSUME NEW rows, RowsOK(rows), Distinct(rows), NEW u \in Users, NEW s \in Nat, NEW b,
         CurrentOK(RowsOf(rows, u), s, b)
  PROVE  /\ s = 0 => /\ GetMostRecentPosition(rows, u) = Null
                     /\ \A r \in rows : r.owner = u => r.end # Null
         /\ s # 0 => \E r \in rows : /\ GetMostRecentPosition(rows, u) = r
                                     /\ r # Null /\ r.owner = u /\ r.end = Null /\ r.shares = s
                                     /\ \A q \in rows : q.owner = u /\ q.end = Null => q = r
<1> DEFINE mine == {r \in rows : r.owner = u}
           last == CHOOSE r \in mine : \A q \in mine : q.idx <= r.idx
<1>1. mine = RowsOf(rows, u) /\ mine \subseteq rows /\ rows \subseteq Row
  BY DEF RowsOf, RowsOK
<1>2. GetMostRecentPosition(rows, u) = IF mine = {} \/ last.terminated THEN Null ELSE last
  BY DEF GetMostRecentPosition
<1>3. \A r \in mine : r.idx \in Nat /\ r.shares # 0
  BY <1>1 DEF Row
<1> HIDE DEF mine
<1>4. mine # {} => \E r \in mine : \A q \in mine : q.idx <= r.idx
  <2>1. Indices(mine) \in SUBSET Indices(rows)
    BY <1>1 DEF Indices
  <2>2. mine # {} => Indices(mine) # {}
    BY DEF Indices
  <2> QED
    BY <2>1, <2>2 DEF RowsOK, HaveHighest, Indices
<1>5. mine # {} => last \in mine /\ \A q \in mine : q.idx <= last.idx
  BY <1>4
<1> HIDE DEF last
<1>6. CASE s = 0
  <2>1. \A r \in mine : r.end # Null
    BY <1>1, <1>3, <1>6 DEF CurrentOK
  <2>2. mine # {} => last.terminated
    BY <1>1, <1>5, <1>6 DEF CurrentOK
  <2>3. \A r \in rows : r.owner = u => r \in mine
    BY DEF mine
  <2> QED
    BY <1>2, <1>6, <2>1, <2>2, <2>3
<1>7. CASE s # 0
  <2>1. PICK r \in mine : r.end = Null
    BY <1>1, <1>7 DEF CurrentOK
  <2>2. r.shares = s /\ ~r.terminated /\ \A q \in mine : q.idx <= r.idx
    BY <1>1, <2>1 DEF CurrentOK
  <2>3. \A q \in mine : q.idx >= r.idx => q = r
    BY <1>1, <1>3, <2>2 DEF Distinct
  <2>4. last = r
    BY <1>3, <1>5, <2>1, <2>3
  <2>5. \A q \in mine : q.end = Null => q = r
    BY <1>1, <1>3, <2>3, <2>1 DEF CurrentOK
  <2>6. r \in rows /\ r.owner = u /\ r # Null
    BY <1>1, NullAssumption DEF mine
  <2>7. \A q \in rows : q.owner = u => q \in mine
    BY DEF mine
  <2> QED
    BY <1>2, <1>7, <2>1, <2>2, <2>4, <2>5, <2>6, <2>7
<1> QED
  BY <1>6, <1>7

(* Without an update the rows stay. *)
LEMMA ExecuteInsert ==
  ASSUME NEW rows, NEW ops, ops.updates = <<>>
  PROVE  Execute(rows, ops) = rows \cup Built(ops.inserts)
<1>1. Built(ops.updates) = {}
  BY DEF Built
<1> QED
  BY <1>1 DEF Execute

(* An update writes the row it was computed from, and no other one. *)
LEMMA ExecuteClose ==
  ASSUME NEW rows, RowsOK(rows), Distinct(rows), NEW t \in rows,
         NEW ops, NEW w, ops.updates = <<w>>, w.idx = t.idx,
         \A p \in Built(ops.inserts) : p.idx = NextIndex(rows)
  PROVE  Execute(rows, ops) = {IF r = t THEN Updated(t, w) ELSE r : r \in rows} \cup Built(ops.inserts)
<1> DEFINE P == Built(ops.inserts)
           F(r) == IF \E v \in Built(ops.updates) : v.idx = r.idx
                   THEN Updated(r, CHOOSE v \in Built(ops.updates) : v.idx = r.idx) ELSE r
<1>1. Built(ops.updates) = {w}
  BY DEF Built
<1>2. Execute(rows, ops) = {F(r) : r \in rows \cup P}
  BY DEF Execute
<1>3. \A r \in rows : r.idx < NextIndex(rows) /\ r.idx \in Nat
  BY NextIndexAbove DEF Indices
<1>4. \A p \in P : F(p) = p
  BY <1>1, <1>3
<1>5. \A r \in rows : F(r) = IF r = t THEN Updated(t, w) ELSE r
  <2> SUFFICES ASSUME NEW r \in rows PROVE F(r) = IF r = t THEN Updated(t, w) ELSE r
    OBVIOUS
  <2>1. w.idx = r.idx <=> r = t
    BY DEF Distinct
  <2>2. CASE r = t
    <3>1. (CHOOSE v \in {w} : v.idx = r.idx) = w
      BY <2>1, <2>2
    <3> QED
      BY <1>1, <2>1, <2>2, <3>1
  <2>3. CASE r # t
    BY <1>1, <2>1, <2>3
  <2> QED
    BY <2>2, <2>3
<1> HIDE DEF F, P
<1> QED
  BY <1>2, <1>4, <1>5 DEF P

(* One update of an open row, and at most one insert. *)
LEMMA EffectOfClose ==
  ASSUME NEW evs, NEW n, NEW rows, RowsOK(rows), NEW t \in rows, t.end = Null,
         NEW w, w.end = Height(evs, n + 1) - 1, w.end \in Int,
         w.terminated = (Tally(evs, t.owner, n + 1) = 0), w.receiver \in Users \cup {Null},
         NEW opened \in SUBSET Row, \A p \in opened : Opened(p, rows, evs, n) /\ \A q \in opened : p = q,
         \A u \in Users :
           IF Tally(evs, u, n + 1) = Tally(evs, u, n) THEN \A r \in {t} \cup opened : r.owner # u
           ELSE /\ \A r \in rows : r.owner = u /\ r.end = Null => r = t
                /\ Tally(evs, u, n + 1) # 0 => \E p \in opened : p.owner = u,
         NEW new, new = {IF r = t THEN Updated(t, w) ELSE r : r \in rows} \cup opened
  PROVE  Effect(rows, new, evs, n)
<1> DEFINE closed == {t}
           close == [r \in rows |-> IF r = t THEN Updated(t, w) ELSE r]
           receiver == IF w.receiver = Null THEN t.receiver ELSE w.receiver
<1>1. rows \subseteq Row /\ t \in Row
  BY DEF RowsOK
<1>2. Updated(t, w) = Closed(t, evs, n, receiver) /\ Updated(t, w).receiver = receiver
      /\ Updated(t, w) \in Row
  <2>1. receiver \in Users \cup {Null}
    BY <1>1 DEF Row
  <2>2. Updated(t, w) = [t EXCEPT !.end = w.end, !.terminated = w.terminated, !.receiver = receiver]
    BY DEF Updated
  <2> HIDE DEF receiver
  <2>3. Updated(t, w) = Closed(t, evs, n, receiver)
    BY <2>2 DEF Closed
  <2>4. w.terminated \in BOOLEAN
    OBVIOUS
  <2> QED
    BY <2>1, <2>2, <2>3, <2>4, <1>1 DEF Row
<1>3. close \in [rows -> Row] /\ new = {close[r] : r \in rows} \cup opened
  BY <1>1, <1>2
<1>4. \A r \in rows \ closed : close[r] = r
  OBVIOUS
<1>5. \A r \in closed : r.end = Null /\ close[r] = Closed(r, evs, n, close[r].receiver)
  BY <1>2
<1>6. closed \in SUBSET rows
  OBVIOUS
<1>7. \A u \in Users :
         IF Tally(evs, u, n + 1) = Tally(evs, u, n) THEN \A r \in closed \cup opened : r.owner # u
         ELSE /\ \A r \in rows : r.owner = u /\ r.end = Null => r \in closed
              /\ Tally(evs, u, n + 1) # 0 => \E p \in opened : p.owner = u
  OBVIOUS
<1> HIDE DEF closed, close
<1>9. EffectBy(closed, opened, close, rows, new, evs, n)
  BY <1>3, <1>4, <1>5, <1>7 DEF EffectBy
<1> QED
  BY <1>3, <1>6, <1>9 DEF Effect

(* At most one insert, and no update. *)
LEMMA EffectOfInsert ==
  ASSUME NEW evs, NEW n, NEW rows, RowsOK(rows),
         NEW opened \in SUBSET Row, \A p \in opened : Opened(p, rows, evs, n) /\ \A q \in opened : p = q,
         \A u \in Users :
           IF Tally(evs, u, n + 1) = Tally(evs, u, n) THEN \A r \in opened : r.owner # u
           ELSE (\A r \in rows : r.owner = u => r.end # Null) /\ \E p \in opened : p.owner = u
  PROVE  Effect(rows, rows \cup opened, evs, n)
<1> DEFINE close == [r \in rows |-> r]
           closed == {}
<1>1. close \in [rows -> Row] /\ closed \in SUBSET rows
  BY DEF RowsOK
<1>2. rows \cup opened = {close[r] : r \in rows} \cup opened
  OBVIOUS
<1>3. \A r \in rows \ closed : close[r] = r
  OBVIOUS
<1>4. closed = {} /\ \A r \in closed : r.end = Null /\ close[r] = Closed(r, evs, n, close[r].receiver)
  OBVIOUS
<1>5. \A u \in Users :
         IF Tally(evs, u, n + 1) = Tally(evs, u, n) THEN \A r \in closed \cup opened : r.owner # u
         ELSE /\ \A r \in rows : r.owner = u /\ r.end = Null => r \in closed
              /\ Tally(evs, u, n + 1) # 0 => \E p \in opened : p.owner = u
  BY <1>4
<1> HIDE DEF closed, close
<1>9. EffectBy(closed, opened, close, rows, rows \cup opened, evs, n)
  BY <1>2, <1>3, <1>4, <1>5 DEF EffectBy
<1> QED
  BY <1>1, <1>9 DEF Effect

(* The holder x, who has shares, gets a new number of them. *)
LEMMA UpdateEffect ==
  ASSUME NEW evs, NEW n, Height(evs, n + 1) \in Nat, NEW rows, RowsOK(rows), Distinct(rows),
         NEW x \in Users, NEW t \in rows, t # Null, t.owner = x, t.end = Null,
         \A q \in rows : q.owner = x /\ q.end = Null => q = t,
         Tally(evs, x, n + 1) \in Nat, Tally(evs, x, n + 1) # Tally(evs, x, n),
         \A u \in Users : u # x => Tally(evs, u, n + 1) = Tally(evs, u, n),
         NEW amount, NEW isAddition, NEW receiver \in Users \cup {Null},
         NewAmountShares(t.shares, amount, isAddition) = Tally(evs, x, n + 1)
  PROVE  Effect(rows,
                Execute(rows, UpdatePosition(t, amount, Height(evs, n + 1), isAddition, receiver, NextIndex(rows))),
                evs, n)
<1> DEFINE b == Height(evs, n + 1)
           s == Tally(evs, x, n + 1)
           i == NextIndex(rows)
           ops == UpdatePosition(t, amount, b, isAddition, receiver, i)
           p == Position(i, x, s, b)
           w == [idx |-> t.idx, end |-> b - 1, terminated |-> s = 0, receiver |-> receiver]
           opened == IF s = 0 THEN {} ELSE {p}
           new == {IF r = t THEN Updated(t, w) ELSE r : r \in rows} \cup opened
<1>1. ops = [inserts |-> IF s = 0 THEN <<>> ELSE <<p>>, updates |-> <<w>>]
  BY DEF UpdatePosition, EndHeight
<1>2. i \in Nat
  BY NextIndexAbove
<1>3. s # 0 => p \in Row /\ Opened(p, rows, evs, n) /\ p.owner = x
  BY <1>2 DEF Row, Position, Opened
<1>4. opened \in SUBSET Row /\ \A q \in opened : Opened(q, rows, evs, n) /\ q = p /\ s # 0
  BY <1>3
<1>5. Built(ops.inserts) = opened /\ ops.updates = <<w>>
  <2>1. ops.inserts = (IF s = 0 THEN <<>> ELSE <<p>>) /\ ops.updates = <<w>>
    BY <1>1
  <2> HIDE DEF ops, p, w, s
  <2>2. Built(<<>>) = {} /\ Built(<<p>>) = {p}
    BY DEF Built
  <2> QED
    BY <2>1, <2>2
<1>6. w.idx = t.idx /\ w.end = Height(evs, n + 1) - 1 /\ w.end \in Int
      /\ w.terminated = (Tally(evs, t.owner, n + 1) = 0) /\ w.receiver \in Users \cup {Null}
  OBVIOUS
<1>7. p.owner = x
  BY DEF Position
<1>8. \A u \in Users :
        IF Tally(evs, u, n + 1) = Tally(evs, u, n) THEN \A r \in {t} \cup opened : r.owner # u
        ELSE /\ \A r \in rows : r.owner = u /\ r.end = Null => r = t
             /\ Tally(evs, u, n + 1) # 0 => \E q \in opened : q.owner = u
  BY <1>4, <1>7
<1> HIDE DEF w, p, opened
<1>9. Execute(rows, ops) = new
  BY <1>4, <1>5, <1>6, ExecuteClose DEF Opened
<1> HIDE DEF ops
<1>10. Effect(rows, new, evs, n)
  BY <1>4, <1>6, <1>8, EffectOfClose
<1> QED
  BY <1>9, <1>10 DEF ops

(* An event that leaves the table alone changes no balance. *)
LEMMA NothingEffect ==
  ASSUME NEW evs, NEW n, NEW rows, RowsOK(rows), NEW ops, ops = Nothing,
         \A u \in Users : Tally(evs, u, n + 1) = Tally(evs, u, n)
  PROVE  Effect(rows, Execute(rows, ops), evs, n)
<1>1. ops.updates = <<>> /\ Built(ops.inserts) = {}
  BY DEF Nothing, Built
<1>2. Execute(rows, ops) = rows \cup {}
  BY <1>1, ExecuteInsert
<1>3. Effect(rows, rows \cup {}, evs, n)
  BY EffectOfInsert
<1> QED
  BY <1>2, <1>3

(* The first deposit of the holder x, or the next one after he left. *)
LEMMA InsertEffect ==
  ASSUME NEW evs, NEW n, Height(evs, n + 1) \in Nat, NEW rows, RowsOK(rows),
         NEW x \in Users, \A r \in rows : r.owner = x => r.end # Null,
         Tally(evs, x, n + 1) \in Nat \ {0}, Tally(evs, x, n + 1) # Tally(evs, x, n),
         \A u \in Users : u # x => Tally(evs, u, n + 1) = Tally(evs, u, n),
         NEW ops, ops.updates = <<>>,
         ops.inserts = <<Position(NextIndex(rows), x, Tally(evs, x, n + 1), Height(evs, n + 1))>>
  PROVE  Effect(rows, Execute(rows, ops), evs, n)
<1> DEFINE p == Position(NextIndex(rows), x, Tally(evs, x, n + 1), Height(evs, n + 1))
<1>1. NextIndex(rows) \in Nat
  BY NextIndexAbove
<1>2. p \in Row /\ Opened(p, rows, evs, n) /\ p.owner = x
  BY <1>1 DEF Row, Position, Opened
<1>3. ops.inserts = <<p>>
  OBVIOUS
<1> HIDE DEF p
<1>4. Built(ops.inserts) = {p}
  BY <1>3 DEF Built
<1>5. Execute(rows, ops) = rows \cup {p}
  BY <1>4, ExecuteInsert
<1>6. Effect(rows, rows \cup {p}, evs, n)
  <2>1. {p} \in SUBSET Row /\ \A q \in {p} : Opened(q, rows, evs, n) /\ \A r \in {p} : q = r
    BY <1>2
  <2>2. \A u \in Users :
          IF Tally(evs, u, n + 1) = Tally(evs, u, n) THEN \A r \in {p} : r.owner # u
          ELSE (\A r \in rows : r.owner = u => r.end # Null) /\ \E q \in {p} : q.owner = u
    BY <1>2
  <2> QED
    BY <2>1, <2>2, EffectOfInsert
<1> QED
  BY <1>5, <1>6

(* The holder x gives all he has to y, who had nothing. *)
LEMMA HandOverEffect ==
  ASSUME NEW evs, NEW n, Height(evs, n + 1) \in Nat, NEW rows, RowsOK(rows), Distinct(rows),
         NEW x \in Users, NEW y \in Users, x # y,
         NEW t \in rows, t.owner = x, t.end = Null,
         \A q \in rows : q.owner = x /\ q.end = Null => q = t,
         \A q \in rows : q.owner = y => q.end # Null,
         Tally(evs, x, n + 1) = 0, Tally(evs, x, n) # 0,
         Tally(evs, y, n + 1) \in Nat \ {0}, Tally(evs, y, n) = 0,
         \A u \in Users : u \notin {x, y} => Tally(evs, u, n + 1) = Tally(evs, u, n),
         NEW ops,
         ops.inserts = <<Position(NextIndex(rows), y, Tally(evs, y, n + 1), Height(evs, n + 1))>>,
         ops.updates = <<[idx |-> t.idx, end |-> Height(evs, n + 1) - 1,
                          terminated |-> Tally(evs, x, n + 1) = 0, receiver |-> Null]>>
  PROVE  Effect(rows, Execute(rows, ops), evs, n)
<1> DEFINE p == Position(NextIndex(rows), y, Tally(evs, y, n + 1), Height(evs, n + 1))
           w == [idx |-> t.idx, end |-> Height(evs, n + 1) - 1,
                 terminated |-> Tally(evs, x, n + 1) = 0, receiver |-> Null]
           opened == {p}
           new == {IF r = t THEN Updated(t, w) ELSE r : r \in rows} \cup opened
<1>1. NextIndex(rows) \in Nat
  BY NextIndexAbove
<1>2. p \in Row /\ Opened(p, rows, evs, n) /\ p.owner = y /\ p.idx = NextIndex(rows)
  BY <1>1 DEF Row, Position, Opened
<1>3. ops.inserts = <<p>> /\ ops.updates = <<w>>
  OBVIOUS
<1>4. w.idx = t.idx /\ w.end = Height(evs, n + 1) - 1 /\ w.end \in Int
      /\ w.terminated = (Tally(evs, t.owner, n + 1) = 0) /\ w.receiver \in Users \cup {Null}
  OBVIOUS
<1> HIDE DEF p, w
<1>5. Built(ops.inserts) = opened /\ \A q \in opened : q.idx = NextIndex(rows)
  BY <1>2, <1>3 DEF Built
<1>6. Execute(rows, ops) = new
  <2> HIDE DEF opened
  <2> QED
    BY <1>3, <1>4, <1>5, ExecuteClose
<1>7. opened \in SUBSET Row /\ \A q \in opened : Opened(q, rows, evs, n) /\ \A r \in opened : q = r
  BY <1>2
<1>8. \A u \in Users :
        IF Tally(evs, u, n + 1) = Tally(evs, u, n) THEN \A r \in {t} \cup opened : r.owner # u
        ELSE /\ \A r \in rows : r.owner = u /\ r.end = Null => r = t
             /\ Tally(evs, u, n + 1) # 0 => \E q \in opened : q.owner = u
  <2> TAKE u \in Users
  <2>1. CASE u = x
    BY <2>1, <1>2
  <2>2. CASE u = y
    BY <2>2, <1>2
  <2>3. CASE u \notin {x, y}
    BY <2>3, <1>2
  <2> QED
    BY <2>1, <2>2, <2>3
<1> HIDE DEF opened
<1>9. Effect(rows, new, evs, n)
  BY <1>4, <1>7, <1>8, EffectOfClose
<1> QED
  BY <1>6, <1>9

(* The statements of an event have the effect, whichever handler makes them. *)
LEMMA HandledEffect ==
  ASSUME NEW evs \in Seq(Event), InChainOrder(evs), LedgerOK(evs), NEW n \in Nat, n + 1 \in DOMAIN evs,
         NEW rows, RowsOK(rows), Distinct(rows), \A u \in Users : HolderOK(rows, evs, u, n)
  PROVE  Effect(rows, Execute(rows, Handle(rows, evs[n + 1])), evs, n)
<1> DEFINE e == evs[n + 1]
           i == NextIndex(rows)
           b == Height(evs, n + 1)
           before(u) == Tally(evs, u, n)
           after(u) == Tally(evs, u, n + 1)
           current(u) == GetMostRecentPosition(rows, u)
<1>1. e \in Event /\ b = e.block /\ b \in Nat
  <2>1. e \in Event
    OBVIOUS
  <2>2. Height(evs, n + 1) \in Nat /\ Height(evs, n + 1) = evs[n + 1].block
    BY HeightType
  <2> QED
    BY <2>1, <2>2
<1>2. Lawful(evs, e, n)
  <2>1. Lawful(evs, evs[n + 1], (n + 1) - 1) /\ (n + 1) - 1 = n
    BY DEF LedgerOK
  <2> QED
    BY <2>1
<1>3. \A u \in Users : before(u) \in Nat /\ after(u) \in Nat
  BY DEF LedgerOK
<1>4. \A u \in Users : after(u) = before(u) + Change(e, u)
  <2> SUFFICES ASSUME NEW u \in Users PROVE after(u) = before(u) + Change(e, u)
    OBVIOUS
  <2>1. n + 1 \in 1..Len(evs) /\ (n + 1) - 1 = n
    OBVIOUS
  <2> QED
    BY <2>1, TallyStep
<1>5. \A u \in Users :
        /\ before(u) = 0 => current(u) = Null /\ \A r \in rows : r.owner = u => r.end # Null
        /\ before(u) # 0 => \E r \in rows : /\ current(u) = r
                                            /\ r # Null /\ r.owner = u /\ r.end = Null /\ r.shares = before(u)
                                            /\ \A q \in rows : q.owner = u /\ q.end = Null => q = r
  BY <1>3, CurrentPosition DEF HolderOK
<1>6. Zero \notin Users
  BY UsersAssumption
<1>7. e.kind # "rate" => e.amount \in Nat \ {0}
  BY <1>1, TransformerAssumption DEF Event
<1> HIDE DEF e, i, b, before, after, current
<1>8. CASE e.kind = "deposit"
  <2> DEFINE x == e.from
             ops == ComputeDeposit(ProcessPosition(x, Null, e), current(x), i)
  <2>1. x \in Users /\ e.to = x
    BY <1>1, <1>2, <1>8 DEF Event, Lawful
  <2>2. Handle(rows, e) = ops
    BY <1>8 DEF Handle, HandleDeposit, Deposit, ProcessPosition, i, current
  <2>3. \A u \in Users : Change(e, u) = IF u = x THEN e.amount ELSE 0
    BY <1>6, <1>8, <2>1 DEF Change
  <2>4. after(x) = before(x) + e.amount /\ after(x) # before(x) /\ after(x) \in Nat \ {0}
        /\ before(x) \in Nat
    BY <2>1, <2>3, <1>3, <1>4, <1>7, <1>8
  <2>5. \A u \in Users : u # x => after(u) = before(u)
    BY <2>3, <1>3, <1>4
  <2> HIDE DEF x, ops
  <2>6. CASE before(x) = 0
    <3>1. ops = [inserts |-> <<Position(i, x, after(x), b)>>, updates |-> <<>>]
      <4>1. current(x) = Null /\ after(x) = e.amount /\ b = e.block
        BY <2>1, <2>4, <2>6, <1>1, <1>5, <1>7, <1>8
      <4>2. ops = [inserts |-> <<Position(i, x, e.amount, e.block)>>, updates |-> <<>>]
        BY <4>1 DEF ops, ComputeDeposit, ProcessPosition
      <4> QED
        BY <4>1, <4>2
    <3>2. ops.updates = <<>> /\ ops.inserts = <<Position(i, x, after(x), b)>>
      BY <3>1
    <3> QED
      BY <3>2, <2>1, <2>2, <2>4, <2>5, <2>6, <1>1, <1>5, InsertEffect DEF i, b, e, before, after
  <2>7. CASE before(x) # 0
    <3>1. PICK t \in rows :
            /\ current(x) = t /\ t # Null /\ t.owner = x /\ t.end = Null /\ t.shares = before(x)
            /\ \A q \in rows : q.owner = x /\ q.end = Null => q = t
      BY <2>1, <2>7, <1>5
    <3>2. ops = UpdatePosition(t, e.amount, b, TRUE, Null, i)
      BY <3>1, <1>1 DEF ops, ComputeDeposit, ProcessPosition
    <3>3. NewAmountShares(t.shares, e.amount, TRUE) = after(x) /\ Null \in Users \cup {Null}
      BY <3>1, <2>4 DEF NewAmountShares
    <3>4. Effect(rows, Execute(rows, UpdatePosition(t, e.amount, b, TRUE, Null, i)), evs, n)
      BY <3>1, <3>3, <2>1, <2>4, <2>5, <1>1, UpdateEffect DEF i, b, before, after
    <3> QED
      BY <3>2, <3>4, <2>2 DEF e
  <2> QED
    BY <2>6, <2>7
<1>9. CASE e.kind = "withdraw"
  <2> DEFINE x == e.from
  <2>1. x \in Users /\ e.to \in Users /\ e.amount <= before(x)
    BY <1>1, <1>2, <1>9 DEF Event, Lawful, before
  <2>2. Handle(rows, e) = UpdatePosition(current(x), e.amount, b, FALSE, e.to, i)
    BY <1>1, <1>9 DEF Handle, HandleWithdraw, Withdraw, ComputeWithdraw, ProcessPosition, i, current
  <2>3. \A u \in Users : Change(e, u) = IF u = x THEN -e.amount ELSE 0
    BY <2>1, <1>6, <1>9 DEF Change
  <2>4. after(x) = before(x) - e.amount /\ after(x) # before(x) /\ after(x) \in Nat
        /\ before(x) \in Nat /\ before(x) # 0
    BY <2>1, <2>3, <1>3, <1>4, <1>7, <1>9
  <2>5. \A u \in Users : u # x => after(u) = before(u)
    BY <2>3, <1>3, <1>4
  <2> HIDE DEF x
  <2>6. PICK t \in rows :
          /\ current(x) = t /\ t # Null /\ t.owner = x /\ t.end = Null /\ t.shares = before(x)
          /\ \A q \in rows : q.owner = x /\ q.end = Null => q = t
    BY <2>1, <2>4, <1>5
  <2>7. NewAmountShares(t.shares, e.amount, FALSE) = after(x)
    BY <2>1, <2>4, <2>6, <1>7, <1>9 DEF NewAmountShares
  <2>8. e.to \in Users \cup {Null}
    BY <2>1
  <2>9. Effect(rows, Execute(rows, UpdatePosition(t, e.amount, b, FALSE, e.to, i)), evs, n)
    BY <2>1, <2>4, <2>5, <2>6, <2>7, <2>8, <1>1, UpdateEffect DEF i, b, before, after
  <2> QED
    BY <2>2, <2>6, <2>9 DEF e
<1>10. CASE e.kind = "transfer" /\ Zero \notin {e.from, e.to}
  <2> DEFINE x == e.from
             y == e.to
             ops == Handle(rows, e)
  <2>1. x \in Users /\ y \in Users /\ x # y /\ e.amount = before(x) /\ before(y) = 0
    BY <1>1, <1>2, <1>10 DEF Event, Lawful, before
  <2>2. \A u \in Users : Change(e, u) = IF u = x THEN -e.amount ELSE IF u = y THEN e.amount ELSE 0
    BY <2>1, <1>7, <1>10 DEF Change
  <2>3. after(x) = 0 /\ before(x) \in Nat \ {0} /\ after(y) = e.amount /\ after(y) \in Nat \ {0}
    BY <2>1, <2>2, <1>3, <1>4, <1>7, <1>10
  <2>4. \A u \in Users : u \notin {x, y} => after(u) = before(u)
    BY <2>2, <1>3, <1>4
  <2>5. PICK t \in rows :
          /\ current(x) = t /\ t # Null /\ t.owner = x /\ t.end = Null /\ t.shares = before(x)
          /\ \A q \in rows : q.owner = x /\ q.end = Null => q = t
    BY <2>1, <2>3, <1>5
  <2>6. current(y) = Null /\ \A r \in rows : r.owner = y => r.end # Null
    BY <2>1, <1>5
  <2> DEFINE p == Position(i, y, after(y), b)
             w == [idx |-> t.idx, end |-> b - 1, terminated |-> after(x) = 0, receiver |-> Null]
             given == [inserts |-> <<p>>, updates |-> <<>>]
             taken == UpdatePosition(t, e.amount, b, FALSE, Null, i + 1)
  <2>7. NewAmountShares(t.shares, e.amount, FALSE) = 0
    BY <2>1, <2>3, <2>5 DEF NewAmountShares
  <2>8. taken = [inserts |-> <<>>, updates |-> <<w>>]
    BY <2>3, <2>5, <2>7 DEF UpdatePosition, EndHeight
  <2>9. ops = Both(given, taken)
    BY <2>3, <2>5, <2>6, <1>1, <1>10
       DEF Handle, HandleTransfer, Transfer, ComputeTransfer, ProcessPosition, i, current
  <2> HIDE DEF x, y, ops, p, w, taken
  <2>10. ops.inserts = <<p>> /\ ops.updates = <<w>>
    BY <2>8, <2>9 DEF Both
  <2>11. Effect(rows, Execute(rows, ops), evs, n)
    <3>1. after(x) = 0 /\ before(x) # 0
      BY <2>3
    <3> QED
      BY <3>1, <2>1, <2>3, <2>4, <2>5, <2>6, <2>10, <1>1, HandOverEffect DEF p, w, i, b, before, after
  <2> QED
    BY <2>11 DEF ops, e
<1>11. CASE e.kind = "rate" \/ (e.kind = "transfer" /\ Zero \in {e.from, e.to})
  <2>1. Handle(rows, e) = Nothing
    BY <1>11 DEF Handle, HandleTransfer, Transfer, ProcessPosition
  <2>2. \A u \in Users : Change(e, u) = 0
    BY <1>11 DEF Change
  <2>3. \A u \in Users : after(u) = before(u)
    BY <2>2, <1>3, <1>4
  <2> QED
    BY <2>1, <2>3, NothingEffect DEF e, before, after
<1>12. \/ e.kind = "deposit" \/ e.kind = "withdraw"
       \/ e.kind = "transfer" /\ Zero \notin {e.from, e.to}
       \/ e.kind = "rate" \/ (e.kind = "transfer" /\ Zero \in {e.from, e.to})
  <2>1. e.kind \in {"deposit", "withdraw", "transfer", "rate"}
    BY <1>1 DEF Event
  <2> QED
    BY <2>1
<1> HIDE DEF e
<1> QED
  BY <1>8, <1>9, <1>10, <1>11, <1>12

(***************************************************************************)
(* The steps of the transformer.                                           *)
(***************************************************************************)
(* The classes of events for which the positions are the ledger. *)
Plain == Allowed \subseteq {"zero", "second rate"}

(* What the vault emits, in terms of the tallies. *)
LEMMA VaultIsLawful ==
  ASSUME Plain, events \in Seq(Event), Law(events), NEW b \in Nat,
         NEW e \in Deposits(b) \cup Withdrawals(b) \cup Transfers(b) \cup MintsAndBurns(b) \cup RateUpdates(b)
  PROVE  /\ e \in Event /\ e.block = b /\ Lawful(events, e, Len(events))
         /\ \A u \in Users : Tally(events, u, Len(events)) + Change(e, u) \in Nat
<1> DEFINE L == Len(events)
<1>1. e \in Event /\ events \in Seq(Event) /\ L \in Nat /\ DOMAIN events = 1..L
  BY VaultEvents
<1>2. \A u \in Users : Holds(u) = Tally(events, u, L)
  <2> SUFFICES ASSUME NEW u \in Users PROVE Holds(u) = Tally(events, u, L)
    OBVIOUS
  <2>1. \A i \in 1..L : events[i].block <= LastBlock
    <3>1. \A i \in 1..L : L \in DOMAIN events /\ i <= L /\ events # <<>>
      BY <1>1
    <3> QED
      BY <1>1, <3>1 DEF Law, InChainOrder, LastBlock
  <2>2. {i \in DOMAIN events : events[i].block <= LastBlock} = 1..L
    BY <1>1, <2>1
  <2> QED
    BY <2>2, BalanceIsTally DEF Holds
<1>3. \A u \in Users : Tally(events, u, L) \in Nat
  BY <1>1 DEF Law, LedgerOK
<1>4. e.kind # "rate" => e.amount \in Nat \ {0}
  BY <1>1, TransformerAssumption DEF Event
<1>5. Zero \notin Users
  BY UsersAssumption
<1> HIDE DEF L
<1>6. CASE e \in Deposits(b)
  <2>1. e.kind = "deposit" /\ e.block = b /\ e.from = e.to /\ e.from \in Users
    BY <1>6 DEF Deposits, Plain
  <2>2. \A u : Change(e, u) = IF e.to = u THEN e.amount ELSE 0
    BY <1>5, <2>1 DEF Change
  <2> QED
    BY <1>1, <1>3, <1>4, <2>1, <2>2 DEF Lawful, L
<1>7. CASE e \in Withdrawals(b)
  <2>1. e.kind = "withdraw" /\ e.block = b /\ e.from \in Users /\ e.to \in Users /\ e.amount <= Tally(events, e.from, L)
    BY <1>2, <1>7 DEF Withdrawals
  <2>2. \A u : Change(e, u) = IF e.from = u THEN -e.amount ELSE 0
    BY <1>5, <2>1 DEF Change
  <2>3. \A u \in Users : Tally(events, u, L) + Change(e, u) \in Nat
    BY <1>3, <1>4, <2>1, <2>2
  <2> QED
    BY <1>1, <2>1, <2>3 DEF Lawful, L
<1>8. CASE e \in Transfers(b)
  <2>1. /\ e.kind = "transfer" /\ e.block = b /\ e.from \in Users /\ e.to \in Users /\ e.from # e.to
        /\ e.amount = Tally(events, e.from, L) /\ Tally(events, e.to, L) = 0
    <3>1. "part" \notin Allowed /\ "self" \notin Allowed /\ "joining" \notin Allowed
      BY DEF Plain
    <3> QED
      BY <1>2, <1>8, <3>1 DEF Transfers
  <2>2. \A u : Change(e, u) = (IF e.to = u THEN e.amount ELSE 0) - (IF e.from = u THEN e.amount ELSE 0)
    BY <1>5, <2>1 DEF Change
  <2>3. \A u \in Users : Tally(events, u, L) + Change(e, u) \in Nat
    BY <1>3, <1>4, <2>1, <2>2
  <2> QED
    BY <1>1, <2>1, <2>3 DEF Lawful, L
<1>9. CASE e \in MintsAndBurns(b) \cup RateUpdates(b)
  <2>1. e.block = b /\ (e.kind = "rate" \/ (e.kind = "transfer" /\ Zero \in {e.from, e.to}))
    BY <1>9 DEF MintsAndBurns, RateUpdates
  <2>2. \A u : Change(e, u) = 0
    BY <2>1 DEF Change
  <2> QED
    BY <1>1, <1>3, <2>1, <2>2 DEF Lawful, L
<1> QED
  BY <1>6, <1>7, <1>8, <1>9

(* The first events of a lawful sequence are one. *)
LEMMA LawPrefix ==
  ASSUME NEW evs \in Seq(Event), Law(evs), NEW first \in Seq(Event), Len(first) <= Len(evs),
         \A i \in DOMAIN first : first[i] = evs[i]
  PROVE  Law(first)
<1>1. DOMAIN first \subseteq DOMAIN evs /\ DOMAIN first = 1..Len(first) /\ Len(first) \in Nat /\ Len(evs) \in Nat
  OBVIOUS
<1>2. InChainOrder(first)
  BY <1>1 DEF Law, InChainOrder
<1>3. \A u, n : n \in 0..Len(first) => Tally(first, u, n) = Tally(evs, u, n)
  <2> SUFFICES ASSUME NEW u, NEW n \in 0..Len(first) PROVE Tally(first, u, n) = Tally(evs, u, n)
    OBVIOUS
  <2>1. n \in 0..Len(evs) /\ n \in 0..Len(first) /\ \A i \in 1..n : first[i] = evs[i]
    BY <1>1
  <2> QED
    BY <2>1, TallyPrefix
<1>4. ASSUME NEW i \in DOMAIN first PROVE Lawful(first, first[i], i - 1)
  <2>1. i - 1 \in 0..Len(first) /\ Lawful(evs, first[i], i - 1)
    BY <1>1 DEF Law, LedgerOK
  <2> QED
    BY <2>1, <1>3 DEF Lawful
<1>5. \A u \in Users, n \in 0..Len(first) : Tally(first, u, n) \in Nat
  BY <1>1, <1>3 DEF Law, LedgerOK
<1> QED
  BY <1>2, <1>4, <1>5 DEF Law, LedgerOK

(* A lawful event makes the sequence a longer one. *)
LEMMA LawAppend ==
  ASSUME NEW evs \in Seq(Event), Law(evs), NEW e \in Event, e.block # 0,
         \A i \in DOMAIN evs : evs[i].block <= e.block,
         Lawful(evs, e, Len(evs)), \A u \in Users : Tally(evs, u, Len(evs)) + Change(e, u) \in Nat
  PROVE  Law(Append(evs, e))
<1> DEFINE L == Len(evs)
           later == Append(evs, e)
<1>1. L \in Nat /\ DOMAIN evs = 1..L /\ \A i \in 1..L : evs[i] \in Event /\ evs[i].block \in Nat
  BY DEF Event
<1>2. e.block \in Nat
  BY DEF Event
<1>3. /\ later \in Seq(Event) /\ Len(later) = L + 1 /\ DOMAIN later = 1..(L + 1)
      /\ later[L + 1] = e /\ \A i \in 1..L : later[i] = evs[i]
  BY <1>1
<1> HIDE DEF later
<1>4. InChainOrder(later)
  <2> SUFFICES ASSUME NEW i \in 1..(L + 1)
               PROVE  later[i].block # 0 /\ \A j \in 1..(L + 1) : i <= j => later[i].block <= later[j].block
    BY <1>3 DEF InChainOrder
  <2>1. CASE i = L + 1
    BY <1>1, <1>2, <1>3, <2>1
  <2>2. CASE i # L + 1
    <3>1. i \in 1..L /\ later[i] = evs[i] /\ evs[i].block <= e.block
      BY <1>1, <1>3, <2>2
    <3>2. \A j \in 1..(L + 1) : j = L + 1 \/ (j \in 1..L /\ later[j] = evs[j])
      BY <1>1, <1>3
    <3> QED
      BY <1>1, <1>3, <3>1, <3>2 DEF Law, InChainOrder
  <2> QED
    BY <2>1, <2>2
<1>5. \A u, n : n \in 0..L => Tally(later, u, n) = Tally(evs, u, n)
  <2> SUFFICES ASSUME NEW u, NEW n \in 0..L PROVE Tally(later, u, n) = Tally(evs, u, n)
    OBVIOUS
  <2>1. n \in 0..Len(evs) /\ n \in 0..Len(later) /\ \A i \in 1..n : later[i] = evs[i]
    BY <1>1, <1>3
  <2> QED
    BY <1>3, <2>1, TallyPrefix
<1>6. ASSUME NEW i \in 1..(L + 1) PROVE Lawful(later, later[i], i - 1)
  <2>1. i - 1 \in 0..L
    BY <1>1
  <2>2. Lawful(evs, later[i], i - 1)
    <3>1. CASE i = L + 1
      <4>1. i - 1 = L
        BY <1>1, <3>1
      <4> QED
        BY <1>3, <3>1, <4>1
    <3>2. CASE i # L + 1
      BY <1>1, <1>3, <3>2 DEF Law, LedgerOK
    <3> QED
      BY <3>1, <3>2
  <2> QED
    BY <1>5, <2>1, <2>2 DEF Lawful
<1>7. ASSUME NEW u \in Users, NEW n \in 0..(L + 1) PROVE Tally(later, u, n) \in Nat
  <2>1. CASE n = L + 1
    <3>1. n \in 1..Len(later) /\ n - 1 = L /\ L \in 0..L
      BY <1>1, <1>3, <2>1
    <3>2. Tally(later, u, n) = Tally(later, u, n - 1) + Change(later[n], u)
      BY <1>3, <3>1, TallyStep
    <3> QED
      BY <1>3, <1>5, <2>1, <3>1, <3>2
  <2>2. CASE n # L + 1
    <3>1. n \in 0..L
      BY <1>1, <2>2
    <3> QED
      BY <1>5, <3>1 DEF Law, LedgerOK
  <2> QED
    BY <2>1, <2>2
<1> QED
  BY <1>3, <1>4, <1>6, <1>7 DEF Law, LedgerOK, later

(* What is told of the first events does not depend on the others. *)
LEMMA HolderPrefix ==
  ASSUME NEW evs \in Seq(Event), NEW later \in Seq(Event), NEW n \in 0..Len(evs), n \in 0..Len(later),
         \A i \in 1..n : later[i] = evs[i],
         NEW rows, NEW u, HolderOK(rows, evs, u, n)
  PROVE  HolderOK(rows, later, u, n)
<1>1. Height(later, n) = Height(evs, n)
  BY DEF Height
<1>2. \A m \in 0..n : Tally(later, u, m) = Tally(evs, u, m)
  <2> SUFFICES ASSUME NEW m \in 0..n PROVE Tally(later, u, m) = Tally(evs, u, m)
    OBVIOUS
  <2>1. m \in 0..Len(evs) /\ m \in 0..Len(later) /\ \A i \in 1..m : later[i] = evs[i]
    OBVIOUS
  <2> QED
    BY <2>1, TallyPrefix
<1>3. \A m \in 0..n, h \in Nat : Upto(later, m, h, n) <=> Upto(evs, m, h, n)
  <2>1. \A m \in 0..n : /\ \A i \in 1..m : later[i] = evs[i]
                        /\ \A i \in (m + 1)..n : later[i] = evs[i]
    OBVIOUS
  <2> QED
    BY <2>1 DEF Upto
<1>4. n \in 0..n
  OBVIOUS
<1> QED
  BY <1>1, <1>2, <1>3, <1>4 DEF HolderOK, HistoryOK

(* What the vault emits next is lawful, ... *)
LEMMA ArriveAppends ==
  ASSUME Plain, events \in Seq(Event), Law(events), NEW b \in Nat, b >= LastBlock, ArriveAt(b)
  PROVE  \E e \in Event : events' = Append(events, e) /\ Law(Append(events, e))
<1> DEFINE L == Len(events)
<1>1. L \in Nat /\ DOMAIN events = 1..L /\ \A i \in 1..L : events[i] \in Event /\ events[i].block \in Nat
  BY DEF Event
<1>2. LastBlock \in Nat \ {0} /\ \A i \in 1..L : events[i].block <= LastBlock
  <2>1. CASE events = <<>>
    BY <2>1 DEF LastBlock
  <2>2. CASE events # <<>>
    <3>1. L \in 1..L
      BY <1>1, <2>2
    <3> QED
      BY <1>1, <2>2, <3>1 DEF LastBlock, Law, InChainOrder
  <2> QED
    BY <2>1, <2>2
<1>3. PICK e \in Deposits(b) \cup Withdrawals(b) \cup Transfers(b) \cup MintsAndBurns(b) \cup RateUpdates(b) :
        events' = Append(events, e)
  BY DEF ArriveAt
<1>4. /\ e \in Event /\ e.block = b /\ Lawful(events, e, L)
      /\ \A u \in Users : Tally(events, u, L) + Change(e, u) \in Nat
  BY VaultIsLawful
<1>5. e.block # 0 /\ \A i \in DOMAIN events : events[i].block <= e.block
  BY <1>1, <1>2, <1>4
<1>6. Law(Append(events, e))
  BY <1>4, <1>5, LawAppend
<1> QED
  BY <1>3, <1>4, <1>6

(* ... and changes nothing of what is told so far. *)
LEMMA ArriveKeeps == ASSUME Plain, IInv, LedgerInv, Arrive PROVE LedgerInv'
<1>1. events \in Seq(Event) /\ Law(events)
  BY DEF IInv, DataOK, LedgerInv
<1>2. LastBlock \in Nat
  <2>1. CASE events = <<>>
    BY <2>1 DEF LastBlock
  <2>2. CASE events # <<>>
    <3>1. events[Len(events)] \in Event
      BY <1>1, <2>2
    <3> QED
      BY <2>2, <3>1 DEF LastBlock, Event
  <2> QED
    BY <2>1, <2>2
<1>3. PICK b \in Nat : b >= LastBlock /\ ArriveAt(b)
  BY <1>2 DEF Arrive
<1>4. PICK e \in Event : events' = Append(events, e) /\ Law(Append(events, e))
  BY <1>1, <1>3, ArriveAppends
<1>5. processed' = processed /\ positions' = positions
  BY <1>3 DEF ArriveAt
<1>6. /\ events' \in Seq(Event) /\ Len(events') = Len(events) + 1 /\ Len(events) \in Nat
      /\ \A i \in 1..Len(events) : events'[i] = events[i]
  BY <1>1, <1>4
<1>7. ASSUME NEW n \in 0..Len(events'), processed = 1..n, NEW u \in Users
      PROVE  HolderOK(positions, events', u, n)
  <2>1. n \in 0..Len(events)
    <3>1. processed \subseteq 1..Len(events)
      BY <1>1 DEF IInv, TypeOK
    <3>2. n # 0 => n \in 1..n
      BY <1>6
    <3> QED
      BY <1>6, <1>7, <3>1, <3>2
  <2>2. HolderOK(positions, events, u, n)
    BY <1>7, <2>1 DEF LedgerInv
  <2>3. n \in 0..Len(events') /\ \A i \in 1..n : events'[i] = events[i]
    BY <1>6, <2>1
  <2> QED
    BY <1>1, <1>6, <2>1, <2>2, <2>3, HolderPrefix
<1> QED
  BY <1>4, <1>5, <1>7 DEF LedgerInv

(* The transaction of an event has its effect. *)
LEMMA CommitEffect ==
  ASSUME IInv, LedgerInv, NEW i \in First(batch), Commit(i)
  PROVE  LedgerInv' /\ \E n \in Nat : Effect(positions, positions', events, n)
<1>1. PICK n \in Nat : processed = 1..n
  BY DEF IInv, OrderOK
<1>2. i = n + 1
  BY <1>1, FirstIsNext
<1>3. events \in Seq(Event) /\ RowsOK(positions) /\ DOMAIN events = 1..Len(events)
  BY DEF IInv, DataOK
<1>4. n + 1 \in DOMAIN events /\ n \in 0..Len(events)
  BY <1>2, <1>3 DEF First, IInv, TypeOK
<1>5. /\ events' = events /\ processed' = processed \cup {n + 1}
      /\ positions' = Execute(positions, Handle(positions, events[n + 1]))
  BY <1>2 DEF Commit, Derive
<1>6. /\ InChainOrder(events) /\ LedgerOK(events) /\ Distinct(positions)
      /\ \A u \in Users : HolderOK(positions, events, u, n)
  BY <1>1, <1>4 DEF LedgerInv, Law
<1>7. Effect(positions, positions', events, n)
  BY <1>3, <1>4, <1>5, <1>6, HandledEffect
<1>8. Distinct(positions') /\ \A u \in Users : HolderOK(positions', events, u, n + 1)
  BY <1>3, <1>4, <1>6, <1>7, EffectKeeps
<1>9. \A k \in 0..Len(events) : processed' = 1..k => k = n + 1
  <2> SUFFICES ASSUME NEW k \in 0..Len(events), processed' = 1..k PROVE k = n + 1
    OBVIOUS
  <2>1. 1..k = (1..n) \cup {n + 1}
    BY <1>1, <1>5
  <2>2. n + 1 \in 1..k
    BY <2>1
  <2>3. k \in 1..k
    BY <2>2
  <2>4. k \in (1..n) \cup {n + 1}
    BY <2>1, <2>3
  <2> QED
    BY <2>2, <2>4
<1>10. LedgerInv'
  BY <1>5, <1>6, <1>8, <1>9 DEF LedgerInv, Law
<1> QED
  BY <1>7, <1>10

(* The only step that writes positions is the commit of an event. *)
LEMMA OnlyCommitsWrite ==
  ASSUME IInv, [Next]_vars
  PROVE  \/ UNCHANGED tables
         \/ Arrive /\ UNCHANGED positions
         \/ \E i \in First(batch) : Commit(i)
<1>1. CASE UNCHANGED vars
  BY <1>1 DEF vars
<1>2. CASE Arrive
  BY <1>2 DEF Arrive, ArriveAt
<1>3. CASE ReadBatch
  BY <1>3 DEF ReadBatch
<1>4. CASE QueryFails
  BY <1>4 DEF QueryFails
<1>5. CASE Process
  BY <1>5 DEF Process
<1>6. CASE PoisonFails
  BY <1>6 DEF PoisonFails
<1>7. CASE CallFails
  BY <1>7 DEF CallFails
<1>8. CASE Crash
  BY <1>8 DEF Crash
<1>9. CASE Restart
  BY <1>9 DEF Restart
<1>10. CASE ReadBreaksOff
  BY <1>10 DEF ReadBreaksOff
<1> QED
  BY <1>1, <1>2, <1>3, <1>4, <1>5, <1>6, <1>7, <1>8, <1>9, <1>10 DEF Next, Loop

(* The empty table tells the empty ledger. *)
LEMMA EmptyHolder == ASSUME NEW evs \in Seq(Event), NEW u PROVE HolderOK({}, evs, u, 0)
<1>1. RowsOf({}, u) = {} /\ 0..0 = {0}
  BY DEF RowsOf
<1>2. Tally(evs, u, 0) = 0
  BY TallyZero
<1>3. CurrentOK({}, Tally(evs, u, 0), Height(evs, 0))
  BY <1>2 DEF CurrentOK
<1>4. \A h \in Nat : CoverOK(CoveringIn({}, h), Tally(evs, u, 0))
  BY <1>2 DEF CoverOK, CoveringIn
<1> QED
  BY <1>1, <1>3, <1>4 DEF HolderOK, HistoryOK

LEMMA EmptyLaw == Law(<<>>)
<1>1. <<>> \in Seq(Event) /\ DOMAIN <<>> = {} /\ Len(<<>>) = 0 /\ 0..0 = {0}
  OBVIOUS
<1>2. \A u : Tally(<<>>, u, 0) = 0
  BY <1>1, TallyZero
<1>3. InChainOrder(<<>>)
  BY <1>1 DEF InChainOrder
<1>4. LedgerOK(<<>>)
  BY <1>1, <1>2 DEF LedgerOK
<1> QED
  BY <1>3, <1>4 DEF Law

LEMMA LedgerInit == Init => LedgerInv
<1> SUFFICES ASSUME Init PROVE LedgerInv
  OBVIOUS
<1>1. events = <<>> /\ positions = {} /\ Len(events) = 0 /\ 0..0 = {0} /\ events \in Seq(Event)
  BY DEF Init
<1>2. Law(events)
  BY <1>1, EmptyLaw
<1>3. Distinct(positions)
  BY <1>1 DEF Distinct
<1>4. \A u \in Users : HolderOK(positions, events, u, 0)
  <2>1. \A u : HolderOK({}, events, u, 0)
    BY <1>1, EmptyHolder
  <2> QED
    BY <1>1, <2>1
<1> QED
  BY <1>1, <1>2, <1>3, <1>4 DEF LedgerInv

(* No step of the vault or of the loop makes the rows tell another ledger. *)
LEMMA LedgerStep == ASSUME Plain, IInv, LedgerInv, [Next]_vars PROVE LedgerInv'
<1>1. CASE UNCHANGED tables
  BY <1>1 DEF tables, LedgerInv
<1>2. CASE Arrive
  BY <1>2, ArriveKeeps
<1>3. CASE \E i \in First(batch) : Commit(i)
  BY <1>3, CommitEffect
<1> QED
  BY <1>1, <1>2, <1>3, OnlyCommitsWrite

(* The invariant, from its two steps. *)
LEMMA LedgerInvariance == ASSUME Plain PROVE Spec => [](IInv /\ LedgerInv)
<1>1. LedgerInv /\ IInv /\ [Next]_vars => LedgerInv'
  BY LedgerStep
<1> QED
  BY <1>1, LedgerInit, Invariance, PTL DEF Spec

(* The events up to a block come first. *)
LEMMA EventsUpto ==
  ASSUME NEW evs \in Seq(Event), InChainOrder(evs), NEW h \in Nat
  PROVE  \E m \in 0..Len(evs) : /\ {i \in DOMAIN evs : evs[i].block <= h} = 1..m
                                /\ \A n \in m..Len(evs) : Upto(evs, m, h, n)
<1> DEFINE L == Len(evs)
           above == {i \in 1..L : evs[i].block > h}
<1>1. DOMAIN evs = 1..L /\ L \in Nat /\ \A i \in 1..L : evs[i].block \in Nat
  BY DEF Event
<1>2. CASE above = {}
  <2>1. {i \in DOMAIN evs : evs[i].block <= h} = 1..L /\ L \in 0..L
    BY <1>1, <1>2
  <2>2. \A n \in L..L : Upto(evs, L, h, n)
    BY <1>1, <1>2 DEF Upto
  <2> QED
    BY <2>1, <2>2
<1>3. CASE above # {}
  <2>1. above \in SUBSET Nat
    OBVIOUS
  <2>2. PICK k \in above : \A i \in above : k <= i
    BY <2>1, <1>3, Least
  <2> DEFINE m == k - 1
  <2>3. m \in 0..L /\ k \in 1..L /\ evs[k].block > h
    BY <1>1, <2>2
  <2>4. \A i \in 1..m : i \in 1..L /\ evs[i].block <= h
    <3> SUFFICES ASSUME NEW i \in 1..m PROVE i \in 1..L /\ evs[i].block <= h
      OBVIOUS
    <3>1. i \in 1..L /\ ~(k <= i)
      BY <1>1, <2>3
    <3>2. i \notin above
      BY <2>2, <3>1
    <3> QED
      BY <1>1, <3>1, <3>2
  <2>5. \A i \in 1..L : i \notin 1..m => evs[i].block > h
    <3> SUFFICES ASSUME NEW i \in 1..L, i \notin 1..m PROVE evs[i].block > h
      OBVIOUS
    <3>1. k <= i
      BY <2>3
    <3>2. evs[k].block <= evs[i].block
      BY <1>1, <2>3, <3>1 DEF InChainOrder
    <3> QED
      BY <1>1, <2>3, <3>2
  <2> HIDE DEF m, above
  <2>6. {i \in DOMAIN evs : evs[i].block <= h} = 1..m
    BY <1>1, <2>4, <2>5
  <2>7. \A n \in m..L : Upto(evs, m, h, n)
    BY <1>1, <2>3, <2>4, <2>5 DEF Upto
  <2> QED
    BY <2>3, <2>6, <2>7
<1> QED
  BY <1>2, <1>3

(* Rows that tell the ledger of the processed events are its history. *)
LEMMA LedgerTold ==
  ASSUME events \in Seq(Event), Law(events), NEW n \in 0..Len(events), processed = 1..n,
         \A u \in Users : HolderOK(positions, events, u, n)
  PROVE  HistoryIsLedger
<1>1. DOMAIN events = 1..Len(events)
  OBVIOUS
<1> SUFFICES ASSUME NEW h \in 1..LastBlock,
                    \A i \in DOMAIN events : events[i].block <= h => i \in processed,
                    NEW u \in Users
             PROVE  /\ Cardinality(Covering(u, h)) <= 1
                    /\ {r.shares : r \in Covering(u, h)} = {Balance(u, h)} \ {0}
  BY DEF HistoryIsLedger
<1>2. h \in Nat
  OBVIOUS
<1>3. PICK m \in 0..Len(events) : /\ {i \in DOMAIN events : events[i].block <= h} = 1..m
                                  /\ \A k \in m..Len(events) : Upto(events, m, h, k)
  BY <1>1, <1>2, EventsUpto DEF Law
<1>4. m \in 0..n
  <2>1. 1..m \subseteq 1..n
    BY <1>3
  <2>2. m # 0 => m \in 1..m
    OBVIOUS
  <2> QED
    BY <2>1, <2>2
<1>5. Upto(events, m, h, n)
  BY <1>3, <1>4
<1>6. Balance(u, h) = Tally(events, u, m)
  BY <1>3, BalanceIsTally
<1>7. CoverOK(CoveringIn(RowsOf(positions, u), h), Tally(events, u, m))
  BY <1>2, <1>4, <1>5 DEF HolderOK, HistoryOK
<1>8. CoveringIn(RowsOf(positions, u), h) = Covering(u, h)
  BY DEF CoveringIn, RowsOf, Covering
<1>9. CoverOK(Covering(u, h), Balance(u, h))
  BY <1>6, <1>7, <1>8
<1>10. CASE Balance(u, h) = 0
  <2>1. Covering(u, h) = {}
    BY <1>9, <1>10 DEF CoverOK
  <2>2. Cardinality(Covering(u, h)) = 0
    BY <2>1, FS_EmptySet
  <2> QED
    BY <1>10, <2>1, <2>2
<1>11. CASE Balance(u, h) # 0
  <2>1. PICK r : Covering(u, h) = {r} /\ r.shares = Balance(u, h)
    BY <1>9, <1>11 DEF CoverOK
  <2>2. Cardinality(Covering(u, h)) = 1
    BY <2>1, FS_Singleton
  <2> QED
    BY <1>11, <2>1, <2>2
<1> QED
  BY <1>10, <1>11

(* The positions of the plain classes of events are the ledger, at every   *)
(* block whose events are processed: one row with the balance for each who *)
(* has one, whatever fails and however the blocks fall into batches        *)
(* (position-transformer.go).                                              *)
THEOREM HistoryTheorem == ASSUME Plain PROVE Spec => []HistoryIsLedger
<1>1. ASSUME IInv, LedgerInv PROVE HistoryIsLedger
  <2>1. events \in Seq(Event) /\ DOMAIN events = 1..Len(events) /\ Law(events)
    BY <1>1 DEF IInv, DataOK, LedgerInv
  <2>2. PICK n \in Nat : processed = 1..n
    BY <1>1 DEF IInv, OrderOK
  <2>3. n \in 0..Len(events)
    <3>1. processed \subseteq 1..Len(events)
      BY <1>1, <2>1 DEF IInv, TypeOK
    <3>2. n # 0 => n \in 1..n
      OBVIOUS
    <3> QED
      BY <2>2, <3>1, <3>2
  <2>4. \A u \in Users : HolderOK(positions, events, u, n)
    BY <1>1, <2>2, <2>3 DEF LedgerInv
  <2> QED
    BY <2>1, <2>2, <2>3, <2>4, LedgerTold
<1> QED
  BY <1>1, LedgerInvariance, PTL

(* The step of PositionsImmutable. *)
RowsKept(rows, new) ==
  \A r \in rows : \E q \in new :
    /\ q = [r EXCEPT !.end = q.end, !.terminated = q.terminated, !.receiver = q.receiver]
    /\ r.end # Null => q = r

(* The effect of an event ends rows, and changes nothing else of them. *)
LEMMA EffectKeepsRows ==
  ASSUME NEW rows, RowsOK(rows), NEW evs, NEW n, NEW new, Effect(rows, new, evs, n)
  PROVE  RowsKept(rows, new)
<1>1. PICK closed \in SUBSET rows, opened \in SUBSET Row, close \in [rows -> Row] :
        EffectBy(closed, opened, close, rows, new, evs, n)
  BY DEF Effect
<1> SUFFICES ASSUME NEW r \in rows
             PROVE  /\ close[r] \in new
                    /\ close[r] = [r EXCEPT !.end = close[r].end, !.terminated = close[r].terminated,
                                            !.receiver = close[r].receiver]
                    /\ r.end # Null => close[r] = r
  BY DEF RowsKept
<1>2. r \in Row
  BY DEF RowsOK
<1>3. close[r] \in new
  BY <1>1 DEF EffectBy
<1>4. CASE r \in closed
  <2>1. r.end = Null /\ close[r] = Closed(r, evs, n, close[r].receiver)
    BY <1>1, <1>4 DEF EffectBy
  <2>2. close[r].end = Height(evs, n + 1) - 1 /\ close[r].terminated = (Tally(evs, r.owner, n + 1) = 0)
    BY <1>2, <2>1 DEF Closed, Row
  <2> QED
    BY <1>3, <2>1, <2>2 DEF Closed
<1>5. CASE r \notin closed
  <2>1. close[r] = r
    BY <1>1, <1>5 DEF EffectBy
  <2>2. r = [r EXCEPT !.end = r.end, !.terminated = r.terminated, !.receiver = r.receiver]
    BY <1>2 DEF Row
  <2> QED
    BY <1>3, <2>1, <2>2
<1> QED
  BY <1>4, <1>5

(* A position keeps its amount and its start, and is never written again   *)
(* once it has ended, for the plain classes of events and however the      *)
(* calls fail ("Position amounts and start heights are immutable",         *)
(* positions/route.ts:28).                                                 *)
THEOREM ImmutableTheorem == ASSUME Plain PROVE Spec => PositionsImmutable
<1>1. ASSUME IInv, LedgerInv, [Next]_vars PROVE RowsKept(positions, positions')
  <2>1. RowsOK(positions)
    BY <1>1 DEF IInv, DataOK
  <2>2. CASE positions' = positions
    <3>1. \A r \in positions : r \in Row
      BY <2>1 DEF RowsOK
    <3>2. \A r \in Row : r = [r EXCEPT !.end = r.end, !.terminated = r.terminated, !.receiver = r.receiver]
      BY DEF Row
    <3> QED
      BY <2>2, <3>1, <3>2 DEF RowsKept
  <2>3. CASE \E i \in First(batch) : Commit(i)
    <3>1. PICK n \in Nat : Effect(positions, positions', events, n)
      BY <1>1, <2>3, CommitEffect
    <3> QED
      BY <2>1, <3>1, EffectKeepsRows
  <2> QED
    BY <1>1, <2>2, <2>3, OnlyCommitsWrite DEF tables
<1>2. Spec => [][RowsKept(positions, positions')]_vars
  <2>1. IInv /\ LedgerInv /\ [Next]_vars => [RowsKept(positions, positions')]_vars
    BY <1>1
  <2> QED
    BY <2>1, LedgerInvariance, PTL DEF Spec
<1> QED
  BY <1>2 DEF PositionsImmutable, RowsKept
=============================================================================
