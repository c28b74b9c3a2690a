-------------------------- MODULE TransformerProofs --------------------------
(***************************************************************************)
(* Theorems of Transformer, for any holders, amounts, batch size, classes  *)
(* of events and failures.                                                 *)
(***************************************************************************)
EXTENDS Transformer, FiniteSetTheorems, TLAPS

(***************************************************************************)
(* What one event does to the positions.                                   *)
(***************************************************************************)
Event ==
  [kind : {"deposit", "withdraw"}, from : Users, to : Users, amount : Amounts, block : Nat]
    \cup [kind : {"transfer"}, from : Users \cup {Zero}, to : Users \cup {Zero},
           amount : Amounts, block : Nat]
    \cup [kind : {"rate"}, block : Nat]

Update == [idx : Nat, end : Int, terminated : BOOLEAN, receiver : Users \cup {Null}]

Indices(rows) == {r.idx : r \in rows}

(* Any rows have one of the highest index among them. *)
HaveHighest(ids) == \A I \in SUBSET ids : I # {} => \E n \in I : \A m \in I : m <= n

RowsOK(rows) == rows \subseteq Row /\ HaveHighest(Indices(rows))

LEMMA NextIndexAbove ==
  ASSUME NEW rows, RowsOK(rows)
  PROVE  NextIndex(rows) \in Nat \ {0} /\ \A n \in Indices(rows) : n \in Nat /\ n < NextIndex(rows)
<1> DEFINE I == Indices(rows)
           S == {0} \cup I
<1>1. I \subseteq Nat /\ I \in SUBSET I
  BY DEF RowsOK, Row, Indices
<1>2. I # {} => \E n \in I : \A m \in I : m <= n
  BY <1>1 DEF RowsOK, HaveHighest
<1>3. NextIndex(rows) = Max(S) + 1
  BY DEF NextIndex, MaxPositionIndexId, Indices
<1> HIDE DEF I
<1>4. \E n \in S : \A m \in S : n >= m
  <2>1. CASE I = {}
    BY <2>1
  <2>2. CASE I # {}
    BY <2>2, <1>1, <1>2
  <2> QED
    BY <2>1, <2>2
<1>5. Max(S) \in S /\ \A m \in S : Max(S) >= m
  BY <1>4 DEF Max
<1>6. PICK top \in S : top = Max(S) /\ \A m \in S : top >= m
  BY <1>5
<1>7. top + 1 \in Nat \ {0} /\ \A n \in I : n \in Nat /\ n < top + 1
  BY <1>1, <1>6
<1>8. NextIndex(rows) = top + 1
  BY <1>3, <1>6
<1> QED
  BY <1>7, <1>8 DEF I

(* The current position of a holder is a row of his. *)
LEMMA CurrentIsRow ==
  ASSUME NEW rows, RowsOK(rows), NEW owner, GetMostRecentPosition(rows, owner) # Null
  PROVE  GetMostRecentPosition(rows, owner) \in {r \in rows : r.owner = owner}
<1> DEFINE mine == {r \in rows : r.owner = owner}
           last == CHOOSE r \in mine : \A q \in mine : q.idx <= r.idx
<1>1. mine # {} /\ GetMostRecentPosition(rows, owner) = last
  BY DEF GetMostRecentPosition
<1>2. Indices(mine) \in SUBSET Indices(rows) /\ Indices(mine) # {}
  BY <1>1 DEF Indices
<1>3. PICK n \in Indices(mine) : \A m \in Indices(mine) : m <= n
  BY <1>2 DEF RowsOK, HaveHighest
<1>4. \E r \in mine : \A q \in mine : q.idx <= r.idx
  BY <1>3 DEF Indices
<1>5. last \in mine
  BY <1>4
<1> QED
  BY <1>1, <1>5

(* What an event computes: each insert is a row under the next index or    *)
(* above it, the first one under it, and each update has the right types.  *)
OpsOK(ops, i) ==
  /\ \A p \in Built(ops.inserts) : p \in Row /\ p.idx = i
  /\ \A u \in Built(ops.updates) : u \in Update

AtMostOne(ops, i) ==
  /\ ops.inserts = <<>> \/ \E p \in Row : ops.inserts = <<p>> /\ p.idx = i
  /\ ops.updates = <<>> \/ \E u \in Update : ops.updates = <<u>>

LEMMA UpdateOK ==
  ASSUME NEW current \in Row \cup {Null}, NEW amount \in Nat \ {0}, NEW block \in Nat,
         NEW isAddition \in BOOLEAN, NEW receiver \in Users \cup {Null}, NEW i \in Nat
  PROVE  /\ AtMostOne(UpdatePosition(current, amount, block, isAddition, receiver, i), i)
         /\ isAddition /\ current # Null =>
              UpdatePosition(current, amount, block, isAddition, receiver, i).inserts # <<>>
<1> DEFINE ops == UpdatePosition(current, amount, block, isAddition, receiver, i)
<1>1. CASE current = Null
  BY <1>1 DEF UpdatePosition, Nothing, AtMostOne
<1>2. CASE current # Null
  <2> DEFINE left == NewAmountShares(current.shares, amount, isAddition)
             u == [idx |-> current.idx, end |-> EndHeight(block),
                   terminated |-> left = 0, receiver |-> receiver]
             p == Position(i, current.owner, left, block)
  <2>1. current \in Row
    BY <1>2
  <2>2. current.shares \in Nat \ {0} /\ current.owner \in Users /\ current.idx \in Nat
    BY <2>1 DEF Row
  <2>3. left \in Nat /\ (isAddition => left # 0)
    BY <2>2 DEF NewAmountShares
  <2>4. EndHeight(block) \in Int
    BY DEF EndHeight
  <2> HIDE DEF left
  <2>5. u \in Update
    BY <2>2, <2>4 DEF Update
  <2>6. left # 0 => p \in Row /\ p.idx = i
    BY <2>2, <2>3 DEF Row, Position
  <2>7. ops = [inserts |-> IF left = 0 THEN <<>> ELSE <<p>>, updates |-> <<u>>]
    BY <1>2 DEF UpdatePosition, left
  <2>8. ops.updates = <<u>> /\ ops.inserts = IF left = 0 THEN <<>> ELSE <<p>>
    BY <2>7
  <2> HIDE DEF u, p, ops
  <2>9. <<p>> # <<>>
    OBVIOUS
  <2>10. ops.inserts = <<>> \/ \E q \in Row : ops.inserts = <<q>> /\ q.idx = i
    BY <2>6, <2>8
  <2>11. isAddition => ops.inserts # <<>>
    BY <2>3, <2>8, <2>9
  <2> QED
    BY <2>5, <2>8, <2>10, <2>11 DEF ops, AtMostOne
<1> QED
  BY <1>1, <1>2

LEMMA AdditionOK ==
  \A current \in Row, amount \in Nat \ {0}, block \in Nat, i \in Nat :
    /\ AtMostOne(UpdatePosition(current, amount, block, TRUE, Null, i), i)
    /\ current # Null => UpdatePosition(current, amount, block, TRUE, Null, i).inserts # <<>>
<1> TAKE current \in Row, amount \in Nat \ {0}, block \in Nat, i \in Nat
<1>1. TRUE \in BOOLEAN /\ Null \in Users \cup {Null} /\ current \in Row \cup {Null}
  OBVIOUS
<1> QED
  BY <1>1, UpdateOK, Zenon

LEMMA SubtractionOK ==
  \A current \in Row \cup {Null}, amount \in Nat \ {0}, block \in Nat,
     receiver \in Users \cup {Null}, i \in Nat :
    AtMostOne(UpdatePosition(current, amount, block, FALSE, receiver, i), i)
<1> TAKE current \in Row \cup {Null}, amount \in Nat \ {0}, block \in Nat,
         receiver \in Users \cup {Null}, i \in Nat
<1>1. FALSE \in BOOLEAN
  OBVIOUS
<1> QED
  BY <1>1, UpdateOK, Zenon

LEMMA HandleOK ==
  ASSUME NEW rows, RowsOK(rows), NEW e \in Event, ~Unhandled(rows, e)
  PROVE  OpsOK(Handle(rows, e), NextIndex(rows))
<1> DEFINE i == NextIndex(rows)
<1>1. i \in Nat
  BY NextIndexAbove
<1>2. \A owner : GetMostRecentPosition(rows, owner) \in Row \cup {Null}
  BY CurrentIsRow DEF RowsOK
<1>3. \A s : Built(<<s>>) = {s}
  BY DEF Built
<1>4. Built(<<>>) = {}
  BY DEF Built
<1> USE TransformerAssumption
<1> HIDE DEF i
<1>5. CASE e.kind = "deposit"
  <2> DEFINE current == GetMostRecentPosition(rows, e.from)
             ops == ComputeDeposit(ProcessPosition(e.from, Null, e), current, i)
  <2>1. e.from \in Users /\ e.amount \in Nat \ {0} /\ e.block \in Nat
    BY <1>5 DEF Event
  <2>2. Handle(rows, e) = ops
    BY <1>5 DEF Handle, HandleDeposit, Deposit, ProcessPosition, i
  <2>3. CASE current = Null
    <3> DEFINE p == Position(i, e.from, e.amount, e.block)
    <3>1. ops = [inserts |-> <<p>>, updates |-> <<>>]
      BY <2>3 DEF ComputeDeposit, ProcessPosition
    <3>2. p \in Row /\ p.idx = i
      BY <2>1, <1>1 DEF Row, Position
    <3> QED
      BY <3>1, <3>2, <2>2, <1>3, <1>4 DEF OpsOK, i
  <2>4. CASE current # Null
    <3>1. ops = UpdatePosition(current, e.amount, e.block, TRUE, Null, i)
      BY <2>4 DEF ComputeDeposit, ProcessPosition
    <3>2. current \in Row
      BY <2>4, <1>2
    <3>3. AtMostOne(ops, i)
      BY <3>1, <3>2, <2>1, <1>1, AdditionOK
    <3> HIDE DEF ops
    <3> QED
      BY <3>3, <2>2, <1>3, <1>4 DEF OpsOK, AtMostOne, i
  <2> QED
    BY <2>3, <2>4
<1>6. CASE e.kind = "withdraw"
  <2> DEFINE current == GetMostRecentPosition(rows, e.from)
             ops == UpdatePosition(current, e.amount, e.block, FALSE, e.to, i)
  <2>1. e.to \in Users /\ e.amount \in Nat \ {0} /\ e.block \in Nat
    BY <1>6 DEF Event
  <2>2. Handle(rows, e) = ops
    BY <1>6 DEF Handle, HandleWithdraw, Withdraw, ComputeWithdraw, ProcessPosition, i
  <2>3. AtMostOne(ops, i)
    BY <2>1, <1>1, <1>2, SubtractionOK
  <2> HIDE DEF ops
  <2> QED
    BY <2>3, <2>2, <1>3, <1>4 DEF OpsOK, AtMostOne, i
<1>7. CASE e.kind = "transfer" /\ Zero \in {e.from, e.to}
  <2>1. Handle(rows, e) = Nothing
    BY <1>7 DEF Handle, HandleTransfer, Transfer, ProcessPosition
  <2> QED
    BY <2>1, <1>4 DEF OpsOK, Nothing
<1>8. CASE e.kind = "transfer" /\ Zero \notin {e.from, e.to}
  <2> DEFINE sender == GetMostRecentPosition(rows, e.from)
             receiver == GetMostRecentPosition(rows, e.to)
             p == Position(i, e.to, e.amount, e.block)
             a == IF receiver = Null THEN [inserts |-> <<p>>, updates |-> <<>>]
                  ELSE UpdatePosition(receiver, e.amount, e.block, TRUE, Null, i)
             b == UpdatePosition(sender, e.amount, e.block, FALSE, Null, i + 1)
             ops == Handle(rows, e)
  <2>1. e.to \in Users /\ e.amount \in Nat \ {0} /\ e.block \in Nat
    <3>1. e.to # Zero
      BY <1>8
    <3> QED
      BY <1>8, <3>1 DEF Event
  <2>2. ops = Both(a, b)
    BY <1>8 DEF Handle, HandleTransfer, Transfer, ComputeTransfer, ProcessPosition, i
  <2>3. /\ \E q \in Row : a.inserts = <<q>> /\ q.idx = i
        /\ a.updates = <<>> \/ \E u \in Update : a.updates = <<u>>
    <3>1. CASE receiver = Null
      <4>1. p \in Row /\ p.idx = i
        BY <2>1, <1>1 DEF Row, Position
      <4> QED
        BY <3>1, <4>1
    <3>2. CASE receiver # Null
      <4>1. receiver \in Row /\ receiver # Null
        BY <3>2, <1>2
      <4>2. AtMostOne(a, i) /\ a.inserts # <<>>
        BY <3>2, <4>1, <2>1, <1>1, AdditionOK
      <4> QED
        BY <4>2 DEF AtMostOne
    <3> QED
      BY <3>1, <3>2
  <2>4. /\ b.inserts = <<>> \/ \E q \in Row : b.inserts = <<q>>
        /\ b.updates = <<>> \/ \E u \in Update : b.updates = <<u>>
    <3>1. i + 1 \in Nat
      BY <1>1
    <3>2. AtMostOne(b, i + 1)
      BY <3>1, <2>1, <1>2, SubtractionOK
    <3> QED
      BY <3>2 DEF AtMostOne
  <2> HIDE DEF a, b, ops
  <2>5. ops.inserts = a.inserts \o b.inserts /\ ops.updates = a.updates \o b.updates
    BY <2>2 DEF Both
  <2>6. \A s \in Built(ops.inserts) : s \in Row /\ s.idx = i
    BY <2>3, <2>4, <2>5 DEF Built
  <2>7. ops.updates = <<>> \/ ops.updates[1] \in Update
    <3>1. CASE a.updates = <<>>
      <4>1. ops.updates = b.updates
        BY <3>1, <2>4, <2>5
      <4> QED
        BY <4>1, <2>4
    <3>2. CASE \E u \in Update : a.updates = <<u>>
      <4>1. PICK u \in Update : a.updates = <<u>>
        BY <3>2
      <4>2. CASE b.updates = <<>>
        BY <4>1, <4>2, <2>5
      <4>3. CASE \E v \in Update : b.updates = <<v>>
        BY <4>1, <4>3, <2>5
      <4> QED
        BY <4>2, <4>3, <2>4
    <3> QED
      BY <3>1, <3>2, <2>3
  <2>8. \A u \in Built(ops.updates) : u \in Update
    BY <2>7 DEF Built
  <2> QED
    BY <2>6, <2>8 DEF OpsOK, ops, i
<1>9. CASE e.kind = "rate"
  <2>1. Handle(rows, e) = Nothing
    BY <1>9 DEF Handle
  <2> QED
    BY <2>1, <1>4 DEF OpsOK, Nothing
<1>10. e.kind \in {"deposit", "withdraw", "transfer", "rate"}
  BY DEF Event
<1> QED
  BY <1>5, <1>6, <1>7, <1>8, <1>9, <1>10

LEMMA ExecuteOK ==
  ASSUME NEW rows, RowsOK(rows), NEW ops, OpsOK(ops, NextIndex(rows))
  PROVE  RowsOK(Execute(rows, ops))
<1> DEFINE i == NextIndex(rows)
           ups == Built(ops.updates)
           all == rows \cup Built(ops.inserts)
           F(r) == IF \E u \in ups : u.idx = r.idx
                   THEN Updated(r, CHOOSE u \in ups : u.idx = r.idx) ELSE r
<1>1. Execute(rows, ops) = {F(r) : r \in all}
  BY DEF Execute
<1>2. all \subseteq Row /\ Indices(all) \subseteq Indices(rows) \cup {i}
  BY DEF OpsOK, RowsOK, Indices
<1>3. \A r \in Row, u \in Update : Updated(r, u) \in Row /\ Updated(r, u).idx = r.idx
  <2> SUFFICES ASSUME NEW r \in Row, NEW u \in Update
               PROVE  Updated(r, u) \in Row /\ Updated(r, u).idx = r.idx
    OBVIOUS
  <2>1. CASE u.receiver = Null
    BY <2>1 DEF Row, Update, Updated
  <2>2. CASE u.receiver # Null
    BY <2>2 DEF Row, Update, Updated
  <2> QED
    BY <2>1, <2>2
<1>4. ups \subseteq Update
  BY DEF OpsOK
<1> HIDE DEF ups, all, i
<1>5. \A r \in all : F(r) \in Row /\ F(r).idx = r.idx
  <2> SUFFICES ASSUME NEW r \in all PROVE F(r) \in Row /\ F(r).idx = r.idx
    OBVIOUS
  <2>1. CASE \E u \in ups : u.idx = r.idx
    <3> DEFINE w == CHOOSE u \in ups : u.idx = r.idx
    <3>1. w \in Update
      BY <2>1, <1>4
    <3>2. F(r) = Updated(r, w)
      BY <2>1
    <3> HIDE DEF w, F
    <3> QED
      BY <3>1, <3>2, <1>2, <1>3
  <2>2. CASE ~\E u \in ups : u.idx = r.idx
    BY <2>2, <1>2
  <2> QED
    BY <2>1, <2>2
<1> HIDE DEF F
<1>6. Execute(rows, ops) \subseteq Row /\ Indices(Execute(rows, ops)) \subseteq Indices(rows) \cup {i}
  BY <1>1, <1>2, <1>5 DEF Indices
<1>7. \A n \in Indices(rows) : n \in Nat /\ n < i
  BY NextIndexAbove DEF i
<1>8. i \in Nat
  BY NextIndexAbove DEF i
<1>9. ASSUME NEW I \in SUBSET (Indices(rows) \cup {i}), I # {}
      PROVE  \E n \in I : \A m \in I : m <= n
  <2>1. CASE i \in I
    BY <2>1, <1>7, <1>8
  <2>2. CASE i \notin I
    BY <2>2, <1>9 DEF RowsOK, HaveHighest
  <2> QED
    BY <2>1, <2>2
<1> QED
  BY <1>6, <1>9 DEF RowsOK, HaveHighest

(***************************************************************************)
(* The inductive invariant.                                                *)
(***************************************************************************)
(* The rows of the tables have their types, and an event is a vault event. *)
DataOK == events \in Seq(Event) /\ RowsOK(positions)

(* The processed events are the first ones, and the batch holds the next   *)
(* ones without a gap: this is what keeps an event from being overtaken    *)
(* when the batch is given up.                                             *)
OrderOK ==
  /\ \E n \in Nat : processed = 1..n
  /\ batch \subseteq Unprocessed
  /\ \A i \in batch, j \in Unprocessed : j < i => j \in batch

IInv == TypeOK /\ DataOK /\ OrderOK /\ WithdrawalsRecorded

LEMMA InitInv == Init => IInv
<1> SUFFICES ASSUME Init PROVE IInv
  OBVIOUS
<1> USE TransformerAssumption DEF Init
<1>1. TypeOK
  <2>1. {w.id : w \in requests} \cup processed = {} /\ batch = {} /\ positions = {}
    OBVIOUS
  <2>2. faults \in 0..MaxFaults
    OBVIOUS
  <2>3. running \in BOOLEAN /\ lastError \in BOOLEAN
    OBVIOUS
  <2> QED
    BY <2>1, <2>2, <2>3 DEF TypeOK
<1>2. events \in Seq(Event)
  OBVIOUS
<1>3. RowsOK(positions)
  BY DEF RowsOK, HaveHighest, Indices
<1>4. processed = 1..0 /\ 0 \in Nat
  OBVIOUS
<1>5. OrderOK
  BY <1>4 DEF OrderOK
<1>6. WithdrawalsRecorded
  BY DEF WithdrawalsRecorded
<1> QED
  BY <1>1, <1>2, <1>3, <1>5, <1>6 DEF IInv, DataOK

(* Whatever the vault emits is an event. *)
LEMMA VaultEvents ==
  ASSUME NEW b \in Nat
  PROVE  Deposits(b) \cup Withdrawals(b) \cup Transfers(b) \cup MintsAndBurns(b) \cup RateUpdates(b)
           \subseteq Event
<1>1. Deposits(b) \subseteq Event
  BY DEF Deposits, Event
<1>2. Withdrawals(b) \subseteq Event
  BY DEF Withdrawals, Event
<1>3. Transfers(b) \subseteq Event
  BY DEF Transfers, Event
<1>4. MintsAndBurns(b) \subseteq Event
  BY DEF MintsAndBurns, Event
<1>5. RateUpdates(b) \subseteq Event
  BY DEF RateUpdates, Event
<1> QED
  BY <1>1, <1>2, <1>3, <1>4, <1>5

LEMMA ArriveInv == IInv /\ Arrive => IInv'
<1> SUFFICES ASSUME IInv, Arrive PROVE IInv'
  OBVIOUS
<1>1. events \in Seq(Event)
  BY DEF IInv, DataOK
<1>2. LastBlock \in Nat
  <2>1. CASE events = <<>>
    BY <2>1 DEF LastBlock
  <2>2. CASE events # <<>>
    <3>1. events[Len(events)] \in Event
      BY <2>2, <1>1
    <3>2. events[Len(events)].block \in Nat
      BY <3>1 DEF Event
    <3> QED
      BY <2>2, <3>2 DEF LastBlock
  <2> QED
    BY <2>1, <2>2
<1>3. LastBlock + 1 \in Nat
  BY <1>2
<1>4. PICK b \in Nat : ArriveAt(b)
  BY <1>2, <1>3 DEF Arrive
<1>5. PICK e \in Event : events' = Append(events, e)
  BY <1>4, VaultEvents DEF ArriveAt
<1>6. UNCHANGED <<processed, positions, requests, rates, running, batch, lastError, faults>>
  BY <1>4 DEF ArriveAt
<1>7. /\ events' \in Seq(Event) /\ DOMAIN events' = DOMAIN events \cup {Len(events) + 1}
      /\ \A i \in DOMAIN events : events'[i] = events[i] /\ i < Len(events) + 1
  BY <1>1, <1>5
<1>8. TypeOK'
  BY <1>6, <1>7 DEF IInv, TypeOK
<1>9. DataOK'
  BY <1>6, <1>7 DEF IInv, DataOK
<1>10. OrderOK'
  <2>1. batch \subseteq DOMAIN events /\ Unprocessed' \subseteq Unprocessed \cup {Len(events) + 1}
    BY <1>6, <1>7 DEF IInv, TypeOK, Unprocessed
  <2>2. batch \subseteq Unprocessed'
    BY <1>6, <1>7 DEF IInv, OrderOK, Unprocessed
  <2>3. \A i \in batch, j \in Unprocessed' : j < i => j \in batch
    <3> SUFFICES ASSUME NEW i \in batch, NEW j \in Unprocessed', j < i PROVE j \in batch
      OBVIOUS
    <3>1. i < Len(events) + 1 /\ i \in Nat /\ Len(events) \in Nat
      BY <2>1, <1>7, <1>1
    <3>2. j # Len(events) + 1
      BY <3>1
    <3> QED
      BY <3>2, <2>1 DEF IInv, OrderOK
  <2> QED
    BY <1>6, <2>2, <2>3 DEF IInv, OrderOK
<1>11. WithdrawalsRecorded'
  BY <1>6, <1>7 DEF IInv, TypeOK, WithdrawalsRecorded
<1> QED
  BY <1>8, <1>9, <1>10, <1>11 DEF IInv

(* The query leaves no event out that comes before one it returns.         *)
LEMMA SelectionClosed ==
  ASSUME NEW ids \in SUBSET Nat, NEW i \in Selection(ids), NEW j \in ids, j < i
  PROVE  j \in Selection(ids)
<1> DEFINE before(k) == {m \in ids : m < k}
<1>1. i \in ids /\ i \in Nat /\ j \in Nat /\ Cardinality(before(i)) < BatchSize
  BY DEF Selection
<1>2. before(i) \in SUBSET (0..i) /\ before(j) \in SUBSET before(i)
  <2>1. \A m \in ids : m \in Nat /\ (m < i => m \in 0..i) /\ (m < j => m < i)
    BY <1>1
  <2> QED
    BY <2>1
<1>3. IsFiniteSet(0..i) /\ 0 \in Int /\ i \in Int
  BY <1>1, FS_Interval
<1>4. IsFiniteSet(before(i))
  BY <1>2, <1>3, FS_Subset
<1>5. IsFiniteSet(before(j)) /\ Cardinality(before(j)) <= Cardinality(before(i))
  BY <1>2, <1>4, FS_Subset
<1>6. Cardinality(before(j)) \in Nat /\ Cardinality(before(i)) \in Nat /\ BatchSize \in Nat
  BY <1>4, <1>5, FS_CardinalityType, TransformerAssumption
<1> HIDE DEF before
<1>7. Cardinality(before(j)) < BatchSize
  BY <1>1, <1>5, <1>6
<1> QED
  BY <1>7 DEF Selection, before

(* Any first part of what is not processed makes a batch. *)
LEMMA NewBatchInv ==
  ASSUME IInv, UNCHANGED tables, batch' \subseteq Unprocessed,
         \A i \in batch', j \in Unprocessed : j < i => j \in batch',
         running' \in BOOLEAN, lastError' \in BOOLEAN, faults' \in 0..MaxFaults
  PROVE  IInv'
<1>1. UNCHANGED <<events, processed, positions, requests, rates>>
  BY DEF tables
<1>2. Unprocessed \subseteq DOMAIN events /\ Unprocessed' = Unprocessed
  BY <1>1 DEF Unprocessed
<1>3. OrderOK'
  BY <1>1, <1>2 DEF IInv, OrderOK
<1>4. TypeOK'
  BY <1>1, <1>2 DEF IInv, TypeOK
<1>5. DataOK' /\ WithdrawalsRecorded'
  BY <1>1 DEF IInv, DataOK, WithdrawalsRecorded
<1> QED
  BY <1>3, <1>4, <1>5 DEF IInv

LEMMA ReadBatchInv == IInv /\ ReadBatch => IInv'
<1> SUFFICES ASSUME IInv, ReadBatch PROVE IInv'
  OBVIOUS
<1>1. batch' = Selection(Unprocessed) /\ UNCHANGED <<tables, running, lastError, faults>>
  BY DEF ReadBatch
<1>2. batch' \subseteq Unprocessed
  BY <1>1 DEF Selection
<1>3. Unprocessed \in SUBSET Nat
  BY DEF Unprocessed, IInv, DataOK
<1>4. \A i \in batch', j \in Unprocessed : j < i => j \in batch'
  BY <1>1, <1>3, SelectionClosed
<1>5. running' \in BOOLEAN /\ lastError' \in BOOLEAN /\ faults' \in 0..MaxFaults
  BY <1>1 DEF IInv, TypeOK
<1> QED
  BY <1>1, <1>2, <1>4, <1>5, NewBatchInv

(* The batch is given up, or kept, and the tables are as they were. *)
LEMMA RestInv ==
  ASSUME IInv, UNCHANGED tables, batch' \in {batch, {}},
         running' \in BOOLEAN, lastError' \in BOOLEAN, faults' \in 0..MaxFaults
  PROVE  IInv'
<1>1. UNCHANGED <<events, processed, positions, requests, rates>>
  BY DEF tables
<1>2. Unprocessed' = Unprocessed
  BY <1>1 DEF Unprocessed
<1>3. batch' \subseteq batch
  OBVIOUS
<1>4. OrderOK'
  <2>1. CASE batch' = batch
    BY <2>1, <1>1, <1>2 DEF IInv, OrderOK
  <2>2. CASE batch' = {}
    BY <2>2, <1>1, <1>2 DEF IInv, OrderOK
  <2> QED
    BY <2>1, <2>2
<1>5. TypeOK'
  BY <1>1, <1>3 DEF IInv, TypeOK
<1>6. DataOK' /\ WithdrawalsRecorded'
  BY <1>1 DEF IInv, DataOK, WithdrawalsRecorded
<1> QED
  BY <1>4, <1>5, <1>6 DEF IInv

LEMMA ReadBreaksOffInv == IInv /\ ReadBreaksOff => IInv'
<1> SUFFICES ASSUME IInv, ReadBreaksOff PROVE IInv'
  OBVIOUS
<1>1. UNCHANGED tables /\ faults' = faults + 1 /\ faults < MaxFaults
  BY DEF ReadBreaksOff, MayFail
<1>2. running \in BOOLEAN /\ lastError \in BOOLEAN /\ faults' \in 0..MaxFaults
  BY <1>1, TransformerAssumption DEF IInv, TypeOK
<1>3. PICK i \in Selection(Unprocessed) :
        \/ /\ batch' = {j \in Unprocessed : j < i}
           /\ lastError' \in {lastError, TRUE} /\ UNCHANGED running
        \/ HandleError
  BY DEF ReadBreaksOff
<1>4. CASE HandleError
  BY <1>1, <1>2, <1>4, RestInv DEF HandleError
<1>5. CASE /\ batch' = {j \in Unprocessed : j < i}
           /\ lastError' \in {lastError, TRUE} /\ UNCHANGED running
  <2>1. Unprocessed \subseteq Nat /\ i \in Nat
    BY DEF Unprocessed, Selection, IInv, DataOK
  <2>2. batch' \subseteq Unprocessed /\ \A k \in batch', j \in Unprocessed : j < k => j \in batch'
    BY <1>5, <2>1
  <2>3. running' \in BOOLEAN /\ lastError' \in BOOLEAN
    BY <1>2, <1>5
  <2> QED
    BY <1>1, <1>2, <2>2, <2>3, NewBatchInv
<1> QED
  BY <1>3, <1>4, <1>5

(* A committed event is the first that was not processed. *)
LEMMA FirstIsNext ==
  ASSUME IInv, NEW i \in First(batch), NEW n \in Nat, processed = 1..n
  PROVE  i = n + 1
<1>1. /\ i \in batch /\ \A j \in batch : i <= j
      /\ i \in DOMAIN events /\ i \notin processed
  BY DEF First, IInv, OrderOK, Unprocessed
<1>2. Len(events) \in Nat /\ DOMAIN events = 1..Len(events)
  BY DEF IInv, DataOK
<1>3. i \in Nat /\ n < i /\ n + 1 \in DOMAIN events /\ n + 1 \notin processed
  BY <1>1, <1>2
<1>4. n + 1 < i => n + 1 \in batch
  BY <1>1, <1>3 DEF IInv, OrderOK, Unprocessed
<1> QED
  BY <1>1, <1>3, <1>4

LEMMA CommitInv ==
  ASSUME IInv, NEW i \in First(batch), Commit(i), batch' \in {batch \ {i}, {}},
         running' \in BOOLEAN, lastError' \in BOOLEAN, faults' \in 0..MaxFaults
  PROVE  IInv'
<1>1. /\ events' = events /\ processed' = processed \cup {i} /\ ~Poison(i)
      /\ positions' = Execute(positions, Handle(positions, events[i]))
      /\ requests' = requests \cup WithdrawRequest(i)
  BY DEF Commit, Derive
<1>2. i \in DOMAIN events /\ events \in Seq(Event) /\ RowsOK(positions)
  BY DEF First, IInv, TypeOK, DataOK
<1>3. events[i] \in Event /\ ~Unhandled(positions, events[i])
  BY <1>1, <1>2 DEF Poison
<1>4. RowsOK(positions')
  BY <1>1, <1>2, <1>3, HandleOK, ExecuteOK
<1>5. DataOK'
  BY <1>1, <1>2, <1>4 DEF DataOK
<1>6. OrderOK'
  <2>1. PICK n \in Nat : processed = 1..n
    BY DEF IInv, OrderOK
  <2>2. i = n + 1
    BY <2>1, FirstIsNext
  <2>3. processed' = 1..(n + 1) /\ n + 1 \in Nat
    BY <1>1, <2>1, <2>2
  <2>4. Unprocessed' = Unprocessed \ {i}
    BY <1>1 DEF Unprocessed
  <2>5. batch' \subseteq Unprocessed' /\ \A k \in batch', j \in Unprocessed' : j < k => j \in batch'
    <3>1. CASE batch' = {}
      BY <3>1
    <3>2. CASE batch' = batch \ {i}
      BY <3>2, <2>4 DEF IInv, OrderOK
    <3> QED
      BY <3>1, <3>2
  <2> QED
    BY <2>3, <2>5 DEF OrderOK
<1>7. {w.id : w \in WithdrawRequest(i)} = {j \in {i} : events[j].kind = "withdraw"}
  <2> DEFINE kinds == {i} \cap {k \in DOMAIN events : events[k].kind = "withdraw"}
             request(j) == [id |-> j, block |-> events[j].block, owner |-> events[j].from,
                            amount |-> events[j].amount]
  <2>1. WithdrawRequest(i) = {request(j) : j \in kinds}
    BY DEF WithdrawRequest
  <2>2. \A j \in kinds : request(j).id = j
    OBVIOUS
  <2> HIDE DEF request
  <2>3. {w.id : w \in WithdrawRequest(i)} = kinds
    BY <2>1, <2>2
  <2> QED
    BY <2>3, <1>2
<1>8. WithdrawalsRecorded'
  BY <1>1, <1>7 DEF IInv, WithdrawalsRecorded
<1>9. TypeOK'
  <2>1. processed' \subseteq DOMAIN events' /\ batch' \subseteq DOMAIN events'
    BY <1>1, <1>2 DEF IInv, TypeOK
  <2>2. \A r \in positions' : r.owner \in Users /\ r.idx \in Nat /\ r.shares \in Nat \ {0}
    BY <1>4 DEF RowsOK, Row
  <2>3. {w.id : w \in requests'} \subseteq DOMAIN events'
    BY <1>8, <2>1 DEF WithdrawalsRecorded
  <2> QED
    BY <2>1, <2>2, <2>3 DEF TypeOK
<1> QED
  BY <1>5, <1>6, <1>8, <1>9 DEF IInv

LEMMA LoopInv == IInv /\ Loop => IInv'
<1> SUFFICES ASSUME IInv, Loop PROVE IInv'
  OBVIOUS
<1>1. running \in BOOLEAN /\ lastError \in BOOLEAN /\ faults \in 0..MaxFaults
  BY DEF IInv, TypeOK
<1>2. faults < MaxFaults => faults + 1 \in 0..MaxFaults
  BY <1>1, TransformerAssumption
<1>3. HandleError => batch' = {} /\ running' \in BOOLEAN /\ lastError' \in BOOLEAN
  BY DEF HandleError
<1>4. CASE ReadBatch
  BY <1>4, ReadBatchInv
<1>5. CASE QueryFails
  <2>1. faults' \in 0..MaxFaults
    BY <1>5, <1>2 DEF QueryFails, MayFail
  <2> QED
    BY <1>5, <1>3, <2>1, RestInv DEF QueryFails
<1>6. CASE Process
  <2>1. PICK i \in First(batch) : Commit(i) /\ batch' = batch \ {i}
    BY <1>6 DEF Process
  <2>2. running' = running /\ faults' = faults /\ lastError' = (lastError /\ batch' # {})
    BY <1>6 DEF Process
  <2>3. running' \in BOOLEAN /\ lastError' \in BOOLEAN /\ faults' \in 0..MaxFaults
    BY <2>2, <1>1
  <2> QED
    BY <2>1, <2>3, CommitInv
<1>7. CASE PoisonFails
  <2>1. faults' \in 0..MaxFaults
    BY <1>7, <1>1 DEF PoisonFails
  <2> QED
    BY <1>7, <1>3, <2>1, RestInv DEF PoisonFails
<1>8. CASE CallFails
  <2>1. PICK i \in First(batch) : \/ MayFail("roll back") /\ UNCHANGED tables
                                  \/ MayFail("commit") /\ Commit(i)
    BY <1>8 DEF CallFails
  <2>2. faults' \in 0..MaxFaults
    BY <1>8, <2>1, <1>2 DEF CallFails, MayFail
  <2>3. batch' = {} /\ running' \in BOOLEAN /\ lastError' \in BOOLEAN
    BY <1>8, <1>3 DEF CallFails
  <2>4. CASE UNCHANGED tables
    BY <2>4, <2>2, <2>3, RestInv
  <2>5. CASE Commit(i)
    BY <2>5, <2>2, <2>3, CommitInv
  <2> QED
    BY <2>1, <2>4, <2>5
<1>9. CASE Crash
  <2>1. faults' \in 0..MaxFaults
    BY <1>9, <1>2 DEF Crash
  <2>2. batch' = {} /\ running' = FALSE /\ lastError' = lastError /\ UNCHANGED tables
    BY <1>9 DEF Crash
  <2> QED
    BY <1>1, <2>1, <2>2, RestInv
<1>10. CASE Restart
  <2>1. batch' = batch /\ running' = TRUE /\ lastError' = FALSE /\ faults' = faults /\ UNCHANGED tables
    BY <1>10 DEF Restart
  <2> QED
    BY <1>1, <2>1, RestInv
<1>11. CASE ReadBreaksOff
  BY <1>11, ReadBreaksOffInv
<1> QED
  BY <1>4, <1>5, <1>6, <1>7, <1>8, <1>9, <1>10, <1>11 DEF Loop

LEMMA InvStep == IInv /\ [Next]_vars => IInv'
<1> SUFFICES ASSUME IInv, [Next]_vars PROVE IInv'
  OBVIOUS
<1>1. CASE UNCHANGED vars
  <2>1. UNCHANGED tables /\ batch' = batch /\ running' = running
        /\ lastError' = lastError /\ faults' = faults
    BY <1>1 DEF vars
  <2> QED
    BY <2>1, RestInv DEF IInv, TypeOK
<1> QED
  BY <1>1, ArriveInv, LoopInv DEF Next

LEMMA Invariance == Spec => []IInv
  BY InitInv, InvStep, PTL DEF Spec

(* The tables keep their types, whatever the vault emits and whichever     *)
(* calls fail.                                                             *)
THEOREM TypeCorrect == Spec => []TypeOK
<1>1. IInv => TypeOK
  BY DEF IInv
<1> QED
  BY <1>1, Invariance, PTL

(* As many events are done as the last of the processed ones says. *)
LEMMA DoneIs == ASSUME NEW n \in Nat PROVE Cardinality(1..n) = n
<1>1. 1 \in Int /\ n \in Int
  OBVIOUS
<1>2. Cardinality(1..n) = IF 1 > n THEN 0 ELSE n - 1 + 1
  BY <1>1, FS_Interval
<1> QED
  BY <1>2

(* No event overtakes another one, in any order of failures, stops and     *)
(* restarts (transformer.go:107-160).                                      *)
THEOREM OrderTheorem == Spec => []ProcessedInOrder
<1>1. ASSUME IInv PROVE ProcessedInOrder
  <2>1. PICK n \in Nat : processed = 1..n
    BY <1>1 DEF IInv, OrderOK
  <2>2. Cardinality(1..n) = n
    BY DoneIs
  <2> QED
    BY <2>1, <2>2 DEF ProcessedInOrder
<1> QED
  BY <1>1, Invariance, PTL

(* Each processed withdrawal has its request, and no other event has one,  *)
(* for any number of lost answers and restarts (transformer.go:178-226).   *)
THEOREM WithdrawalsTheorem == Spec => []WithdrawalsRecorded
<1>1. IInv => WithdrawalsRecorded
  BY DEF IInv
<1> QED
  BY <1>1, Invariance, PTL

(* The first event of a batch is the first one that is not processed. *)
LEMMA FirstOfAll == ASSUME IInv, NEW i \in First(batch) PROVE First(Unprocessed) = {i}
<1>1. i \in batch /\ (\A j \in batch : i <= j) /\ batch \subseteq Unprocessed
  BY DEF First, IInv, OrderOK
<1>2. Unprocessed \subseteq Nat
  BY DEF Unprocessed, IInv, DataOK
<1>3. \A j \in Unprocessed : i <= j
  <2> SUFFICES ASSUME NEW j \in Unprocessed PROVE i <= j
    OBVIOUS
  <2>1. j < i => j \in batch
    BY <1>1 DEF IInv, OrderOK
  <2> QED
    BY <1>1, <1>2, <2>1
<1>4. \A j \in First(Unprocessed) : j \in Nat /\ i \in Nat /\ j <= i /\ i <= j
  BY <1>1, <1>2, <1>3 DEF First
<1>5. \A j \in First(Unprocessed) : j = i
  BY <1>4
<1> QED
  BY <1>1, <1>3, <1>5 DEF First

(* A poisoned event stays the first one and poisoned, for any classes of   *)
(* events and failures: only a commit marks an event or adds to the tables *)
(* that poison it, and the next commit would be its own (transformer.go:   *)
(* 178-226).                                                               *)
THEOREM PoisonTheorem == Spec => PoisonStays
<1>1. ASSUME IInv, [Next]_vars, NEW i \in First(Unprocessed), Poison(i)
      PROVE  i \in First(Unprocessed)' /\ Poison(i)'
  <2>1. ASSUME UNCHANGED tables PROVE i \in First(Unprocessed)' /\ Poison(i)'
    BY <1>1, <2>1 DEF tables, First, Unprocessed, Poison, RequestExists, RateExists
  <2>2. ASSUME NEW k \in First(batch), Commit(k) PROVE FALSE
    BY <1>1, <2>2, FirstOfAll DEF Commit, Derive
  <2>3. CASE Arrive
    <3>1. PICK b \in Nat : ArriveAt(b)
      <4>1. LastBlock \in Nat
        <5>1. CASE events = <<>>
          BY <5>1 DEF LastBlock
        <5>2. CASE events # <<>>
          <6>1. events[Len(events)] \in Event
            BY <1>1, <5>2 DEF IInv, DataOK
          <6> QED
            BY <5>2, <6>1 DEF LastBlock, Event
        <5> QED
          BY <5>1, <5>2
      <4> QED
        BY <2>3, <4>1 DEF Arrive
    <3>2. PICK e : events' = Append(events, e)
      BY <3>1 DEF ArriveAt
    <3>3. UNCHANGED <<processed, positions, requests, rates>>
      BY <3>1 DEF ArriveAt
    <3>4. /\ i \in DOMAIN events' /\ events'[i] = events[i] /\ i \in Nat
          /\ \A j \in DOMAIN events' : j \in DOMAIN events \/ i <= j
      BY <1>1, <3>2 DEF IInv, DataOK, First, Unprocessed
    <3>5. i \in First(Unprocessed)'
      BY <1>1, <3>3, <3>4 DEF First, Unprocessed
    <3>6. Poison(i)'
      BY <1>1, <3>3, <3>4 DEF Poison, RequestExists, RateExists
    <3> QED
      BY <3>5, <3>6
  <2>4. CASE Process \/ CallFails
    BY <2>1, <2>2, <2>4 DEF Process, CallFails
  <2>5. CASE ReadBatch \/ QueryFails \/ ReadBreaksOff \/ PoisonFails \/ Crash \/ Restart
    BY <2>1, <2>5 DEF ReadBatch, QueryFails, ReadBreaksOff, PoisonFails, Crash, Restart
  <2>6. CASE UNCHANGED vars
    BY <2>1, <2>6 DEF vars
  <2> QED
    BY <1>1, <2>3, <2>4, <2>5, <2>6 DEF Next, Loop
<1>2. IInv /\ [Next]_vars =>
        [\A i \in First(Unprocessed) : Poison(i) => i \in First(Unprocessed)' /\ Poison(i)']_vars
  BY <1>1
<1> QED
  BY <1>2, Invariance, PTL DEF Spec, PoisonStays

(***************************************************************************)
(* The promise.                                                            *)
(***************************************************************************)
(* The instance handles an event as the module does. *)
LEMMA SameHandling ==
  ASSUME NEW rows, NEW e
  PROVE  /\ Promise!Execute(rows, Promise!Handle(rows, e)) = Execute(rows, Handle(rows, e))
         /\ Promise!Unhandled(rows, e) <=> Unhandled(rows, e)
<1>1. Promise!Handle(rows, e) = Handle(rows, e)
  BY DEF Handle, Promise!Handle, HandleDeposit, Promise!HandleDeposit, HandleTransfer,
         Promise!HandleTransfer, HandleWithdraw, Promise!HandleWithdraw, ProcessPosition,
         Promise!ProcessPosition, Deposit, Promise!Deposit, Withdraw, Promise!Withdraw, Transfer,
         Promise!Transfer, ComputeDeposit, Promise!ComputeDeposit, ComputeWithdraw,
         Promise!ComputeWithdraw, ComputeTransfer, Promise!ComputeTransfer, UpdatePosition,
         Promise!UpdatePosition, NewAmountShares, Promise!NewAmountShares, EndHeight,
         Promise!EndHeight, Position, Promise!Position, Both, Promise!Both, Nothing,
         Promise!Nothing, GetMostRecentPosition, Promise!GetMostRecentPosition,
         MaxPositionIndexId, Promise!MaxPositionIndexId, NextIndex, Promise!NextIndex, Max,
         Promise!Max
<1>2. \A ops : Promise!Execute(rows, ops) = Execute(rows, ops)
  BY DEF Execute, Promise!Execute, Built, Promise!Built, Updated, Promise!Updated
<1>3. Promise!Unhandled(rows, e) <=> Unhandled(rows, e)
  BY DEF Promise!Unhandled, Unhandled, Promise!GetMostRecentPosition, GetMostRecentPosition
<1> QED
  BY <1>1, <1>2, <1>3

(* A commit is the next application: the indexes and the order of the      *)
(* batch make it so.                                                       *)
LEMMA CommitApplies == ASSUME IInv, NEW i \in First(batch), Commit(i) PROVE Promise!Apply
<1> DEFINE e == events[i]
           withdrawal == [id |-> i, block |-> e.block, owner |-> e.from, amount |-> e.amount]
           rate == [block |-> e.block]
<1>1. /\ events' = events /\ processed' = processed \cup {i} /\ ~Poison(i)
      /\ positions' = Execute(positions, Handle(positions, e))
      /\ requests' = requests \cup WithdrawRequest(i) /\ rates' = rates \cup RateUpdate(i)
  BY DEF Commit, Derive
<1>2. i \in DOMAIN events /\ events \in Seq(Event)
  BY DEF First, IInv, TypeOK, DataOK
<1>3. PICK n \in Nat : processed = 1..n
  BY DEF IInv, OrderOK
<1>4. i = n + 1 /\ n < Len(events)
  <2>1. i = n + 1
    BY <1>3, FirstIsNext
  <2> QED
    BY <2>1, <1>2
<1>5. Cardinality(processed) = n /\ Cardinality(processed)' = i
  <2>1. processed' = 1..(n + 1) /\ n + 1 \in Nat
    BY <1>1, <1>3, <1>4
  <2>2. Cardinality(1..n) = n /\ Cardinality(1..(n + 1)) = n + 1
    BY <2>1, DoneIs
  <2> QED
    BY <2>1, <2>2, <1>3, <1>4
<1>6. ~Promise!Unhandled(positions, e) /\ positions' = Promise!Execute(positions, Promise!Handle(positions, e))
  <2>1. ~Unhandled(positions, e)
    BY <1>1 DEF Poison
  <2> QED
    BY <2>1, <1>1, SameHandling
<1>7. IF e.kind = "withdraw" THEN withdrawal \notin requests /\ requests' = requests \cup {withdrawal}
                             ELSE requests' = requests
  <2>1. CASE e.kind = "withdraw"
    <3>1. WithdrawRequest(i) = {withdrawal}
      <4>1. {i} \cap {k \in DOMAIN events : events[k].kind = "withdraw"} = {i}
        BY <2>1, <1>2
      <4> QED
        BY <4>1 DEF WithdrawRequest
    <3>2. withdrawal \notin requests
      <4>1. withdrawal.id = i
        OBVIOUS
      <4>2. \A w \in requests : w.id # i
        BY <2>1, <1>1 DEF Poison, RequestExists
      <4> QED
        BY <4>1, <4>2
    <3> QED
      BY <2>1, <3>1, <3>2, <1>1
  <2>2. CASE e.kind # "withdraw"
    <3>1. WithdrawRequest(i) = {}
      BY <2>2 DEF WithdrawRequest
    <3> QED
      BY <2>2, <3>1, <1>1
  <2> QED
    BY <2>1, <2>2
<1>8. IF e.kind = "rate" THEN rate \notin rates /\ rates' = rates \cup {rate} ELSE rates' = rates
  <2>1. CASE e.kind = "rate"
    <3>1. RateUpdate(i) = {rate}
      <4>1. {i} \cap {k \in DOMAIN events : events[k].kind = "rate"} = {i}
        BY <2>1, <1>2
      <4> QED
        BY <4>1 DEF RateUpdate
    <3>2. rate \notin rates
      <4>1. rate.block = e.block
        OBVIOUS
      <4>2. \A r \in rates : r.block # e.block
        BY <2>1, <1>1 DEF Poison, RateExists
      <4> QED
        BY <4>1, <4>2
    <3> QED
      BY <2>1, <3>1, <3>2, <1>1
  <2>2. CASE e.kind # "rate"
    <3>1. RateUpdate(i) = {}
      BY <2>2 DEF RateUpdate
    <3> QED
      BY <2>2, <3>1, <1>1
  <2> QED
    BY <2>1, <2>2
<1>9. events[Cardinality(processed)'] = e
  BY <1>5
<1>10. Promise!Record(events[Cardinality(processed)'])
  BY <1>5, <1>7, <1>8, <1>9 DEF Promise!Record, Promise!Adds
<1>11. /\ ~Promise!Unhandled(positions, events[Cardinality(processed)'])
       /\ positions' = Promise!Execute(positions, Promise!Handle(positions, events[Cardinality(processed)']))
  BY <1>6, <1>9
<1>12. /\ Cardinality(processed) < Len(events) /\ Cardinality(processed)' = Cardinality(processed) + 1
       /\ UNCHANGED events
  BY <1>1, <1>4, <1>5
<1> QED
  BY <1>10, <1>11, <1>12 DEF Promise!Apply

(* An event that arrives changes none of those before it. *)
LEMMA ArriveArrives == ASSUME IInv, Arrive PROVE Promise!Arrive
<1>1. PICK e : events' = Append(events, e)
  BY DEF Arrive, ArriveAt
<1>2. UNCHANGED <<processed, positions, requests, rates>>
  BY DEF Arrive, ArriveAt
<1>3. events \in Seq(Event) /\ Len(events) \in Nat
  BY DEF IInv, DataOK
<1>4. Len(events') = Len(events) + 1
  BY <1>1, <1>3
<1>5. events = SubSeq(events', 1, Len(events))
  BY <1>1, <1>3
<1> QED
  BY <1>2, <1>4, <1>5 DEF Promise!Arrive

(* The transformer implements its promise, for any classes of events and   *)
(* failures: each step of it applies the next event, in full and for the   *)
(* first time, or shows in no table (transformer.go:107-226).              *)
THEOREM PromiseTheorem == Spec => KeepsPromise
<1>1. Init => Promise!Init
  <2> SUFFICES ASSUME Init PROVE Promise!Init
    OBVIOUS
  <2>1. Cardinality(processed) = 0
    BY FS_EmptySet DEF Init
  <2> QED
    BY <2>1 DEF Init, Promise!Init
<1>2. ASSUME IInv, [Next]_vars
      PROVE  [Promise!Arrive \/ Promise!Apply]_<<events, Cardinality(processed), positions, requests, rates>>
  <2>1. ASSUME UNCHANGED tables
        PROVE  UNCHANGED <<events, Cardinality(processed), positions, requests, rates>>
    BY <2>1 DEF tables
  <2>2. CASE Arrive
    BY <1>2, <2>2, ArriveArrives
  <2>3. CASE Process \/ CallFails
    <3>1. UNCHANGED tables \/ \E i \in First(batch) : Commit(i)
      BY <2>3, Zenon DEF Process, CallFails
    <3> QED
      BY <1>2, <2>1, <3>1, CommitApplies
  <2>4. CASE ReadBatch \/ QueryFails \/ ReadBreaksOff \/ PoisonFails \/ Crash \/ Restart
    BY <2>1, <2>4 DEF ReadBatch, QueryFails, ReadBreaksOff, PoisonFails, Crash, Restart
  <2>5. CASE UNCHANGED vars
    BY <2>1, <2>5 DEF vars
  <2> QED
    BY <1>2, <2>2, <2>3, <2>4, <2>5 DEF Next, Loop
<1>3. IInv /\ [Next]_vars
        => [Promise!Arrive \/ Promise!Apply]_<<events, Cardinality(processed), positions, requests, rates>>
  BY <1>2
<1> QED
  BY <1>1, <1>3, Invariance, PTL DEF Spec, KeepsPromise, Promise!Spec
=============================================================================
