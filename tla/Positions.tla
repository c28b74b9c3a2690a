------------------------------ MODULE Positions ------------------------------
(***************************************************************************)
(* What one vault event does to the table "positions": the event handlers, *)
(* the position transformer and the SQL builder, as operators.             *)
(*                                                                         *)
(* All rows are of one vault, as every query of the code selects by        *)
(* contract_address.  A position is a row with a running index; it starts  *)
(* at a block and ends, once closed, at a block.  Addresses are model      *)
(* values and amounts are numbers: their conversions (lower case, decimal  *)
(* strings, float64) are not modelled here.                                *)
(***************************************************************************)
EXTENDS Integers, Sequences, FiniteSetsExt

CONSTANTS
  Users,  \* addresses of share holders
  Zero,   \* the zero address
  Null    \* SQL's null and Go's nil

ASSUME UsersAssumption == Zero \notin Users /\ Null \notin Users \cup {Zero} \cup Int

(* The columns of the table. *)
Row ==
  [idx : Nat, owner : Users, shares : Nat \ {0}, start : Nat,
   end : Int \cup {Null}, terminated : BOOLEAN, receiver : Users \cup {Null}]

(* The lookup of a position tells a row from no row. *)
ASSUME NullAssumption == Null \notin Row

Position(i, owner, shares, block) ==
  [idx |-> i, owner |-> owner, shares |-> shares, start |-> block,
   end |-> Null, terminated |-> FALSE, receiver |-> Null]

(* The operations of a handler, in the order the transaction runs them. *)
Nothing == [inserts |-> <<>>, updates |-> <<>>]

Both(a, b) == [inserts |-> a.inserts \o b.inserts, updates |-> a.updates \o b.updates]

OldestPosition(rows, owner) ==  \* slip: ascending order
  LET mine == {r \in rows : r.owner = owner} IN
  IF mine = {} THEN Null
  ELSE CHOOSE r \in mine : \A q \in mine : r.idx <= q.idx

(* The row of the highest index, unless it is terminated; a row that ended *)
(* without being terminated counts as the current one.                     *)
GetMostRecentPosition(rows, owner) ==
  LET mine == {r \in rows : r.owner = owner}
      last == CHOOSE r \in mine : \A q \in mine : q.idx <= r.idx
  IN  IF mine = {} \/ last.terminated THEN Null ELSE last

MaxPositionIndexId(rows) == Max({0} \cup {r.idx : r \in rows})

SwappedShares(current, amount, isAddition) ==  \* slip: the operands of Sub
  IF isAddition THEN current + amount ELSE amount - current

(* A subtraction is clamped at zero. *)
NewAmountShares(current, amount, isAddition) ==
  IF isAddition THEN current + amount
  ELSE IF amount > current THEN 0 ELSE current - amount

EndAtBlock(block) == block  \* slip: both positions cover the block

EndHeight(block) == block - 1

(* A change of balance closes the position and, unless nothing is left,    *)
(* opens the next one, of index i.                                         *)
UpdatePosition(current, amount, block, isAddition, receiver, i) ==
  IF current = Null THEN Nothing
  ELSE LET left == NewAmountShares(current.shares, amount, isAddition) IN
       [inserts |-> IF left = 0 THEN <<>> ELSE <<Position(i, current.owner, left, block)>>,
        updates |-> <<[idx |-> current.idx, end |-> EndHeight(block),
                       terminated |-> left = 0, receiver |-> receiver]>>]

NextIndex(rows) == MaxPositionIndexId(rows) + 1

ComputeDeposit(args, current, i) ==
  IF current = Null
  THEN [inserts |-> <<Position(i, args.sender, args.shares, args.block)>>, updates |-> <<>>]
  ELSE UpdatePosition(current, args.shares, args.block, TRUE, Null, i)

Deposit(rows, args) ==
  ComputeDeposit(args, GetMostRecentPosition(rows, args.sender), NextIndex(rows))

ComputeWithdraw(args, current, i) ==
  UpdatePosition(current, args.shares, args.block, FALSE, args.receiver, i)

Withdraw(rows, args) ==
  ComputeWithdraw(args, GetMostRecentPosition(rows, args.sender), NextIndex(rows))

(* The receiver's side comes first, and always inserts: the sender's       *)
(* insert has the index after it.                                          *)
ComputeTransfer(args, sender, receiver, i) ==
  Both(IF receiver = Null
       THEN [inserts |-> <<Position(i, args.receiver, args.shares, args.block)>>, updates |-> <<>>]
       ELSE UpdatePosition(receiver, args.shares, args.block, TRUE, Null, i),
       UpdatePosition(sender, args.shares, args.block, FALSE, Null, i + 1))

(* Mints and burns are left to Deposit and Withdraw. *)
Transfer(rows, args) ==
  IF Zero \in {args.sender, args.receiver} THEN Nothing
  ELSE ComputeTransfer(args, GetMostRecentPosition(rows, args.sender),
                       GetMostRecentPosition(rows, args.receiver), NextIndex(rows))

(* ErrPositionNotFound: a transfer from someone without a position. *)
Unhandled(rows, e) ==
  /\ e.kind = "transfer" /\ Zero \notin {e.from, e.to}
  /\ GetMostRecentPosition(rows, e.from) = Null

(* The events have a from and a to: the sender and the owner of a deposit, *)
(* the owner and the receiver of a withdrawal.                             *)
ProcessPosition(sender, receiver, e) ==
  [sender |-> sender, receiver |-> receiver, shares |-> e.amount, block |-> e.block]

(* The sender of a deposit is taken for its owner. *)
HandleDeposit(rows, e) == Deposit(rows, ProcessPosition(e.from, Null, e))

HandleTransfer(rows, e) == Transfer(rows, ProcessPosition(e.from, e.to, e))

HandleWithdraw(rows, e) == Withdraw(rows, ProcessPosition(e.from, e.to, e))

(* The rows of the handler of e; RateUpdated has none in this table. *)
Handle(rows, e) ==
  CASE e.kind = "deposit"  -> HandleDeposit(rows, e)
    [] e.kind = "transfer" -> HandleTransfer(rows, e)
    [] e.kind = "withdraw" -> HandleWithdraw(rows, e)
    [] OTHER               -> Nothing

(* BuildInsert and BuildUpdate make one statement of a slice: that of its  *)
(* first element.                                                          *)
Built(statements) == IF statements = <<>> THEN {} ELSE {statements[1]}

(* SET end and is_terminated; a null receiver is left out of the SET.      *)
Updated(r, u) ==
  [r EXCEPT !.end = u.end, !.terminated = u.terminated,
            !.receiver = IF u.receiver = Null THEN r.receiver ELSE u.receiver]

Execute(rows, ops) ==
  {IF \E u \in Built(ops.updates) : u.idx = r.idx
   THEN Updated(r, CHOOSE u \in Built(ops.updates) : u.idx = r.idx)
   ELSE r : r \in rows \cup Built(ops.inserts)}
=============================================================================
