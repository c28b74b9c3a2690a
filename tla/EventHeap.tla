------------------------------ MODULE EventHeap ------------------------------
(***************************************************************************)
(* The event queue as it is built: a slice kept in heap order by Go's      *)
(* container/heap.  Insert, Next and Clear hold the mutex of the queue, so *)
(* each is one step.  Positions count from 1 here, from 0 in the code.     *)
(***************************************************************************)
EXTENDS Integers, SequencesExt

CONSTANTS
  Events,  \* the events callers may insert: records with a block and an idx
  Nil,     \* Next's answer when the queue is empty
  MaxLen   \* bound on the length of the queue

ASSUME EventsAssumption ==
  /\ \A e \in Events : e.block \in Nat /\ e.idx \in Nat
  /\ Nil \notin Events
  /\ MaxLen \in Nat

VARIABLES
  items,  \* the slice
  out     \* what Next returned last

vars == <<items, out>>

LessByBlock(a, b) == a.block < b.block  \* slip: the log index left out

(* EventLog.Less: by block number, then by log index. *)
Less(a, b) ==
  \/ a.block < b.block
  \/ a.block = b.block /\ a.idx < b.idx

Swap(s, i, j) == [s EXCEPT ![i] = s[j], ![j] = s[i]]

(* A slice and the position of an item in it. *)
Places == {x \in Seq(Events) \X Nat : x[2] \in DOMAIN x[1]}

(* External, heap.up: a new last item rises past later parents. *)
Up[x \in Places] ==
  LET s == x[1]
      j == x[2]
      i == j \div 2
  IN  IF j > 1 /\ Less(s[j], s[i]) THEN Up[<<Swap(s, i, j), i>>] ELSE s

(* External, heap.down: the earlier of the two children of position i in a *)
(* heap of n items.                                                        *)
Child(s, i, n) ==
  IF 2 * i < n /\ Less(s[2 * i + 1], s[2 * i]) THEN 2 * i + 1 ELSE 2 * i

(* External, heap.down: an item sinks past earlier children, in a heap     *)
(* that the last item of the slice has left.                               *)
Down[x \in Places] ==
  LET s == x[1]
      i == x[2]
      n == Len(s) - 1
      c == Child(s, i, n)
  IN  IF 2 * i <= n /\ Less(s[c], s[i]) THEN Down[<<Swap(s, i, c), c>>] ELSE s

Init == items = <<>> /\ out = Nil

InsertLast(e) ==  \* slip: Push in place of heap.Push
  Len(items) < MaxLen /\ items' = Append(items, e) /\ UNCHANGED out

Insert(e) ==
  /\ Len(items) < MaxLen
  /\ items' = Up[<<Append(items, e), Len(items) + 1>>]
  /\ UNCHANGED out

Next ==
  \/ items = <<>> /\ out' = Nil /\ UNCHANGED items
  \/ /\ items # <<>>
     /\ LET s == Down[<<Swap(items, 1, Len(items)), 1>>]
        IN  out' = Last(s) /\ items' = Front(s)

(* Clear cuts the slice to length 0. *)
Clear == items' = <<>> /\ UNCHANGED out

Spec == Init /\ [][Next \/ Clear \/ \E e \in Events : Insert(e)]_vars

(***************************************************************************)
(* Properties.                                                             *)
(***************************************************************************)
(* After each operation no item is before its parent in the chain: the     *)
(* operations of container/heap rely on it (queue.go:70-84).               *)
HeapOrder == \A j \in 2..Len(items) : ~Less(items[j], items[j \div 2])

Promise == INSTANCE EventQueue WITH content <- ToBag(items)

(* The heap keeps the promise of EventQueue: no event is lost or invented, *)
(* and Next returns one that is foremost in the chain (queue.go:76-84).    *)
KeepsPromise == Promise!Spec
=============================================================================
