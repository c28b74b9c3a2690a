----------------------------- MODULE EventQueue -----------------------------
(***************************************************************************)
(* What the event queue promises its callers: a bag of events from which   *)
(* Next takes one that no other precedes.  Two events may have the same    *)
(* place in the chain (a log before and after a reorganisation): they      *)
(* differ in the block hash, which the order ignores.                      *)
(***************************************************************************)
EXTENDS Integers, Bags

CONSTANTS
  Events,   \* the events callers may insert: records with a block and an idx
  Nil       \* Next's answer when the queue is empty

VARIABLES
  content,  \* the bag of queued events
  out       \* what Next returned last

(* Nobody in the queue is strictly before e in the chain. *)
Foremost(e) ==
  /\ BagIn(e, content)
  /\ \A f \in BagToSet(content) : f.block >= e.block
  /\ \A f \in BagToSet(content) : f.block = e.block => f.idx >= e.idx

Init == content = EmptyBag /\ out = Nil

Insert(e) == content' = content (+) SetToBag({e}) /\ UNCHANGED out

Next ==
  \/ \E e \in Events : Foremost(e) /\ out' = e /\ content' = content (-) SetToBag({e})
  \/ content = EmptyBag /\ out' = Nil /\ UNCHANGED content

Clear == content' = EmptyBag /\ UNCHANGED out

Spec == Init /\ [][Next \/ Clear \/ \E e \in Events : Insert(e)]_<<content, out>>
=============================================================================
