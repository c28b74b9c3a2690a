----------------------------- MODULE Application -----------------------------
(***************************************************************************)
(* What the transformer promises: vault events are applied to the tables   *)
(* one after the other as they arrived, each at once and each exactly      *)
(* once.  There are no batches, errors, stops or restarts here; an event   *)
(* that cannot be applied is one that nothing follows.                     *)
(***************************************************************************)
EXTENDS Positions

VARIABLES
  events,                     \* the vault events, in chain order
  done,                       \* how many of them are applied
  positions, requests, rates  \* the derived tables

Init ==
  /\ events = <<>> /\ done = 0
  /\ positions = {} /\ requests = {} /\ rates = {}

(* Events are appended, and never changed. *)
Arrive ==
  /\ Len(events') = Len(events) + 1 /\ events = SubSeq(events', 1, Len(events))
  /\ UNCHANGED <<done, positions, requests, rates>>

(* One row more, that was not there. *)
Adds(table, row) == row \notin table /\ table' = table \cup {row}

Record(e) ==
  /\ IF e.kind = "withdraw"
     THEN Adds(requests, [id |-> done', block |-> e.block, owner |-> e.from, amount |-> e.amount])
     ELSE UNCHANGED requests
  /\ IF e.kind = "rate" THEN Adds(rates, [block |-> e.block]) ELSE UNCHANGED rates

Apply ==
  /\ done < Len(events) /\ done' = done + 1
  /\ ~Unhandled(positions, events[done'])
  /\ positions' = Execute(positions, Handle(positions, events[done']))
  /\ Record(events[done'])
  /\ UNCHANGED events

Spec == Init /\ [][Arrive \/ Apply]_<<events, done, positions, requests, rates>>
=============================================================================
