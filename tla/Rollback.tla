------------------------------ MODULE Rollback ------------------------------
(***************************************************************************)
(* The transformer over a chain that drops blocks.  The reorg handler      *)
(* deletes the rows of events from the last consistent block on, and the   *)
(* derived rows after it; then it ends the process, and the next start     *)
(* fetches the events of that block again.                                 *)
(*                                                                         *)
(* How the handler is reached is the business of module Reorg.  Here the   *)
(* loop is at rest during the cleanup, and the process ends with it.       *)
(***************************************************************************)
EXTENDS Transformer

CONSTANTS
  QuietBoundary,  \* the cleanup meets none of the rows that it gets wrong
  MaxRollbacks    \* bound on the number of cleanups

ASSUME RollbackAssumption == QuietBoundary \in BOOLEAN /\ MaxRollbacks \in Nat

VARIABLES
  again,     \* the events of the last consistent block, to be fetched again
  floor,     \* the last consistent block of the last cleanup, at first 0
  rollbacks  \* cleanups so far

rollbackVars == <<again, floor, rollbacks>>

RollbackInit == Init /\ again = <<>> /\ floor = 0 /\ rollbacks = 0

(* The last consistent block stays on the chain: its events come first,    *)
(* as they were, and those of the new branch are of later blocks.          *)
FetchAgain ==
  /\ again # <<>>
  /\ events' = Append(events, Head(again)) /\ again' = Tail(again)
  /\ UNCHANGED <<processed, positions, requests, rates, running, batch, lastError, faults>>
  /\ UNCHANGED <<floor, rollbacks>>

(* Not every block has an event. *)
NewEvent ==
  /\ again = <<>>
  /\ \E b \in LastBlock..LastBlock + 2 : b > floor /\ ArriveAt(b)
  /\ UNCHANGED rollbackVars

Reopened(r) == [r EXCEPT !.end = Null, !.terminated = FALSE, !.receiver = Null]

DeleteOnly(rows, block) == {r \in rows : r.start <= block}  \* slip: nothing is reopened

(* DELETE ... position_start_height > $1; UPDATE ... SET is_terminated =   *)
(* false, position_end_height = null ... WHERE position_end_height > $1.   *)
CleanupFromBlock(rows, block) ==
  {IF r.end # Null /\ r.end > block THEN Reopened(r) ELSE r :
     r \in {q \in rows : q.start <= block}}

(* No derived row depends on the events that the cleanup deletes without   *)
(* undoing them: those of the block are mints, burns or still unprocessed, *)
(* and no position was closed right after it.                              *)
Quiet(block) ==
  /\ \A i \in processed :
       events[i].block = block => events[i].kind = "transfer" /\ Zero \in {events[i].from, events[i].to}
  /\ \A r \in positions : r.end # block

(* DELETE FROM ... WHERE block_number > $1. *)
RequestsKept(block) == {w \in requests : w.block <= block}

RatesKept(block) == {r \in rates : r.block <= block}

(* The table is in chain order: n rows are before the block, m up to it. *)
Split(block, n, m) ==
  \A i \in DOMAIN events :
    /\ i <= n <=> events[i].block < block
    /\ i <= m <=> events[i].block <= block

(* DELETE FROM events WHERE block_number >= $1. *)
DeleteEvents(block) ==
  \E n, m \in 0..Len(events) :
    /\ Split(block, n, m)
    /\ events' = SubSeq(events, 1, n) /\ processed' = processed \cap 1..n
    /\ again' = SubSeq(events, n + 1, m)

(* One transaction.  The block is that of a row, and a later row is not on *)
(* the chain any more.                                                     *)
CleanUp(block) ==
  /\ QuietBoundary => Quiet(block)
  /\ DeleteEvents(block)
  /\ positions' = CleanupFromBlock(positions, block)
  /\ requests' = RequestsKept(block) /\ rates' = RatesKept(block)
  /\ floor' = block

HandleReorg ==
  /\ running /\ rollbacks < MaxRollbacks /\ rollbacks' = rollbacks + 1
  /\ \E i \in DOMAIN events : events[i].block < LastBlock /\ CleanUp(events[i].block)
  /\ running' = FALSE /\ batch' = {}
  /\ UNCHANGED <<lastError, faults>>

RollbackNext == FetchAgain \/ NewEvent \/ HandleReorg \/ (Loop /\ UNCHANGED rollbackVars)

RollbackSpec == RollbackInit /\ [][RollbackNext]_<<vars, rollbackVars>>

FairRollbackSpec == RollbackSpec /\ Fairness /\ WF_<<vars, rollbackVars>>(FetchAgain)

(***************************************************************************)
(* Properties.                                                             *)
(***************************************************************************)
(* What a transformer writes that sees the first n of the given events,    *)
(* and no failure.                                                         *)
Replay(evs) ==
  LET rows[n \in 0..Len(evs)] ==
        IF n = 0 THEN {}
        ELSE LET last == rows[n - 1] IN Execute(last, Handle(last, evs[n]))
  IN  rows

(* The tables that have a row for an event. *)
RecordsAreReplay ==
  /\ requests = UNION {WithdrawRequest(i) : i \in processed}
  /\ rates = UNION {RateUpdate(i) : i \in processed}

(* After a rollback, as after any failure, the tables are what a           *)
(* transformer would have written that had seen the events of the chain    *)
(* only: every trace of the dropped ones is gone, and nothing else         *)
(* (transformer.go:295-346; "after block", says the log at line 301).      *)
TablesAreReplay ==
  /\ positions = Replay(events)[Cardinality(processed)]
  /\ RecordsAreReplay

(* Once the events of the last consistent block are fetched again, the     *)
(* positions are again the history of the balances: the cleanup is there   *)
(* so that "all indexed data corresponds to the canonical Ethereum chain"  *)
(* (src/README.md:41).                                                     *)
HistoryIsRestored == again = <<>> => HistoryIsLedger
=============================================================================
