----------------------------- MODULE Transformer -----------------------------
(***************************************************************************)
(* The transformer: a loop that reads a batch of unprocessed rows of       *)
(* "events" in chain order and turns each, in a transaction of its own,    *)
(* into rows of "positions", "withdraw_requests" and "rate_updates".       *)
(*                                                                         *)
(* The rows of events arrive in chain order here.  What the vault itself   *)
(* says of its share holders is Balance, the ledger that positions are to  *)
(* reproduce.                                                              *)
(***************************************************************************)
EXTENDS Positions

CONSTANTS
  Allowed,    \* classes of vault events beyond the plain ones, see Classes
  Faults,     \* the calls that may fail, see FaultKinds
  BatchSize,  \* the LIMIT of the query, 100 in the code
  Amounts,    \* the amounts of shares an event may carry
  MaxEvents,  \* bound on the number of vault events
  MaxFaults   \* bound on the number of failed calls and of crashes

(* Vault events that the plain ones leave out: a deposit for someone else, *)
(* a transfer of a part, a transfer to someone who has a position, one to  *)
(* oneself, a second rate update of a block; and the transfers from and to *)
(* the zero address that go with deposits and withdrawals.                 *)
Classes == {"for another", "part", "joining", "self", "second rate", "zero"}

(* "query": the batch is not read; "read": some of its rows are not;       *)
(* "roll back": a statement fails; "commit": the commit is done, its       *)
(* answer lost.                                                            *)
FaultKinds == {"query", "read", "roll back", "commit"}

ASSUME TransformerAssumption ==
  /\ Allowed \subseteq Classes /\ Faults \subseteq FaultKinds
  /\ BatchSize \in Nat \ {0} /\ Amounts \subseteq Nat \ {0}
  /\ MaxEvents \in Nat /\ MaxFaults \in Nat

VARIABLES
  events,                      \* the rows of the table, in chain order
  processed,                   \* is_processed: the positions in events
  positions, requests, rates,  \* the derived tables
  running,                     \* the loop runs
  batch,                       \* what is left of the batch, as positions in events;
                               \* its order is theirs
  lastError,                   \* an error since the last complete batch
  faults                       \* failed calls and crashes so far

tables == <<events, processed, positions, requests, rates>>
vars == <<tables, running, batch, lastError, faults>>

(***************************************************************************)
(* The vault: which events it can emit.  External: the contract.           *)
(***************************************************************************)
(* The change of the shares of u by an event: the receiver of a deposit    *)
(* gets them, the owner of a withdrawal gives them up.                     *)
Change(e, u) ==
  CASE e.kind = "deposit"  -> IF e.to = u THEN e.amount ELSE 0
    [] e.kind = "withdraw" -> IF e.from = u THEN -e.amount ELSE 0
    [] e.kind = "rate" \/ Zero \in {e.from, e.to} -> 0
    [] OTHER -> (IF e.to = u THEN e.amount ELSE 0) - (IF e.from = u THEN e.amount ELSE 0)

Balance(u, h) ==
  MapThenSumSet(LAMBDA i : Change(events[i], u), {i \in DOMAIN events : events[i].block <= h})

LastBlock == IF events = <<>> THEN 1 ELSE events[Len(events)].block

Holds(u) == Balance(u, LastBlock)

Deposits(b) ==
  {e \in [kind : {"deposit"}, from : Users, to : Users, amount : Amounts, block : {b}] :
     e.from = e.to \/ "for another" \in Allowed}

Withdrawals(b) ==
  {e \in [kind : {"withdraw"}, from : Users, to : Users, amount : Amounts, block : {b}] :
     e.amount <= Holds(e.from)}

Transfers(b) ==
  {e \in [kind : {"transfer"}, from : Users, to : Users, amount : Amounts, block : {b}] :
     /\ e.amount <= Holds(e.from)
     /\ e.amount = Holds(e.from) \/ "part" \in Allowed
     /\ e.from = e.to \/ Holds(e.to) = 0 \/ "joining" \in Allowed
     /\ e.from # e.to \/ "self" \in Allowed}

MintsAndBurns(b) ==
  {e \in [kind : {"transfer"}, from : Users \cup {Zero}, to : Users \cup {Zero},
          amount : Amounts, block : {b}] :
     "zero" \in Allowed /\ (e.from = Zero <=> e.to # Zero)}

RateUpdates(b) ==
  {e \in [kind : {"rate"}, block : {b}] :
     "second rate" \in Allowed \/ e \notin {events[i] : i \in DOMAIN events}}

(***************************************************************************)
(* The loop.                                                               *)
(***************************************************************************)
Init ==
  /\ events = <<>> /\ processed = {}
  /\ positions = {} /\ requests = {} /\ rates = {}
  /\ running = TRUE /\ batch = {} /\ lastError = FALSE /\ faults = 0

(* A confirmed event of block b reaches the table. *)
ArriveAt(b) ==
  /\ Len(events) < MaxEvents
  /\ \E e \in Deposits(b) \cup Withdrawals(b) \cup Transfers(b) \cup MintsAndBurns(b)
               \cup RateUpdates(b) :
       events' = Append(events, e)
  /\ UNCHANGED <<processed, positions, requests, rates, running, batch, lastError, faults>>

Arrive == ArriveAt(LastBlock) \/ ArriveAt(LastBlock + 1)

Unprocessed == DOMAIN events \ processed

NewestFirst(ids) ==  \* slip: DESC
  {i \in ids : Cardinality({j \in ids : i < j}) < BatchSize}

(* ... ORDER BY block_number ASC, log_index ASC LIMIT 100.                 *)
Selection(ids) == {i \in ids : Cardinality({j \in ids : j < i}) < BatchSize}

(* The next event of a batch, if there is one. *)
First(ids) == {i \in ids : \A j \in ids : i <= j}

(* The query is outside of any transaction. *)
ReadBatch ==
  /\ running /\ batch = {} /\ Unprocessed # {}
  /\ batch' = Selection(Unprocessed)
  /\ UNCHANGED <<tables, running, lastError, faults>>

HandleErrorForever == batch' = {} /\ lastError' = TRUE /\ UNCHANGED running  \* slip

(* handleError: the rest of the batch is given up; after a first error the *)
(* loop backs off and goes on, after a second one it stops (maxRetries is  *)
(* 0), and with it the process.                                            *)
HandleError ==
  /\ batch' = {}
  /\ lastError' = TRUE
  /\ running' = ~lastError

MayFail(kind) == kind \in Faults /\ faults < MaxFaults

QueryFails ==
  /\ running /\ batch = {} /\ MayFail("query")
  /\ faults' = faults + 1
  /\ HandleError
  /\ UNCHANGED tables

(* The rows before row i are read and processed, whether the iteration     *)
(* ends there (rows.Err is not asked) or Scan fails and handleError is     *)
(* called.                                                                 *)
ReadBreaksOff ==
  /\ running /\ batch = {} /\ MayFail("read")
  /\ faults' = faults + 1
  /\ \E i \in Selection(Unprocessed) :
       \/ /\ batch' = {j \in Unprocessed : j < i}
          /\ lastError' \in {lastError, TRUE} /\ UNCHANGED running
       \/ lastError /\ HandleError
  /\ UNCHANGED tables

RequestInBlock(i) == \E w \in requests : w.block = events[i].block  \* slip: no withdraw id

(* UNIQUE (contract_address, withdraw_id).  The contract numbers the       *)
(* withdrawals; here their place in events does.                           *)
RequestExists(i) == \E w \in requests : w.id = i

(* UNIQUE (contract_address, block_number). *)
RateExists(i) == \E r \in rates : r.block = events[i].block

(* The event cannot be processed: it fails each time it is tried, in its   *)
(* handler or on a unique index.                                           *)
Poison(i) ==
  \/ Unhandled(positions, events[i])
  \/ events[i].kind = "withdraw" /\ RequestExists(i)
  \/ events[i].kind = "rate" /\ RateExists(i)

(* The rows of WithdrawRequestTransformer and of RateUpdateTransformer. *)
WithdrawRequest(i) ==
  {[id |-> j, block |-> events[j].block, owner |-> events[j].from, amount |-> events[j].amount] :
     j \in {i} \cap {k \in DOMAIN events : events[k].kind = "withdraw"}}

RateUpdate(i) ==
  {[block |-> events[j].block] : j \in {i} \cap {k \in DOMAIN events : events[k].kind = "rate"}}

(* The rows the transaction of event i derives. *)
Derive(i) ==
  /\ ~Poison(i)
  /\ positions' = Execute(positions, Handle(positions, events[i]))
  /\ requests' = requests \cup WithdrawRequest(i)
  /\ rates' = rates \cup RateUpdate(i)

CommitUnmarked(i) == Derive(i) /\ UNCHANGED <<events, processed>>  \* slip: is_processed left out

(* The event is marked in the same transaction. *)
Commit(i) ==
  /\ Derive(i)
  /\ processed' = processed \cup {i}
  /\ UNCHANGED events

(* The end of a batch resets the retry state. *)
Process ==
  /\ running
  /\ \E i \in First(batch) : Commit(i) /\ batch' = batch \ {i}
  /\ lastError' = (lastError /\ batch' # {})
  /\ UNCHANGED <<running, faults>>

PoisonSkipped ==  \* slip: the event is marked all the same
  /\ running
  /\ \E i \in First(batch) :
       Poison(i) /\ batch' = batch \ {i} /\ processed' = processed \cup {i}
  /\ UNCHANGED <<events, positions, requests, rates, running, lastError, faults>>

PoisonFails ==
  /\ running
  /\ \E i \in First(batch) : Poison(i)
  /\ HandleError
  /\ UNCHANGED <<tables, faults>>

CallFails ==
  /\ running
  /\ \E i \in First(batch) :
       \/ MayFail("roll back") /\ UNCHANGED tables
       \/ MayFail("commit") /\ Commit(i)
  /\ faults' = faults + 1
  /\ HandleError

(* The process is started again after it stopped, or crashes and is. *)
Restart ==
  /\ ~running /\ running' = TRUE /\ lastError' = FALSE
  /\ UNCHANGED <<tables, batch, faults>>

Crash ==
  /\ running /\ faults < MaxFaults /\ faults' = faults + 1
  /\ running' = FALSE /\ batch' = {}
  /\ UNCHANGED <<tables, lastError>>

Loop ==
  \/ ReadBatch \/ QueryFails \/ ReadBreaksOff \/ Process
  \/ PoisonFails \/ CallFails \/ Crash \/ Restart

Next == Arrive \/ Loop

Spec == Init /\ [][Next]_vars

(* The loop goes on, and a process that stopped is started again; events   *)
(* need not arrive and calls need not fail, but a poisoned event does.     *)
Fairness ==
  /\ WF_vars(ReadBatch) /\ WF_vars(Process) /\ WF_vars(PoisonFails) /\ WF_vars(Restart)

FairSpec == Spec /\ Fairness

(***************************************************************************)
(* Properties.                                                             *)
(***************************************************************************)
(* The tables hold rows of their types, without an empty position; the     *)
(* batch holds rows of events.                                             *)
TypeOK ==
  /\ processed \subseteq DOMAIN events /\ batch \subseteq DOMAIN events
  /\ \A r \in positions : r.owner \in Users /\ r.idx \in Nat /\ r.shares \in Nat \ {0}
  /\ {w.id : w \in requests} \cup processed \subseteq DOMAIN events
  /\ running \in BOOLEAN /\ lastError \in BOOLEAN /\ faults \in 0..MaxFaults

(* The rows that the API finds for a holder at a block. *)
Covering(u, h) ==
  {r \in positions : r.owner = u /\ r.start <= h /\ (r.end = Null \/ h <= r.end)}

(* The positions are the history of the ledger: once the events up to a    *)
(* block are processed, each holder of shares at that block has one row    *)
(* covering it, with that balance, and nobody else has one; later events,  *)
(* errors and restarts do not change it (position-transformer.go).         *)
HistoryIsLedger ==
  \A h \in 1..LastBlock :
    (\A i \in DOMAIN events : events[i].block <= h => i \in processed) =>
      \A u \in Users :
        /\ Cardinality(Covering(u, h)) <= 1
        /\ {r.shares : r \in Covering(u, h)} = {Balance(u, h)} \ {0}

(* Withdrawals are recorded once each, with their event: an answer lost    *)
(* after the commit neither drops nor repeats one (transformer.go:178-226).*)
WithdrawalsRecorded ==
  {w.id : w \in requests} = {i \in processed : events[i].kind = "withdraw"}

(* "Position amounts and start heights are immutable" (positions/route.ts: *)
(* 28), and a position that ended is never written again.                  *)
PositionsImmutable ==
  [][\A r \in positions : \E q \in positions' :
       /\ q = [r EXCEPT !.end = q.end, !.terminated = q.terminated, !.receiver = q.receiver]
       /\ r.end # Null => q = r]_vars

(* Every event is processed in the end, however the calls fail: no failure *)
(* makes one poisoned (handleError, and the restart after it).  What the   *)
(* tables cannot take is a second rate of a block.                         *)
CatchesUp == []<>(\A i \in First(Unprocessed) : events[i].kind = "rate" /\ RateExists(i))

(* Events are processed in chain order whatever fails in between: no event *)
(* overtakes one that is retried (the query and processBatch).             *)
ProcessedInOrder == processed = 1..Cardinality(processed)

(* An event that cannot be processed blocks those after it for good: it is *)
(* never skipped, and no other event, failure or restart makes it one that *)
(* can (processBatch, transformer.go:178-226).                             *)
PoisonStays ==
  [][\A i \in First(Unprocessed) :
       Poison(i) => i \in First(Unprocessed)' /\ Poison(i)']_vars

(* An event that cannot be processed stops the process, rather than be     *)
(* retried in silence: the second failure in a row is the last             *)
(* (handleError, transformer.go:262-271).                                  *)
PoisonStops == (\E i \in First(Unprocessed) : Poison(i)) ~> ~running

(* Batches, failures, stops and restarts do not show in the tables: they   *)
(* change as if each event were applied at once, in its turn and exactly   *)
(* once (transformer.go:107-226).                                          *)
Promise == INSTANCE Application WITH done <- Cardinality(processed)

KeepsPromise == Promise!Spec
=============================================================================
