------------------------------ MODULE Ingestion ------------------------------
(***************************************************************************)
(* From the chain to the table "events": the start of the indexer, its     *)
(* live subscriptions, the backfill of what was missed while it was down,  *)
(* the event queue and the event processor that writes confirmed logs.     *)
(*                                                                         *)
(* A key is one (contract, event name) pair of the configuration: the code *)
(* keeps one subscription and one backfill goroutine per key, and finds    *)
(* where to resume per key.  The chain of this module only grows.  A log   *)
(* that a subscription and the backfill both fetch is queued twice by the  *)
(* code; the second copy finds the row of the first, so one is kept here.  *)
(***************************************************************************)
EXTENDS Integers, FiniteSets

CONSTANTS
  Keys,           \* the (contract, event) pairs of config.yaml
  StartBlock,     \* start_block of the contracts
  Confirmations,  \* requiredConfirmations, 4 in the code
  Indices,        \* the log indices a block may use
  Faults,         \* the calls that may fail, see FaultKinds
  QuietStart,     \* no log is mined for a key still to be subscribed
  MaxBlock,       \* bound on the height of the chain
  MaxLogs,        \* bound on the number of logs in it
  MaxRuns         \* bound on the number of starts of the process

(* The calls to the node and to the database that the code reports an      *)
(* error of: "subscribe" (failed or ended), "last" (getLastIndexedBlock),  *)
(* "filter" (FilterLogs), "head" (BlockNumber in the event processor),     *)
(* "write" (writeIdempotentEvent).                                         *)
FaultKinds == {"subscribe", "last", "filter", "head", "write"}

ASSUME ConstantsAssumption ==
  /\ StartBlock \in Nat
  /\ Confirmations \in Nat
  /\ Indices \subseteq Nat
  /\ Faults \subseteq FaultKinds
  /\ QuietStart \in BOOLEAN
  /\ MaxBlock \in Nat
  /\ MaxLogs \in Nat
  /\ MaxRuns \in Nat

VARIABLES
  head, logs,     \* the chain: its height and the logs mined so far
  events,         \* the rows of the table events, each the log it stores
  phase, runs,    \* where Start is; how often the process was started
  current,        \* currentBlock, read once by Start
  sub, pending,   \* per key: the subscription, and the logs not yet read from it
  fill, from,     \* per key: the backfill goroutine and its fromBlock
  queue,          \* the items of the event queue, without duplicates
  held, pc,       \* the event the processor popped, and its next step
  epErr, epLive,  \* an error reported in the processor; its ctx is not cancelled
  ingErr          \* an error waits on eventIngestionErrorChan

chain == <<head, logs>>
starting == <<phase, runs, current>>
reading == <<sub, pending>>
filling == <<fill, from>>
processor == <<held, pc, epErr, epLive>>
vars == <<chain, events, starting, reading, filling, queue, processor, ingErr>>

Log == [block : Nat, idx : Indices, key : Keys]

(* EventLog.Less: by block number, then by log index. *)
Before(a, b) ==
  \/ a.block < b.block
  \/ a.block = b.block /\ a.idx < b.idx

First(l, S) == l \in S /\ \A m \in S : ~Before(m, l)

OfKey(k, S) == {l \in S : l.key = k}

Missing(k) == OfKey(k, logs) \ (events \cup queue \cup held \cup pending[k])

DeepButOne(l) == l.block + Confirmations <= head + 1  \* slip: off by one

(* requiredConfirmations blocks must be on top of the block of a log. *)
Deep(l) == l.block + Confirmations <= head

MayFail(kind) == kind \in Faults /\ runs < MaxRuns

Init ==
  /\ head = 0 /\ logs = {} /\ events = {}
  /\ phase = "down" /\ runs = 0 /\ current = 0
  /\ sub = [k \in Keys |-> "none"] /\ pending = [k \in Keys |-> {}]
  /\ fill = [k \in Keys |-> "idle"] /\ from = [k \in Keys |-> StartBlock]
  /\ queue = {} /\ held = {} /\ pc = "poll"
  /\ epErr = FALSE /\ epLive = TRUE /\ ingErr = FALSE

SelectedByAddress(k, new) == new  \* slip: a query without topics

(* External: the filter query of a subscription or of a backfill selects   *)
(* the logs of its own contract address and event topic.                   *)
Selected(k, new) == OfKey(k, new)

(* External: a block is mined; the logs of subscribed keys are delivered.  *)
Mine ==
  /\ head < MaxBlock
  /\ head' = head + 1
  /\ \E I \in SUBSET Indices : \E f \in [I -> Keys] :
       LET new == {[block |-> head + 1, idx |-> i, key |-> f[i]] : i \in I} IN
       /\ QuietStart => \A l \in new : sub[l.key] # "starting"
       /\ logs' = logs \cup new
       /\ Cardinality(logs') <= MaxLogs
       /\ pending' = [k \in Keys |-> IF sub[k] = "live"
                                     THEN pending[k] \cup Selected(k, new)
                                     ELSE pending[k]]
  /\ UNCHANGED <<events, starting, sub, filling, queue, processor, ingErr>>

(***************************************************************************)
(* Start: read the height, then spawn the subscription goroutines.  Each   *)
(* calls wg.Done before it subscribes, so Start goes on to the backfill    *)
(* with subscriptions still to be made.                                    *)
(***************************************************************************)
Start ==
  /\ phase = "down" /\ runs < MaxRuns
  /\ runs' = runs + 1
  /\ current' = head
  /\ phase' = "backfill"
  /\ sub' = [k \in Keys |-> "starting"]
  /\ UNCHANGED <<chain, events, pending, filling, queue, processor, ingErr>>

Subscribe(k) ==
  /\ phase # "down" /\ sub[k] = "starting"
  /\ sub' = [sub EXCEPT ![k] = "live"]
  /\ UNCHANGED <<chain, events, starting, pending, filling, queue, processor, ingErr>>

(* SubscribeFilterLogs fails, or the subscription ends with an error: the  *)
(* goroutine reports it and returns; what was not read from it is lost.    *)
SubscriptionFails(k) ==
  /\ MayFail("subscribe")
  /\ sub[k] \in {"starting", "live"}
  /\ sub' = [sub EXCEPT ![k] = "ended"]
  /\ pending' = [pending EXCEPT ![k] = {}]
  /\ ingErr' = TRUE
  /\ UNCHANGED <<chain, events, starting, filling, queue, processor>>

(* A log arrives on a subscription, in chain order, and is queued. *)
ReceiveLog(k) ==
  /\ sub[k] = "live"
  /\ \E l \in pending[k] :
       /\ First(l, pending[k])
       /\ pending' = [pending EXCEPT ![k] = @ \ {l}]
       /\ queue' = queue \cup {l}
  /\ UNCHANGED <<chain, events, starting, sub, filling, processor, ingErr>>

(***************************************************************************)
(* Backfill, one goroutine per key.                                        *)
(***************************************************************************)
(* The last block with a row of this key, itself included, as the process  *)
(* may have stopped between two logs of one block; else the start block.   *)
ResumeAfter(k, b) ==  \* slip: the last block is taken to be complete
  IF OfKey(k, events) = {} THEN b = StartBlock
  ELSE /\ \E e \in OfKey(k, events) : e.block + 1 = b
       /\ \A e \in OfKey(k, events) : e.block + 1 <= b

ResumeFrom(k, b) ==
  IF OfKey(k, events) = {} THEN b = StartBlock
  ELSE /\ \E e \in OfKey(k, events) : e.block = b
       /\ \A e \in OfKey(k, events) : e.block <= b

ReadLastIndexed(k) ==
  /\ phase = "backfill" /\ fill[k] = "idle"
  /\ \E b \in {StartBlock} \cup (0..head) :
       ResumeFrom(k, b) /\ from' = [from EXCEPT ![k] = b]
  /\ fill' = [fill EXCEPT ![k] = "ranged"]
  /\ UNCHANGED <<chain, events, starting, reading, queue, processor, ingErr>>

(* FilterLogs from fromBlock to currentBlock, and an Insert of each log.   *)
(* Nothing leaves the queue before the last of these goroutines is done.   *)
MissedBelow(k) ==  \* slip: toBlock left out
  {l \in Selected(k, logs) : from[k] <= l.block /\ l.block < current}

Missed(k) == {l \in Selected(k, logs) : from[k] <= l.block /\ l.block <= current}

Backfill(k) ==
  /\ fill[k] = "ranged"
  /\ queue' = queue \cup Missed(k)
  /\ fill' = [fill EXCEPT ![k] = "done"]
  /\ UNCHANGED <<chain, events, starting, reading, from, processor, ingErr>>

BackfillFails(k) ==
  /\ phase = "backfill"
  /\ \/ MayFail("last") /\ fill[k] = "idle"
     \/ MayFail("filter") /\ fill[k] = "ranged"
  /\ fill' = [fill EXCEPT ![k] = "failed"]
  /\ ingErr' = TRUE
  /\ UNCHANGED <<chain, events, starting, reading, from, queue, processor>>

(* wg.Wait returns once every backfill goroutine has returned, failed or   *)
(* not, and the event processor is started.                                *)
StartProcessor ==
  /\ phase = "backfill"
  /\ \A k \in Keys : fill[k] \in {"done", "failed"}
  /\ phase' = "running"
  /\ UNCHANGED <<chain, events, runs, current, reading, filling, queue, processor, ingErr>>

(***************************************************************************)
(* The event processor: pop, compare with the height of the chain, write.  *)
(***************************************************************************)
TakeEvent ==
  /\ phase = "running" /\ epLive /\ pc = "poll"
  /\ \E l \in queue : First(l, queue) /\ held' = {l} /\ queue' = queue \ {l}
  /\ pc' = "check"
  /\ UNCHANGED <<chain, events, starting, reading, filling, epErr, epLive, ingErr>>

CheckConfirmed ==
  /\ pc = "check" /\ epLive
  /\ \A l \in held : Deep(l)
  /\ pc' = "write"
  /\ UNCHANGED <<chain, events, starting, reading, filling, queue, held, epErr, epLive, ingErr>>

DropUnconfirmed ==  \* slip: the event is not inserted again
  /\ pc = "check" /\ epLive
  /\ \A l \in held : ~Deep(l)
  /\ held' = {} /\ pc' = "poll"
  /\ UNCHANGED <<chain, events, starting, reading, filling, queue, epErr, epLive, ingErr>>

(* Too few confirmations: the event goes back to the queue. *)
PutBack ==
  /\ pc = "check" /\ epLive
  /\ \A l \in held : ~Deep(l)
  /\ queue' = queue \cup held
  /\ held' = {} /\ pc' = "poll"
  /\ UNCHANGED <<chain, events, starting, reading, filling, epErr, epLive, ingErr>>

(* writeIdempotentEvent: no second row for a block number and log index.   *)
Written(l) ==
  IF \E e \in events : e.block = l.block /\ e.idx = l.idx THEN events ELSE events \cup {l}

WriteEvent ==
  /\ pc = "write"
  /\ \E l \in held : events' = Written(l)
  /\ held' = {} /\ pc' = "poll"
  /\ UNCHANGED <<chain, starting, reading, filling, queue, epErr, epLive, ingErr>>

(* A failed call reports to the error goroutine and the loop goes on with  *)
(* the next event; the one in hand is not queued again.  BlockNumber also  *)
(* fails once the ctx is cancelled; a write that failed may have reached   *)
(* the table all the same.                                                 *)
ProcessorFails ==
  /\ \/ /\ pc = "check" /\ (MayFail("head") \/ ~epLive)
        /\ UNCHANGED events
     \/ /\ pc = "write" /\ MayFail("write")
        /\ \E l \in held : events' \in {events, Written(l)}
  /\ held' = {} /\ pc' = "poll" /\ epErr' = TRUE
  /\ UNCHANGED <<chain, starting, reading, filling, queue, epLive, ingErr>>

(* The error goroutine of the processor calls Stop, which cancels its ctx. *)
StopProcessor ==
  /\ epErr /\ epLive
  /\ epLive' = FALSE
  /\ UNCHANGED <<chain, events, starting, reading, filling, queue, held, pc, epErr, ingErr>>

(***************************************************************************)
(* The end of the process: Indexer.Stop ends in os.Exit, a crash at any    *)
(* point.  Only the chain and the table are left.                          *)
(***************************************************************************)
Down ==
  /\ phase' = "down"
  /\ sub' = [k \in Keys |-> "none"] /\ pending' = [k \in Keys |-> {}]
  /\ fill' = [k \in Keys |-> "idle"] /\ from' = [k \in Keys |-> StartBlock]
  /\ queue' = {} /\ held' = {} /\ pc' = "poll"
  /\ epErr' = FALSE /\ epLive' = TRUE /\ ingErr' = FALSE
  /\ UNCHANGED <<chain, events, runs, current>>

ExitOnProcessor ==  \* slip: nobody reads eventIngestionErrorChan
  /\ phase = "running" /\ ~epLive
  /\ Down

(* Stop is called by the handler of eventIngestionErrorChan, and by the    *)
(* monitor of the processor's ctx, which runs once Start got that far.     *)
Exit ==
  /\ phase # "down"
  /\ ingErr \/ (phase = "running" /\ ~epLive)
  /\ Down

Crash ==
  /\ phase # "down" /\ runs < MaxRuns
  /\ Down

ProcessorNext ==
  TakeEvent \/ CheckConfirmed \/ PutBack \/ WriteEvent \/ ProcessorFails \/ StopProcessor

Next ==
  \/ Mine
  \/ Start \/ StartProcessor \/ Exit \/ Crash
  \/ \E k \in Keys : \/ Subscribe(k) \/ SubscriptionFails(k) \/ ReceiveLog(k)
                     \/ ReadLastIndexed(k) \/ Backfill(k) \/ BackfillFails(k)
  \/ ProcessorNext

Spec == Init /\ [][Next]_vars

(***************************************************************************)
(* Goroutines are scheduled fairly, calls return, a process that went down *)
(* is started again (systemd restarts it).  Blocks need not be mined.      *)
(***************************************************************************)
Fairness ==
  /\ WF_vars(Start) /\ WF_vars(StartProcessor) /\ WF_vars(Exit)
  /\ \A k \in Keys : /\ WF_vars(Subscribe(k)) /\ WF_vars(ReceiveLog(k))
                     /\ WF_vars(ReadLastIndexed(k)) /\ WF_vars(Backfill(k))
  /\ WF_vars(TakeEvent) /\ WF_vars(CheckConfirmed \/ PutBack)
  /\ WF_vars(WriteEvent) /\ WF_vars(StopProcessor)

FairSpec == Spec /\ Fairness

(***************************************************************************)
(* Properties.                                                             *)
(***************************************************************************)
(* Every variable has its type, and a subscription carries only logs of    *)
(* its own key (the query of subscribeToEvent).                            *)
TypeOK ==
  /\ head \in Nat /\ logs \subseteq Log /\ events \subseteq Log
  /\ phase \in {"down", "backfill", "running"} /\ runs \in Nat /\ current \in Nat
  /\ sub \in [Keys -> {"none", "starting", "live", "ended"}]
  /\ pending \in [Keys -> SUBSET Log]
  /\ \A k \in Keys : \A l \in pending[k] : l.key = k
  /\ fill \in [Keys -> {"idle", "ranged", "done", "failed"}] /\ from \in [Keys -> Nat]
  /\ queue \subseteq Log /\ held \subseteq Log /\ pc \in {"poll", "check", "write"}
  /\ epErr \in BOOLEAN /\ epLive \in BOOLEAN /\ ingErr \in BOOLEAN

(* The resume point of the backfill is sound: below the newest row of a    *)
(* key every log of that key has its row.  getLastIndexedBlock looks at    *)
(* the newest row alone, so a log missing below it is missing for ever.    *)
NoGap ==
  \A e \in events : \A l \in OfKey(e.key, logs) :
    StartBlock <= l.block /\ l.block < e.block => l \in events

(* While the process runs and has reported no error, each log since the    *)
(* start block is in the table or on its way to it: in a subscription, in  *)
(* the queue, or in the hands of the processor.                            *)
InFlight ==
  phase = "running" /\ epLive /\ ~ingErr /\ ~epErr
    => \A k \in Keys : \A l \in Missing(k) : l.block < StartBlock

(* A row is written only with requiredConfirmations blocks on top of it,   *)
(* though the height is read one step before the write.                    *)
RowsAreDeep == \A e \in events : e.block + Confirmations <= head

(* The table catches up with the chain: once the chain rests (its height   *)
(* is bounded here), every log that is deep enough has its row, however    *)
(* often the process was stopped and restarted before.                     *)
CatchesUp ==
  []<>(\A l \in logs : StartBlock <= l.block /\ l.block + Confirmations <= head => l \in events)

(* A reported error stops the process, so that its restart can fetch again *)
(* what this run has lost.                                                 *)
ErrorsStopTheProcess == (ingErr \/ epErr) ~> (phase = "down")

(***************************************************************************)
(* Why NoGap and InFlight hold while only subscriptions fail and starts    *)
(* are quiet: the inductive invariant that IngestionProofs proves.         *)
(***************************************************************************)
Carried(k) == events \cup queue \cup held \cup pending[k]

(* A log has one place in the chain, and nothing but logs is carried. *)
ChainOK ==
  /\ current <= head
  /\ \A l \in logs : l.block <= head
  /\ \A a, b \in logs : a.block = b.block /\ a.idx = b.idx => a = b
  /\ \A k \in Keys : Carried(k) \subseteq logs

(* What each phase of Start and each step of the processor implies. *)
PhaseOK ==
  /\ phase = "down" => queue = {} /\ \A k \in Keys : fill[k] = "idle"
  /\ phase = "running" => \A k \in Keys : fill[k] = "done"
  /\ \A k \in Keys : phase = "down" <=> sub[k] = "none"
  /\ \A k \in Keys : fill[k] # "failed" /\ (sub[k] = "ended" => ingErr)
  /\ \A k \in Keys : from[k] = StartBlock \/ from[k] <= head
  /\ pc = "poll" => held = {}
  /\ pc # "poll" => phase = "running"
  /\ epLive /\ ~epErr

(* The rows of a key are a prefix of its logs. *)
RowsClosed ==
  \A e \in events : \A l \in OfKey(e.key, logs) :
    StartBlock <= l.block /\ Before(l, e) => l \in events

(* The backfill accounts for the logs up to current, ... *)
FillOK ==
  \A k \in Keys : \A l \in OfKey(k, logs) : StartBlock <= l.block =>
    /\ fill[k] = "done" /\ l.block <= current => l \in events \cup queue \cup held
    /\ fill[k] = "ranged" /\ l.block < from[k] => l \in events

(* ... a subscription for those after it. *)
SubOK ==
  \A k \in Keys :
    /\ sub[k] # "live" => pending[k] = {}
    /\ \A p \in pending[k] : p.block > current
    /\ \A l \in OfKey(k, logs) : l.block > current =>
         /\ sub[k] # "starting"
         /\ sub[k] = "live" => l \in Carried(k)

(* What is on its way of a key is on its way in order, without holes: the  *)
(* event in hand first, the queue next, the subscription last.             *)
OrderOK ==
  /\ \A a, b \in held : a = b
  /\ \A k \in Keys :
       /\ \A x \in OfKey(k, queue \cup held) : \A p \in pending[k] : Before(x, p)
       /\ \A h \in OfKey(k, held) : \A x \in OfKey(k, queue) : Before(h, x)
       /\ \A x \in OfKey(k, queue \cup held \cup pending[k]) : \A l \in OfKey(k, logs) :
            l.block > current /\ Before(l, x) => l \in Carried(k)

(* The inductive invariant of a process whose subscriptions alone may fail *)
(* (indexer.go:114-222 with the goroutines it starts).                     *)
IInv ==
  TypeOK /\ ChainOK /\ PhaseOK /\ RowsClosed /\ FillOK /\ SubOK /\ OrderOK

=============================================================================
