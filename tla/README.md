# A verification development of the vault indexer

TLA+ modules, TLC configurations and TLAPS proofs about the Go indexer under
`src/go-indexer`: it reads the logs of ERC-4626 vaults from an Ethereum node,
stores them as rows of the table `events`, and derives from those rows the
tables `positions`, `withdraw_requests` and `rate_updates`, which the API
serves.  A definition is translated from the code at the lines that the `map`
of `PROJECT.json` gives for it.

## 1. The system

| Component | State | Operations | Correct when |
|---|---|---|---|
| Indexer start and ingestion: `indexer.go`, `subscription-handler.go`, `load-historical-events.go` | the height read at start; per (contract, event) *key* a subscription and a backfill goroutine; the error channel | `Start`, subscribe, receive a log, backfill, `Stop` (ends in `os.Exit`) | no log is lost, however starts, failures and new blocks interleave; an error stops the process |
| Event queue: `queue.go` | a slice in heap order behind a mutex | `Insert`, `Next`, `Clear` | `Next` returns an event that none precedes; none is lost or invented |
| Event processor, extractor: `event-processor.go`, `extractor.go` | the event in hand, its own context, an error channel | pop, compare with the height, put back, write once | a row is `requiredConfirmations` deep; rows leave no hole that a restart would skip |
| Transformer: `transformer.go` | the batch, the last error, the retry count | read up to 100 unprocessed rows, one transaction per row, back off, stop | each event is applied once, in order, whatever fails |
| Event handlers, position transformer: `event-transform-handler/`, `transformers/` | the derived tables | deposit, transfer, withdrawal, rate update | `positions` is the history of each holder's balance |
| SQL builder: `dbutil/sql-builder.go` | none | one statement per operation | every row an event derives is written |
| Finality processor: `finality-processor.go`, `utils.go` | the last validated block per tag (`block_finality`) | take the next event above it, ask the node for its block, move on or report a reorganisation | what is recorded as finalized is finalized and canonical |
| Reorg handler, halt manager: `reorg-handler.go`, `halt-manager.go` | a halt token and flag | halt, wait, clear the queue, find the last consistent block, clean up, stop | nothing writes during the cleanup; afterwards the tables describe the canonical chain |
| Database schema: `supabase/migrations` | the tables | unique indexes refuse a second row | |
| API gateway: `src/app` | none | reads, filtered by block and tag | a tag never shows rows above its block |
| Entry, configuration, health, logging | the root context, a status flag | run `Start` in a goroutine, wait for a signal or its error, `Stop` | the process ends when it is asked to |
| Data check script | none | compares the tables with the chain, offline | |

**Interaction.**  Goroutines of one process share the queue, the channels
(error, reorganisation, halt) and the cancellation of contexts.  Ingestion and
transformer meet only in the table `events`.  The finality processor reports to
the main indexer's handler over an unbuffered channel; that handler halts the
others, rewrites the tables and ends the process.  The database outlives the
process; nothing else does, and systemd starts it again.

**Hard behaviours.**  Chain, subscriptions and backfill race at start; a
height is read before the row it justifies is written; errors are reported to
one goroutine while another goes on; answers of a commit get lost; restarts
happen between any two steps; resume points are derived from the newest row;
one halt token serves several takers.  `hazards` in `PROJECT.json` lists them
at their lines, with the properties that catch them or the reason why none does
yet.

## 2. The modules

    EventQueue   <-- implemented by --   EventHeap       MCEventHeap
    EventHeap    <-- proved in --        EventHeapProofs
    Ingestion    <-- proved in --        IngestionProofs MCIngestion
    Positions    <-- extended by --      Application, Transformer
    Application  <-- implemented by --   Transformer     MCTransformer
    Transformer  <-- proved in --        TransformerProofs, LedgerProofs
    Transformer  <-- extended by --      Rollback        MCRollback
    Rollback     <-- proved in --        RollbackProofs
    Reorg        <-- proved in --        ReorgProofs     MCReorg
    Lifecycle    <-- proved in --        LifecycleProofs MCLifecycle
    Recursion    <-- used by --          EventHeapProofs, LedgerProofs

**EventQueue** is the abstract queue, a bag with a `Next` that takes an event
no other precedes.  **EventHeap** is the code: the slice `items`, Go's
`container/heap` (`Up`, `Down`, external) over `EventLog.Less`: recursive functions
from a place, a slice and its index, to the slice that the loop leaves.  The
refinement maps the bag to the elements of the slice.  The mutex makes each
operation one step.

**Ingestion** is the way of a log from the chain to a row.  `phase` is where
`Indexer.Start` is, `current` its `currentBlock`; `sub[k]`, `pending[k]` are the
subscription of a key and what was delivered to it but not read; `fill[k]`,
`from[k]` the backfill goroutine; `queue` and `held` the queue and the event that
the processor popped; `pc` its next step, because the height is read in one
call and the row written in another; `epErr`, `epLive`, `ingErr` the two error
paths.  Blocks are mined at any time (`Mine`).  `Down` is what the end of the
process leaves: the chain and the table.  A log that is fetched twice is kept
once (`queue` is a set): the code queues both copies and the second finds the
row of the first; keeping one only removes a second chance after a failed write.
The three steps of a subscription goroutine that matter are apart: it is
spawned (`Start`, where the wait group is released), it subscribes
(`Subscribe`), it reads (`ReceiveLog`).

**Positions** has no state: it is what one event does to the table `positions`,
from the handlers (`HandleDeposit`, ...) through `ComputeDeposit`, `ComputeTransfer`,
`ComputeWithdraw` and `UpdatePosition` to the statements that the SQL builder
makes of the result.  `Built` is the builder's choice of the first element.

**Transformer** is the loop around it.  `events` is the table in chain order,
`batch` what is left of the query's result as places in `events` (a set: the
order is theirs, and `First` takes the next), `lastError`
the retry state: with `maxRetries` 0, `retryCount` decides nothing more than
"there was an error before".  `Commit` is one transaction, the rows and
`is_processed` together.  The vault is external: it emits deposits,
withdrawals and transfers that its own balances allow, and `Balance` is the
ledger the positions are measured against.  The classes of events in `Allowed`
beyond the plain ones are those the code handles in a way of their own; mints and burns,
the transfers from and to the zero address, are one of them.  A fault of the kind
"read" ends the iteration over the rows early (`ReadBreaksOff`): the rows before it
are processed all the same, whether or not `handleError` hears of it.

**Application** is what the transformer promises to those who read its tables: the
events are applied one after the other as they arrived, each at once and each exactly once
(`Apply`).  It has no batches, failures, stops or restarts, and no identities of
a transaction: `Adds` asks for a row that was not there.  The refinement
(`Promise`) maps `done` to the number of processed events.  What an event
does to `positions` is not restated: both use `Handle` and `Execute` of Positions.

**Rollback** is the transformer over a chain that drops blocks.  `HandleReorg` is
the end of `handleReorg`: the one transaction of `handleCleanupFromBlock`, with
the statements of the three `CleanupFromBlock` (`CleanupFromBlock`,
`RequestsKept`, `RatesKept`) and the deletion of events (`DeleteEvents`), after
which the process is down.  Its block is that of any row that has a later one,
since any later row may have left the chain.  `again` holds the events of
that block, which a restart fetches first because the backfill resumes at the
newest row; new events are of later blocks (`floor`).  The loop is at rest during the
cleanup; that a batch may go on is shown for its sibling, the event processor,
in Reorg.  `Replay` is the abstract specification: what a transformer writes that sees
the events of the chain and no failure, as a function of how many events it has seen.

**Reorg** is everything else of a reorganisation.  `head`, `top`, `block`, `fork`
are the chain: a log is the number and the hash of its block, one log a block,
and a hash is the number of the branch.  `Reorganise` queues the removed logs
once more, because the subscription ignores `Removed`.  `rows` and `validated` are
the tables `events` and `block_finality`; `queue`, `held` and `ep` the event processor, `tf`
the transformer's loop, `fin`, `tag`, `judged` the finality loop: its query and its
question to the node are two steps, so the chain may change in between.
The event processor's are three: to pop an event, to ask for the height
(`ReadHeight`), and to write the row or put the event back (`Write`, `PutBack`), so
the handler may clear the queue while an event is in hand that is then put back into it.
`handler`, `from`, `token` are `handleReorg`, its block and the halt channel.  The
report is received at once: the handler is at its `select` from the first
instant.  A token is taken by whoever comes first, the waiter included
(`WaitHalted`), and each of the handler's calls is a step.  `Start` stands for
the start that Ingestion spells out: it queues the logs from the newest row's
block on.  A call of the handler that fails ends the process like a `Crash`.

**Lifecycle** is one run of the process and how it ends; the other modules take
its end as one step (`Down`, `FinalityStops`).  `main`, `start`, `handler`, `monitor`
are where these goroutines are, `sub[k]` and `fill[k]` those of a key, `loop[l]` the
loops.  A context is in `cancelled` when its own `cancel` was called and `Done` when
that of one it derives from was.  `wg` is the wait group of `Start` as the set of what
was added and is not done.  `errors` and `closed` are the error channel: a send with
the channel full drops the error, one on the closed channel panics (`status` 2).
`Stop` is a `sync.Once`: one goroutine runs its steps (`stop`), every later caller
waits, and nobody returns from it.  `StopLoop` is `Stop` of a loop; that of the event
processor waits for its own caller, which keeps that goroutine but not the process.
Each of the three loops fails for reasons of its own (`FinalityFails`, `ProcessorFails`,
`TransformerFails`), with the same effect (`LoopFails`).
`HaltLoop` takes the token and leaves the context alone, or the monitor would end the
process during the cleanup.  `trouble` is a history variable.

## 3. The runs

Deadlock is not checked where the system may rest: the chain is bounded, so a
model that has read it all stops.  The heap always has a step and is checked.

| Run | Instance | Shows |
|---|---|---|
| `queue` | five events, two at one place of the chain; up to 7 items, three full levels of the heap, so that items sink past two levels and meet nodes with one child and with two | `HeapOrder`; `KeepsPromise`: the heap implements the bag |
| `ingestion_restart` | two keys, two logs a block, 3 blocks, 2 starts, 1 confirmation; subscriptions fail and the process crashes anywhere; starts are quiet | `NoGap`: below the newest row of a key nothing is missing; `InFlight`: a log is in the table or on its way while no error is reported; `CatchesUp` |
| `ingestion_faults` | two keys, 2 blocks, 2 starts, every call may fail, logs mined at any time | `TypeOK`; `RowsAreDeep`; `ErrorsStopTheProcess` |
| `ingestion_start_gap` | one key, 4 confirmations, no failure | `NoGap` is violated by a log mined between the reading of the height and the subscription |
| `transformer` | two holders, amounts 1 and 2, 3 events, batches of 2, second rates of a block; up to two queries that fail or break off, rolled back transactions, lost commit answers or crashes; mints and burns | `TypeOK`; `HistoryIsLedger`; `WithdrawalsRecorded`; `PositionsImmutable`; `PoisonStays`; `KeepsPromise`: the transformer implements Application; `CatchesUp`: only a second rate of a block stays unprocessed |
| `transformer_partial` | transfers of a part | `HistoryIsLedger` is violated: one of the two new positions is not inserted |
| `rollback` | 3 events up to two blocks apart, two reorganisations, mints, burns and second rates | `TablesAreReplay`; `HistoryIsRestored`; `ProcessedInOrder`; `PoisonStops` |
| `rollback_boundary` | as above, one reorganisation, any rows at the boundary | `HistoryIsRestored` is violated: a deposit counts twice |
| `reorg` | 5 blocks, two branches, two confirmations, reorganisations of up to two blocks, one crash or failing call | `TypeOK`; `ValidatedIsCanonical`; `NoHole`; `ConfirmedStays`: a row of the chain stays one; `CleanupHasCause`; `ReportEndsProcess`; `FollowsChain` |
| `reorg_deep` | 4 confirmations, a reorganisation of 5 | `ValidatedIsCanonical` is violated |
| `reorg_stop` | 4 confirmations, a reorganisation of 4, writes allowed between the cleanup and the exit | `NoHole` is violated |
| `lifecycle` | two keys, an error channel of one, every call may fail, a signal and a reported reorganisation at any time | `TypeOK`; `ProcessorAfterBackfill`; `NeverStranded`: while the process is to end, some goroutine has a step to take; `CleanupUndisturbed`; `EndsWhenAsked` |

**Why the bounds are enough.**  Ingestion: a hole needs a key's row above a
missing log of that key, so two blocks of logs; a third log and a second key
let another key move in between.  Two starts are needed for a resume point; the
second meets the rows and holes of the first.  Confirmations of 1 keep runs on
two keys small and separate a deep log from one that is not; the run on one
key, where depth of 4 is what lets the height run ahead, uses the code's 4.
`MaxRuns` also bounds failures: none happens in the last run, or liveness
would be about a system that always fails.  Transformer: a position is opened,
changed and closed by three events, a batch of 2 makes a third event wait for
the next query, and two faults are what it takes to stop the loop.  Rollback:
an event before the boundary, one at it and one after it are the three roles an
event can have; blocks two apart tell a position that was closed right after the
boundary from one closed later; the second reorganisation may come before the
events of the first are fetched again.  Reorg: two branches and five blocks hold a
canonical row, a stale one, a queued log and the next one above them.  With two
confirmations and reorganisations of up to two blocks an event may be found too shallow
when it is popped, lose its block while it is in hand, and be found deep after the chain grew
again; with one confirmation this order has no room.  What depends on the depth alone is
proved for any depth, and both violation runs use the code's four confirmations.  The heap's
`up` and `down` compare a node with its parent and children only.
Lifecycle: two keys are four senders, so a channel of one gets full;
the code's 10 would need eleven senders.

**What holds only by assumption, and is named.**  `QuietStart` (no log is mined
for a key whose subscription is still to be made) and `Faults` within
`{"subscribe"}` are the two conditions without which `NoGap` fails.  The run
`ingestion_start_gap` shows it of the first.  Without the second, a failed write
(`event-processor.go:125`) drops its event, and the loop may write a later event of the
key before the error goroutine cancels it; no restart fetches the lost one.
`HistoryIsLedger` is checked for deposits of
one's own, withdrawals, whole transfers to someone without a position, mints, burns and
rates; `transformer_partial` shows why not for partial ones, and the same one
statement per list breaks transfers to someone who has a position.  A deposit
for someone else is booked to its sender; the repository does not say who
should own it, so `HistoryIsLedger` does not judge it, and no run has the class.
`TablesAreReplay` is false with it, as with partial transfers, from four events on:
a position that a transfer left without a successor counts as the current
one, so the next event ends it again, and a cleanup between the two ends opens it
(`position-transformer.go:434`), where the replay of the remaining events has it
ended.  What holds for every class (types, the order, the requests and rates) is
proved for every class.

Four more for reorganisations.  `QuietBoundary`: the cleanup meets no processed
event of its own block but mints and burns, and no position that ends there; the run
`rollback_boundary` and the hazards at `transformer.go:331` and
`position-transformer.go:434` say what happens otherwise.  `ReorgDepth <=
Confirmations`, needed as `reorg_deep` shows.  `QuietStop`: the event processor
writes nothing between the cleanup and `os.Exit`, a few statements later, needed as
`reorg_stop` shows.  The proof of `ValidatedIsCanonical` needs it too: with three branches,
a stale event in hand could be written, after the cleanup, at a place that was validated before.  `ServesStale = FALSE`: asked for a block by its hash, the node
answers only if the block is on its chain; geth may keep side chains, and then a
stale row passes for canonical until it forgets them.  `FollowsChain` makes an exception of
`Unrepairable`: no row is left below the stale one, the search fails, and fails
again after each restart.

**Fairness.**  Goroutines are scheduled and calls return: weak fairness of each
step of a goroutine that would otherwise wait for nothing.  The process that
went down is started again (`src/README.md:135-137`: systemd, with a restart).
No fairness is given to blocks, crashes or failures.  A poisoned event does fail
each time it is tried, so `PoisonFails` is fair.  In Reorg the waiter polls one
channel with the processors, again and again over restarts, so its receive is strongly
fair; no fairness is given to `HaltEventProcessor`, `HaltTransformer`, or to
anything that can fail.  In Lifecycle each goroutine is fair, and none of the
signals, failures, reports and halts is.

## 4. The findings

1. **A log of the start window is lost** (`indexer.go:147,161`,
   `subscription-handler.go:30`).  The wait that "do not progress until all
   subscriptions are created" describes ends when the goroutines have started,
   not when they have subscribed.
2. **A partial transfer loses the sender's remainder**
   (`sql-builder.go:42`, `106`): the lists have two elements, the statements one.
3. **A rollback applies the events of its boundary block twice**
   (`transformer.go:331` against `position-transformer.go:433`): they are deleted
   with `>=`, the rows derived from them with `>`.
4. **What is recorded as finalized is what is indexed**
   (`finality-processor.go:103`): the node's finalized height is only logged.
5. **The handler may take the halt token itself** (`halt-manager.go:45`), and the
   processors write on during and after the cleanup.

Not a run, but worth knowing: rows of different keys are not always written in chain
order, as the queue orders only what it holds (`src/README.md:24`, `29` promise
more); a failed query for the most recent position reads as none
(`position-transformer.go:135`); a failed write is not repeated though a later one may
be made (`event-processor.go:125`); a goroutine that sends on the closed error channel
panics, where the comment says "Channel is closed or full, ignore"
(`subscription-handler.go:49`, `load-historical-events.go:57`), and so the process may
end with the status of a panic (`status` 2); an ABI that becomes unreadable between the
subscriptions and the backfill leaves `Start` waiting for ever (`Stuck`), with no
monitor to end the process.

## 5. What is proved

`IngestionProofs` proves, with no bound on keys, blocks, logs, restarts or
confirmations:

- `TypeCorrect`: `Spec => []TypeOK`, from the named assumption on the constants.
- `RowsDeep`: `Spec => []RowsAreDeep`, whatever fails.  Depth is checked one step
  before the write; the argument is that the event in hand stays deep as the
  chain only grows.
- `NoGapTheorem` and `InFlightTheorem`: if `Faults \subseteq {"subscribe"}` and
  `QuietStart` (together `NothingLost`) then `Spec => []NoGap` and
  `Spec => []InFlight`.

`NoGap` is not inductive: that writing an event leaves no hole depends on
everything before it being ahead of it in the queue.  `IInv` adds what makes it so:
`RowsClosed` (the rows of a key are closed downwards in chain order, within a
block too), `FillOK` (the backfill accounts for everything up to `current`, and
below `from` all rows exist), `SubOK` (the subscription accounts for what comes
after `current`), `OrderOK` (the event in hand is before the queue, the queue
before the subscription, without holes), `PhaseOK` and `ChainOK` (what each phase
implies).  Each action has a lemma, `InvStep` joins them, and `InvNoGap` and
`InvInFlight` draw the conclusions.  `Asymmetry` and `Totality` are the facts about the
order of logs that the leaves use.

`EventHeapProofs`, for any events, equal ones included, and any length of the queue:

- `HeapOrderTheorem`: the slice is in heap order.  `HeapInv` is the order and the type.  While
  `Up` runs the order fails at most between one item and its parent (`Rising`), while
  `Down` runs at most between one item and its children (`Sinking`); the item's
  parent precedes its children all along, and each round keeps that (`RisingStep`,
  `SinkingStep`).
- `PromiseTheorem`: `KeepsPromise`, the refinement.  Each swap keeps the number of copies of
  every event (`SwapOK`), and the first item of a heap is foremost (`RootFirst`, by
  induction from an item to its parent, and `FirstForemost`).

`Recursion` has what both this and the next module need and the library offers
for operators only: `Induction` takes the set of the numbers that have a
property, and follows from the well-foundedness of `<` on `Nat`.  From it come that a recursive
function with a falling measure exists and is unique (`RecursionExists`,
`RecursionUnique`), what a loop returns (`IterationRule`) and that the sum of the community
modules does not depend on the order of its summands (`SumRemove`).

`TransformerProofs`, for any holders, amounts, batch size, classes of events and
failures:

- `TypeCorrect`: `Spec => []TypeOK`.  That `NextIndex` is a number above all indices
  needs that every set of rows has a highest one; `HaveHighest` carries that through
  the steps without an induction.  `UpdateOK`, `HandleOK` and `ExecuteOK` are the
  facts about the operators of Positions: whatever a handler computes, at most one
  insert and one update are executed, and the insert is under the next index.
- `OrderTheorem`: `Spec => []ProcessedInOrder`.  `OrderOK` is what makes it inductive:
  the processed events are the first ones and the batch is closed downwards among the
  others, so that giving it up leaves no gap (`SelectionClosed`, `FirstIsNext`).
- `WithdrawalsTheorem`: `Spec => []WithdrawalsRecorded`.
- `PoisonTheorem`: `Spec => PoisonStays`.  The first event of a batch is the first one left
  (`FirstOfAll`), so no other commit comes before that of the poisoned one.  With
  `PoisonStops` it says what an operator meets: the process stops, and after each restart
  stops again, until a reorganisation or a hand removes the event.

- `PromiseTheorem`: `Spec => KeepsPromise`, the refinement.  A step of the transformer either
  touches no table, or is a `Commit`, or an arrival.  A `Commit` is `Apply` because the
  processed events are the first ones (`OrderOK`), so that the one it takes is number
  `done + 1` (`DoneIs`, `FirstOfAll`), because `Handle` reads the rows only, not which
  events are processed (`SameHandling`), and because the unique indexes make the request and the rate
  new rows (`CommitApplies`).  A lost answer of a commit and a crash are stutters: the event
  is processed, and is not taken again.

`LedgerProofs`, for any holders, amounts, batch size and failures, and the plain classes of
events (`Plain`: one's own deposits, withdrawals, whole transfers to someone without a
position, mints, burns, rates; these are the classes that the run `transformer` has, and
`transformer_partial` shows that more is false):

- `HistoryTheorem`: `Spec => []HistoryIsLedger`.  Neither the balances nor the rows of one
  block are enough for an induction.  `LedgerInv` has two parts.  `Law` is about the events:
  they are in chain order, no balance is ever negative, and each event is one of the plain
  classes against the balances before it (`Tally`).  `HolderOK` is about the rows of a holder:
  the open one is his last and has his tally, the others ended before the block of
  the last event (`CurrentOK`), and for every number of events that ends a block the
  rows covering that block are what the tally says (`HistoryOK`).  `Effect` is what an event does to the
  rows: at most one is closed and one opened, only for holders whose tally it changes.
  `HandledEffect` shows it of each handler, the statement that the builder drops
  included, and `EffectKeeps` that rows related by it tell the ledger again.
- `ImmutableTheorem`: `Spec => PositionsImmutable`, as `Effect` closes open rows only.

`ReorgProofs`, for any chain, number of branches and crashes:

- `TypeCorrect`: `Spec => []TypeOK`, from the assumption on the constants.
- `CauseTheorem`: `Spec => CleanupHasCause`, without any assumption.  `CInv`: a hash that
  left the chain never comes back (`HashOK`), and the handler runs only while a stale
  row is stored (`CauseOK`).
- `ConfirmedTheorem`: if `ReorgDepth <= Confirmations` then `Spec => ConfirmedStays`.  `DInv`
  adds that the chain is never further below its highest block than its confirmations
  (`ChainOK`), and that rows, and an event whose height was read, lie as deep below that block,
  where no reorganisation reaches (`DeepOK`, `SettledStay`).  An event that was popped only
  may lose its block.
- `ValidatedTheorem`: if `ReorgDepth <= Confirmations`, `~ServesStale` and `QuietStop` then
  `Spec => []ValidatedIsCanonical`.  It is not inductive: a log written late must not be
  at a place that was validated before.  `VInv` adds that nothing in memory is below a row of the
  chain (`OrderOK`), that a stale log in memory is above what was validated or has its place
  taken, until the cleanup (`StaleOK`), and that the event between the query and the
  record is the next one (`JudgedOK`).
- `NoHoleTheorem`: under the same assumptions `Spec => []NoHole`.  `Holes` says what a hole may
  look like while stale rows are stored: `HoleOK` (a log missing below a row is `Doomed`: no
  row of the chain lies between it and some stale row, so the cleanup which that one causes
  deletes whatever is above the log), `FlightOK` (until the cleanup, a log is stored, in
  memory, or doomed: so the queue may be cleared while an event is in hand) and `FoundOK` (the search ends at a row of the chain).

`RollbackProofs`, for any events, failures and number of cleanups:

- `RollbackOrderTheorem`: `RollbackSpec => []ProcessedInOrder`, by `OrderOK` of
  `TransformerProofs`: the rows that a cleanup leaves are the first ones.
- `RecordsTheorem`: if `QuietBoundary` then `RollbackSpec => []RecordsAreReplay`, the two
  conjuncts of `TablesAreReplay` that are not about `positions`.  Each request and rate
  belongs to one processed event (`RecordsFollow`), and with no such event at the
  boundary block it does not matter that rows are deleted after it and events from it on
  (`RecordsCleanup`).
- `ReplayTheorem`: if `QuietBoundary` and `Plain` then `RollbackSpec => []TablesAreReplay`.
  `RInv` says that `positions` is the replay of the processed events, and that the
  events, with those to be fetched again, obey the `Law`.  The step that matters is the
  cleanup.  The replay tells the ledger after every event (`ReplayTold`), so each event
  has its `Effect`, and the cleanup takes an `Effect` back when the event is
  after the block: the row it opened starts after the block, and the one it closed ends
  at or after it, not at it by `Quiet` (`CleanStep`).  By induction it gets back to
  the replay of the events up to the block (`CleanBack`); what these wrote it leaves
  (`CleanNothing`), and of those at the block only mints and burns are processed
  (`ReplayMintsAndBurns`).
- `RestoredTheorem`: hence `RollbackSpec => []HistoryIsRestored`.  `rollback_boundary` shows that
  `QuietBoundary` is needed.

`LifecycleProofs`, for any keys, capacity and failures:

- `TypeCorrect`: `Spec => []TypeOK`; the channel never holds more than its capacity,
  whoever sends.
- `BackfillTheorem`: `Spec => []ProcessorAfterBackfill`.  `FillInv` adds what the
  wait group counts: a backfill that runs is in `wg`, so that when `wg` is empty and
  the goroutines were started, all of them have ended.
- `UndisturbedTheorem`: `Spec => []CleanupUndisturbed`.  Inductive is `Reason \/ Calm`: there is
  a reason to stop, or no context is cancelled, the channel is open and empty and nobody is on the
  way to `Stop`.

- `StrandedTheorem`: `Spec => []NeverStranded`.  A goroutine may wait for a context, for the
  error channel, for the wait group or for `Stop`; the theorem says that they never wait for one another
  while there is a reason to end.  `SomeoneActs` lists the guards of the fair steps written out, as
  `ENABLED` is beyond the prover.  Five facts are inductive together.  `StopOK`: whoever waits
  in `Stop` has it running, and only `Stop` closes the channel or cancels the indexer's
  context.  `EndOK`: a goroutine that ended left a cancelled context behind, or a monitor
  that watches.  `WaitOK`: what the wait group holds is still to run, the backfill of `Stuck`
  excepted.  `FreshOK`: a loop is started once.  `CauseOK`: what went wrong is on its way to
  somebody, be it a full channel, a failed loop, or an error that was dropped because
  another one is still in the channel.

Left to TLC: liveness (`CatchesUp`, `ErrorsStopTheProcess`, `PoisonStops`,
`ReportEndsProcess`, `FollowsChain`, `EndsWhenAsked`), as the prover has no rule for
fairness.  Every invariant and action property of the runs is a theorem.  `MaxEvents`,
`MaxFaults` and the other bounds are constants without a bound of their own, so
the theorems hold for any.

## 6. What is not modelled

- *A batch of the transformer that goes on after a cleanup*: Rollback ends the process
  with it.  *A dropped report* of the finality loop: only before the handler's first
  instant.  *Several logs in a block* under reorganisations.  *A dropped branch that comes
  back*: a stale row would be on the chain again; as a row is written only when the
  confirmations are above it, that takes a reorganisation deeper than these.
- *A failed query for the most recent position* (`position-transformer.go:135-137` returns
  neither a position nor an error): `HistoryIsLedger` cannot hold with it.
- *The holes of a failed write or backfill that outlive the process*
  (`event-processor.go:125`, `load-historical-events.go:80`), *rows of different keys written
  out of chain order* (`event-processor.go:85`) and *a node that answers for a stale block*
  (`utils.go:20`): named in `hazards`, and caught by no property.
- *The health server, the connection to the node, the closing of both*: steps of `Start`
  and `Stop` that only succeed or fail.
- *The composition of Lifecycle with the other modules*: there the end of the
  process is one step, so what a goroutine still does while `Stop` runs is
  considered in Reorg (`QuietStop`) only.
- *Data formats*: log decoding, base64 and JSON, float64 amounts, address case.
  Amounts and addresses are values.
- *API, configuration, health status, logging, data check*: they keep no state of the
  protocol.
- Several vaults share the loop but no row of `positions`: one is modelled; keys
  of several contracts are `Keys` of Ingestion.

## 7. The plan

1. Done: EventQueue, EventHeap; Ingestion, Positions, Application, Transformer, Rollback,
   Reorg, Lifecycle; proofs of all invariants and action properties of the runs, and of
   the refinements of the queue and the transformer.  Among them are the safety halves of three
   liveness properties: `PoisonStays` of `PoisonStops`, `NeverStranded` of `EndsWhenAsked`, and
   `ValidatedIsCanonical` of `FollowsChain` (a stale row is still ahead of the finality loop).
2. Proofs: the fault of a query that reads as no position, with a weaker ledger that survives it.
3. **ApiView**: what a block tag shows, over the tables of Rollback and the validated
   blocks of Reorg; **AmountCodec**: float64 and decimal strings.

Each module keeps its parameters as constants with a named assumption and
has no RECURSIVE operator, so that it can be proved about.
