-------------------------------- MODULE Reorg --------------------------------
(***************************************************************************)
(* Reorganisations: the finality processor that looks for stored logs      *)
(* whose block left the chain, the handler that halts the processors and   *)
(* deletes rows, the halt manager, and the event processor that meanwhile  *)
(* goes on.                                                                *)
(*                                                                         *)
(* A block has at most one log here, so a log is the number and the hash   *)
(* of its block; a hash is the number of the branch that mined the block.  *)
(* How a start fetches logs is the business of module Ingestion: Start and *)
(* the delivery to a subscription are one step each.                       *)
(***************************************************************************)
EXTENDS Integers, FiniteSets

CONSTANTS
  Confirmations,  \* requiredConfirmations, 4 in the code
  ReorgDepth,     \* how many blocks below its highest the chain may drop
  ServesStale,    \* the node may answer for a block that left the chain
  QuietStop,      \* nothing is written between the cleanup and the exit
  MaxBlock,       \* bound on the height of the chain
  MaxForks,       \* bound on the number of branches
  MaxCrashes      \* bound on crashes and on failing calls

ASSUME ReorgAssumption ==
  /\ Confirmations \in Nat /\ ReorgDepth \in Nat
  /\ ServesStale \in BOOLEAN /\ QuietStop \in BOOLEAN
  /\ MaxBlock \in Nat /\ MaxBlock > Confirmations
  /\ MaxForks \in Nat \ {0} /\ MaxCrashes \in Nat

Tags == {"finalized", "safe"}

NoLog == 0  \* the entry of a block without a log, and of one not mined

VARIABLES
  head, top, block, fork,  \* the chain: height, highest so far, hashes, branch
  rows,                    \* the table events
  validated,               \* the table block_finality, 0 where it has no row
  up, crashes,             \* the process runs; failures so far
  queue, held,             \* the event queue, and the event popped from it
  ep, tf,                  \* the loops of the event processor and the transformer
  fin, tag, judged,        \* the finality loop, its blockTag and its next event
  handler, from, token     \* handleReorg, its fromBlock, the halt channel

chain == <<head, top, block, fork>>
tables == <<rows, validated>>
process == <<up, crashes>>
loops == <<ep, tf>>
finality == <<fin, tag, judged>>
handling == <<handler, from, token>>
vars == <<chain, tables, process, queue, held, loops, finality, handling>>

Log == [block : 1..MaxBlock, hash : 1..MaxForks]

LogAt(n) == [block |-> n, hash |-> block[n]]

Canon == {LogAt(n) : n \in {m \in 1..MaxBlock : block[m] # NoLog}}

Canonical(l) == block[l.block] = l.hash

Init ==
  /\ head = 0 /\ top = 0 /\ fork = 1
  /\ block = [n \in 1..MaxBlock |-> NoLog]
  /\ rows = {} /\ validated = [t \in Tags |-> 0]
  /\ up = FALSE /\ crashes = 0
  /\ queue = {} /\ held = {} /\ ep = "loop" /\ tf = "loop"
  /\ fin = "loop" /\ tag = "finalized" /\ judged = {}
  /\ handler = "waiting" /\ from = 0 /\ token = FALSE

(***************************************************************************)
(* External: the chain.                                                    *)
(***************************************************************************)
Mine ==
  /\ head < MaxBlock
  /\ head' = head + 1
  /\ top' = IF head = top THEN head + 1 ELSE top
  /\ \E h \in {NoLog, fork} :
       /\ block' = [block EXCEPT ![head + 1] = h]
       /\ queue' = IF up /\ h # NoLog THEN queue \cup {[block |-> head + 1, hash |-> h]}
                   ELSE queue
  /\ UNCHANGED <<fork, tables, process, held, loops, finality, handling>>

(* The blocks above n leave the chain, for good: what is mined next is of  *)
(* a branch of its own, and no dropped branch comes back.  Their logs are  *)
(* delivered once more, as removed, and the subscription queues them like  *)
(* new ones.                                                               *)
Reorganise ==
  /\ fork < MaxForks
  /\ \E n \in 0..head - 1 :
       /\ n + ReorgDepth >= top
       /\ head' = n
       /\ block' = [m \in 1..MaxBlock |-> IF m <= n THEN block[m] ELSE NoLog]
       /\ queue' = IF up THEN queue \cup {l \in Canon : l.block > n} ELSE queue
  /\ fork' = fork + 1
  /\ UNCHANGED <<top, tables, process, held, loops, finality, handling>>

(***************************************************************************)
(* Start and end of the process.                                           *)
(***************************************************************************)
(* The backfill resumes at the block of the newest row, itself included.   *)
Start ==
  /\ ~up /\ up' = TRUE
  /\ queue' = {l \in Canon : \A r \in rows : r.block <= l.block}
  /\ UNCHANGED <<chain, tables, crashes, held, loops, finality, handling>>

(* os.Exit: what is in memory is gone. *)
Exit ==
  /\ up' = FALSE
  /\ queue' = {} /\ held' = {} /\ ep' = "loop" /\ tf' = "loop"
  /\ fin' = "loop" /\ tag' = "finalized" /\ judged' = {}
  /\ handler' = "waiting" /\ from' = 0 /\ token' = FALSE

(* The process crashes, or a call of the handler fails and it stops. *)
Crash ==
  /\ up /\ crashes < MaxCrashes /\ crashes' = crashes + 1
  /\ Exit
  /\ UNCHANGED <<chain, tables>>

(***************************************************************************)
(* The event processor.  It looks for a halt token before it pops an       *)
(* event; one sent right after is left for its next round, or for others.  *)
(* To pop an event, to ask for the height and to write the row or put the  *)
(* event back are steps of their own: the chain, the subscriptions and the *)
(* handler go on in between.                                               *)
(***************************************************************************)
TakeAnyEvent ==  \* slip: the queue does not order
  /\ up /\ ep = "loop"
  /\ \E l \in queue : held' = {l} /\ queue' = queue \ {l}
  /\ ep' = "popped"
  /\ UNCHANGED <<chain, tables, process, tf, finality, handling>>

(* The first event of the queue. *)
TakeEvent ==
  /\ up /\ ep = "loop"
  /\ \E l \in queue :
       (\A m \in queue : l.block <= m.block) /\ held' = {l} /\ queue' = queue \ {l}
  /\ ep' = "popped"
  /\ UNCHANGED <<chain, tables, process, tf, finality, handling>>

DeepButOne(l) == l.block + Confirmations <= head + 1  \* slip: a confirmation less

Deep(l) == l.block + Confirmations <= head

ReadHeight ==
  /\ up /\ ep = "popped"
  /\ \E l \in held : ep' = IF Deep(l) THEN "writing" ELSE "returning"
  /\ UNCHANGED <<chain, tables, process, queue, held, tf, finality, handling>>

PutBack ==
  /\ up /\ ep = "returning" /\ ep' = "loop"
  /\ queue' = queue \cup held /\ held' = {}
  /\ UNCHANGED <<chain, tables, process, tf, finality, handling>>

MayWrite == up /\ ep = "writing" /\ (QuietStop => handler # "stopping")

WriteAgain ==  \* slip: not idempotent
  /\ MayWrite
  /\ rows' = rows \cup held /\ held' = {} /\ ep' = "loop"
  /\ UNCHANGED <<chain, validated, process, queue, tf, finality, handling>>

(* writeIdempotentEvent: a row is known by its place, not by its hash. *)
Write ==
  /\ MayWrite
  /\ \E l \in held :
       rows' = rows \cup (IF \E r \in rows : r.block = l.block THEN {} ELSE {l})
  /\ held' = {} /\ ep' = "loop"
  /\ UNCHANGED <<chain, validated, process, queue, tf, finality, handling>>

(* A loop takes the token and ends. *)
HaltEventProcessor ==
  /\ up /\ ep = "loop" /\ token
  /\ ep' = "halted" /\ token' = FALSE
  /\ UNCHANGED <<chain, tables, process, queue, held, tf, finality, handler, from>>

HaltTransformer ==
  /\ up /\ tf = "loop" /\ token
  /\ tf' = "halted" /\ token' = FALSE
  /\ UNCHANGED <<chain, tables, process, queue, held, ep, finality, handler, from>>

(***************************************************************************)
(* The finality processor, one tag after the other.                        *)
(***************************************************************************)
NextTag == IF tag = "finalized" THEN "safe" ELSE "finalized"

ToValidate == {r \in rows : r.block > validated[tag]}

NewestEventToValidate ==  \* slip: in descending order
  /\ up /\ fin = "loop" /\ judged = {}
  /\ IF ToValidate = {}
     THEN tag' = NextTag /\ UNCHANGED judged
     ELSE /\ \E r \in ToValidate :
               (\A q \in ToValidate : q.block <= r.block) /\ judged' = {r}
          /\ UNCHANGED tag
  /\ UNCHANGED <<chain, tables, process, queue, held, loops, fin, handling>>

(* getNextEventToValidate: the first row above the last validated block.   *)
(* The node's own finalized or safe block is fetched, but only logged.     *)
NextEventToValidate ==
  /\ up /\ fin = "loop" /\ judged = {}
  /\ IF ToValidate = {}
     THEN tag' = NextTag /\ UNCHANGED judged
     ELSE /\ \E r \in ToValidate :
               (\A q \in ToValidate : r.block <= q.block) /\ judged' = {r}
          /\ UNCHANGED tag
  /\ UNCHANGED <<chain, tables, process, queue, held, loops, fin, handling>>

CheckByAnyError(l) == {Canonical(l), FALSE}  \* slip: any error for NotFound

(* HeaderByHash, and the comparison of the header's number. *)
CheckCanonicalBlock(l) ==
  IF Canonical(l) THEN {TRUE} ELSE {FALSE} \cup {a \in {TRUE} : ServesStale}

Validate ==
  /\ up /\ fin = "loop"
  /\ \E r \in judged :
       /\ TRUE \in CheckCanonicalBlock(r)
       /\ validated' = [validated EXCEPT ![tag] = r.block]
  /\ judged' = {} /\ tag' = NextTag
  /\ UNCHANGED <<chain, rows, process, queue, held, loops, fin, handling>>

(* The loop ends with its report.  The main thread receives it and, first  *)
(* of all, halts: the flag is set and one token is sent.                   *)
ReportReorg ==
  /\ up /\ fin = "loop"
  /\ \E r \in judged :
       /\ FALSE \in CheckCanonicalBlock(r)
       /\ from' = r.block - 1
  /\ fin' = "ended" /\ judged' = {}
  /\ handler' = "halting" /\ token' = TRUE
  /\ UNCHANGED <<chain, tables, process, queue, held, loops, tag>>

(* A call fails: the error goroutine cancels the context, and the monitor  *)
(* of the indexer stops the process.                                       *)
FinalityFails ==
  /\ up /\ fin = "loop"
  /\ crashes < MaxCrashes /\ crashes' = crashes + 1
  /\ fin' = "failed" /\ judged' = {}
  /\ UNCHANGED <<chain, tables, up, queue, held, loops, tag, handling>>

FinalityStops == up /\ fin = "failed" /\ Exit /\ UNCHANGED <<chain, tables, crashes>>

(***************************************************************************)
(* The handler.                                                            *)
(***************************************************************************)
(* WaitHalted receives the token itself; then the queue is cleared. *)
WaitHalted ==
  /\ up /\ handler = "halting" /\ token
  /\ token' = FALSE /\ handler' = "searching" /\ queue' = {}
  /\ UNCHANGED <<chain, tables, process, held, loops, finality, from>>

TimeOutIgnored ==  \* slip: returns without i.Stop()
  /\ up /\ handler = "halting" /\ ~token /\ handler' = "ended"
  /\ UNCHANGED <<chain, tables, process, queue, held, loops, finality, from, token>>

(* Someone else had the token: 120 s later the process stops. *)
TimeOut ==
  /\ up /\ handler = "halting" /\ ~token
  /\ Exit
  /\ UNCHANGED <<chain, tables, crashes>>

Below == {r \in rows : r.block <= from}

(* findLastConsistentBlock, one round of its loop: the nearest row at or   *)
(* below fromBlock.                                                        *)
Search ==
  /\ up /\ handler = "searching"
  /\ \E r \in Below :
       /\ \A q \in Below : q.block <= r.block
       /\ \E ok \in CheckCanonicalBlock(r) :
            IF ok THEN handler' = "found" /\ from' = r.block
            ELSE from' = r.block - 1 /\ UNCHANGED handler
  /\ UNCHANGED <<chain, tables, process, queue, held, loops, finality, token>>

(* There is no row left to be consistent with. *)
SearchEnds ==
  /\ up /\ handler = "searching" /\ Below = {}
  /\ Exit
  /\ UNCHANGED <<chain, tables, crashes>>

(* DELETE FROM events WHERE block_number >= $1. *)
CleanUp ==
  /\ up /\ handler = "found"
  /\ rows' = {r \in rows : r.block < from}
  /\ handler' = "stopping"
  /\ UNCHANGED <<chain, validated, process, queue, held, loops, finality, from, token>>

StopForgotten ==  \* slip: no i.Stop() after the cleanup
  /\ up /\ handler = "stopping" /\ handler' = "ended"
  /\ UNCHANGED <<chain, tables, process, queue, held, loops, finality, from, token>>

(* The process is powered down, to be started on the rows that are left. *)
Stop == up /\ handler = "stopping" /\ Exit /\ UNCHANGED <<chain, tables, crashes>>

Next ==
  \/ Mine \/ Reorganise
  \/ Start \/ Crash
  \/ TakeEvent \/ ReadHeight \/ PutBack \/ Write
  \/ HaltEventProcessor \/ HaltTransformer
  \/ NextEventToValidate \/ Validate \/ ReportReorg \/ FinalityFails \/ FinalityStops
  \/ WaitHalted \/ TimeOut \/ Search \/ SearchEnds \/ CleanUp \/ Stop

Spec == Init /\ [][Next]_vars

(* The loops go on, and a process that ended is started again.  The waiter *)
(* polls for the token as the others do, and takes it some time.           *)
Fairness ==
  /\ WF_vars(Start) /\ WF_vars(TakeEvent) /\ WF_vars(ReadHeight)
  /\ WF_vars(PutBack) /\ WF_vars(Write)
  /\ WF_vars(NextEventToValidate) /\ WF_vars(Validate) /\ WF_vars(ReportReorg)
  /\ WF_vars(FinalityStops) /\ WF_vars(TimeOut) /\ WF_vars(Search)
  /\ WF_vars(SearchEnds) /\ WF_vars(CleanUp) /\ WF_vars(Stop)
  /\ SF_vars(WaitHalted)

FairSpec == Spec /\ Fairness

(***************************************************************************)
(* Properties.                                                             *)
(***************************************************************************)
(* The types, one row for a place, and one event in hand at most.          *)
TypeOK ==
  /\ head \in 0..MaxBlock /\ top \in head..MaxBlock /\ fork \in 1..MaxForks
  /\ block \in [1..MaxBlock -> 0..MaxForks]
  /\ rows \subseteq Log /\ queue \subseteq Log /\ held \subseteq Log /\ judged \subseteq Log
  /\ validated \in [Tags -> 0..MaxBlock] /\ tag \in Tags
  /\ up \in BOOLEAN /\ token \in BOOLEAN /\ crashes \in 0..MaxCrashes
  /\ ep \in {"loop", "popped", "writing", "returning", "halted"} /\ tf \in {"loop", "halted"}
  /\ fin \in {"loop", "ended", "failed"} /\ from \in 0..MaxBlock
  /\ handler \in {"waiting", "halting", "searching", "found", "stopping"}
  /\ \A r, q \in rows : r.block = q.block => r = q

(* A row that describes the chain does so for good, though the height is   *)
(* read before the row is written and the chain may drop blocks in between *)
(* (event-processor.go:104-126).                                           *)
ConfirmedStays == [][rows \cap Canon \subseteq Canon']_vars

(* What was validated under a tag, and is served as such, is on the chain: *)
(* "ensures all indexed data corresponds to the canonical Ethereum chain"  *)
(* (src/README.md:41).                                                     *)
ValidatedIsCanonical ==
  \A r \in rows, t \in Tags : r.block <= validated[t] => Canonical(r)

(* Once every stale row is gone, no log below the newest row is missing:   *)
(* a restart resumes at that row and would never fetch it                  *)
(* (reorg-handler.go:44, load-historical-events.go:107-134).               *)
NoHole ==
  rows \subseteq Canon =>
    \A l \in Canon : (\E r \in rows : l.block <= r.block) => l \in rows

(* Rows are deleted only after the chain did drop one of them, however the *)
(* report, the search and the deletion are apart (reorg-handler.go:13-58). *)
CleanupHasCause == [][rows \subseteq rows' \/ ~(rows \subseteq Canon)]_vars

(* A report ends the process, whoever takes the token: no process runs on  *)
(* without its finality loop (reorg-handler.go:22-26, 53-57).              *)
ReportEndsProcess == handler = "halting" ~> ~up

(* A stale row below which there is no other: the search finds nothing to  *)
(* be consistent with, and fails again after each restart.                 *)
Unrepairable ==
  \E r \in rows \ Canon : \A q \in rows \cap Canon : r.block < q.block

(* Unless the very first row is stale, the table comes to hold the         *)
(* confirmed logs of the chain and no other, through reorganisations,      *)
(* time-outs of the handler and crashes (reorg-handler.go, src/README.md:  *)
(* 133).                                                                   *)
FollowsChain ==
  []<>(\/ Unrepairable
      \/ /\ {l \in Canon : l.block + Confirmations <= head} \subseteq rows
         /\ rows \subseteq Canon)
=============================================================================
