------------------------------ MODULE Lifecycle ------------------------------
(***************************************************************************)
(* One run of the process: the main goroutine, Indexer.Start, the handler  *)
(* of errors and reorganisations, the monitor of the three loops, and the  *)
(* goroutines that subscribe and backfill.  They meet at contexts, at the  *)
(* error channel, at a wait group, at the halt token and in Stop, which    *)
(* one of them runs while the others wait for it (sync.Once), until it     *)
(* exits.  What the loops do is the business of the other modules; here    *)
(* they fail, are halted or run.                                           *)
(***************************************************************************)
EXTENDS Integers, FiniteSets

CONSTANTS
  Keys,      \* the (contract, event) pairs of config.yaml
  Capacity,  \* of eventIngestionErrorChan, 10 in the code
  Faults     \* the calls that may fail, see FaultKinds

Loops == {"finality", "processor", "transformer"}

(* "bind": the port of the health server; "head": BlockNumber in Start;    *)
(* "abi": the file of a contract before, "abi later" after subscriptions   *)
(* were made; "subscribe", "backfill", "cleanup": the calls of these; and  *)
(* whatever a loop gives up for, under the name of the loop.               *)
FaultKinds == Loops \cup {"bind", "head", "abi", "abi later", "subscribe", "backfill", "cleanup"}

ASSUME LifecycleAssumption == Capacity \in Nat \ {0} /\ Faults \subseteq FaultKinds

VARIABLES
  main, start, handler, monitor,  \* where these goroutines are
  sub, fill,   \* per key: the goroutines that subscribe and that backfill
  wg,          \* the wait group of Start: what was added and is not done
  errors,      \* how many errors are in eventIngestionErrorChan, ...
  closed,      \* ... and that it was closed
  cancelled,   \* the contexts whose cancel was called
  loop,        \* the loops of the three processors
  token,       \* the token in the halt channel
  stop,        \* how far the first call of Stop is
  status,      \* 0 while the process runs, else its exit status
  trouble      \* history: a call failed, or a signal came

threads == <<main, start, handler, monitor>>
fetching == <<sub, fill, wg>>
channels == <<errors, closed, token>>
vars == <<threads, fetching, channels, cancelled, loop, stop, status, trouble>>

Up == status = 0

(* A context is done with its own cancel or that of one it derives from:   *)
(* main's "root", the "indexer", and one context of each loop.             *)
Done(c) == {"root", "indexer", c} \cap cancelled # {}

Fails(kind) == kind \in Faults /\ trouble' = TRUE

Init ==
  /\ main = "select" /\ start = "health" /\ handler = "select" /\ monitor = "none"
  /\ sub = [k \in Keys |-> "none"] /\ fill = [k \in Keys |-> "none"] /\ wg = {}
  /\ errors = 0 /\ closed = FALSE /\ token = FALSE
  /\ cancelled = {} /\ loop = [l \in Loops |-> "none"]
  /\ stop = "no" /\ status = 0 /\ trouble = FALSE

(***************************************************************************)
(* Stop.  The caller does not return: it runs the steps below or waits for *)
(* the one who does.                                                       *)
(***************************************************************************)
CallStop == stop' = IF stop = "no" THEN "health" ELSE stop

StopHealth ==
  /\ Up /\ stop = "health" /\ stop' = "cancel"
  /\ UNCHANGED <<threads, fetching, channels, cancelled, loop, status, trouble>>

StopCancels ==
  /\ Up /\ stop = "cancel" /\ stop' = "close"
  /\ cancelled' = cancelled \cup {"indexer"}
  /\ UNCHANGED <<threads, fetching, channels, loop, status, trouble>>

StopCloses ==
  /\ Up /\ stop = "close" /\ stop' = "exit"
  /\ closed' = TRUE
  /\ UNCHANGED <<threads, fetching, errors, token, cancelled, loop, status, trouble>>

(* The node and the database are released, then os.Exit(1). *)
StopExits ==
  /\ Up /\ stop = "exit" /\ status' = 1
  /\ UNCHANGED <<threads, fetching, channels, cancelled, loop, stop, trouble>>

(***************************************************************************)
(* main: a signal, or the end of Start with an error, then Stop.           *)
(***************************************************************************)
Signal ==
  /\ Up /\ main = "select" /\ main' = "leaving"
  /\ cancelled' = cancelled \cup {"root"} /\ trouble' = TRUE
  /\ UNCHANGED <<start, handler, monitor, fetching, channels, loop, stop, status>>

MainStops ==
  /\ Up
  /\ main = "leaving" \/ (main = "select" /\ Done("root"))
  /\ main' = "stopping" /\ CallStop
  /\ UNCHANGED <<start, handler, monitor, fetching, channels, cancelled, loop, status, trouble>>

(***************************************************************************)
(* Indexer.Start.                                                          *)
(***************************************************************************)
ReturnQuietly == start' = "returned" /\ UNCHANGED cancelled  \* slip: the error is only logged

(* It returns an error, and the goroutine that called it cancels. *)
ReturnError == start' = "returned" /\ cancelled' = cancelled \cup {"root"}

StartHealth ==
  /\ Up /\ start = "health"
  /\ \/ start' = "finality" /\ UNCHANGED <<cancelled, trouble>>
     \/ Fails("bind") /\ ReturnError
  /\ UNCHANGED <<main, handler, monitor, fetching, channels, loop, stop, status>>

StartLoop(l, next) ==
  /\ Up /\ start = l /\ start' = next
  /\ loop' = [loop EXCEPT ![l] = "running"]
  /\ UNCHANGED <<main, handler, monitor, fetching, channels, cancelled, stop, status, trouble>>

ReadHeight ==
  /\ Up /\ start = "head"
  /\ \/ start' = "subscribe" /\ UNCHANGED <<stop, trouble>>
     \/ (Fails("head") \/ (Done("indexer") /\ UNCHANGED trouble)) /\ start' = "stopping" /\ CallStop
  /\ UNCHANGED <<main, handler, monitor, fetching, channels, cancelled, loop, status>>

(* A goroutine for each key, until an ABI cannot be read. *)
SetupSubscriptions ==
  /\ Up /\ start = "subscribe"
  /\ \E K \in SUBSET Keys :
       /\ \/ K = Keys /\ start' = "subscribing" /\ UNCHANGED trouble
          \/ Fails("abi") /\ start' = "giving up"
       /\ sub' = [k \in Keys |-> IF k \in K THEN "new" ELSE "none"]
       /\ wg' = {"sub"} \X K
  /\ UNCHANGED <<main, handler, monitor, fill, channels, cancelled, loop, stop, status>>

(* wg.Wait returns: every goroutine has begun, not more. *)
SubscriptionsMade ==
  /\ Up /\ wg = {}
  /\ \/ start = "subscribing" /\ start' = "backfill" /\ UNCHANGED cancelled
     \/ start = "giving up" /\ ReturnError
  /\ UNCHANGED <<main, handler, monitor, fetching, channels, loop, stop, status, trouble>>

BackfillNotCounted ==  \* slip: wg.Add left to the goroutines
  /\ Up /\ start = "backfill"
  /\ \/ fill' = [k \in Keys |-> "running"] /\ UNCHANGED trouble
     \/ /\ Fails("abi later")
        /\ \E K \in SUBSET Keys : fill' = [k \in Keys |-> IF k \in K THEN "running" ELSE "none"]
  /\ start' = "filling" /\ wg' = {}
  /\ UNCHANGED <<main, handler, monitor, sub, channels, cancelled, loop, stop, status>>

(* wg.Add comes before the ABI is read: if that fails, nobody calls Done   *)
(* for the key.                                                            *)
LoadHistoricalEvents ==
  /\ Up /\ start = "backfill"
  /\ \/ /\ fill' = [k \in Keys |-> "running"] /\ wg' = {"fill"} \X Keys
        /\ UNCHANGED trouble
     \/ /\ Fails("abi later")
        /\ \E K \in SUBSET Keys, k \in Keys :
             /\ k \notin K
             /\ fill' = [j \in Keys |-> IF j \in K THEN "running" ELSE "none"]
             /\ wg' = {"fill"} \X (K \cup {k})
  /\ start' = "filling"
  /\ UNCHANGED <<main, handler, monitor, sub, channels, cancelled, loop, stop, status>>

HistoryLoaded ==
  /\ Up /\ start = "filling" /\ wg = {} /\ start' = "processor"
  /\ UNCHANGED <<main, handler, monitor, fetching, channels, cancelled, loop, stop, status, trouble>>

StartMonitor ==
  /\ Up /\ start = "monitor" /\ start' = "waiting" /\ monitor' = "select"
  /\ UNCHANGED <<main, handler, fetching, channels, cancelled, loop, stop, status, trouble>>

StartEnds ==
  /\ Up /\ start = "waiting" /\ Done("indexer")
  /\ start' = "stopping" /\ CallStop
  /\ UNCHANGED <<main, handler, monitor, fetching, channels, cancelled, loop, status, trouble>>

(***************************************************************************)
(* The goroutines that subscribe and backfill.                             *)
(***************************************************************************)
SendUnbounded ==  \* slip: a list in place of the channel
  IF closed THEN status' = 2 /\ UNCHANGED errors
  ELSE errors' = errors + 1 /\ UNCHANGED status

(* A send that does not wait: with the channel full the error is dropped,  *)
(* with the channel closed the process panics, default case or not.        *)
Send ==
  IF closed THEN status' = 2 /\ UNCHANGED errors
  ELSE /\ errors' = IF errors < Capacity THEN errors + 1 ELSE errors
       /\ UNCHANGED status

(* wg.Done is the first thing the goroutine does. *)
BeginSubscription(k) ==
  /\ Up /\ sub[k] = "new"
  /\ sub' = [sub EXCEPT ![k] = "running"] /\ wg' = wg \ {<<"sub", k>>}
  /\ UNCHANGED <<threads, fill, channels, cancelled, loop, stop, status, trouble>>

(* The subscription fails, or could not be made as the context is done. *)
SubscriptionFails(k) ==
  /\ Up /\ sub[k] = "running"
  /\ Fails("subscribe") \/ (Done("indexer") /\ UNCHANGED trouble)
  /\ sub' = [sub EXCEPT ![k] = "ended"] /\ Send
  /\ UNCHANGED <<threads, fill, wg, closed, token, cancelled, loop, stop>>

SubscriptionEnds(k) ==
  /\ Up /\ sub[k] = "running" /\ Done("indexer")
  /\ sub' = [sub EXCEPT ![k] = "ended"]
  /\ UNCHANGED <<threads, fill, wg, channels, cancelled, loop, stop, status, trouble>>

(* All logs are queued, or the context was done from the first. *)
BackfillEnds(k) ==
  /\ Up /\ fill[k] = "running"
  /\ fill' = [fill EXCEPT ![k] = "ended"] /\ wg' = wg \ {<<"fill", k>>}
  /\ UNCHANGED <<threads, sub, channels, cancelled, loop, stop, status, trouble>>

BackfillFails(k) ==
  /\ Up /\ fill[k] = "running"
  /\ Fails("backfill") \/ (Done("indexer") /\ UNCHANGED trouble)
  /\ fill' = [fill EXCEPT ![k] = "ended"] /\ wg' = wg \ {<<"fill", k>>} /\ Send
  /\ UNCHANGED <<threads, sub, closed, token, cancelled, loop, stop>>

(***************************************************************************)
(* The loops.                                                              *)
(***************************************************************************)
(* The first failed call of a loop ends it with an error of its own.       *)
LoopFails(l) ==
  /\ Up /\ loop[l] = "running" /\ Fails(l)
  /\ loop' = [loop EXCEPT ![l] = "failed"]
  /\ UNCHANGED <<threads, fetching, channels, cancelled, stop, status>>

(* A query or a header that cannot be had, or a position that cannot be    *)
(* recorded.                                                               *)
FinalityFails == LoopFails("finality")

(* No height, or a row that cannot be written.                             *)
ProcessorFails == LoopFails("processor")

(* One failure more than maxRetries. *)
TransformerFails == LoopFails("transformer")

WaitFirst(l) ==  \* slip: wg.Wait before cancel, in the goroutine waited for
  /\ Up /\ loop[l] = "failed"
  /\ loop' = [loop EXCEPT ![l] = "stopped"]
  /\ cancelled' = IF l = "processor" THEN cancelled ELSE cancelled \cup {l}
  /\ UNCHANGED <<threads, fetching, channels, stop, status, trouble>>

(* Its Stop, called by its error goroutine or by itself: the context is    *)
(* cancelled.  The event processor's then waits for its goroutines, the    *)
(* caller among them, and never returns.                                   *)
StopLoop(l) ==
  /\ Up /\ loop[l] = "failed"
  /\ loop' = [loop EXCEPT ![l] = "stopped"] /\ cancelled' = cancelled \cup {l}
  /\ UNCHANGED <<threads, fetching, channels, stop, status, trouble>>

(* The finality loop reports a reorganisation and ends; the report is      *)
(* received by a handler at its select, and dropped otherwise.             *)
ReportReorg ==
  /\ Up /\ loop["finality"] = "running"
  /\ loop' = [loop EXCEPT !["finality"] = "ended"]
  /\ IF handler = "select" THEN handler' = "halting" /\ token' = TRUE
     ELSE UNCHANGED <<handler, token>>
  /\ UNCHANGED <<main, start, monitor, fetching, errors, closed, cancelled, stop, status, trouble>>

StopHalted(l) ==  \* slip: a halted loop cancels its context
  /\ Up /\ l # "finality" /\ loop[l] = "running" /\ token
  /\ loop' = [loop EXCEPT ![l] = "ended"] /\ token' = FALSE
  /\ cancelled' = cancelled \cup {l}
  /\ UNCHANGED <<threads, fetching, errors, closed, stop, status, trouble>>

(* A halted loop returns, and leaves its context as it is. *)
HaltLoop(l) ==
  /\ Up /\ l # "finality" /\ loop[l] = "running" /\ token
  /\ loop' = [loop EXCEPT ![l] = "ended"] /\ token' = FALSE
  /\ UNCHANGED <<threads, fetching, errors, closed, cancelled, stop, status, trouble>>

(***************************************************************************)
(* The handler and the monitor.                                            *)
(***************************************************************************)
(* A closed channel is received from at once, too. *)
HandleError ==
  /\ Up /\ handler = "select" /\ (errors > 0 \/ closed)
  /\ errors' = IF errors > 0 THEN errors - 1 ELSE 0
  /\ handler' = "stopping" /\ CallStop
  /\ UNCHANGED <<main, start, monitor, fetching, closed, token, cancelled, loop, status, trouble>>

HandlerEnds ==
  /\ Up /\ handler = "select" /\ Done("indexer") /\ handler' = "ended"
  /\ UNCHANGED <<main, start, monitor, fetching, channels, cancelled, loop, stop, status, trouble>>

WaitHalted ==
  /\ Up /\ handler = "halting" /\ token
  /\ handler' = "cleaning" /\ token' = FALSE
  /\ UNCHANGED <<main, start, monitor, fetching, errors, closed, cancelled, loop, stop, status, trouble>>

TimeOut ==
  /\ Up /\ handler = "halting" /\ ~token
  /\ handler' = "stopping" /\ CallStop
  /\ UNCHANGED <<main, start, monitor, fetching, channels, cancelled, loop, status, trouble>>

(* The search and the cleanup, in the context of the transformer, which is *)
(* stopped when they are done.                                             *)
CleanUp ==
  /\ Up /\ handler = "cleaning" /\ ~Done("transformer")
  /\ handler' = "cleaned" /\ cancelled' = cancelled \cup {"transformer"}
  /\ UNCHANGED <<main, start, monitor, fetching, channels, loop, stop, status, trouble>>

CleanUpFails ==
  /\ Up /\ handler = "cleaning"
  /\ Fails("cleanup") \/ (Done("transformer") /\ UNCHANGED trouble)
  /\ handler' = "stopping" /\ CallStop
  /\ UNCHANGED <<main, start, monitor, fetching, channels, cancelled, loop, status>>

PowerDown ==
  /\ Up /\ handler = "cleaned" /\ handler' = "stopping" /\ CallStop
  /\ UNCHANGED <<main, start, monitor, fetching, channels, cancelled, loop, status, trouble>>

MonitorStops ==
  /\ Up /\ monitor = "select" /\ (\E l \in Loops : Done(l))
  /\ monitor' = "stopping" /\ CallStop
  /\ UNCHANGED <<main, start, handler, fetching, channels, cancelled, loop, status, trouble>>

StopNext == StopHealth \/ StopCancels \/ StopCloses \/ StopExits

StartNext ==
  \/ StartHealth \/ StartLoop("finality", "head") \/ ReadHeight
  \/ SetupSubscriptions \/ SubscriptionsMade \/ LoadHistoricalEvents \/ HistoryLoaded
  \/ StartLoop("processor", "transformer") \/ StartLoop("transformer", "monitor")
  \/ StartMonitor \/ StartEnds

KeyNext(k) ==
  \/ BeginSubscription(k) \/ SubscriptionFails(k) \/ SubscriptionEnds(k)
  \/ BackfillEnds(k) \/ BackfillFails(k)

LoopNext ==
  \/ FinalityFails \/ ProcessorFails \/ TransformerFails \/ ReportReorg
  \/ \E l \in Loops : StopLoop(l) \/ HaltLoop(l)

HandlerNext ==
  HandleError \/ HandlerEnds \/ WaitHalted \/ TimeOut \/ CleanUp \/ CleanUpFails \/ PowerDown

Next ==
  \/ Signal \/ MainStops \/ StopNext
  \/ StartNext \/ (\E k \in Keys : KeyNext(k))
  \/ LoopNext \/ HandlerNext \/ MonitorStops

Spec == Init /\ [][Next]_vars

(* Goroutines are scheduled and calls return.  No signal need come, no     *)
(* call need fail, no loop need find or notice a reorganisation.           *)
Fairness ==
  /\ WF_vars(MainStops) /\ WF_vars(StopNext) /\ WF_vars(StartNext)
  /\ \A k \in Keys : WF_vars(BeginSubscription(k)) /\ WF_vars(BackfillEnds(k))
  /\ \A l \in Loops : WF_vars(StopLoop(l))
  /\ WF_vars(HandlerNext) /\ WF_vars(MonitorStops)

FairSpec == Spec /\ Fairness

(***************************************************************************)
(* Properties.                                                             *)
(***************************************************************************)
(* The types; the channel holds no more than its capacity, whoever sends. *)
Places ==
  /\ main \in {"select", "leaving", "stopping"}
  /\ start \in Loops \cup {"health", "head", "subscribe", "subscribing", "giving up", "backfill",
                           "filling", "monitor", "waiting", "returned", "stopping"}
  /\ handler \in {"select", "ended", "halting", "cleaning", "cleaned", "stopping"}
  /\ monitor \in {"none", "select", "stopping"}
  /\ sub \in [Keys -> {"none", "new", "running", "ended"}]
  /\ fill \in [Keys -> {"none", "running", "ended"}]
  /\ wg \subseteq {"sub", "fill"} \X Keys
  /\ cancelled \subseteq Loops \cup {"root", "indexer"}
  /\ loop \in [Loops -> {"none", "running", "failed", "stopped", "ended"}]
  /\ stop \in {"no", "health", "cancel", "close", "exit"}

Counts == errors \in 0..Capacity /\ status \in 0..2

Flags == closed \in BOOLEAN /\ token \in BOOLEAN /\ trouble \in BOOLEAN

TypeOK == Places /\ Counts /\ Flags

(* The event processor starts on a complete queue: "do not progress until  *)
(* all historical events are loaded" (indexer.go:173).                     *)
ProcessorAfterBackfill == loop["processor"] # "none" => \A k \in Keys : fill[k] = "ended"

(* A halt is no stop: unless a call failed or a signal came, nobody brings *)
(* the process down while the handler is still to clean up, though the     *)
(* monitor watches the very loops that it halts (indexer.go:197-214,       *)
(* reorg-handler.go:13-58).                                                *)
CleanupUndisturbed == stop # "no" => trouble \/ handler \in {"cleaned", "stopping"}

(* The wait group counts a goroutine that was never started.               *)
Stuck == \E k \in Keys : <<"fill", k>> \in wg /\ fill[k] # "running"

(***************************************************************************)
(* Who can go on, and brings the process nearer to its end by it.          *)
(***************************************************************************)
MainActs == main = "leaving" \/ (main = "select" /\ Done("root"))

StartActs ==
  \/ start \in Loops \cup {"health", "head", "subscribe", "backfill", "monitor"}
  \/ start \in {"subscribing", "giving up", "filling"} /\ wg = {}
  \/ start = "waiting" /\ Done("indexer")

FetcherActs == \E k \in Keys : sub[k] = "new" \/ fill[k] = "running"

HandlerActs ==
  \/ handler \in {"halting", "cleaning", "cleaned"}
  \/ handler = "select" /\ (errors > 0 \/ closed \/ Done("indexer"))

MonitorActs == monitor = "select" /\ \E l \in Loops : Done(l)

SomeoneActs ==
  \/ stop # "no" \/ MainActs \/ StartActs \/ FetcherActs
  \/ (\E l \in Loops : loop[l] = "failed") \/ HandlerActs \/ MonitorActs

(* A process that is to end never comes to rest with everyone waiting: an  *)
(* error, a signal or a reorganisation is always on its way to a goroutine *)
(* that acts on it.  The exception is the wait group that counts a         *)
(* goroutine which was never started (indexer.go:117-214).                 *)
NeverStranded ==
  Up => /\ Done("indexer") \/ errors > 0 \/ handler = "halting" => SomeoneActs
        /\ trouble => SomeoneActs \/ Stuck

(* Whatever fails, a signal, and a reported reorganisation end the process *)
(* (indexer.go:117-137, 197-214), though goroutines wait for each other    *)
(* and one for itself: "Persistent errors will cause the process to stop   *)
(* running" (src/README.md:137).  The exception is a Start that waits for  *)
(* ever and so starts no monitor.                                          *)
EndsWhenAsked ==
  /\ (Done("indexer") \/ errors > 0 \/ handler = "halting") ~> ~Up
  /\ trouble ~> (~Up \/ Stuck)

=============================================================================
