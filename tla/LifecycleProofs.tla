--------------------------- MODULE LifecycleProofs ---------------------------
(***************************************************************************)
(* Lifecycle, for any keys, any capacity of the channel and any failures:  *)
(* its types, the order of backfill and processing, and that a halt does   *)
(* not bring the process down under the handler.                           *)
(***************************************************************************)
EXTENDS Lifecycle, TLAPS

(* The steps of the loops, with the failures of the three put together.    *)
LEMMA LoopCases ==
  LoopNext => ReportReorg \/ \E l \in Loops : LoopFails(l) \/ StopLoop(l) \/ HaltLoop(l)
BY DEF LoopNext, FinalityFails, ProcessorFails, TransformerFails, Loops

(***************************************************************************)
(* Types.                                                                  *)
(***************************************************************************)
(* Places, in the parts that different steps change. *)
ThreadPlaces ==
  /\ main \in {"select", "leaving", "stopping"}
  /\ start \in Loops \cup {"health", "head", "subscribe", "subscribing", "giving up", "backfill",
                           "filling", "monitor", "waiting", "returned", "stopping"}
  /\ handler \in {"select", "ended", "halting", "cleaning", "cleaned", "stopping"}
  /\ monitor \in {"none", "select", "stopping"}

FetchPlaces ==
  /\ sub \in [Keys -> {"none", "new", "running", "ended"}]
  /\ fill \in [Keys -> {"none", "running", "ended"}]
  /\ wg \subseteq {"sub", "fill"} \X Keys

OtherPlaces ==
  /\ cancelled \subseteq Loops \cup {"root", "indexer"}
  /\ loop \in [Loops -> {"none", "running", "failed", "stopped", "ended"}]
  /\ stop \in {"no", "health", "cancel", "close", "exit"}

LEMMA Parts == Places <=> ThreadPlaces /\ FetchPlaces /\ OtherPlaces
BY DEF Places, ThreadPlaces, FetchPlaces, OtherPlaces

LEMMA ThreadStep ==
  ASSUME ThreadPlaces, Next
  PROVE  ThreadPlaces'
<1> USE DEF ThreadPlaces
<1>1. CASE Signal \/ MainStops \/ MonitorStops \/ StopNext
  BY <1>1 DEF Signal, MainStops, MonitorStops, StopNext, StopHealth, StopCancels, StopCloses,
     StopExits, threads
<1>2. CASE StartHealth \/ ReadHeight \/ SetupSubscriptions \/ SubscriptionsMade
  BY <1>2 DEF StartHealth, ReadHeight, SetupSubscriptions, SubscriptionsMade, ReturnError, Loops
<1>3. CASE LoadHistoricalEvents \/ HistoryLoaded \/ StartMonitor \/ StartEnds
  BY <1>3 DEF LoadHistoricalEvents, HistoryLoaded, StartMonitor, StartEnds, Loops
<1>4. ASSUME NEW l \in Loops, NEW next \in {"head", "transformer", "monitor"}, StartLoop(l, next)
      PROVE  ThreadPlaces'
  BY <1>4 DEF StartLoop, Loops
<1>5. ASSUME NEW k \in Keys, KeyNext(k) PROVE ThreadPlaces'
  BY <1>5 DEF KeyNext, BeginSubscription, SubscriptionFails, SubscriptionEnds, BackfillEnds,
     BackfillFails, threads
<1>6. CASE LoopNext
  BY <1>6, LoopCases DEF ReportReorg, LoopFails, StopLoop, HaltLoop, threads
<1>7. CASE HandlerNext
  BY <1>7 DEF HandlerNext, HandleError, HandlerEnds, WaitHalted, TimeOut, CleanUp, CleanUpFails, PowerDown
<1>8. CASE StartNext
  BY <1>2, <1>3, <1>4, <1>8 DEF StartNext, Loops
<1> HIDE DEF ThreadPlaces
<1> QED
  BY <1>1, <1>5, <1>6, <1>7, <1>8 DEF Next

LEMMA FetchStep ==
  ASSUME FetchPlaces, Next
  PROVE  FetchPlaces'
<1>1. ASSUME UNCHANGED fetching PROVE FetchPlaces'
  BY <1>1 DEF FetchPlaces, fetching
<1>2. CASE SetupSubscriptions
  <2>1. PICK K \in SUBSET Keys :
          sub' = [k \in Keys |-> IF k \in K THEN "new" ELSE "none"] /\ wg' = {"sub"} \X K
    BY <1>2 DEF SetupSubscriptions
  <2>2. fill' = fill
    BY <1>2 DEF SetupSubscriptions
  <2> QED
    BY <2>1, <2>2 DEF FetchPlaces
<1>3. CASE LoadHistoricalEvents
  <2>1. sub' = sub
    BY <1>3 DEF LoadHistoricalEvents
  <2>2. CASE fill' = [k \in Keys |-> "running"] /\ wg' = {"fill"} \X Keys
    BY <2>1, <2>2 DEF FetchPlaces
  <2>3. CASE \E K \in SUBSET Keys, k \in Keys :
               /\ fill' = [j \in Keys |-> IF j \in K THEN "running" ELSE "none"]
               /\ wg' = {"fill"} \X (K \cup {k})
    BY <2>1, <2>3 DEF FetchPlaces
  <2> QED
    BY <1>3, <2>2, <2>3 DEF LoadHistoricalEvents
<1>4. ASSUME NEW k \in Keys, KeyNext(k) PROVE FetchPlaces'
  <2>1. wg' \subseteq wg /\ sub' \in {sub, [sub EXCEPT ![k] = "running"], [sub EXCEPT ![k] = "ended"]}
        /\ fill' \in {fill, [fill EXCEPT ![k] = "ended"]}
    <3>1. CASE BeginSubscription(k)
      BY <3>1 DEF BeginSubscription
    <3>2. CASE SubscriptionFails(k)
      BY <3>2 DEF SubscriptionFails
    <3>3. CASE SubscriptionEnds(k)
      BY <3>3 DEF SubscriptionEnds
    <3>4. CASE BackfillEnds(k)
      BY <3>4 DEF BackfillEnds
    <3>5. CASE BackfillFails(k)
      BY <3>5 DEF BackfillFails
    <3> QED
      BY <1>4, <3>1, <3>2, <3>3, <3>4, <3>5 DEF KeyNext
  <2>2. sub' \in [Keys -> {"none", "new", "running", "ended"}]
    BY <2>1 DEF FetchPlaces
  <2>3. fill' \in [Keys -> {"none", "running", "ended"}]
    BY <2>1 DEF FetchPlaces
  <2> QED
    BY <2>1, <2>2, <2>3 DEF FetchPlaces
<1>5. CASE Signal \/ MainStops \/ MonitorStops \/ StopNext
  BY <1>1, <1>5 DEF Signal, MainStops, MonitorStops, StopNext, StopHealth, StopCancels, StopCloses, StopExits
<1>6. CASE StartNext
  BY <1>1, <1>2, <1>3, <1>6 DEF StartNext, StartHealth, StartLoop, ReadHeight, SubscriptionsMade,
     HistoryLoaded, StartMonitor, StartEnds
<1>7. CASE LoopNext \/ HandlerNext
  BY <1>1, <1>7, LoopCases DEF ReportReorg, LoopFails, StopLoop, HaltLoop, HandlerNext, HandleError,
     HandlerEnds, WaitHalted, TimeOut, CleanUp, CleanUpFails, PowerDown
<1> QED
  BY <1>4, <1>5, <1>6, <1>7 DEF Next

(* A context stays cancelled, and Stop, once called, goes on. *)
LEMMA OnlyOnwards ==
  ASSUME Next
  PROVE  cancelled \subseteq cancelled' /\ (stop # "no" => stop' # "no")
<1>1. CASE Signal \/ MainStops \/ MonitorStops \/ StopNext
  BY <1>1 DEF Signal, MainStops, MonitorStops, StopNext, StopHealth, StopCancels, StopCloses,
     StopExits, CallStop
<1>2. CASE StartNext
  BY <1>2 DEF StartNext, StartHealth, StartLoop, ReadHeight, SetupSubscriptions, SubscriptionsMade,
     LoadHistoricalEvents, HistoryLoaded, StartMonitor, StartEnds, ReturnError, CallStop
<1>3. ASSUME NEW k \in Keys, KeyNext(k) PROVE UNCHANGED <<cancelled, stop>>
  BY <1>3 DEF KeyNext, BeginSubscription, SubscriptionFails, SubscriptionEnds, BackfillEnds, BackfillFails
<1>4. CASE LoopNext
  BY <1>4, LoopCases DEF ReportReorg, LoopFails, StopLoop, HaltLoop
<1>5. CASE HandlerNext
  BY <1>5 DEF HandlerNext, HandleError, HandlerEnds, WaitHalted, TimeOut, CleanUp, CleanUpFails,
     PowerDown, CallStop
<1> QED
  BY <1>1, <1>2, <1>3, <1>4, <1>5 DEF Next

LEMMA OtherStep ==
  ASSUME OtherPlaces, Next
  PROVE  OtherPlaces'
<1>1. cancelled' \subseteq cancelled \cup Loops \cup {"root", "indexer"}
  <2>1. CASE Signal \/ MainStops \/ MonitorStops \/ StopNext
    BY <2>1 DEF Signal, MainStops, MonitorStops, StopNext, StopHealth, StopCancels, StopCloses, StopExits
  <2>2. CASE StartNext
    BY <2>2 DEF StartNext, StartHealth, StartLoop, ReadHeight, SetupSubscriptions, SubscriptionsMade,
       LoadHistoricalEvents, HistoryLoaded, StartMonitor, StartEnds, ReturnError
  <2>3. ASSUME NEW k \in Keys, KeyNext(k) PROVE cancelled' = cancelled
    BY <2>3 DEF KeyNext, BeginSubscription, SubscriptionFails, SubscriptionEnds, BackfillEnds, BackfillFails
  <2>4. CASE LoopNext
    BY <2>4, LoopCases DEF ReportReorg, LoopFails, StopLoop, HaltLoop
  <2>5. CASE HandlerNext
    BY <2>5 DEF HandlerNext, HandleError, HandlerEnds, WaitHalted, TimeOut, CleanUp, CleanUpFails,
       PowerDown, Loops
  <2> QED
    BY <2>1, <2>2, <2>3, <2>4, <2>5 DEF Next
<1>2. loop' = loop \/ \E l \in Loops : \E p \in {"running", "failed", "stopped", "ended"} :
                         loop' = [loop EXCEPT ![l] = p]
  <2>1. CASE Signal \/ MainStops \/ MonitorStops \/ StopNext
    BY <2>1 DEF Signal, MainStops, MonitorStops, StopNext, StopHealth, StopCancels, StopCloses, StopExits
  <2>2. ASSUME NEW l \in Loops, NEW next, StartLoop(l, next)
        PROVE  loop' = [loop EXCEPT ![l] = "running"]
    BY <2>2 DEF StartLoop
  <2>3. CASE StartNext
    BY <2>2, <2>3 DEF StartNext, StartHealth, ReadHeight, SetupSubscriptions, SubscriptionsMade,
       LoadHistoricalEvents, HistoryLoaded, StartMonitor, StartEnds, Loops
  <2>4. ASSUME NEW k \in Keys, KeyNext(k) PROVE loop' = loop
    BY <2>4 DEF KeyNext, BeginSubscription, SubscriptionFails, SubscriptionEnds, BackfillEnds, BackfillFails
  <2>5. CASE ReportReorg
    BY <2>5 DEF ReportReorg, Loops
  <2>6. ASSUME NEW l \in Loops, LoopFails(l) \/ StopLoop(l) \/ HaltLoop(l)
        PROVE  \E p \in {"running", "failed", "stopped", "ended"} : loop' = [loop EXCEPT ![l] = p]
    BY <2>6 DEF LoopFails, StopLoop, HaltLoop
  <2>7. CASE HandlerNext
    BY <2>7 DEF HandlerNext, HandleError, HandlerEnds, WaitHalted, TimeOut, CleanUp, CleanUpFails, PowerDown
  <2> QED
    BY <2>1, <2>3, <2>4, <2>5, <2>6, <2>7, LoopCases DEF Next
<1>3. loop' \in [Loops -> {"none", "running", "failed", "stopped", "ended"}]
  BY <1>2 DEF OtherPlaces
<1>4. stop' \in {"no", "health", "cancel", "close", "exit"}
  <2>1. CASE Signal \/ MainStops \/ MonitorStops \/ StopNext
    BY <2>1 DEF Signal, MainStops, MonitorStops, StopNext, StopHealth, StopCancels, StopCloses,
       StopExits, CallStop, OtherPlaces
  <2>2. CASE StartNext
    BY <2>2 DEF StartNext, StartHealth, StartLoop, ReadHeight, SetupSubscriptions, SubscriptionsMade,
       LoadHistoricalEvents, HistoryLoaded, StartMonitor, StartEnds, CallStop, OtherPlaces
  <2>3. ASSUME NEW k \in Keys, KeyNext(k) PROVE stop' = stop
    BY <2>3 DEF KeyNext, BeginSubscription, SubscriptionFails, SubscriptionEnds, BackfillEnds, BackfillFails
  <2>4. CASE LoopNext
    BY <2>4, LoopCases DEF ReportReorg, LoopFails, StopLoop, HaltLoop, OtherPlaces
  <2>5. CASE HandlerNext
    BY <2>5 DEF HandlerNext, HandleError, HandlerEnds, WaitHalted, TimeOut, CleanUp, CleanUpFails,
       PowerDown, CallStop, OtherPlaces
  <2> QED
    BY <2>1, <2>2, <2>3, <2>4, <2>5 DEF Next, OtherPlaces
<1> QED
  BY <1>1, <1>3, <1>4 DEF OtherPlaces

(* A send keeps the channel within its capacity                            *)
(* (load-historical-events.go:54-59).                                      *)
LEMMA SendCounts ==
  ASSUME Counts, Send
  PROVE  Counts'
BY LifecycleAssumption DEF Counts, Send

LEMMA CountsStep ==
  ASSUME Counts, Next
  PROVE  Counts'
<1>1. CASE Signal \/ MainStops \/ MonitorStops \/ StopNext
  BY <1>1 DEF Signal, MainStops, MonitorStops, StopNext, StopHealth, StopCancels, StopCloses,
     StopExits, Counts, channels
<1>2. CASE StartNext
  BY <1>2 DEF StartNext, StartHealth, StartLoop, ReadHeight, SetupSubscriptions, SubscriptionsMade,
     LoadHistoricalEvents, HistoryLoaded, StartMonitor, StartEnds, Counts, channels
<1>3. ASSUME NEW k \in Keys, KeyNext(k)
      PROVE  Counts'
  BY <1>3, SendCounts DEF KeyNext, BeginSubscription, SubscriptionFails, SubscriptionEnds, BackfillEnds,
     BackfillFails, Counts, channels
<1>4. CASE LoopNext
  BY <1>4, LoopCases DEF ReportReorg, LoopFails, StopLoop, HaltLoop, Counts, channels
<1>5. CASE HandlerNext
  BY <1>5, LifecycleAssumption DEF HandlerNext, HandleError, HandlerEnds, WaitHalted, TimeOut, CleanUp,
     CleanUpFails, PowerDown, Counts, channels
<1> QED
  BY <1>1, <1>2, <1>3, <1>4, <1>5 DEF Next

LEMMA FlagsStep ==
  ASSUME Flags, Next
  PROVE  Flags'
<1>1. CASE Signal \/ MainStops \/ MonitorStops \/ StopNext
  BY <1>1 DEF Signal, MainStops, MonitorStops, StopNext, StopHealth, StopCancels, StopCloses,
     StopExits, Flags, channels
<1>2. CASE StartNext
  BY <1>2 DEF StartNext, StartHealth, StartLoop, ReadHeight, SetupSubscriptions, SubscriptionsMade,
     LoadHistoricalEvents, HistoryLoaded, StartMonitor, StartEnds, Fails, Flags, channels
<1>3. ASSUME NEW k \in Keys, KeyNext(k)
      PROVE  Flags'
  BY <1>3 DEF KeyNext, BeginSubscription, SubscriptionFails, SubscriptionEnds, BackfillEnds,
     BackfillFails, Fails, Flags, channels
<1>4. CASE LoopNext
  BY <1>4, LoopCases DEF ReportReorg, LoopFails, StopLoop, HaltLoop, Fails, Flags, channels
<1>5. CASE HandlerNext
  BY <1>5 DEF HandlerNext, HandleError, HandlerEnds, WaitHalted, TimeOut, CleanUp,
     CleanUpFails, PowerDown, Fails, Flags, channels
<1> QED
  BY <1>1, <1>2, <1>3, <1>4, <1>5 DEF Next

LEMMA TypeStep == TypeOK /\ [Next]_vars => TypeOK'
<1>1. ASSUME Places, Next
      PROVE  Places'
  <2>1. ThreadPlaces' /\ FetchPlaces' /\ OtherPlaces'
    BY <1>1, Parts, ThreadStep, FetchStep, OtherStep
  <2> QED
    BY <2>1 DEF Places, ThreadPlaces, FetchPlaces, OtherPlaces
<1>2. ASSUME TypeOK, UNCHANGED vars
      PROVE  TypeOK'
  <2>1. Places'
    <3>1. ThreadPlaces /\ FetchPlaces /\ OtherPlaces /\ UNCHANGED <<threads, fetching, cancelled, loop, stop>>
      BY <1>2, Parts DEF TypeOK, vars
    <3>2. ThreadPlaces'
      BY <3>1 DEF ThreadPlaces, threads
    <3>3. FetchPlaces'
      BY <3>1 DEF FetchPlaces, fetching
    <3>4. OtherPlaces'
      BY <3>1 DEF OtherPlaces
    <3> QED
      BY <3>2, <3>3, <3>4 DEF Places, ThreadPlaces, FetchPlaces, OtherPlaces
  <2>2. Counts'
    BY <1>2 DEF TypeOK, Counts, vars, channels
  <2>3. Flags'
    BY <1>2 DEF TypeOK, Flags, vars, channels
  <2> QED
    BY <2>1, <2>2, <2>3 DEF TypeOK
<1> QED
  BY <1>1, <1>2, CountsStep, FlagsStep DEF TypeOK

(* The types hold throughout, whatever fails. *)
THEOREM TypeCorrect == Spec => []TypeOK
<1>1. Init => TypeOK
  <2>1. Init => Places
    BY DEF Init, Places, Loops
  <2>2. Init => Counts
    BY LifecycleAssumption DEF Init, Counts
  <2>3. Init => Flags
    BY DEF Init, Flags
  <2> QED
    BY <2>1, <2>2, <2>3 DEF TypeOK
<1> QED
  BY <1>1, TypeStep, PTL DEF Spec

(***************************************************************************)
(* The backfill is complete before the event processor starts.             *)
(***************************************************************************)
Early == {"health", "finality", "head", "subscribe", "subscribing", "giving up", "backfill"}

Late == {"processor", "transformer", "monitor", "waiting"}

AllFilled == \A k \in Keys : fill[k] = "ended"

(* While Start waits, the wait group holds every goroutine that runs, and  *)
(* for a key without one a Done that will not come.                        *)
Counted ==
  /\ \A k \in Keys : fill[k] = "running" => <<"fill", k>> \in wg
  /\ (\E k \in Keys : fill[k] = "none") => \E j \in Keys : fill[j] = "none" /\ <<"fill", j>> \in wg

FillInv ==
  /\ start \in Early => loop["processor"] = "none" /\ \A k \in Keys : fill[k] = "none"
  /\ start = "filling" => loop["processor"] = "none" /\ Counted
  /\ start \in Late => AllFilled
  /\ ProcessorAfterBackfill

LEMMA FillStart ==
  ASSUME Places, FillInv, StartNext
  PROVE  FillInv'
<1> USE DEF FillInv, Early, Late, ProcessorAfterBackfill, AllFilled
<1>1. CASE StartHealth \/ ReadHeight
  BY <1>1 DEF StartHealth, ReturnError, ReadHeight, fetching
<1>2. CASE StartLoop("finality", "head")
  BY <1>2 DEF StartLoop, Places, fetching
<1>3. CASE StartLoop("processor", "transformer") \/ StartLoop("transformer", "monitor")
  BY <1>3 DEF StartLoop, Places, fetching
<1>4. CASE SetupSubscriptions
  BY <1>4 DEF SetupSubscriptions
<1>5. CASE SubscriptionsMade
  BY <1>5 DEF SubscriptionsMade, ReturnError, fetching
<1>6. CASE LoadHistoricalEvents
  <2>1. CASE fill' = [k \in Keys |-> "running"] /\ wg' = {"fill"} \X Keys
    BY <1>6, <2>1 DEF LoadHistoricalEvents, Counted
  <2>2. CASE \E K \in SUBSET Keys, k \in Keys :
               /\ k \notin K
               /\ fill' = [j \in Keys |-> IF j \in K THEN "running" ELSE "none"]
               /\ wg' = {"fill"} \X (K \cup {k})
    BY <1>6, <2>2 DEF LoadHistoricalEvents, Counted
  <2> QED
    BY <1>6, <2>1, <2>2 DEF LoadHistoricalEvents
<1>7. CASE HistoryLoaded
  <2>1. AllFilled
    BY <1>7 DEF HistoryLoaded, Counted, Places
  <2> QED
    BY <1>7, <2>1 DEF HistoryLoaded, fetching
<1>8. CASE StartMonitor \/ StartEnds
  BY <1>8 DEF StartMonitor, StartEnds, fetching
<1> QED
  BY <1>1, <1>2, <1>3, <1>4, <1>5, <1>6, <1>7, <1>8 DEF StartNext

LEMMA FillKey ==
  ASSUME Places, FillInv, NEW k \in Keys, KeyNext(k)
  PROVE  FillInv'
<1> USE DEF FillInv, Early, Late, ProcessorAfterBackfill, AllFilled
<1>1. CASE BeginSubscription(k)
  BY <1>1 DEF BeginSubscription, threads, Counted
<1>2. CASE SubscriptionFails(k) \/ SubscriptionEnds(k)
  BY <1>2 DEF SubscriptionFails, SubscriptionEnds, threads, Counted
<1>3. CASE BackfillFails(k) \/ BackfillEnds(k)
  <2>1. fill[k] = "running" /\ fill' = [fill EXCEPT ![k] = "ended"]
        /\ wg' = wg \ {<<"fill", k>>} /\ start' = start /\ loop' = loop
    BY <1>3 DEF BackfillFails, BackfillEnds, threads
  <2>2. Counted => Counted'
    BY <2>1 DEF Counted, Places
  <2> QED
    BY <2>1, <2>2 DEF Places
<1> QED
  BY <1>1, <1>2, <1>3 DEF KeyNext

LEMMA FillLoop ==
  ASSUME Places, FillInv, NEW l \in Loops, LoopFails(l) \/ StopLoop(l) \/ HaltLoop(l)
  PROVE  FillInv'
<1>1. start' = start /\ fill' = fill /\ wg' = wg
  BY DEF LoopFails, StopLoop, HaltLoop, threads, fetching
<1>2. loop["processor"] = "none" => loop'["processor"] = "none"
  BY DEF LoopFails, StopLoop, HaltLoop, Places, Loops
<1>3. loop'["processor"] # "none" => loop["processor"] # "none"
  BY <1>2
<1> QED
  BY <1>1, <1>2, <1>3 DEF FillInv, Early, Late, ProcessorAfterBackfill, AllFilled, Counted

LEMMA FillOthers ==
  ASSUME Places, FillInv,
         Signal \/ MainStops \/ MonitorStops \/ StopNext \/ ReportReorg \/ HandlerNext
  PROVE  FillInv'
<1>1. start' = start /\ fill' = fill /\ wg' = wg /\ loop'["processor"] = loop["processor"]
  <2>1. CASE ReportReorg
    BY <2>1 DEF ReportReorg, Places, Loops, fetching
  <2>2. CASE HandlerNext
    BY <2>2 DEF HandlerNext, HandleError, HandlerEnds, WaitHalted, TimeOut, CleanUp, CleanUpFails,
       PowerDown, fetching
  <2>3. CASE Signal \/ MainStops \/ MonitorStops \/ StopNext
    BY <2>3 DEF Signal, MainStops, MonitorStops, StopNext, StopHealth, StopCancels, StopCloses,
       StopExits, threads, fetching
  <2> QED
    BY <2>1, <2>2, <2>3
<1> QED
  BY <1>1 DEF FillInv, Early, Late, ProcessorAfterBackfill, AllFilled, Counted

(* "do not progress until all historical events are loaded": when the      *)
(* event processor starts, every backfill goroutine has returned           *)
(* (indexer.go:172-184).                                                   *)
THEOREM BackfillTheorem == Spec => []ProcessorAfterBackfill
<1>1. Init => FillInv
  BY DEF Init, FillInv, Early, Late, ProcessorAfterBackfill, Loops
<1>2. TypeOK /\ FillInv /\ [Next]_vars => FillInv'
  <2>1. ASSUME Places, FillInv, Next
        PROVE  FillInv'
    BY <2>1, FillStart, FillKey, FillLoop, FillOthers, LoopCases DEF Next
  <2>2. ASSUME FillInv, UNCHANGED vars
        PROVE  FillInv'
    BY <2>2 DEF FillInv, Early, Late, ProcessorAfterBackfill, AllFilled, Counted, vars, threads, fetching
  <2> QED
    BY <2>1, <2>2 DEF TypeOK
<1>3. FillInv => ProcessorAfterBackfill
  BY DEF FillInv
<1> QED
  BY <1>1, <1>2, <1>3, TypeCorrect, PTL DEF Spec

(***************************************************************************)
(* A halt is no stop.                                                      *)
(***************************************************************************)
(* There is a reason to stop: a failed call or a signal, or the handler is *)
(* through.                                                                *)
Reason == trouble = TRUE \/ handler \in {"cleaned", "stopping"}

LEMMA ReasonStays ==
  ASSUME Flags, Reason, Next
  PROVE  Reason'
<1>1. trouble = TRUE => trouble' = TRUE
  <2>1. CASE Signal \/ MainStops \/ MonitorStops \/ StopNext
    BY <2>1 DEF Signal, MainStops, MonitorStops, StopNext, StopHealth, StopCancels, StopCloses, StopExits
  <2>2. CASE StartNext
    BY <2>2 DEF StartNext, StartHealth, StartLoop, ReadHeight, SetupSubscriptions, SubscriptionsMade,
       LoadHistoricalEvents, HistoryLoaded, StartMonitor, StartEnds, Fails
  <2>3. ASSUME NEW k \in Keys, KeyNext(k)
        PROVE  trouble = TRUE => trouble' = TRUE
    BY <2>3 DEF KeyNext, BeginSubscription, SubscriptionFails, SubscriptionEnds, BackfillEnds,
       BackfillFails, Fails
  <2>4. CASE LoopNext \/ HandlerNext
    BY <2>4, LoopCases DEF ReportReorg, LoopFails, StopLoop, HaltLoop, Fails, HandlerNext, HandleError,
       HandlerEnds, WaitHalted, TimeOut, CleanUp, CleanUpFails, PowerDown
  <2> QED
    BY <2>1, <2>2, <2>3, <2>4 DEF Next
<1>2. handler \in {"cleaned", "stopping"} => handler' \in {"cleaned", "stopping"}
  <2>1. CASE Signal \/ MainStops \/ MonitorStops \/ StopNext
    BY <2>1 DEF Signal, MainStops, MonitorStops, StopNext, StopHealth, StopCancels, StopCloses,
       StopExits, threads
  <2>2. CASE StartNext
    BY <2>2 DEF StartNext, StartHealth, StartLoop, ReadHeight, SetupSubscriptions, SubscriptionsMade,
       LoadHistoricalEvents, HistoryLoaded, StartMonitor, StartEnds
  <2>3. ASSUME NEW k \in Keys, KeyNext(k)
        PROVE  handler' = handler
    BY <2>3 DEF KeyNext, BeginSubscription, SubscriptionFails, SubscriptionEnds, BackfillEnds,
       BackfillFails, threads
  <2>4. CASE LoopNext \/ HandlerNext
    BY <2>4, LoopCases DEF ReportReorg, LoopFails, StopLoop, HaltLoop, HandlerNext, HandleError,
       HandlerEnds, WaitHalted, TimeOut, CleanUp, CleanUpFails, PowerDown, threads
  <2> QED
    BY <2>1, <2>2, <2>3, <2>4 DEF Next
<1> QED
  BY <1>1, <1>2 DEF Reason

(* As long as there is no reason, no step makes a goroutine stop.          *)
Calm ==
  /\ stop = "no" /\ closed = FALSE /\ cancelled = {} /\ errors = 0
  /\ main = "select" /\ start \notin {"giving up", "returned", "stopping"}
  /\ monitor # "stopping" /\ \A l \in Loops : loop[l] # "failed"

LEMMA CalmStep ==
  ASSUME Places, Calm, Next
  PROVE  Calm' \/ trouble' = TRUE \/ handler' \in {"cleaned", "stopping"}
<1>1. \A c : ~Done(c)
  BY DEF Calm, Done
<1>2. CASE Signal \/ MainStops \/ MonitorStops \/ StopNext
  BY <1>1, <1>2 DEF Calm, Signal, MainStops, MonitorStops, StopNext, StopHealth, StopCancels, StopCloses,
     StopExits
<1>3. CASE StartNext
  <2>1. ASSUME NEW l \in Loops, NEW next \in {"head", "transformer", "monitor"}, StartLoop(l, next)
        PROVE  Calm'
    BY <2>1 DEF StartLoop, Calm, Places, channels
  <2>2. CASE StartHealth \/ ReadHeight \/ StartMonitor \/ StartEnds
    BY <1>1, <2>2 DEF Calm, StartHealth, ReturnError, ReadHeight, StartMonitor, StartEnds, Fails, channels
  <2>3. CASE SetupSubscriptions \/ SubscriptionsMade \/ LoadHistoricalEvents \/ HistoryLoaded
    BY <2>3 DEF Calm, SetupSubscriptions, SubscriptionsMade, LoadHistoricalEvents, HistoryLoaded,
       Fails, channels
  <2> QED
    BY <1>3, <2>1, <2>2, <2>3 DEF StartNext, Loops
<1>4. ASSUME NEW k \in Keys, KeyNext(k)
      PROVE  Calm' \/ trouble' = TRUE
  BY <1>1, <1>4 DEF Calm, KeyNext, BeginSubscription, SubscriptionFails, SubscriptionEnds, BackfillEnds,
     BackfillFails, Fails, threads, channels
<1>5. CASE ReportReorg
  BY <1>5 DEF Calm, ReportReorg, Places
<1>6. ASSUME NEW l \in Loops, LoopFails(l) \/ StopLoop(l) \/ HaltLoop(l)
      PROVE  Calm' \/ trouble' = TRUE
  <2>1. CASE LoopFails(l)
    BY <2>1 DEF LoopFails, Fails
  <2>2. CASE StopLoop(l)
    BY <2>2 DEF StopLoop, Calm
  <2>3. CASE HaltLoop(l)
    BY <2>3 DEF Calm, HaltLoop, Places, threads
  <2> QED
    BY <1>6, <2>1, <2>2, <2>3
<1>7. CASE HandlerNext
  BY <1>1, <1>7 DEF Calm, HandlerNext, HandleError, HandlerEnds, WaitHalted, TimeOut, CleanUp,
     CleanUpFails, PowerDown, channels
<1> QED
  BY <1>2, <1>3, <1>4, <1>5, <1>6, <1>7, LoopCases DEF Next

(* A halted loop leaves its context alone, so that the monitor, which      *)
(* watches the contexts of the loops, does not end the process while the   *)
(* handler is to clean up (indexer.go:197-214, reorg-handler.go:13-58).    *)
THEOREM UndisturbedTheorem == Spec => []CleanupUndisturbed
<1> DEFINE Inv == Reason \/ Calm
<1>1. Init => Inv
  BY DEF Init, Calm, Loops
<1>2. TypeOK /\ Inv /\ [Next]_vars => Inv'
  <2>1. ASSUME TypeOK, Inv, Next
        PROVE  Inv'
    BY <2>1, ReasonStays, CalmStep DEF TypeOK, Reason
  <2>2. ASSUME Inv, UNCHANGED vars
        PROVE  Inv'
    BY <2>2 DEF Reason, Calm, vars, threads, channels
  <2> QED
    BY <2>1, <2>2
<1>3. Inv => CleanupUndisturbed
  BY DEF Reason, Calm, CleanupUndisturbed
<1> QED
  BY <1>1, <1>2, <1>3, TypeCorrect, PTL DEF Spec

(***************************************************************************)
(* Nobody waits for ever.                                                  *)
(***************************************************************************)
(* Whoever waits in Stop, or ended because of it, has it running. *)
StopOK ==
  \/ stop # "no"
  \/ /\ "stopping" \notin {main, start, handler, monitor}
     /\ "indexer" \notin cancelled /\ closed = FALSE

(* What a goroutine leaves behind when it ends. *)
EndOK ==
  /\ start = "returned" => "root" \in cancelled
  /\ start = "waiting" => monitor # "none"
  /\ handler = "ended" => "root" \in cancelled \/ "indexer" \in cancelled
  /\ \A l \in Loops : loop[l] = "stopped" => l \in cancelled

(* Start waits for what the wait group holds: subscriptions that are yet   *)
(* to begin, or backfills.                                                 *)
WaitOK ==
  \A k \in Keys :
    /\ <<"sub", k>> \in wg => start \in {"subscribing", "giving up"} /\ sub[k] = "new"
    /\ <<"fill", k>> \in wg => start = "filling"

(* What went wrong is on its way to somebody. *)
CauseOK ==
  trouble = TRUE =>
    \/ "root" \in cancelled \/ start = "giving up" \/ stop # "no" \/ Stuck \/ errors > 0
    \/ \E l \in Loops : loop[l] \in {"failed", "stopped"}

LEMMA StopOKStep == ASSUME StopOK, Next PROVE StopOK'
<1> USE DEF StopOK
<1>1. CASE stop # "no"
  BY <1>1, OnlyOnwards
<1>2. CASE stop = "no" /\ (Signal \/ MainStops \/ MonitorStops \/ StopNext)
  BY <1>2 DEF Signal, MainStops, MonitorStops, StopNext, StopHealth, StopCancels, StopCloses,
     StopExits, CallStop, threads, channels
<1>3. CASE stop = "no" /\ StartNext
  <2>1. ASSUME NEW l \in Loops, NEW next \in {"head", "transformer", "monitor"}, StartLoop(l, next)
        PROVE  StopOK'
    BY <1>3, <2>1 DEF StartLoop, channels
  <2>2. CASE StartHealth \/ SetupSubscriptions \/ SubscriptionsMade
    <3>1. /\ UNCHANGED <<main, handler, monitor, closed, stop>> /\ start' # "stopping"
          /\ cancelled' \in {cancelled, cancelled \cup {"root"}}
      BY <2>2 DEF StartHealth, SetupSubscriptions, SubscriptionsMade, ReturnError, channels
    <3> QED
      BY <1>3, <3>1
  <2>4. CASE ReadHeight
    BY <1>3, <2>4 DEF ReadHeight, CallStop, channels
  <2>3. CASE LoadHistoricalEvents \/ HistoryLoaded \/ StartMonitor \/ StartEnds
    BY <1>3, <2>3 DEF LoadHistoricalEvents, HistoryLoaded, StartMonitor, StartEnds, CallStop, channels
  <2> QED
    BY <1>3, <2>1, <2>2, <2>3, <2>4 DEF StartNext, Loops
<1>4. ASSUME NEW k \in Keys, KeyNext(k) PROVE UNCHANGED <<threads, cancelled, closed, stop>>
  BY <1>4 DEF KeyNext, BeginSubscription, SubscriptionFails, SubscriptionEnds, BackfillEnds,
     BackfillFails, threads, channels
<1>5. CASE stop = "no" /\ LoopNext
  BY <1>5, LoopCases DEF ReportReorg, LoopFails, StopLoop, HaltLoop, threads, channels, Loops
<1>6. CASE stop = "no" /\ HandlerNext
  BY <1>6 DEF HandlerNext, HandleError, HandlerEnds, WaitHalted, TimeOut, CleanUp, CleanUpFails,
     PowerDown, CallStop, channels
<1>7. ASSUME NEW k \in Keys, KeyNext(k) PROVE StopOK'
  BY <1>4, <1>7 DEF threads
<1> QED
  BY <1>1, <1>2, <1>3, <1>5, <1>6, <1>7 DEF Next

LEMMA EndOKStep == ASSUME Places, EndOK, Next PROVE EndOK'
<1>1. cancelled \subseteq cancelled'
  BY OnlyOnwards
<1>2. CASE Signal \/ MainStops \/ StopNext
  BY <1>1, <1>2 DEF EndOK, Signal, MainStops, StopNext, StopHealth, StopCancels, StopCloses,
     StopExits, threads
<1>3. CASE MonitorStops
  BY <1>1, <1>3 DEF EndOK, MonitorStops
<1>4. CASE StartNext
  <2>1. ASSUME NEW l \in Loops, NEW next \in {"head", "transformer", "monitor"}, StartLoop(l, next)
        PROVE  EndOK'
    <3>1. start' # "waiting" /\ start' # "returned" /\ UNCHANGED <<handler, cancelled>>
      BY <2>1 DEF StartLoop
    <3>2. \A m \in Loops : loop'[m] = "stopped" => loop[m] = "stopped"
      BY <2>1 DEF StartLoop, Places
    <3> QED
      BY <3>1, <3>2 DEF EndOK
  <2>2. CASE StartHealth \/ ReadHeight \/ SetupSubscriptions \/ SubscriptionsMade
    BY <1>1, <2>2 DEF EndOK, StartHealth, ReadHeight, SetupSubscriptions, SubscriptionsMade, ReturnError
  <2>3. CASE LoadHistoricalEvents \/ HistoryLoaded \/ StartMonitor \/ StartEnds
    BY <1>1, <2>3 DEF EndOK, LoadHistoricalEvents, HistoryLoaded, StartMonitor, StartEnds
  <2> QED
    BY <1>4, <2>1, <2>2, <2>3 DEF StartNext, Loops
<1>5. ASSUME NEW k \in Keys, KeyNext(k) PROVE EndOK'
  <2>1. UNCHANGED <<threads, cancelled, loop>>
    BY <1>5 DEF KeyNext, BeginSubscription, SubscriptionFails, SubscriptionEnds, BackfillEnds, BackfillFails
  <2> QED
    BY <2>1 DEF EndOK, threads
<1>6. CASE ReportReorg
  <2>1. /\ UNCHANGED <<start, monitor, cancelled>> /\ handler' \in {handler, "halting"}
        /\ loop' = [loop EXCEPT !["finality"] = "ended"]
    BY <1>6 DEF ReportReorg
  <2> QED
    BY <2>1 DEF EndOK, Places
<1>7. ASSUME NEW l \in Loops, LoopFails(l) \/ StopLoop(l) \/ HaltLoop(l) PROVE EndOK'
  <2>1. UNCHANGED threads
    BY <1>7 DEF LoopFails, StopLoop, HaltLoop
  <2>2. \A m \in Loops : loop'[m] = "stopped" => m \in cancelled'
    <3>1. CASE LoopFails(l)
      BY <1>1, <3>1 DEF LoopFails, EndOK, Places
    <3>2. CASE StopLoop(l)
      BY <1>1, <3>2 DEF StopLoop, EndOK, Places
    <3>3. CASE HaltLoop(l)
      BY <1>1, <3>3 DEF HaltLoop, EndOK, Places
    <3> QED
      BY <1>7, <3>1, <3>2, <3>3
  <2> QED
    BY <1>1, <2>1, <2>2 DEF EndOK, threads
<1>8. CASE HandlerNext
  BY <1>1, <1>8 DEF EndOK, HandlerNext, HandleError, HandlerEnds, WaitHalted, TimeOut, CleanUp,
     CleanUpFails, PowerDown, Done
<1> QED
  BY <1>2, <1>3, <1>4, <1>5, <1>6, <1>7, <1>8, LoopCases DEF Next

(* Only Start and the goroutines it waits for change what it waits for. *)
LEMMA WaitFrame ==
  ASSUME Next, ~StartNext, \A k \in Keys : ~KeyNext(k)
  PROVE  UNCHANGED <<start, sub, fill, wg>>
<1>1. CASE Signal \/ MainStops \/ MonitorStops \/ StopNext
  BY <1>1 DEF Signal, MainStops, MonitorStops, StopNext, StopHealth, StopCancels, StopCloses,
     StopExits, threads, fetching
<1>2. CASE LoopNext
  BY <1>2, LoopCases DEF ReportReorg, LoopFails, StopLoop, HaltLoop, threads, fetching
<1>3. CASE HandlerNext
  BY <1>3 DEF HandlerNext, HandleError, HandlerEnds, WaitHalted, TimeOut, CleanUp, CleanUpFails,
     PowerDown, fetching
<1> QED
  BY <1>1, <1>2, <1>3 DEF Next

(* The steps of the goroutines that subscribe and backfill. *)
LEMMA FetchFrame ==
  ASSUME NEW k \in Keys, KeyNext(k)
  PROVE  /\ start' = start
         /\ \/ sub[k] = "new" /\ sub' = [sub EXCEPT ![k] = "running"] /\ fill' = fill
               /\ wg' = wg \ {<<"sub", k>>}
            \/ sub[k] = "running" /\ sub' = [sub EXCEPT ![k] = "ended"] /\ UNCHANGED <<fill, wg>>
            \/ fill[k] = "running" /\ fill' = [fill EXCEPT ![k] = "ended"] /\ sub' = sub
               /\ wg' = wg \ {<<"fill", k>>}
<1>1. CASE BeginSubscription(k)
  BY <1>1 DEF BeginSubscription, threads
<1>2. CASE SubscriptionFails(k) \/ SubscriptionEnds(k)
  BY <1>2 DEF SubscriptionFails, SubscriptionEnds, threads
<1>3. CASE BackfillFails(k) \/ BackfillEnds(k)
  BY <1>3 DEF BackfillFails, BackfillEnds, threads
<1> QED
  BY <1>1, <1>2, <1>3 DEF KeyNext

LEMMA WaitOKStep == ASSUME Places, WaitOK, Next PROVE WaitOK'
<1>1. CASE StartNext
  <2>1. CASE SetupSubscriptions
    BY <2>1 DEF SetupSubscriptions, WaitOK
  <2>2. CASE LoadHistoricalEvents
    <3>1. start' = "filling" /\ \E S \in SUBSET Keys : wg' = {"fill"} \X S
      <4>1. CASE wg' = {"fill"} \X Keys
        BY <2>2, <4>1 DEF LoadHistoricalEvents
      <4>2. CASE \E K \in SUBSET Keys, k \in Keys : wg' = {"fill"} \X (K \cup {k})
        <5>1. PICK K \in SUBSET Keys, k \in Keys : wg' = {"fill"} \X (K \cup {k})
          BY <4>2
        <5>2. K \cup {k} \in SUBSET Keys
          OBVIOUS
        <5> QED
          BY <2>2, <5>1, <5>2 DEF LoadHistoricalEvents
      <4> QED
        BY <2>2, <4>1, <4>2 DEF LoadHistoricalEvents
    <3>2. \A k \in Keys : <<"sub", k>> \notin wg'
      BY <3>1
    <3> QED
      BY <3>1, <3>2 DEF WaitOK
  <2>3. CASE SubscriptionsMade \/ HistoryLoaded
    BY <2>3 DEF SubscriptionsMade, HistoryLoaded, fetching, WaitOK
  <2>4. CASE StartHealth \/ ReadHeight \/ StartMonitor \/ StartEnds
    BY <2>4 DEF StartHealth, ReadHeight, StartMonitor, StartEnds, ReturnError, fetching, WaitOK
  <2>5. ASSUME NEW l \in Loops, NEW next \in {"head", "transformer", "monitor"}, StartLoop(l, next)
        PROVE  WaitOK'
    BY <2>5 DEF StartLoop, fetching, WaitOK, Loops
  <2> QED
    BY <1>1, <2>1, <2>2, <2>3, <2>4, <2>5 DEF StartNext, Loops
<1>2. ASSUME NEW k \in Keys, KeyNext(k) PROVE WaitOK'
  <2> SUFFICES ASSUME NEW j \in Keys
               PROVE  /\ <<"sub", j>> \in wg' => start' \in {"subscribing", "giving up"} /\ sub'[j] = "new"
                      /\ <<"fill", j>> \in wg' => start' = "filling"
    BY DEF WaitOK
  <2>1. /\ <<"sub", j>> \in wg => start \in {"subscribing", "giving up"} /\ sub[j] = "new"
        /\ <<"fill", j>> \in wg => start = "filling"
    BY DEF WaitOK
  <2>2. start' = start /\ wg' \subseteq wg
    BY <1>2, FetchFrame
  <2>3. <<"sub", j>> \in wg' => sub'[j] = "new"
    BY <1>2, <2>1, FetchFrame DEF Places
  <2> QED
    BY <2>1, <2>2, <2>3
<1>3. CASE ~StartNext /\ \A k \in Keys : ~KeyNext(k)
  BY <1>3, WaitFrame DEF WaitOK
<1> QED
  BY <1>1, <1>2, <1>3

(* What counts the goroutine that was never started waits for ever. *)
LEMMA StuckStays == ASSUME Places, WaitOK, Stuck, Next PROVE Stuck'
<1>1. PICK j \in Keys : <<"fill", j>> \in wg /\ fill[j] # "running"
  BY DEF Stuck
<1>2. start = "filling" /\ wg # {}
  BY <1>1 DEF WaitOK
<1>3. ~StartNext
  BY <1>2 DEF StartNext, StartHealth, StartLoop, ReadHeight, SetupSubscriptions, SubscriptionsMade,
     LoadHistoricalEvents, HistoryLoaded, StartMonitor, StartEnds
<1>4. ASSUME NEW k \in Keys, KeyNext(k) PROVE <<"fill", j>> \in wg' /\ fill'[j] # "running"
  BY <1>1, <1>4, FetchFrame DEF Places
<1>5. CASE \A k \in Keys : ~KeyNext(k)
  <2>1. UNCHANGED <<start, sub, fill, wg>>
    BY <1>3, <1>5, WaitFrame
  <2> QED
    BY <1>1, <2>1 DEF Stuck
<1> QED
  BY <1>4, <1>5 DEF Stuck

(* A loop is started once. *)
FreshOK ==
  /\ start \in {"health", "finality"} => loop["finality"] = "none"
  /\ start \notin {"transformer", "monitor", "waiting", "returned", "stopping"} => loop["processor"] = "none"
  /\ start \notin {"monitor", "waiting", "returned", "stopping"} => loop["transformer"] = "none"

(* Only Start makes a loop run that did not. *)
LEMMA LoopFrame ==
  ASSUME Places, Next, ~StartNext
  PROVE  start' = start /\ \A m \in Loops : loop[m] = "none" => loop'[m] = "none"
<1>1. CASE Signal \/ MainStops \/ MonitorStops \/ StopNext
  BY <1>1 DEF Signal, MainStops, MonitorStops, StopNext, StopHealth, StopCancels, StopCloses,
     StopExits, threads
<1>2. ASSUME NEW k \in Keys, KeyNext(k) PROVE UNCHANGED <<start, loop>>
  BY <1>2 DEF KeyNext, BeginSubscription, SubscriptionFails, SubscriptionEnds, BackfillEnds,
     BackfillFails, threads
<1>3. CASE ReportReorg
  BY <1>3 DEF ReportReorg, Places
<1>4. ASSUME NEW l \in Loops, LoopFails(l) \/ StopLoop(l) \/ HaltLoop(l)
      PROVE  start' = start /\ \A m \in Loops : loop[m] = "none" => loop'[m] = "none"
  <2>1. start' = start
    BY <1>4 DEF LoopFails, StopLoop, HaltLoop, threads
  <2>2. loop[l] # "none" /\ \E p \in {"failed", "stopped", "ended"} : loop' = [loop EXCEPT ![l] = p]
    BY <1>4 DEF LoopFails, StopLoop, HaltLoop
  <2> QED
    BY <2>1, <2>2 DEF Places
<1>5. CASE HandlerNext
  BY <1>5 DEF HandlerNext, HandleError, HandlerEnds, WaitHalted, TimeOut, CleanUp, CleanUpFails, PowerDown
<1> QED
  BY <1>1, <1>2, <1>3, <1>4, <1>5, LoopCases DEF Next

LEMMA FreshOKStep == ASSUME Places, FreshOK, Next PROVE FreshOK'
<1>1. CASE StartNext
  <2>1. CASE StartLoop("finality", "head")
    BY <2>1 DEF StartLoop, FreshOK, Places, Loops
  <2>2. CASE StartLoop("processor", "transformer")
    BY <2>2 DEF StartLoop, FreshOK, Places, Loops
  <2>3. CASE StartLoop("transformer", "monitor")
    BY <2>3 DEF StartLoop, FreshOK, Places, Loops
  <2>4. CASE StartHealth \/ ReadHeight \/ SetupSubscriptions \/ SubscriptionsMade
    BY <2>4 DEF StartHealth, ReadHeight, SetupSubscriptions, SubscriptionsMade, ReturnError, FreshOK
  <2>5. CASE LoadHistoricalEvents \/ HistoryLoaded \/ StartMonitor \/ StartEnds
    BY <2>5 DEF LoadHistoricalEvents, HistoryLoaded, StartMonitor, StartEnds, FreshOK
  <2> QED
    BY <1>1, <2>1, <2>2, <2>3, <2>4, <2>5 DEF StartNext
<1>2. CASE ~StartNext
  BY <1>2, LoopFrame DEF FreshOK, Loops
<1> QED
  BY <1>1, <1>2

(* A send leaves an error in the channel, or brings the process down. *)
LEMMA SendCause ==
  ASSUME TypeOK, StopOK, Send
  PROVE  stop # "no" \/ errors' > 0
BY LifecycleAssumption DEF Send, StopOK, TypeOK, Counts, Flags

LEMMA CauseOKStep == ASSUME TypeOK, StopOK, WaitOK, FreshOK, CauseOK, Next PROVE CauseOK'
<1>1. cancelled \subseteq cancelled' /\ (stop # "no" => stop' # "no") /\ (Stuck => Stuck')
  BY OnlyOnwards, StuckStays DEF TypeOK
<1>2. errors \in Nat /\ Places
  BY LifecycleAssumption DEF TypeOK, Counts
<1> USE DEF CauseOK
<1> HIDE DEF Stuck
<1>3. CASE Signal \/ MainStops \/ MonitorStops \/ StopNext
  <2>1. UNCHANGED <<start, errors, loop>>
    BY <1>3 DEF Signal, MainStops, MonitorStops, StopNext, StopHealth, StopCancels, StopCloses,
       StopExits, threads, channels
  <2>2. trouble' = trouble \/ "root" \in cancelled'
    BY <1>3 DEF Signal, MainStops, MonitorStops, StopNext, StopHealth, StopCancels, StopCloses, StopExits
  <2> QED
    BY <1>1, <2>1, <2>2
<1>4. CASE StartNext
  <2>1. ASSUME NEW l \in Loops, NEW next \in {"head", "transformer", "monitor"}, StartLoop(l, next)
        PROVE  CauseOK'
    <3>1. loop[l] = "none" /\ start # "giving up" /\ UNCHANGED <<errors, trouble>>
      BY <2>1 DEF StartLoop, FreshOK, channels, Loops
    <3>2. \A m \in Loops : loop[m] \in {"failed", "stopped"} => loop'[m] \in {"failed", "stopped"}
      BY <1>2, <2>1, <3>1 DEF StartLoop, Places
    <3> QED
      BY <1>1, <3>1, <3>2
  <2>2. CASE StartHealth
    BY <1>1, <2>2 DEF StartHealth, ReturnError, channels
  <2>3. CASE ReadHeight \/ StartEnds
    BY <1>1, <2>3 DEF ReadHeight, StartEnds, CallStop, channels
  <2>4. CASE SetupSubscriptions
    BY <1>1, <2>4 DEF SetupSubscriptions, channels
  <2>5. CASE SubscriptionsMade
    BY <1>1, <2>5 DEF SubscriptionsMade, ReturnError, channels
  <2>6. CASE LoadHistoricalEvents
    <3>1. start # "giving up" /\ UNCHANGED <<errors, cancelled, stop, loop>>
      BY <2>6 DEF LoadHistoricalEvents, channels
    <3>2. trouble' = trouble \/ Stuck'
      <4>1. ASSUME NEW K \in SUBSET Keys, NEW k \in Keys, k \notin K,
                   fill' = [j \in Keys |-> IF j \in K THEN "running" ELSE "none"],
                   wg' = {"fill"} \X (K \cup {k})
            PROVE  Stuck'
        <5>1. <<"fill", k>> \in wg' /\ fill'[k] # "running"
          BY <4>1
        <5> QED
          BY <5>1 DEF Stuck
      <4> QED
        BY <2>6, <4>1 DEF LoadHistoricalEvents
    <3> QED
      BY <1>1, <3>1, <3>2
  <2>7. CASE HistoryLoaded \/ StartMonitor
    BY <1>1, <2>7 DEF HistoryLoaded, StartMonitor, channels
  <2> QED
    BY <1>4, <2>1, <2>2, <2>3, <2>4, <2>5, <2>6, <2>7 DEF StartNext, Loops
<1>5. ASSUME NEW k \in Keys, KeyNext(k) PROVE CauseOK'
  <2>1. UNCHANGED <<start, loop, stop>>
    BY <1>5 DEF KeyNext, BeginSubscription, SubscriptionFails, SubscriptionEnds, BackfillEnds,
       BackfillFails, threads
  <2>2. UNCHANGED <<errors, trouble>> \/ Send
    BY <1>5 DEF KeyNext, BeginSubscription, SubscriptionFails, SubscriptionEnds, BackfillEnds,
       BackfillFails, channels
  <2> QED
    BY <1>1, <2>1, <2>2, SendCause
<1>6. CASE ReportReorg
  <2>1. UNCHANGED <<start, errors, trouble>> /\ loop["finality"] = "running"
        /\ loop' = [loop EXCEPT !["finality"] = "ended"]
    BY <1>6 DEF ReportReorg
  <2>2. \A m \in Loops : loop[m] \in {"failed", "stopped"} => loop'[m] \in {"failed", "stopped"}
    BY <1>2, <2>1 DEF Places
  <2> QED
    BY <1>1, <2>1, <2>2
<1>7. ASSUME NEW l \in Loops, LoopFails(l) \/ StopLoop(l) \/ HaltLoop(l) PROVE CauseOK'
  <2>1. UNCHANGED <<start, errors>>
    BY <1>7 DEF LoopFails, StopLoop, HaltLoop, threads, channels
  <2>2. CASE LoopFails(l) \/ StopLoop(l)
    <3>1. loop'[l] \in {"failed", "stopped"}
      <4>1. loop' \in {[loop EXCEPT ![l] = "failed"], [loop EXCEPT ![l] = "stopped"]}
        BY <2>2 DEF LoopFails, StopLoop
      <4> QED
        BY <4>1, <1>2 DEF Places
    <3> QED
      BY <3>1
  <2>3. CASE HaltLoop(l)
    <3>1. trouble' = trouble /\ loop[l] = "running" /\ loop' = [loop EXCEPT ![l] = "ended"]
      BY <2>3 DEF HaltLoop
    <3>2. \A m \in Loops : loop[m] \in {"failed", "stopped"} => loop'[m] \in {"failed", "stopped"}
      BY <1>2, <3>1 DEF Places
    <3> QED
      BY <1>1, <2>1, <3>1, <3>2
  <2> QED
    BY <1>7, <2>2, <2>3
<1>8. CASE HandlerNext
  <2>1. UNCHANGED <<start, loop>>
    BY <1>8 DEF HandlerNext, HandleError, HandlerEnds, WaitHalted, TimeOut, CleanUp, CleanUpFails, PowerDown
  <2>2. stop' # "no" \/ UNCHANGED <<errors, trouble>>
    BY <1>8 DEF HandlerNext, HandleError, HandlerEnds, WaitHalted, TimeOut, CleanUp, CleanUpFails,
       PowerDown, CallStop, channels
  <2> QED
    BY <1>1, <2>1, <2>2
<1> QED
  BY <1>3, <1>4, <1>5, <1>6, <1>7, <1>8, LoopCases DEF Next

(* Main acts on its context, or is in Stop. *)
LEMMA RootActs ==
  ASSUME Places, StopOK, "root" \in cancelled
  PROVE  SomeoneActs
BY DEF Places, StopOK, SomeoneActs, MainActs, Done

LEMMA Pair == \A p \in {"sub", "fill"} \X Keys : \E c \in {"sub", "fill"}, k \in Keys : p = <<c, k>>
OBVIOUS

(* Start goes on, or those it waits for; or it waits for nobody. *)
LEMMA StartOrFetchers ==
  ASSUME Places, WaitOK, start \in {"subscribing", "giving up", "filling"}
  PROVE  SomeoneActs \/ (Stuck /\ start = "filling")
<1>1. CASE wg = {}
  BY <1>1 DEF SomeoneActs, StartActs
<1>2. CASE wg # {}
  <2>1. PICK c \in {"sub", "fill"}, k \in Keys : <<c, k>> \in wg
    <3>1. PICK p \in {"sub", "fill"} \X Keys : p \in wg
      BY <1>2, Parts DEF FetchPlaces
    <3>2. PICK c \in {"sub", "fill"}, k \in Keys : p = <<c, k>>
      BY <3>1, Pair
    <3> QED
      BY <3>1, <3>2
  <2>2. CASE c = "sub"
    BY <2>1, <2>2 DEF WaitOK, SomeoneActs, FetcherActs
  <2>3. CASE c = "fill"
    BY <2>1, <2>3 DEF WaitOK, SomeoneActs, FetcherActs, Stuck
  <2> QED
    BY <2>1, <2>2, <2>3
<1> QED
  BY <1>1, <1>2

(* A loop that was stopped is seen by the monitor, if Start came to that.  *)
LEMMA StoppedLoopActs ==
  ASSUME Places, StopOK, EndOK, WaitOK, NEW l \in Loops, loop[l] = "stopped"
  PROVE  SomeoneActs \/ Stuck
<1>1. CASE monitor = "select"
  <2>1. Done(l)
    BY DEF EndOK, Done
  <2> QED
    BY <1>1, <2>1 DEF SomeoneActs, MonitorActs
<1>2. CASE monitor = "stopping" \/ start = "stopping"
  BY <1>2 DEF StopOK, SomeoneActs
<1>3. CASE monitor = "none" /\ start # "stopping"
  <2>1. CASE start = "returned"
    BY <2>1, RootActs DEF EndOK
  <2>2. CASE start \in {"subscribing", "giving up", "filling"}
    BY <2>2, StartOrFetchers
  <2>3. CASE start \in Loops \cup {"health", "head", "subscribe", "backfill", "monitor"}
    BY <2>3 DEF SomeoneActs, StartActs
  <2> QED
    BY <1>3, <2>1, <2>2, <2>3 DEF EndOK, Places
<1> QED
  BY <1>1, <1>2, <1>3 DEF Places

(* An error in the channel is received, or Stop runs. *)
LEMMA ErrorActs ==
  ASSUME Places, StopOK, EndOK, errors > 0 \/ handler = "halting"
  PROVE  SomeoneActs
<1>1. CASE handler \in {"select", "halting", "cleaning", "cleaned"}
  BY <1>1 DEF SomeoneActs, HandlerActs
<1>2. CASE handler = "stopping"
  BY <1>2 DEF StopOK, SomeoneActs
<1>3. CASE handler = "ended"
  BY <1>3, RootActs DEF EndOK, StopOK, SomeoneActs
<1> QED
  BY <1>1, <1>2, <1>3 DEF Places

(* A process that failed, was told to end or found a reorganisation never  *)
(* has all its goroutines waiting, for any keys, capacity and failures,    *)
(* except for the backfill that is counted and was not started: what is    *)
(* wrong stays on its way until somebody acts on it (indexer.go:117-214,   *)
(* main.go:37-60).                                                         *)
THEOREM StrandedTheorem == Spec => []NeverStranded
<1> DEFINE Inv == StopOK /\ EndOK /\ WaitOK /\ FreshOK /\ CauseOK
<1>1. Init => Inv
  BY DEF Init, StopOK, EndOK, WaitOK, FreshOK, CauseOK, Loops
<1>2. TypeOK /\ Inv /\ [Next]_vars => Inv'
  <2>1. ASSUME TypeOK, Inv, Next
        PROVE  Inv'
    BY <2>1, StopOKStep, EndOKStep, WaitOKStep, FreshOKStep, CauseOKStep DEF TypeOK
  <2>2. ASSUME Inv, UNCHANGED vars
        PROVE  Inv'
    <3>1. StopOK'
      BY <2>2 DEF StopOK, vars, threads, channels
    <3>2. EndOK'
      BY <2>2 DEF EndOK, vars, threads
    <3>3. WaitOK'
      BY <2>2 DEF WaitOK, vars, threads, fetching
    <3>4. FreshOK'
      BY <2>2 DEF FreshOK, vars, threads
    <3>5. CauseOK'
      BY <2>2 DEF CauseOK, Stuck, vars, threads, fetching, channels
    <3> QED
      BY <3>1, <3>2, <3>3, <3>4, <3>5
  <2> QED
    BY <2>1, <2>2
<1>3. ASSUME TypeOK, Inv
      PROVE  NeverStranded
  <2>1. Places
    BY <1>3 DEF TypeOK
  <2>2. ASSUME Done("indexer") PROVE SomeoneActs
    BY <1>3, <2>1, <2>2, RootActs DEF Done, StopOK, SomeoneActs
  <2>3. ASSUME errors > 0 \/ handler = "halting" PROVE SomeoneActs
    BY <1>3, <2>1, <2>3, ErrorActs
  <2>4. ASSUME trouble PROVE SomeoneActs \/ Stuck
    <3>1. trouble = TRUE
      BY <2>4, <1>3 DEF TypeOK, Flags
    <3>2. CASE "root" \in cancelled
      BY <1>3, <2>1, <3>2, RootActs
    <3>3. CASE start = "giving up"
      BY <1>3, <2>1, <3>3, StartOrFetchers
    <3>4. CASE stop # "no"
      BY <3>4 DEF SomeoneActs
    <3>5. CASE errors > 0
      BY <2>3, <3>5
    <3>6. ASSUME NEW l \in Loops, loop[l] \in {"failed", "stopped"} PROVE SomeoneActs \/ Stuck
      <4>1. CASE loop[l] = "failed"
        BY <4>1 DEF SomeoneActs
      <4>2. CASE loop[l] = "stopped"
        BY <1>3, <2>1, <4>2, StoppedLoopActs
      <4> QED
        BY <3>6, <4>1, <4>2
    <3> QED
      BY <1>3, <3>1, <3>2, <3>3, <3>4, <3>5, <3>6 DEF CauseOK
  <2> QED
    BY <2>2, <2>3, <2>4 DEF NeverStranded
<1>4. TypeOK /\ Inv => NeverStranded
  BY <1>3
<1> QED
  BY <1>1, <1>2, <1>4, TypeCorrect, PTL DEF Spec
=============================================================================
