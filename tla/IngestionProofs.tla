--------------------------- MODULE IngestionProofs ---------------------------
(***************************************************************************)
(* Theorems of Ingestion, for any keys, confirmations and chain.           *)
(***************************************************************************)
EXTENDS Ingestion, TLAPS

(* The conditions under which no log is lost: no call of the backfill or   *)
(* of the processor fails, and no log is mined while its key subscribes.   *)
NothingLost == Faults \subseteq {"subscribe"} /\ QuietStart

(***************************************************************************)
(* Type correctness, whatever fails.                                       *)
(***************************************************************************)
LEMMA TypeStep == TypeOK /\ [Next]_vars => TypeOK'
<1> SUFFICES ASSUME TypeOK, [Next]_vars PROVE TypeOK'
  OBVIOUS
<1> USE ConstantsAssumption
<1>1. CASE Mine
  BY <1>1 DEF Mine, TypeOK, OfKey, Selected, Log, starting, filling, processor
<1>2. CASE Start
  BY <1>2 DEF Start, TypeOK, OfKey, chain, filling, processor
<1>3. CASE StartProcessor
  BY <1>3 DEF StartProcessor, TypeOK, OfKey, chain, reading, filling, processor
<1>4. CASE Exit \/ Crash
  <2>1. Down
    BY <1>4 DEF Exit, Crash
  <2>2. /\ head' \in Nat /\ logs' \subseteq Log /\ events' \subseteq Log
        /\ phase' \in {"down", "backfill", "running"} /\ runs' \in Nat /\ current' \in Nat
    BY <2>1 DEF Down, TypeOK, chain
  <2>3. /\ sub' \in [Keys -> {"none", "starting", "live", "ended"}]
        /\ pending' \in [Keys -> SUBSET Log] /\ \A k \in Keys : pending'[k] = {}
        /\ fill' \in [Keys -> {"idle", "ranged", "done", "failed"}] /\ from' \in [Keys -> Nat]
    BY <2>1 DEF Down
  <2>4. /\ queue' = {} /\ held' = {} /\ pc' = "poll"
        /\ epErr' = FALSE /\ epLive' = TRUE /\ ingErr' = FALSE
    BY <2>1 DEF Down
  <2> QED
    BY <2>2, <2>3, <2>4 DEF TypeOK
<1>5. ASSUME NEW k \in Keys, Subscribe(k) PROVE TypeOK'
  BY <1>5 DEF Subscribe, TypeOK, OfKey, chain, starting, filling, processor
<1>6. ASSUME NEW k \in Keys, SubscriptionFails(k) PROVE TypeOK'
  BY <1>6 DEF SubscriptionFails, TypeOK, OfKey, chain, starting, filling, processor
<1>7. ASSUME NEW k \in Keys, ReceiveLog(k) PROVE TypeOK'
  BY <1>7 DEF ReceiveLog, TypeOK, OfKey, chain, starting, filling, processor
<1>8. ASSUME NEW k \in Keys, ReadLastIndexed(k) PROVE TypeOK'
  BY <1>8 DEF ReadLastIndexed, TypeOK, OfKey, chain, starting, reading, processor
<1>9. ASSUME NEW k \in Keys, Backfill(k) PROVE TypeOK'
  BY <1>9 DEF Backfill, Missed, Selected, TypeOK, OfKey, chain, starting, reading, processor
<1>10. ASSUME NEW k \in Keys, BackfillFails(k) PROVE TypeOK'
  BY <1>10 DEF BackfillFails, TypeOK, OfKey, chain, starting, reading, processor
<1>11. CASE TakeEvent
  BY <1>11 DEF TakeEvent, First, TypeOK, chain, starting, reading, filling
<1>12. CASE CheckConfirmed \/ PutBack
  BY <1>12 DEF CheckConfirmed, PutBack, TypeOK, chain, starting, reading, filling
<1>13. CASE WriteEvent
  BY <1>13 DEF WriteEvent, Written, TypeOK, chain, starting, reading, filling
<1>14. CASE ProcessorFails
  BY <1>14 DEF ProcessorFails, Written, TypeOK, chain, starting, reading, filling
<1>15. CASE StopProcessor
  BY <1>15 DEF StopProcessor, TypeOK, chain, starting, reading, filling
<1>16. CASE UNCHANGED vars
  BY <1>16 DEF vars, TypeOK, OfKey, chain, starting, reading, filling, processor
<1> QED
  BY <1>1, <1>2, <1>3, <1>4, <1>5, <1>6, <1>7, <1>8, <1>9, <1>10, <1>11, <1>12,
     <1>13, <1>14, <1>15, <1>16 DEF Next, ProcessorNext

LEMMA TypeInit == Init => TypeOK
<1> SUFFICES ASSUME Init PROVE TypeOK
  OBVIOUS
<1>1. head \in Nat /\ logs \subseteq Log /\ events \subseteq Log /\ runs \in Nat /\ current \in Nat
  BY DEF Init
<1>2. sub \in [Keys -> {"none", "starting", "live", "ended"}] /\ phase \in {"down", "backfill", "running"}
  BY DEF Init
<1>3. pending \in [Keys -> SUBSET Log] /\ \A k \in Keys : \A l \in pending[k] : l.key = k
  BY DEF Init
<1>4. fill \in [Keys -> {"idle", "ranged", "done", "failed"}] /\ from \in [Keys -> Nat]
  BY ConstantsAssumption DEF Init
<1>5. queue \subseteq Log /\ held \subseteq Log /\ pc \in {"poll", "check", "write"}
  BY DEF Init
<1>6. epErr \in BOOLEAN /\ epLive \in BOOLEAN /\ ingErr \in BOOLEAN
  BY DEF Init
<1> QED
  BY <1>1, <1>2, <1>3, <1>4, <1>5, <1>6 DEF TypeOK

(* Every reachable state of the ingestion is well typed and a subscription *)
(* carries only logs of its key, under any faults.                         *)
THEOREM TypeCorrect == Spec => []TypeOK
BY TypeInit, TypeStep, PTL DEF Spec

(***************************************************************************)
(* Confirmations, whatever fails: the height only grows after the check.   *)
(***************************************************************************)
DeepInv == RowsAreDeep /\ (pc = "write" => \A l \in held : Deep(l))

LEMMA DeepStep == TypeOK /\ DeepInv /\ [Next]_vars => DeepInv'
<1> SUFFICES ASSUME TypeOK, DeepInv, [Next]_vars PROVE DeepInv'
  OBVIOUS
<1> USE ConstantsAssumption
<1>0. \A l \in Log : l.block \in Nat
  BY DEF Log
<1>1. CASE Mine
  <2>1. head' = head + 1 /\ head \in Nat /\ UNCHANGED <<events, held, pc>>
    BY <1>1 DEF Mine, TypeOK, processor
  <2>2. \A l \in events \cup held : l.block \in Nat
    BY <1>0 DEF TypeOK
  <2> QED
    BY <2>1, <2>2 DEF DeepInv, RowsAreDeep, Deep
<1>2. CASE CheckConfirmed
  BY <1>2 DEF CheckConfirmed, DeepInv, RowsAreDeep, Deep, chain
<1>3. CASE TakeEvent \/ PutBack \/ StopProcessor
  BY <1>3 DEF TakeEvent, PutBack, StopProcessor, DeepInv, RowsAreDeep, Deep, chain
<1>4. CASE WriteEvent \/ ProcessorFails
  <2>1. \A l \in events' : l \in events \/ (l \in held /\ pc = "write")
    BY <1>4 DEF WriteEvent, ProcessorFails, Written
  <2>2. head' = head /\ pc' = "poll"
    BY <1>4 DEF WriteEvent, ProcessorFails, chain
  <2> QED
    BY <2>1, <2>2 DEF DeepInv, RowsAreDeep, Deep
<1>5. CASE Exit \/ Crash
  BY <1>5 DEF Exit, Crash, Down, DeepInv, RowsAreDeep, Deep, chain
<1>6. CASE UNCHANGED <<head, events, held, pc>>
  BY <1>6 DEF DeepInv, RowsAreDeep, Deep
<1>7. ASSUME NEW k \in Keys,
             \/ Subscribe(k) \/ SubscriptionFails(k) \/ ReceiveLog(k)
             \/ ReadLastIndexed(k) \/ Backfill(k) \/ BackfillFails(k)
      PROVE UNCHANGED <<head, events, held, pc>>
  BY <1>7 DEF Subscribe, SubscriptionFails, ReceiveLog, ReadLastIndexed, Backfill, BackfillFails,
              chain, processor
<1>8. CASE Start \/ StartProcessor
  BY <1>8, <1>6 DEF Start, StartProcessor, chain, processor
<1> QED
  BY <1>1, <1>2, <1>3, <1>4, <1>5, <1>6, <1>7, <1>8 DEF Next, ProcessorNext, vars, chain, processor

(* No row is written before requiredConfirmations blocks are on top of its *)
(* own, in any interleaving and whatever fails (event-processor.go:110).   *)
THEOREM RowsDeep == Spec => []RowsAreDeep
<1>1. Init => DeepInv
  BY DEF Init, DeepInv, RowsAreDeep
<1>2. DeepInv => RowsAreDeep
  BY DEF DeepInv
<1> QED
  BY <1>1, <1>2, TypeCorrect, DeepStep, PTL DEF Spec

(***************************************************************************)
(* No log is lost while only subscriptions fail and starts are quiet.      *)
(***************************************************************************)
LEMMA Asymmetry ==
  ASSUME NEW a \in Log, NEW b \in Log, Before(a, b) PROVE ~Before(b, a) /\ a # b
<1> a.block \in Nat /\ b.block \in Nat /\ a.idx \in Nat /\ b.idx \in Nat
  BY ConstantsAssumption DEF Log
<1> QED
  BY DEF Before

LEMMA Totality ==
  ASSUME TypeOK, ChainOK, NEW a \in logs, NEW b \in logs
  PROVE a = b \/ Before(a, b) \/ Before(b, a)
<1> a.block \in Nat /\ b.block \in Nat /\ a.idx \in Nat /\ b.idx \in Nat
  BY ConstantsAssumption DEF TypeOK, Log
<1> QED
  BY DEF Before, ChainOK

LEMMA MineStep == ASSUME NothingLost, IInv, TypeOK', Mine PROVE IInv'
<1>1. ChainOK'
  BY DEF IInv, TypeOK, ChainOK, Mine, Carried, Log, OfKey, Selected, starting, filling, processor
<1>2. PhaseOK'
  BY DEF IInv, TypeOK, PhaseOK, Mine, starting, filling, processor
<1>3. RowsClosed'
  BY DEF IInv, TypeOK, ChainOK, RowsClosed, Before, Mine, Log, OfKey, Carried
<1>4. FillOK'
  BY DEF IInv, TypeOK, ChainOK, PhaseOK, FillOK, Mine, Log, OfKey, Carried, starting, filling, processor
<1>5. SubOK'
  BY DEF IInv, TypeOK, ChainOK, PhaseOK, SubOK, NothingLost, Mine, Log, OfKey, Carried, Selected, starting, filling, processor
<1>6. OrderOK'
  BY DEF IInv, TypeOK, ChainOK, OrderOK, SubOK, Before, Mine, Log, OfKey, Carried, Selected, starting, filling, processor
<1> QED
  BY <1>1, <1>2, <1>3, <1>4, <1>5, <1>6 DEF IInv

LEMMA StartStep == ASSUME NothingLost, IInv, TypeOK', Start PROVE IInv'
<1>1. ChainOK'
  BY DEF IInv, TypeOK, ChainOK, Carried, OfKey, Start, chain, starting, reading, filling, processor
<1>2. PhaseOK'
  BY DEF IInv, TypeOK, PhaseOK, OfKey, Start, chain, starting, reading, filling, processor
<1>3. RowsClosed'
  BY DEF IInv, TypeOK, RowsClosed, OfKey, Start, chain, starting, reading, filling, processor
<1>4. FillOK'
  BY DEF IInv, TypeOK, FillOK, PhaseOK, OfKey, Start, chain, starting, reading, filling, processor
<1>5. SubOK'
  BY DEF IInv, TypeOK, ChainOK, SubOK, PhaseOK, Carried, Log, OfKey, Start, chain, starting, reading, filling, processor
<1>6. OrderOK'
  BY DEF IInv, TypeOK, OrderOK, PhaseOK, SubOK, Carried, OfKey, Start, chain, starting, reading, filling, processor
<1> QED
  BY <1>1, <1>2, <1>3, <1>4, <1>5, <1>6 DEF IInv

LEMMA StartProcessorStep == ASSUME NothingLost, IInv, TypeOK', StartProcessor PROVE IInv'
<1>1. ChainOK'
  BY DEF IInv, TypeOK, ChainOK, Carried, OfKey, StartProcessor, chain, starting, reading, filling, processor
<1>2. PhaseOK'
  BY DEF IInv, TypeOK, PhaseOK, OfKey, StartProcessor, chain, starting, reading, filling, processor
<1>3. RowsClosed'
  BY DEF IInv, TypeOK, RowsClosed, OfKey, StartProcessor, chain, starting, reading, filling, processor
<1>4. FillOK'
  BY DEF IInv, TypeOK, FillOK, PhaseOK, OfKey, StartProcessor, chain, starting, reading, filling, processor
<1>5. SubOK'
  BY DEF IInv, TypeOK, SubOK, PhaseOK, Carried, OfKey, StartProcessor, chain, starting, reading, filling, processor
<1>6. OrderOK'
  BY DEF IInv, TypeOK, OrderOK, PhaseOK, SubOK, Carried, OfKey, StartProcessor, chain, starting, reading, filling, processor
<1> QED
  BY <1>1, <1>2, <1>3, <1>4, <1>5, <1>6 DEF IInv

LEMMA DownStep == ASSUME NothingLost, IInv, TypeOK', Exit \/ Crash PROVE IInv'
<1>1. ChainOK'
  BY DEF IInv, TypeOK, ChainOK, Carried, OfKey, Exit, Crash, Down, chain, starting, reading, filling, processor
<1>2. PhaseOK'
  BY DEF IInv, TypeOK, PhaseOK, OfKey, Exit, Crash, Down, chain, starting, reading, filling, processor
<1>3. RowsClosed'
  BY DEF IInv, TypeOK, RowsClosed, OfKey, Exit, Crash, Down, chain, starting, reading, filling, processor
<1>4. FillOK'
  BY DEF IInv, TypeOK, FillOK, PhaseOK, OfKey, Exit, Crash, Down, chain, starting, reading, filling, processor
<1>5. SubOK'
  BY DEF IInv, TypeOK, SubOK, PhaseOK, Carried, OfKey, Exit, Crash, Down, chain, starting, reading, filling, processor
<1>6. OrderOK'
  BY DEF IInv, TypeOK, OrderOK, PhaseOK, SubOK, Carried, OfKey, Exit, Crash, Down, chain, starting, reading, filling, processor
<1> QED
  BY <1>1, <1>2, <1>3, <1>4, <1>5, <1>6 DEF IInv

LEMMA SubscribeStep == ASSUME NothingLost, IInv, TypeOK', NEW k \in Keys, Subscribe(k) PROVE IInv'
<1>1. ChainOK'
  BY DEF IInv, TypeOK, ChainOK, Carried, OfKey, Subscribe, chain, starting, reading, filling, processor
<1>2. PhaseOK'
  BY DEF IInv, TypeOK, PhaseOK, OfKey, Subscribe, chain, starting, reading, filling, processor
<1>3. RowsClosed'
  BY DEF IInv, TypeOK, RowsClosed, OfKey, Subscribe, chain, starting, reading, filling, processor
<1>4. FillOK'
  BY DEF IInv, TypeOK, FillOK, PhaseOK, OfKey, Subscribe, chain, starting, reading, filling, processor
<1>5. SubOK'
  BY DEF IInv, TypeOK, SubOK, PhaseOK, Carried, OfKey, Subscribe, chain, starting, reading, filling, processor
<1>6. OrderOK'
  BY DEF IInv, TypeOK, OrderOK, PhaseOK, SubOK, Carried, OfKey, Subscribe, chain, starting, reading, filling, processor
<1> QED
  BY <1>1, <1>2, <1>3, <1>4, <1>5, <1>6 DEF IInv

LEMMA SubscriptionFailsStep == ASSUME NothingLost, IInv, TypeOK', NEW k \in Keys, SubscriptionFails(k) PROVE IInv'
<1>1. ChainOK'
  BY DEF IInv, TypeOK, ChainOK, Carried, OfKey, SubscriptionFails, chain, starting, reading, filling, processor
<1>2. PhaseOK'
  BY DEF IInv, TypeOK, PhaseOK, OfKey, SubscriptionFails, chain, starting, reading, filling, processor
<1>3. RowsClosed'
  BY DEF IInv, TypeOK, RowsClosed, OfKey, SubscriptionFails, chain, starting, reading, filling, processor
<1>4. FillOK'
  BY DEF IInv, TypeOK, FillOK, PhaseOK, OfKey, SubscriptionFails, chain, starting, reading, filling, processor
<1>5. SubOK'
  BY DEF IInv, TypeOK, SubOK, PhaseOK, Carried, OfKey, SubscriptionFails, chain, starting, reading, filling, processor
<1>6. OrderOK'
  <2>1. UNCHANGED <<events, logs, queue, held, current>>
    BY DEF SubscriptionFails, chain, starting, processor
  <2>2. pending'[k] = {} /\ \A j \in Keys \ {k} : pending'[j] = pending[j]
    BY DEF SubscriptionFails, IInv, TypeOK
  <2>3. ASSUME NEW x \in OfKey(k, queue \cup held), NEW l \in OfKey(k, logs),
               l.block > current, Before(l, x)
        PROVE l \in events \cup queue \cup held
    <3>1. l \in Carried(k)
      BY <2>3 DEF IInv, OrderOK, OfKey
    <3>2. l \in pending[k] => Before(x, l)
      BY DEF IInv, OrderOK
    <3>3. x \in Log /\ l \in Log
      BY DEF IInv, TypeOK, OfKey
    <3> QED
      BY <2>3, <3>1, <3>2, <3>3, Asymmetry DEF Carried
  <2>4. OrderOK
    BY DEF IInv
  <2> QED
    BY <2>1, <2>2, <2>3, <2>4 DEF OrderOK, OfKey, Carried
<1> QED
  BY <1>1, <1>2, <1>3, <1>4, <1>5, <1>6 DEF IInv

LEMMA ReceiveLogStep == ASSUME NothingLost, IInv, TypeOK', NEW k \in Keys, ReceiveLog(k) PROVE IInv'
<1>1. ChainOK'
  BY DEF IInv, TypeOK, ChainOK, Carried, OfKey, ReceiveLog, First, chain, starting, reading, filling, processor
<1>2. PhaseOK'
  BY DEF IInv, TypeOK, PhaseOK, OfKey, ReceiveLog, First, chain, starting, reading, filling, processor
<1>3. RowsClosed'
  BY DEF IInv, TypeOK, RowsClosed, OfKey, ReceiveLog, First, chain, starting, reading, filling, processor
<1>4. FillOK'
  BY DEF IInv, TypeOK, FillOK, PhaseOK, OfKey, ReceiveLog, First, chain, starting, reading, filling, processor
<1>5. SubOK'
  BY DEF IInv, TypeOK, SubOK, PhaseOK, Carried, OfKey, ReceiveLog, First, chain, starting, reading, filling, processor
<1>6. OrderOK'
  <2>1. PICK l \in pending[k] : /\ First(l, pending[k])
                               /\ pending' = [pending EXCEPT ![k] = @ \ {l}]
                               /\ queue' = queue \cup {l}
    BY DEF ReceiveLog
  <2>2. UNCHANGED <<events, logs, held, current>>
    BY DEF ReceiveLog, chain, starting, processor
  <2>3. pending'[k] = pending[k] \ {l} /\ \A j \in Keys \ {k} : pending'[j] = pending[j]
    BY <2>1 DEF IInv, TypeOK
  <2>4. l.key = k
    BY DEF IInv, TypeOK
  <2>5. \A p \in pending'[k] : Before(l, p)
    BY <2>1, <2>3, Totality DEF First, IInv, ChainOK, Carried
  <2>6. OrderOK
    BY DEF IInv
  <2>7. \A a, b \in held' : a = b
    BY <2>2, <2>6 DEF OrderOK
  <2>8. ASSUME NEW j \in Keys, NEW x \in OfKey(j, queue' \cup held'), NEW p \in pending'[j]
        PROVE Before(x, p)
    BY <2>1, <2>2, <2>3, <2>4, <2>5, <2>6 DEF OrderOK, OfKey
  <2>9. ASSUME NEW j \in Keys, NEW h \in OfKey(j, held'), NEW x \in OfKey(j, queue')
        PROVE Before(h, x)
    BY <2>1, <2>2, <2>4, <2>6 DEF OrderOK, OfKey
  <2>10. ASSUME NEW j \in Keys, NEW x \in OfKey(j, queue' \cup held' \cup pending'[j]),
                NEW m \in OfKey(j, logs'), m.block > current', Before(m, x)
         PROVE m \in Carried(j)'
    <3>1. x \in OfKey(j, queue \cup held \cup pending[j])
      BY <2>1, <2>2, <2>3, <2>4 DEF OfKey
    <3>2. m \in Carried(j)
      BY <2>2, <2>6, <2>10, <3>1 DEF OrderOK
    <3> QED
      BY <2>1, <2>2, <2>3, <3>2 DEF Carried
  <2> QED
    BY <2>7, <2>8, <2>9, <2>10 DEF OrderOK
<1> QED
  BY <1>1, <1>2, <1>3, <1>4, <1>5, <1>6 DEF IInv

LEMMA ReadLastIndexedStep == ASSUME NothingLost, IInv, TypeOK', NEW k \in Keys, ReadLastIndexed(k) PROVE IInv'
<1>1. ChainOK'
  BY DEF IInv, TypeOK, ChainOK, Carried, OfKey, ReadLastIndexed, ResumeFrom, Before, chain, starting, reading, filling, processor
<1>2. PhaseOK'
  BY DEF IInv, TypeOK, PhaseOK, OfKey, ReadLastIndexed, ResumeFrom, chain, starting, reading, filling, processor
<1>3. RowsClosed'
  BY DEF IInv, TypeOK, RowsClosed, OfKey, ReadLastIndexed, ResumeFrom, Before, chain, starting, reading, filling, processor
<1>4. FillOK'
  BY DEF IInv, TypeOK, ChainOK, Carried, Log, RowsClosed, FillOK, PhaseOK, OfKey, ReadLastIndexed, ResumeFrom, Before, chain, starting, reading, filling, processor
<1>5. SubOK'
  BY DEF IInv, TypeOK, SubOK, PhaseOK, Carried, OfKey, ReadLastIndexed, ResumeFrom, Before, chain, starting, reading, filling, processor
<1>6. OrderOK'
  BY DEF IInv, TypeOK, OrderOK, PhaseOK, SubOK, Carried, OfKey, ReadLastIndexed, ResumeFrom, Before, chain, starting, reading, filling, processor
<1> QED
  BY <1>1, <1>2, <1>3, <1>4, <1>5, <1>6 DEF IInv

LEMMA BackfillStep == ASSUME NothingLost, IInv, TypeOK', NEW k \in Keys, Backfill(k) PROVE IInv'
<1>1. ChainOK'
  BY DEF IInv, TypeOK, ChainOK, Carried, OfKey, Backfill, Missed, Selected, Before, chain, starting, reading, filling, processor
<1>2. PhaseOK'
  BY DEF IInv, TypeOK, PhaseOK, OfKey, Backfill, Missed, Selected, Before, chain, starting, reading, filling, processor
<1>3. RowsClosed'
  BY DEF IInv, TypeOK, RowsClosed, OfKey, Backfill, Missed, Selected, Before, chain, starting, reading, filling, processor
<1>4. FillOK'
  BY DEF IInv, TypeOK, ChainOK, Log, FillOK, PhaseOK, OfKey, Backfill, Missed, Selected, chain, starting, reading, filling, processor
<1>5. SubOK'
  BY DEF IInv, TypeOK, SubOK, PhaseOK, Carried, OfKey, Backfill, Missed, Selected, Before, chain, starting, reading, filling, processor
<1>6. OrderOK'
  BY DEF IInv, TypeOK, ChainOK, Log, OrderOK, PhaseOK, SubOK, Carried, OfKey, Backfill, Missed, Selected, Before, chain, starting, reading, filling, processor
<1> QED
  BY <1>1, <1>2, <1>3, <1>4, <1>5, <1>6 DEF IInv

LEMMA TakeEventStep == ASSUME NothingLost, IInv, TypeOK', TakeEvent PROVE IInv'
<1>1. ChainOK'
  BY DEF IInv, TypeOK, ChainOK, Carried, OfKey, TakeEvent, First, chain, starting, reading, filling, processor
<1>2. PhaseOK'
  BY DEF IInv, TypeOK, PhaseOK, OfKey, TakeEvent, First, chain, starting, reading, filling, processor
<1>3. RowsClosed'
  BY DEF IInv, TypeOK, RowsClosed, OfKey, TakeEvent, First, chain, starting, reading, filling, processor
<1>4. FillOK'
  BY DEF IInv, TypeOK, FillOK, PhaseOK, OfKey, TakeEvent, First, chain, starting, reading, filling, processor
<1>5. SubOK'
  BY DEF IInv, TypeOK, SubOK, PhaseOK, Carried, OfKey, TakeEvent, First, chain, starting, reading, filling, processor
<1>6. OrderOK'
  <2>1. PICK l \in queue : First(l, queue) /\ held' = {l} /\ queue' = queue \ {l}
    BY DEF TakeEvent
  <2>2. UNCHANGED <<events, logs, pending, current>> /\ held = {}
    BY DEF TakeEvent, chain, starting, reading, IInv, PhaseOK
  <2>3. \A x \in queue' : Before(l, x)
    <3>1. queue \subseteq logs
      BY DEF IInv, ChainOK, Carried, TypeOK, Log
    <3>2. TypeOK /\ ChainOK
      BY DEF IInv
    <3> QED
      BY <2>1, <3>1, <3>2, Totality DEF First
  <2>4. \A j \in Keys : Carried(j)' = Carried(j)
    BY <2>1, <2>2 DEF Carried
  <2>5. queue' \cup held' = queue \cup held
    BY <2>1, <2>2
  <2>6. OrderOK
    BY DEF IInv
  <2>7. \A j \in Keys : \A x \in OfKey(j, queue' \cup held') : \A p \in pending'[j] : Before(x, p)
    BY <2>2, <2>5, <2>6 DEF OrderOK
  <2>8. \A j \in Keys : \A h \in OfKey(j, held') : \A x \in OfKey(j, queue') : Before(h, x)
    BY <2>1, <2>3 DEF OfKey
  <2>9. \A j \in Keys : \A x \in OfKey(j, queue' \cup held' \cup pending'[j]) : \A m \in OfKey(j, logs') :
          m.block > current' /\ Before(m, x) => m \in Carried(j)'
    BY <2>2, <2>4, <2>5, <2>6 DEF OrderOK
  <2> QED
    BY <2>1, <2>7, <2>8, <2>9 DEF OrderOK
<1> QED
  BY <1>1, <1>2, <1>3, <1>4, <1>5, <1>6 DEF IInv

LEMMA CheckStep == ASSUME NothingLost, IInv, TypeOK', CheckConfirmed PROVE IInv'
<1>1. ChainOK'
  BY DEF IInv, TypeOK, ChainOK, Carried, OfKey, CheckConfirmed, chain, starting, reading, filling, processor
<1>2. PhaseOK'
  BY DEF IInv, TypeOK, PhaseOK, OfKey, CheckConfirmed, chain, starting, reading, filling, processor
<1>3. RowsClosed'
  BY DEF IInv, TypeOK, RowsClosed, OfKey, CheckConfirmed, chain, starting, reading, filling, processor
<1>4. FillOK'
  BY DEF IInv, TypeOK, FillOK, PhaseOK, OfKey, CheckConfirmed, chain, starting, reading, filling, processor
<1>5. SubOK'
  BY DEF IInv, TypeOK, SubOK, PhaseOK, Carried, OfKey, CheckConfirmed, chain, starting, reading, filling, processor
<1>6. OrderOK'
  BY DEF IInv, TypeOK, OrderOK, PhaseOK, SubOK, Carried, OfKey, CheckConfirmed, chain, starting, reading, filling, processor
<1> QED
  BY <1>1, <1>2, <1>3, <1>4, <1>5, <1>6 DEF IInv

LEMMA PutBackStep == ASSUME NothingLost, IInv, TypeOK', PutBack PROVE IInv'
<1>1. ChainOK'
  BY DEF IInv, TypeOK, ChainOK, Carried, OfKey, PutBack, chain, starting, reading, filling, processor
<1>2. PhaseOK'
  BY DEF IInv, TypeOK, PhaseOK, OfKey, PutBack, chain, starting, reading, filling, processor
<1>3. RowsClosed'
  BY DEF IInv, TypeOK, RowsClosed, OfKey, PutBack, chain, starting, reading, filling, processor
<1>4. FillOK'
  BY DEF IInv, TypeOK, FillOK, PhaseOK, OfKey, PutBack, chain, starting, reading, filling, processor
<1>5. SubOK'
  BY DEF IInv, TypeOK, SubOK, PhaseOK, Carried, OfKey, PutBack, chain, starting, reading, filling, processor
<1>6. OrderOK'
  BY DEF IInv, TypeOK, OrderOK, PhaseOK, SubOK, Carried, OfKey, PutBack, chain, starting, reading, filling, processor
<1> QED
  BY <1>1, <1>2, <1>3, <1>4, <1>5, <1>6 DEF IInv

LEMMA WriteEventStep == ASSUME NothingLost, IInv, TypeOK', WriteEvent PROVE IInv'
<1>1. PICK h \in held : events' = Written(h) /\ held' = {} /\ pc' = "poll"
  BY DEF WriteEvent
<1>2. held = {h} /\ h \in logs /\ \A k \in Keys : fill[k] = "done"
  BY <1>1 DEF IInv, OrderOK, ChainOK, PhaseOK, Carried, WriteEvent, TypeOK, Log
<1>3. events' = events \cup {h}
  <2>1. \A e \in events : e.block = h.block /\ e.idx = h.idx => e = h
    BY <1>2 DEF IInv, ChainOK, Carried, TypeOK, Log
  <2> QED
    BY <1>1, <2>1 DEF Written
<1>4. UNCHANGED <<head, logs, phase, current, sub, pending, fill, from, queue, epErr, epLive, ingErr>>
  BY DEF WriteEvent, chain, starting, reading, filling
<1>5. \A k \in Keys : Carried(k)' = Carried(k)
  BY <1>1, <1>2, <1>3, <1>4 DEF Carried
<1>6. ChainOK'
  BY <1>4, <1>5 DEF IInv, ChainOK
<1>7. PhaseOK'
  BY <1>1, <1>4 DEF IInv, PhaseOK
<1>8. RowsClosed'
  <2>1. ASSUME NEW l \in OfKey(h.key, logs), StartBlock <= l.block, Before(l, h)
        PROVE l \in events
    <3>1. h \in Log /\ l \in Log /\ h.key \in Keys
      BY <1>2 DEF IInv, TypeOK, OfKey, Log
    <3>2. l \in Carried(h.key)
      <4>1. CASE l.block <= current
        BY <1>2, <2>1, <3>1, <4>1 DEF IInv, FillOK, Carried
      <4>2. CASE l.block > current
        BY <1>2, <2>1, <3>1, <4>2 DEF IInv, OrderOK, OfKey
      <4> QED
        BY <3>1, <4>1, <4>2 DEF Log, IInv, TypeOK
    <3>3. l \notin held
      BY <1>2, <2>1, <3>1, Asymmetry
    <3>4. l \notin queue \cup pending[h.key]
      <4>1. l \in queue \cup pending[h.key] => Before(h, l)
        BY <1>2, <3>1 DEF IInv, OrderOK, OfKey
      <4> QED
        BY <2>1, <3>1, <4>1, Asymmetry
    <3> QED
      BY <3>2, <3>3, <3>4 DEF Carried
  <2> QED
    BY <1>3, <1>4, <2>1 DEF IInv, RowsClosed, OfKey
<1>9. FillOK'
  BY <1>1, <1>2, <1>3, <1>4 DEF IInv, FillOK
<1>10. SubOK'
  BY <1>4, <1>5 DEF IInv, SubOK
<1>11. OrderOK'
  <2>1. OrderOK
    BY DEF IInv
  <2> QED
    BY <1>1, <1>4, <1>5, <2>1 DEF OrderOK, OfKey
<1> QED
  BY <1>6, <1>7, <1>8, <1>9, <1>10, <1>11 DEF IInv

LEMMA OtherSteps ==
  ASSUME NothingLost, IInv,
         ProcessorFails \/ StopProcessor \/ \E k \in Keys : BackfillFails(k)
  PROVE FALSE
BY DEF NothingLost, IInv, PhaseOK, ProcessorFails, StopProcessor, BackfillFails, MayFail

LEMMA InvStep == ASSUME NothingLost, IInv, [Next]_vars PROVE IInv'
<1>1. TypeOK'
  BY TypeStep DEF IInv
<1>2. CASE UNCHANGED vars
  <2>1. UNCHANGED <<head, logs, events, phase, current, sub, pending, fill, from, queue,
                    held, pc, epErr, epLive, ingErr>>
    BY <1>2 DEF vars, chain, starting, reading, filling, processor
  <2> QED
    BY <1>1, <2>1 DEF IInv, ChainOK, PhaseOK, RowsClosed, FillOK, SubOK, OrderOK, Carried
<1> QED
  BY <1>1, <1>2, MineStep, StartStep, StartProcessorStep, DownStep, SubscribeStep,
     SubscriptionFailsStep, ReceiveLogStep, ReadLastIndexedStep, BackfillStep, TakeEventStep,
     CheckStep, PutBackStep, WriteEventStep, OtherSteps DEF Next, ProcessorNext

LEMMA InvInit == Init => IInv
<1> SUFFICES ASSUME Init PROVE IInv
  OBVIOUS
<1>1. TypeOK
  BY TypeInit
<1>2. ChainOK /\ PhaseOK /\ RowsClosed /\ FillOK /\ SubOK /\ OrderOK
  BY DEF Init, ChainOK, PhaseOK, RowsClosed, FillOK, SubOK, OrderOK, Carried, OfKey
<1> QED
  BY <1>1, <1>2 DEF IInv

LEMMA InvNoGap == IInv => NoGap
BY DEF IInv, TypeOK, RowsClosed, NoGap, Before, OfKey

LEMMA InvInFlight == IInv => InFlight
<1> SUFFICES ASSUME IInv, phase = "running", ~ingErr,
                    NEW k \in Keys, NEW l \in Missing(k), StartBlock <= l.block
             PROVE FALSE
  BY ConstantsAssumption DEF InFlight, Missing, OfKey, IInv, TypeOK, Log
<1>1. l \in OfKey(k, logs) /\ l \notin Carried(k) /\ l.block \in Nat /\ current \in Nat
  BY DEF Missing, Carried, OfKey, IInv, TypeOK, Log
<1>2. l.block > current
  BY <1>1 DEF IInv, PhaseOK, FillOK, Carried
<1>3. sub[k] = "live"
  BY <1>1, <1>2 DEF IInv, TypeOK, PhaseOK, SubOK
<1> QED
  BY <1>1, <1>2, <1>3 DEF IInv, SubOK

(* While only subscriptions may fail and no log is mined for a key that is *)
(* still to be subscribed, restarts and crashes at any point leave no gap  *)
(* below the newest row of a key: where the backfill resumes is sound.     *)
THEOREM NoGapTheorem == NothingLost => (Spec => []NoGap)
<1> SUFFICES ASSUME NothingLost PROVE Spec => []NoGap
  OBVIOUS
<1>1. IInv /\ [Next]_vars => IInv'
  BY InvStep
<1> QED
  BY <1>1, InvInit, InvNoGap, PTL DEF Spec

(* Under the same conditions a running process that has reported no error  *)
(* holds, or has written, every log since the start block.                 *)
THEOREM InFlightTheorem == NothingLost => (Spec => []InFlight)
<1> SUFFICES ASSUME NothingLost PROVE Spec => []InFlight
  OBVIOUS
<1>1. IInv /\ [Next]_vars => IInv'
  BY InvStep
<1> QED
  BY <1>1, InvInit, InvInFlight, PTL DEF Spec
=============================================================================
