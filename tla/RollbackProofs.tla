---------------------------- MODULE RollbackProofs ----------------------------
(***************************************************************************)
(* Theorems of Rollback, for any events, batch size, failures and number   *)
(* of reorganisations.                                                     *)
(***************************************************************************)
EXTENDS Rollback, LedgerProofs

(***************************************************************************)
(* Events are processed in order.                                          *)
(***************************************************************************)
SequencesOK == events \in Seq(Event) /\ again \in Seq(Event) /\ processed \subseteq DOMAIN events

OInv == SequencesOK /\ OrderOK

LEMMA RollbackOrderInit == RollbackInit => OInv
<1> SUFFICES ASSUME RollbackInit PROVE OInv
  OBVIOUS
<1>1. events = <<>> /\ again = <<>> /\ processed = {} /\ batch = {}
  BY DEF RollbackInit, Init
<1>2. processed = 1..0 /\ 0 \in Nat
  BY <1>1
<1> QED
  BY <1>1, <1>2 DEF OInv, SequencesOK, OrderOK

(* A row is added at the end of the table. *)
LEMMA AppendOrder ==
  ASSUME OInv, NEW e \in Event, events' = Append(events, e), UNCHANGED <<processed, batch>>,
         again' \in Seq(Event)
  PROVE  OInv'
<1>1. /\ events' \in Seq(Event) /\ DOMAIN events' = DOMAIN events \cup {Len(events) + 1}
      /\ \A i \in DOMAIN events : i \in Nat /\ i < Len(events) + 1
      /\ Len(events) \in Nat
  BY DEF OInv, SequencesOK
<1>2. SequencesOK'
  BY <1>1 DEF OInv, SequencesOK
<1>3. /\ batch \subseteq DOMAIN events /\ Unprocessed \subseteq Unprocessed'
      /\ Unprocessed' \subseteq Unprocessed \cup {Len(events) + 1}
  BY <1>1 DEF OInv, OrderOK, Unprocessed
<1>4. \A i \in batch, j \in Unprocessed' : j < i => j \in batch
  <2> SUFFICES ASSUME NEW i \in batch, NEW j \in Unprocessed', j < i PROVE j \in batch
    OBVIOUS
  <2>1. i \in Nat /\ i < Len(events) + 1 /\ Len(events) \in Nat
    BY <1>1, <1>3
  <2>2. j # Len(events) + 1
    BY <2>1
  <2> QED
    BY <2>2, <1>3 DEF OInv, OrderOK
<1>5. OrderOK'
  BY <1>3, <1>4 DEF OInv, OrderOK
<1> QED
  BY <1>2, <1>5 DEF OInv

LEMMA LastBlockType == events \in Seq(Event) => LastBlock \in Nat
<1> SUFFICES ASSUME events \in Seq(Event) PROVE LastBlock \in Nat
  OBVIOUS
<1>1. CASE events = <<>>
  BY <1>1 DEF LastBlock
<1>2. CASE events # <<>>
  <2>1. events[Len(events)] \in Event
    BY <1>2
  <2>2. events[Len(events)].block \in Nat
    BY <2>1 DEF Event
  <2> QED
    BY <1>2, <2>2 DEF LastBlock
<1> QED
  BY <1>1, <1>2

LEMMA NewEventAppends == OInv /\ NewEvent => \E e \in Event : events' = Append(events, e)
<1> SUFFICES ASSUME OInv, NewEvent PROVE \E e \in Event : events' = Append(events, e)
  OBVIOUS
<1>1. PICK b \in LastBlock..LastBlock + 2 : ArriveAt(b)
  BY DEF NewEvent
<1>2. b \in Nat
  BY <1>1, LastBlockType DEF OInv, SequencesOK
<1> QED
  BY <1>1, <1>2, VaultEvents DEF ArriveAt

LEMMA FetchAgainAppends ==
  OInv /\ FetchAgain => again' \in Seq(Event) /\ \E e \in Event : events' = Append(events, e)
<1> SUFFICES ASSUME OInv, FetchAgain
             PROVE  again' \in Seq(Event) /\ \E e \in Event : events' = Append(events, e)
  OBVIOUS
<1>1. again \in Seq(Event) /\ again # <<>> /\ again' = Tail(again) /\ events' = Append(events, Head(again))
  BY DEF OInv, SequencesOK, FetchAgain
<1>2. Head(again) \in Event /\ Tail(again) \in Seq(Event)
  BY <1>1
<1> QED
  BY <1>1, <1>2

(* The rows that the cleanup leaves are the first ones. *)
LEMMA CleanupOrder == OInv /\ HandleReorg => OInv'
<1> SUFFICES ASSUME OInv, HandleReorg PROVE OInv'
  OBVIOUS
<1>1. PICK n, m \in 0..Len(events) :
        /\ events' = SubSeq(events, 1, n) /\ processed' = processed \cap 1..n
        /\ again' = SubSeq(events, n + 1, m)
  BY DEF HandleReorg, CleanUp, DeleteEvents
<1>2. batch' = {}
  BY DEF HandleReorg
<1>3. events \in Seq(Event) /\ Len(events) \in Nat /\ n \in Nat /\ m \in Nat
      /\ n <= Len(events) /\ m <= Len(events)
  BY <1>1 DEF OInv, SequencesOK
<1>4. events' \in Seq(Event) /\ Len(events') = n /\ again' \in Seq(Event)
  BY <1>1, <1>3
<1>5. SequencesOK'
  BY <1>1, <1>4 DEF SequencesOK
<1>6. PICK k \in Nat : processed = 1..k
  BY DEF OInv, OrderOK
<1>7. processed' = 1..(IF k <= n THEN k ELSE n)
  BY <1>1, <1>3, <1>6
<1>8. \E l \in Nat : processed' = 1..l
  BY <1>3, <1>6, <1>7
<1>9. OrderOK'
  BY <1>2, <1>8 DEF OrderOK
<1> QED
  BY <1>5, <1>9 DEF OInv

(* What a step of the loop does to the table events and to the batch. *)
LEMMA LoopSteps ==
  ASSUME Loop
  PROVE  /\ events' = events
         /\ \/ processed' = processed /\ batch' \in {batch, {}, Selection(Unprocessed)}
            \/ /\ processed' = processed
               /\ \E i \in Unprocessed : batch' = {j \in Unprocessed : j < i}
            \/ \E i \in First(batch) :
                 processed' = processed \cup {i} /\ batch' \in {batch \ {i}, {}}
<1>1. CASE ReadBatch
  BY <1>1 DEF ReadBatch, tables
<1>2. CASE QueryFails \/ PoisonFails
  BY <1>2 DEF QueryFails, PoisonFails, HandleError, tables
<1>3. CASE Process
  <2>1. PICK i \in First(batch) : Commit(i) /\ batch' = batch \ {i}
    BY <1>3 DEF Process
  <2> QED
    BY <2>1 DEF Commit
<1>4. CASE CallFails
  <2>1. PICK i \in First(batch) : UNCHANGED tables \/ Commit(i)
    BY <1>4 DEF CallFails
  <2>2. batch' = {}
    BY <1>4 DEF CallFails, HandleError
  <2> QED
    BY <2>1, <2>2 DEF Commit, tables
<1>5. CASE Crash \/ Restart
  BY <1>5 DEF Crash, Restart, tables
<1>6. CASE ReadBreaksOff
  <2>1. Selection(Unprocessed) \subseteq Unprocessed
    BY DEF Selection
  <2> QED
    BY <1>6, <2>1 DEF ReadBreaksOff, HandleError, tables
<1> QED
  BY <1>1, <1>2, <1>3, <1>4, <1>5, <1>6 DEF Loop

LEMMA LoopOrder == OInv /\ Loop /\ again' = again => OInv'
<1> SUFFICES ASSUME OInv, Loop, again' = again PROVE OInv'
  OBVIOUS
<1>1. events' = events /\ events \in Seq(Event) /\ DOMAIN events = 1..Len(events) /\ Len(events) \in Nat
  BY LoopSteps DEF OInv, SequencesOK
<1>2. PICK n \in Nat : processed = 1..n
  BY DEF OInv, OrderOK
<1>3. Unprocessed \in SUBSET Nat /\ batch \subseteq Unprocessed
  BY <1>1 DEF Unprocessed, OInv, OrderOK
<1>4. CASE processed' = processed /\ batch' \in {batch, {}, Selection(Unprocessed)}
  <2>1. Unprocessed' = Unprocessed /\ SequencesOK'
    BY <1>1, <1>4 DEF Unprocessed, OInv, SequencesOK
  <2>2. Selection(Unprocessed) \subseteq Unprocessed
    BY DEF Selection
  <2>3. \A i \in Selection(Unprocessed), j \in Unprocessed : j < i => j \in Selection(Unprocessed)
    BY <1>3, SelectionClosed
  <2>4. OrderOK'
    BY <1>2, <1>3, <1>4, <2>1, <2>2, <2>3 DEF OInv, OrderOK
  <2> QED
    BY <2>1, <2>4 DEF OInv
<1>5. ASSUME NEW i \in First(batch), processed' = processed \cup {i}, batch' \in {batch \ {i}, {}}
      PROVE  OInv'
  <2>1. i \in batch /\ i \in DOMAIN events /\ i \notin processed /\ (\A j \in batch : i <= j)
    BY <1>3, <1>5 DEF First, Unprocessed
  <2>2. i \in Nat /\ n < i /\ n + 1 \in Unprocessed
    BY <1>1, <1>2, <2>1 DEF Unprocessed
  <2>3. n + 1 < i => n + 1 \in batch
    BY <2>1, <2>2 DEF OInv, OrderOK
  <2>4. i = n + 1
    BY <2>1, <2>2, <2>3
  <2>5. processed' = 1..(n + 1) /\ n + 1 \in Nat
    BY <1>2, <1>5, <2>4
  <2>6. Unprocessed' = Unprocessed \ {i}
    BY <1>1, <1>5 DEF Unprocessed
  <2>7. batch' \subseteq Unprocessed' /\ \A k \in batch', j \in Unprocessed' : j < k => j \in batch'
    <3>1. CASE batch' = {}
      BY <3>1
    <3>2. CASE batch' = batch \ {i}
      BY <3>2, <2>6 DEF OInv, OrderOK
    <3> QED
      BY <1>5, <3>1, <3>2
  <2>8. SequencesOK'
    BY <1>1, <1>5, <2>1 DEF OInv, SequencesOK
  <2> QED
    BY <2>5, <2>7, <2>8 DEF OInv, OrderOK
<1>6. ASSUME NEW i \in Unprocessed, processed' = processed, batch' = {j \in Unprocessed : j < i}
      PROVE  OInv'
  <2>1. Unprocessed' = Unprocessed /\ SequencesOK'
    BY <1>1, <1>6 DEF Unprocessed, OInv, SequencesOK
  <2>2. i \in Nat /\ Unprocessed \subseteq Nat
    BY <1>3
  <2>3. batch' \subseteq Unprocessed /\ \A k \in batch', j \in Unprocessed : j < k => j \in batch'
    BY <1>6, <2>2
  <2>4. OrderOK'
    BY <1>2, <1>6, <2>1, <2>3 DEF OrderOK
  <2> QED
    BY <2>1, <2>4 DEF OInv
<1> QED
  BY <1>4, <1>5, <1>6, LoopSteps

LEMMA RollbackOrderStep == OInv /\ [RollbackNext]_<<vars, rollbackVars>> => OInv'
<1> SUFFICES ASSUME OInv, [RollbackNext]_<<vars, rollbackVars>> PROVE OInv'
  OBVIOUS
<1>1. CASE FetchAgain
  BY <1>1, FetchAgainAppends, AppendOrder DEF FetchAgain
<1>2. CASE NewEvent
  <2>1. again' \in Seq(Event)
    BY <1>2 DEF NewEvent, rollbackVars, OInv, SequencesOK
  <2>2. UNCHANGED <<processed, batch>>
    BY <1>2 DEF NewEvent, ArriveAt
  <2> QED
    BY <1>2, <2>1, <2>2, NewEventAppends, AppendOrder
<1>3. CASE HandleReorg
  BY <1>3, CleanupOrder
<1>4. CASE Loop /\ UNCHANGED rollbackVars
  BY <1>4, LoopOrder DEF rollbackVars
<1>5. CASE UNCHANGED <<vars, rollbackVars>>
  BY <1>5 DEF vars, tables, rollbackVars, OInv, SequencesOK, OrderOK, Unprocessed
<1> QED
  BY <1>1, <1>2, <1>3, <1>4, <1>5 DEF RollbackNext

LEMMA RollbackOrder == RollbackSpec => []OInv
  BY RollbackOrderInit, RollbackOrderStep, PTL DEF RollbackSpec

(* No event overtakes another one, though reorganisations delete events    *)
(* that were processed and others that were not, and some are fetched      *)
(* again (transformer.go:107-160, 331).                                    *)
THEOREM RollbackOrderTheorem == RollbackSpec => []ProcessedInOrder
<1>1. ASSUME OInv PROVE ProcessedInOrder
  <2>1. PICK n \in Nat : processed = 1..n
    BY <1>1 DEF OInv, OrderOK
  <2>2. Cardinality(1..n) = n
    <3>1. 1 \in Int /\ n \in Int
      OBVIOUS
    <3>2. Cardinality(1..n) = IF 1 > n THEN 0 ELSE n - 1 + 1
      BY <3>1, FS_Interval
    <3> QED
      BY <3>2
  <2> QED
    BY <2>1, <2>2 DEF ProcessedInOrder
<1> QED
  BY <1>1, RollbackOrder, PTL

(***************************************************************************)
(* Requests and rates are those of the events that are left.               *)
(***************************************************************************)
(* They depend on the events that are processed, and on no other.          *)
LEMMA RecordsFollow ==
  ASSUME NEW i \in DOMAIN events, i \in DOMAIN events', events'[i] = events[i]
  PROVE  WithdrawRequest(i)' = WithdrawRequest(i) /\ RateUpdate(i)' = RateUpdate(i)
<1>1. \A j \in {i} : /\ j \in DOMAIN events /\ j \in DOMAIN events' /\ events'[j] = events[j]
  OBVIOUS
<1>2. {i} \cap {k \in DOMAIN events' : events'[k].kind = "withdraw"}
        = {i} \cap {k \in DOMAIN events : events[k].kind = "withdraw"}
  BY <1>1
<1>3. {i} \cap {k \in DOMAIN events' : events'[k].kind = "rate"}
        = {i} \cap {k \in DOMAIN events : events[k].kind = "rate"}
  BY <1>1
<1>4. WithdrawRequest(i)' = WithdrawRequest(i)
  BY <1>1, <1>2 DEF WithdrawRequest
<1>5. RateUpdate(i)' = RateUpdate(i)
  BY <1>1, <1>3 DEF RateUpdate
<1> QED
  BY <1>4, <1>5

LEMMA RecordsAppend ==
  ASSUME OInv, RecordsAreReplay, NEW e \in Event, events' = Append(events, e),
         UNCHANGED <<processed, requests, rates>>
  PROVE  RecordsAreReplay'
<1>1. \A i \in processed : i \in DOMAIN events /\ i \in DOMAIN events' /\ events'[i] = events[i]
  BY DEF OInv, SequencesOK
<1>2. \A i \in processed : WithdrawRequest(i)' = WithdrawRequest(i) /\ RateUpdate(i)' = RateUpdate(i)
  BY <1>1, RecordsFollow
<1>3. (UNION {WithdrawRequest(i) : i \in processed})' = UNION {WithdrawRequest(i) : i \in processed}
  BY <1>2
<1>4. (UNION {RateUpdate(i) : i \in processed})' = UNION {RateUpdate(i) : i \in processed}
  BY <1>2
<1> QED
  BY <1>3, <1>4 DEF RecordsAreReplay

LEMMA RecordsLoop == RecordsAreReplay /\ Loop => RecordsAreReplay'
<1> SUFFICES ASSUME RecordsAreReplay, Loop PROVE RecordsAreReplay'
  OBVIOUS
<1>1. events' = events
  BY LoopSteps
<1>2. \A i : WithdrawRequest(i)' = WithdrawRequest(i) /\ RateUpdate(i)' = RateUpdate(i)
  BY <1>1 DEF WithdrawRequest, RateUpdate
<1>3. ASSUME UNCHANGED tables PROVE RecordsAreReplay'
  BY <1>2, <1>3 DEF tables, RecordsAreReplay
<1>4. ASSUME NEW i, Commit(i) PROVE RecordsAreReplay'
  <2>1. /\ requests' = requests \cup WithdrawRequest(i) /\ rates' = rates \cup RateUpdate(i)
        /\ processed' = processed \cup {i}
    BY <1>4 DEF Commit, Derive
  <2>2. requests' = UNION {WithdrawRequest(j) : j \in processed'}
    BY <2>1 DEF RecordsAreReplay
  <2>3. rates' = UNION {RateUpdate(j) : j \in processed'}
    BY <2>1 DEF RecordsAreReplay
  <2> QED
    BY <1>2, <2>2, <2>3 DEF RecordsAreReplay
<1>5. CASE Process \/ CallFails
  BY <1>3, <1>4, <1>5 DEF Process, CallFails
<1>6. CASE ReadBatch \/ QueryFails \/ ReadBreaksOff \/ PoisonFails \/ Crash \/ Restart
  BY <1>3, <1>6 DEF ReadBatch, QueryFails, ReadBreaksOff, PoisonFails, Crash, Restart
<1> QED
  BY <1>5, <1>6 DEF Loop

(* The cleanup deletes the records after the block, and all events of the  *)
(* block: it keeps the records of those, but there are none.               *)
LEMMA RecordsCleanup == QuietBoundary /\ OInv /\ RecordsAreReplay /\ HandleReorg => RecordsAreReplay'
<1> SUFFICES ASSUME QuietBoundary, OInv, RecordsAreReplay, HandleReorg PROVE RecordsAreReplay'
  OBVIOUS
<1>1. PICK k \in DOMAIN events : CleanUp(events[k].block)
  BY DEF HandleReorg
<1> DEFINE block == events[k].block
<1>2. /\ Quiet(block) /\ DeleteEvents(block)
      /\ requests' = RequestsKept(block) /\ rates' = RatesKept(block)
  BY <1>1 DEF CleanUp
<1>3. PICK n, m \in 0..Len(events) :
        /\ Split(block, n, m)
        /\ events' = SubSeq(events, 1, n) /\ processed' = processed \cap 1..n
  BY <1>2 DEF DeleteEvents
<1>4. \A i \in processed' : i \in processed /\ i \in DOMAIN events /\ i \in DOMAIN events' /\ events'[i] = events[i]
  BY <1>3 DEF OInv, SequencesOK
<1>5. \A i \in processed : i \in DOMAIN events /\ events[i] \in Event /\ events[i].block \in Nat /\ i \in Nat
  BY DEF OInv, SequencesOK, Event
<1>6. block \in Nat /\ n \in Nat
  BY <1>1, <1>3 DEF OInv, SequencesOK, Event
<1>7. \A i \in processed : events[i].kind \in {"withdraw", "rate"} =>
        (i \in processed' <=> events[i].block <= block)
  <2> SUFFICES ASSUME NEW i \in processed, events[i].kind \in {"withdraw", "rate"}
               PROVE  i \in processed' <=> events[i].block <= block
    OBVIOUS
  <2>1. events[i].block # block
    BY <1>2 DEF Quiet
  <2>2. i <= n <=> events[i].block < block
    BY <1>3, <1>5 DEF Split
  <2>3. i \in 1..n <=> i <= n
    BY <1>5, <1>6 DEF OInv, SequencesOK
  <2> HIDE DEF block
  <2> QED
    BY <1>3, <1>5, <1>6, <2>1, <2>2, <2>3
<1> HIDE DEF block
<1>8. \A i \in processed : \A w \in WithdrawRequest(i) :
        events[i].kind = "withdraw" /\ w.block = events[i].block
  BY DEF WithdrawRequest
<1>9. \A i \in processed : \A r \in RateUpdate(i) :
        events[i].kind = "rate" /\ r.block = events[i].block
  BY DEF RateUpdate
<1>10. \A i \in processed' : WithdrawRequest(i)' = WithdrawRequest(i) /\ RateUpdate(i)' = RateUpdate(i)
  BY <1>4, RecordsFollow
<1>11. requests' = UNION {WithdrawRequest(i) : i \in processed'}
  BY <1>2, <1>4, <1>7, <1>8 DEF RequestsKept, RecordsAreReplay
<1>12. rates' = UNION {RateUpdate(i) : i \in processed'}
  BY <1>2, <1>4, <1>7, <1>9 DEF RatesKept, RecordsAreReplay
<1> QED
  BY <1>10, <1>11, <1>12 DEF RecordsAreReplay

LEMMA RecordsStep ==
  QuietBoundary /\ OInv /\ RecordsAreReplay /\ [RollbackNext]_<<vars, rollbackVars>> => RecordsAreReplay'
<1> SUFFICES ASSUME QuietBoundary, OInv, RecordsAreReplay, [RollbackNext]_<<vars, rollbackVars>>
             PROVE  RecordsAreReplay'
  OBVIOUS
<1>1. CASE FetchAgain
  BY <1>1, FetchAgainAppends, RecordsAppend DEF FetchAgain
<1>2. CASE NewEvent
  <2>1. UNCHANGED <<processed, requests, rates>>
    BY <1>2 DEF NewEvent, ArriveAt
  <2> QED
    BY <1>2, <2>1, NewEventAppends, RecordsAppend
<1>3. CASE HandleReorg
  BY <1>3, RecordsCleanup
<1>4. CASE Loop
  BY <1>4, RecordsLoop
<1>5. CASE UNCHANGED <<vars, rollbackVars>>
  BY <1>5 DEF vars, tables, RecordsAreReplay, WithdrawRequest, RateUpdate
<1> QED
  BY <1>1, <1>2, <1>3, <1>4, <1>5 DEF RollbackNext

(* The part of TablesAreReplay about the requests and the rates: after any *)
(* number of cleanups there is one row for each processed event that has   *)
(* one, and none for an event that was deleted, as long as no cleanup      *)
(* meets a processed event of its own block but mints.                     *)
THEOREM RecordsTheorem == QuietBoundary => (RollbackSpec => []RecordsAreReplay)
<1> SUFFICES ASSUME QuietBoundary PROVE RollbackSpec => []RecordsAreReplay
  OBVIOUS
<1>1. RollbackInit => RecordsAreReplay
  BY DEF RollbackInit, Init, RecordsAreReplay
<1>2. OInv /\ RecordsAreReplay /\ [RollbackNext]_<<vars, rollbackVars>> => RecordsAreReplay'
  BY RecordsStep
<1> QED
  BY <1>1, <1>2, RollbackOrder, PTL DEF RollbackSpec

(***************************************************************************)
(* The replay of events.                                                   *)
(***************************************************************************)
LEMMA ReplayStep ==
  ASSUME NEW evs \in Seq(Event)
  PROVE  /\ Replay(evs)[0] = {}
         /\ \A n \in Nat : n + 1 \in DOMAIN evs =>
              Replay(evs)[n + 1] = Execute(Replay(evs)[n], Handle(Replay(evs)[n], evs[n + 1]))
<1> DEFINE next(r, n) == Execute(r, Handle(r, evs[n]))
           body(k, f) == [n \in 0..k |-> IF n = 0 THEN {} ELSE next(f[n - 1], n)]
           S == {k \in Nat : \E f : f = body(k, f)}
<1>1. Replay(evs) = CHOOSE f : f = body(Len(evs), f)
  BY DEF Replay
<1> HIDE DEF next
<1>2. 0 \in S
  <2> DEFINE f == [n \in 0..0 |-> {}]
  <2>1. f = body(0, f)
    OBVIOUS
  <2> QED
    BY <2>1
<1>3. ASSUME NEW k \in Nat, k \in S PROVE k + 1 \in S
  <2>1. PICK f : f = body(k, f)
    BY <1>3
  <2> DEFINE g == [n \in 0..(k + 1) |-> IF n = k + 1 THEN next(f[k], k + 1) ELSE f[n]]
  <2>2. \A n \in 0..k : f[n] = IF n = 0 THEN {} ELSE next(f[n - 1], n)
    BY <2>1
  <2>3. \A n \in 0..k : n # k + 1 /\ n \in 0..(k + 1) /\ (n # 0 => n - 1 \in 0..k)
    OBVIOUS
  <2>4. \A n \in 0..k : g[n] = f[n]
    BY <2>3
  <2>5. g[k + 1] = next(g[k], k + 1)
    BY <2>4
  <2>6. \A n \in 0..k : g[n] = IF n = 0 THEN {} ELSE next(g[n - 1], n)
    BY <2>2, <2>3, <2>4
  <2>7. \A n \in 0..(k + 1) : n \in 0..k \/ n = k + 1
    OBVIOUS
  <2>8. g = [n \in 0..(k + 1) |-> g[n]]
    OBVIOUS
  <2> HIDE DEF g
  <2>9. \A n \in 0..(k + 1) : g[n] = IF n = 0 THEN {} ELSE next(g[n - 1], n)
    <3> SUFFICES ASSUME NEW n \in 0..(k + 1) PROVE g[n] = IF n = 0 THEN {} ELSE next(g[n - 1], n)
      OBVIOUS
    <3>1. CASE n \in 0..k
      BY <3>1, <2>6
    <3>2. CASE n = k + 1
      BY <3>2, <2>5
    <3> QED
      BY <3>1, <3>2, <2>7
  <2>10. g = body(k + 1, g)
    BY <2>8, <2>9
  <2> QED
    BY <2>10
<1>4. Nat \subseteq S
  <2> HIDE DEF S
  <2> QED
    BY <1>2, <1>3, Induction
<1>5. Len(evs) \in Nat /\ DOMAIN evs = 1..Len(evs)
  OBVIOUS
<1>6. \E f : f = body(Len(evs), f)
  BY <1>4, <1>5
<1> HIDE DEF body
<1>7. Replay(evs) = body(Len(evs), Replay(evs))
  BY <1>1, <1>6
<1>8. \A n \in 0..Len(evs) : Replay(evs)[n] = IF n = 0 THEN {} ELSE next(Replay(evs)[n - 1], n)
  BY <1>7 DEF body
<1>9. Replay(evs)[0] = {}
  BY <1>5, <1>8
<1>10. ASSUME NEW n \in Nat, n + 1 \in DOMAIN evs PROVE Replay(evs)[n + 1] = next(Replay(evs)[n], n + 1)
  <2>1. n + 1 \in 0..Len(evs) /\ n + 1 # 0 /\ (n + 1) - 1 = n
    BY <1>5, <1>10
  <2> QED
    BY <1>8, <2>1
<1> QED
  BY <1>9, <1>10 DEF next

(* It does not depend on what comes later. *)
LEMMA ReplayPrefix ==
  ASSUME NEW evs \in Seq(Event), NEW later \in Seq(Event), NEW n \in 0..Len(evs), n \in 0..Len(later),
         \A i \in 1..n : later[i] = evs[i]
  PROVE  Replay(later)[n] = Replay(evs)[n]
<1> DEFINE S == {k \in Nat : k <= n => Replay(later)[k] = Replay(evs)[k]}
<1>1. 0 \in S
  BY ReplayStep
<1>2. ASSUME NEW k \in Nat, k \in S PROVE k + 1 \in S
  <2> SUFFICES ASSUME k + 1 <= n PROVE Replay(later)[k + 1] = Replay(evs)[k + 1]
    OBVIOUS
  <2>1. Replay(later)[k] = Replay(evs)[k]
    BY <1>2
  <2>2. k + 1 \in DOMAIN evs /\ k + 1 \in DOMAIN later /\ later[k + 1] = evs[k + 1]
    OBVIOUS
  <2> QED
    BY <2>1, <2>2, ReplayStep
<1>3. Nat \subseteq S
  <2> HIDE DEF S
  <2> QED
    BY <1>1, <1>2, Induction
<1>4. n \in S /\ n <= n
  BY <1>3
<1> QED
  BY <1>4

(* An open row was never closed. *)
Fresh(rows) == \A r \in rows : r.end = Null => r.receiver = Null /\ r.terminated = FALSE

Started(rows, block) == \A r \in rows : r.start <= block

(* The rows tell the ledger of the first n events. *)
Told(rows, evs, n) ==
  /\ RowsOK(rows) /\ Distinct(rows) /\ Fresh(rows) /\ Started(rows, Height(evs, n))
  /\ \A u \in Users : HolderOK(rows, evs, u, n)

(* No event of the vault meets a handler that refuses it. *)
LEMMA LawfulIsHandled ==
  ASSUME NEW evs \in Seq(Event), Law(evs), NEW n \in Nat, n + 1 \in DOMAIN evs,
         NEW rows, Told(rows, evs, n)
  PROVE  ~Unhandled(rows, evs[n + 1])
<1> DEFINE e == evs[n + 1]
<1> SUFFICES ASSUME e.kind = "transfer", Zero \notin {e.from, e.to}
             PROVE  GetMostRecentPosition(rows, e.from) # Null
  BY DEF Unhandled
<1>1. e \in Event /\ (n + 1) - 1 = n
  OBVIOUS
<1>2. e.from \in Users /\ e.amount # 0
  BY <1>1, TransformerAssumption DEF Event
<1>3. Lawful(evs, e, n)
  <2>1. Lawful(evs, evs[n + 1], (n + 1) - 1)
    BY DEF Law, LedgerOK
  <2> QED
    BY <1>1, <2>1
<1>4. Tally(evs, e.from, n) # 0 /\ Tally(evs, e.from, n) \in Nat
  BY <1>2, <1>3 DEF Lawful, Law, LedgerOK
<1>5. CurrentOK(RowsOf(rows, e.from), Tally(evs, e.from, n), Height(evs, n))
  BY <1>2 DEF Told, HolderOK
<1> HIDE DEF e
<1>6. RowsOK(rows) /\ Distinct(rows)
  BY DEF Told
<1>7. \E r \in rows : GetMostRecentPosition(rows, e.from) = r /\ r # Null
  BY <1>2, <1>4, <1>5, <1>6, CurrentPosition
<1> QED
  BY <1>7

(* The rows told before an event tell the ledger after it. *)
LEMMA ToldStep ==
  ASSUME NEW evs \in Seq(Event), Law(evs), NEW n \in Nat, n + 1 \in DOMAIN evs,
         NEW rows, Told(rows, evs, n), NEW new, new = Execute(rows, Handle(rows, evs[n + 1]))
  PROVE  Told(new, evs, n + 1) /\ Effect(rows, new, evs, n)
<1>1. RowsOK(rows) /\ Distinct(rows) /\ Fresh(rows) /\ \A u \in Users : HolderOK(rows, evs, u, n)
  BY DEF Told
<1>2. InChainOrder(evs) /\ LedgerOK(evs)
  BY DEF Law
<1>3. Effect(rows, new, evs, n)
  BY <1>1, <1>2, HandledEffect
<1>4. Distinct(new) /\ \A u \in Users : HolderOK(new, evs, u, n + 1)
  BY <1>1, <1>2, <1>3, EffectKeeps
<1>5. RowsOK(new)
  <2>1. evs[n + 1] \in Event /\ ~Unhandled(rows, evs[n + 1])
    BY LawfulIsHandled
  <2> QED
    BY <1>1, <2>1, HandleOK, ExecuteOK
<1>6. Fresh(new)
  <2>1. PICK closed \in SUBSET rows, opened \in SUBSET Row, close \in [rows -> Row] :
          EffectBy(closed, opened, close, rows, new, evs, n)
    BY <1>3 DEF Effect
  <2>2. new = {close[r] : r \in rows} \cup opened
    BY <2>1 DEF EffectBy
  <2>3. \A p \in opened : p.receiver = Null /\ p.terminated = FALSE
    BY <2>1 DEF EffectBy, Opened, Row
  <2>4. \A r \in rows \ closed : close[r] = r
    BY <2>1 DEF EffectBy
  <2>5. \A r \in closed : close[r].end # Null
    <3> SUFFICES ASSUME NEW r \in closed PROVE close[r].end # Null
      OBVIOUS
    <3>1. r \in Row
      BY <1>1 DEF RowsOK
    <3>2. close[r] = Closed(r, evs, n, close[r].receiver)
      BY <2>1 DEF EffectBy
    <3>3. close[r].end = Height(evs, n + 1) - 1
      BY <3>1, <3>2 DEF Closed, Row
    <3>4. Height(evs, n + 1) \in Nat
      BY <1>2, HeightType
    <3> QED
      BY <3>3, <3>4, UsersAssumption
  <2> QED
    BY <1>1, <2>2, <2>3, <2>4, <2>5 DEF Fresh
<1>7. Started(new, Height(evs, n + 1))
  <2>1. PICK closed \in SUBSET rows, opened \in SUBSET Row, close \in [rows -> Row] :
          EffectBy(closed, opened, close, rows, new, evs, n)
    BY <1>3 DEF Effect
  <2>2. /\ new = {close[r] : r \in rows} \cup opened
        /\ \A r \in rows \ closed : close[r] = r
        /\ \A r \in closed : close[r] = Closed(r, evs, n, close[r].receiver)
        /\ \A p \in opened : p.start = Height(evs, n + 1)
    BY <2>1 DEF EffectBy, Opened
  <2>3. \A r \in rows : r \in Row /\ r.start \in Nat /\ r.start <= Height(evs, n)
    BY DEF Told, RowsOK, Started, Row
  <2>4. ASSUME NEW r \in rows PROVE close[r].start = r.start
    <3>1. CASE r \in closed
      <4>1. r \in Row /\ close[r] = Closed(r, evs, n, close[r].receiver)
        BY <3>1, <2>2, <2>3
      <4> QED
        BY <4>1 DEF Closed, Row
    <3>2. CASE r \notin closed
      BY <3>2, <2>2
    <3> QED
      BY <3>1, <3>2
  <2>5. Height(evs, n) \in Nat /\ Height(evs, n + 1) \in Nat /\ Height(evs, n) <= Height(evs, n + 1)
    BY <1>2, HeightType
  <2> QED
    BY <2>2, <2>3, <2>4, <2>5 DEF Started
<1> QED
  BY <1>1, <1>3, <1>4, <1>5, <1>6, <1>7 DEF Told

(* So the replay tells the ledger. *)
LEMMA ReplayTold ==
  ASSUME NEW evs \in Seq(Event), Law(evs)
  PROVE  \A n \in 0..Len(evs) : Told(Replay(evs)[n], evs, n)
<1> DEFINE S == {n \in Nat : n <= Len(evs) => Told(Replay(evs)[n], evs, n)}
<1>1. 0 \in S
  <2>1. RowsOK({}) /\ Distinct({}) /\ Fresh({}) /\ Started({}, Height(evs, 0))
    BY DEF RowsOK, Distinct, Fresh, Started, HaveHighest, Indices
  <2>2. \A u \in Users : HolderOK({}, evs, u, 0)
    BY EmptyHolder
  <2>3. Told({}, evs, 0)
    BY <2>1, <2>2 DEF Told
  <2> QED
    BY <2>3, ReplayStep
<1>2. ASSUME NEW n \in Nat, n \in S PROVE n + 1 \in S
  <2> SUFFICES ASSUME n + 1 <= Len(evs) PROVE Told(Replay(evs)[n + 1], evs, n + 1)
    OBVIOUS
  <2>1. Told(Replay(evs)[n], evs, n) /\ n + 1 \in DOMAIN evs
    BY <1>2
  <2>2. Replay(evs)[n + 1] = Execute(Replay(evs)[n], Handle(Replay(evs)[n], evs[n + 1]))
    BY <2>1, ReplayStep
  <2> QED
    BY <2>1, <2>2, ToldStep
<1>3. Nat \subseteq S
  <2> HIDE DEF S
  <2> QED
    BY <1>1, <1>2, Induction
<1> QED
  BY <1>3

(***************************************************************************)
(* The cleanup undoes events.                                              *)
(***************************************************************************)
(* What the cleanup does to a row that it keeps. *)
Kept(r, block) == IF r.end # Null /\ r.end > block THEN Reopened(r) ELSE r

(* It drops what an event after the block opened, and reopens what that    *)
(* event closed, if it did not close it at the end of the block itself.    *)
LEMMA CleanStep ==
  ASSUME NEW evs \in Seq(Event), Law(evs), NEW n \in Nat, n + 1 \in DOMAIN evs,
         NEW rows, Told(rows, evs, n), NEW new, Effect(rows, new, evs, n),
         NEW B \in Nat, evs[n + 1].block > B, \A r \in new : r.end # B
  PROVE  (\A r \in rows : r.end # B) /\ CleanupFromBlock(new, B) = CleanupFromBlock(rows, B)
<1>1. PICK closed \in SUBSET rows, opened \in SUBSET Row, close \in [rows -> Row] :
        EffectBy(closed, opened, close, rows, new, evs, n)
  BY DEF Effect
<1> DEFINE b == Height(evs, n + 1)
<1>2. /\ new = {close[r] : r \in rows} \cup opened
      /\ \A r \in rows \ closed : close[r] = r
      /\ \A r \in closed : r.end = Null /\ close[r] = Closed(r, evs, n, close[r].receiver)
      /\ \A p \in opened : p.start = b
  BY <1>1 DEF EffectBy, Opened
<1>3. b \in Nat /\ b > B
  BY HeightType DEF Law
<1>4. Null \notin Int
  BY UsersAssumption
<1>5. \A r \in rows : r \in Row /\ (r.end = Null => r.receiver = Null /\ r.terminated = FALSE)
  BY DEF Told, RowsOK, Fresh
<1> HIDE DEF b
<1>6. \A r \in rows : r.end # B
  <2> SUFFICES ASSUME NEW r \in rows PROVE r.end # B
    OBVIOUS
  <2>1. CASE r \in closed
    BY <2>1, <1>2, <1>4
  <2>2. CASE r \notin closed
    <3>1. r \in new
      BY <1>2, <2>2
    <3> QED
      BY <3>1
  <2> QED
    BY <2>1, <2>2
<1>7. \A r \in rows : close[r].start = r.start /\ Kept(close[r], B) = Kept(r, B)
  <2> SUFFICES ASSUME NEW r \in rows PROVE close[r].start = r.start /\ Kept(close[r], B) = Kept(r, B)
    OBVIOUS
  <2>1. CASE r \in closed
    <3>1. r.end = Null /\ r \in Row /\ r.receiver = Null /\ r.terminated = FALSE
      BY <2>1, <1>2, <1>5
    <3>2. close[r] = Closed(r, evs, n, close[r].receiver)
      BY <2>1, <1>2
    <3>3. close[r].start = r.start /\ close[r].end = b - 1
      BY <3>1, <3>2 DEF Closed, Row, b
    <3>4. close[r] \in new
      BY <1>2
    <3>5. close[r].end # Null /\ close[r].end > B
      BY <3>3, <3>4, <1>3, <1>4
    <3>6. Reopened(close[r]) = r
      BY <3>1, <3>2 DEF Closed, Reopened, Row
    <3> QED
      BY <3>1, <3>3, <3>5, <3>6 DEF Kept
  <2>2. CASE r \notin closed
    BY <2>2, <1>2
  <2> QED
    BY <2>1, <2>2
<1>8. \A p \in opened : ~(p.start <= B)
  BY <1>2, <1>3
<1>9. CleanupFromBlock(new, B) = {Kept(r, B) : r \in {q \in new : q.start <= B}}
  BY DEF CleanupFromBlock, Kept
<1>10. CleanupFromBlock(rows, B) = {Kept(r, B) : r \in {q \in rows : q.start <= B}}
  BY DEF CleanupFromBlock, Kept
<1>11. {q \in new : q.start <= B} = {close[r] : r \in {q \in rows : q.start <= B}}
  BY <1>2, <1>7, <1>8
<1>12. {Kept(r, B) : r \in {close[q] : q \in {q \in rows : q.start <= B}}}
         = {Kept(r, B) : r \in {q \in rows : q.start <= B}}
  BY <1>7
<1> QED
  BY <1>6, <1>9, <1>10, <1>11, <1>12

(* It leaves what the events up to the block wrote. *)
LEMMA CleanNothing ==
  ASSUME NEW evs \in Seq(Event), NEW n \in 0..Len(evs), NEW rows, Told(rows, evs, n),
         NEW B \in Nat, Height(evs, n) <= B
  PROVE  CleanupFromBlock(rows, B) = rows
<1>1. Height(evs, n) \in Nat
  BY DEF Height, Event
<1>2. \A r \in rows : r \in Row /\ r.start \in Nat /\ r.start <= Height(evs, n)
                     /\ r.owner \in Users /\ (r.end = Null \/ r.end \in Int)
  BY DEF Told, RowsOK, Started, Row
<1>3. \A r \in rows : r.end # Null => r.end < Height(evs, n)
  <2> SUFFICES ASSUME NEW r \in rows, r.end # Null PROVE r.end < Height(evs, n)
    OBVIOUS
  <2>1. HolderOK(rows, evs, r.owner, n) /\ r \in RowsOf(rows, r.owner)
    BY <1>2 DEF Told, RowsOf
  <2> QED
    BY <2>1 DEF HolderOK, CurrentOK
<1>4. \A r \in rows : r.start <= B /\ ~(r.end # Null /\ r.end > B)
  BY <1>1, <1>2, <1>3
<1> QED
  BY <1>4 DEF CleanupFromBlock

(* So it takes the replay back to the events up to the block. *)
LEMMA CleanBack ==
  ASSUME NEW evs \in Seq(Event), Law(evs), NEW B \in Nat, NEW m \in 0..Len(evs), NEW k \in m..Len(evs),
         \A i \in (m + 1)..k : evs[i].block > B, Height(evs, m) <= B,
         \A r \in Replay(evs)[k] : r.end # B
  PROVE  CleanupFromBlock(Replay(evs)[k], B) = Replay(evs)[m]
<1> DEFINE R == Replay(evs)
           Back(j) == (\A r \in R[j] : r.end # B) => CleanupFromBlock(R[j], B) = R[m]
           S == {d \in Nat : m + d <= k => Back(m + d)}
<1>1. \A n \in 0..Len(evs) : Told(R[n], evs, n)
  BY ReplayTold
<1>2. 0 \in S
  <2>1. Told(R[m], evs, m) /\ m + 0 = m
    BY <1>1
  <2> HIDE DEF R
  <2>2. CleanupFromBlock(R[m], B) = R[m]
    BY <2>1, CleanNothing
  <2> QED
    BY <2>1, <2>2
<1>3. ASSUME NEW d \in Nat, d \in S PROVE d + 1 \in S
  <2> SUFFICES ASSUME m + (d + 1) <= k, \A r \in R[m + (d + 1)] : r.end # B
               PROVE  CleanupFromBlock(R[m + (d + 1)], B) = R[m]
    OBVIOUS
  <2> DEFINE j == m + d
  <2>1. /\ j \in Nat /\ j \in 0..Len(evs) /\ j + 1 \in DOMAIN evs /\ m + (d + 1) = j + 1
        /\ j <= k /\ j + 1 \in (m + 1)..k
    OBVIOUS
  <2>2. Back(j)
    BY <1>3, <2>1
  <2>3. \A r \in R[j + 1] : r.end # B
    BY <2>1
  <2> HIDE DEF j
  <2>4. R[j + 1] = Execute(R[j], Handle(R[j], evs[j + 1]))
    BY <2>1, ReplayStep
  <2>5. Told(R[j], evs, j)
    BY <1>1, <2>1
  <2>6. evs[j + 1].block > B
    BY <2>1
  <2> HIDE DEF R
  <2>7. Effect(R[j], R[j + 1], evs, j)
    BY <2>1, <2>4, <2>5, ToldStep
  <2>8. (\A r \in R[j] : r.end # B) /\ CleanupFromBlock(R[j + 1], B) = CleanupFromBlock(R[j], B)
    BY <2>1, <2>3, <2>5, <2>6, <2>7, CleanStep
  <2> QED
    BY <2>1, <2>2, <2>8
<1>4. Nat \subseteq S
  <2> HIDE DEF S
  <2> QED
    BY <1>2, <1>3, Induction
<1>5. k - m \in S /\ m + (k - m) = k /\ k <= k
  <2>1. k - m \in Nat
    OBVIOUS
  <2> QED
    BY <1>4, <2>1
<1> QED
  BY <1>5

(* Events without a row of positions change nothing. *)
LEMMA ReplayMintsAndBurns ==
  ASSUME NEW evs \in Seq(Event), NEW n \in 0..Len(evs), NEW m \in n..Len(evs),
         \A i \in (n + 1)..m : evs[i].kind = "transfer" /\ Zero \in {evs[i].from, evs[i].to}
  PROVE  Replay(evs)[m] = Replay(evs)[n]
<1> DEFINE R == Replay(evs)
           S == {d \in Nat : n + d <= m => R[n + d] = R[n]}
<1>1. 0 \in S
  OBVIOUS
<1>2. ASSUME NEW d \in Nat, d \in S PROVE d + 1 \in S
  <2> SUFFICES ASSUME n + (d + 1) <= m PROVE R[n + (d + 1)] = R[n]
    OBVIOUS
  <2> DEFINE j == n + d
  <2>1. j \in Nat /\ j + 1 \in DOMAIN evs /\ n + (d + 1) = j + 1 /\ j <= m /\ j + 1 \in (n + 1)..m
    OBVIOUS
  <2>2. R[j] = R[n]
    BY <1>2, <2>1
  <2> HIDE DEF j
  <2>3. evs[j + 1].kind = "transfer" /\ Zero \in {evs[j + 1].from, evs[j + 1].to}
    BY <2>1
  <2>4. Handle(R[j], evs[j + 1]) = Nothing
    BY <2>3 DEF Handle, HandleTransfer, Transfer, ProcessPosition
  <2>5. Execute(R[j], Nothing) = R[j]
    BY DEF Execute, Nothing, Built
  <2>6. R[j + 1] = R[j]
    BY <2>1, <2>4, <2>5, ReplayStep
  <2> QED
    BY <2>1, <2>2, <2>6
<1>3. Nat \subseteq S
  <2> HIDE DEF S
  <2> QED
    BY <1>1, <1>2, Induction
<1>4. m - n \in S /\ n + (m - n) = m /\ m <= m
  <2>1. m - n \in Nat
    OBVIOUS
  <2> QED
    BY <1>3, <2>1
<1> QED
  BY <1>4

(***************************************************************************)
(* The positions are the replay of the processed events.                   *)
(***************************************************************************)
RInv ==
  /\ Law(events \o again)
  /\ \A n \in 0..Len(events) : processed = 1..n => positions = Replay(events)[n]

(* The events on the chain are lawful, those to be fetched again too. *)
LEMMA EventsLawful == ASSUME OInv, RInv PROVE Law(events)
<1>1. events \in Seq(Event) /\ again \in Seq(Event)
  BY DEF OInv, SequencesOK
<1>2. /\ events \o again \in Seq(Event) /\ Len(events) <= Len(events \o again)
      /\ \A i \in DOMAIN events : events[i] = (events \o again)[i]
  BY <1>1
<1> QED
  BY <1>1, <1>2, LawPrefix DEF RInv

LEMMA ProcessedCount == ASSUME OInv PROVE \E n \in 0..Len(events) : processed = 1..n
<1>1. PICK n \in Nat : processed = 1..n
  BY DEF OInv, OrderOK
<1>2. processed \subseteq 1..Len(events) /\ Len(events) \in Nat
  BY DEF OInv, SequencesOK
<1>3. n # 0 => n \in 1..n
  OBVIOUS
<1> QED
  BY <1>1, <1>2, <1>3

LEMMA CountUnique ==
  ASSUME NEW n \in Nat, NEW k \in Nat, 1..n = 1..k PROVE n = k
<1>1. n # 0 => n \in 1..k
  OBVIOUS
<1>2. k # 0 => k \in 1..n
  OBVIOUS
<1> QED
  BY <1>1, <1>2

LEMMA ReplayInit == RollbackInit => RInv
<1> SUFFICES ASSUME RollbackInit PROVE RInv
  OBVIOUS
<1>1. events = <<>> /\ again = <<>> /\ positions = {} /\ Len(events) = 0 /\ 0..0 = {0} /\ events \in Seq(Event)
  BY DEF RollbackInit, Init
<1>2. events \o again = <<>>
  BY <1>1
<1>3. Replay(events)[0] = {}
  BY <1>1, ReplayStep
<1> QED
  BY <1>1, <1>2, <1>3, EmptyLaw DEF RInv

(* A new row of events leaves the replay of those before it. *)
LEMMA ReplayAppend ==
  ASSUME OInv, RInv, NEW e \in Event, events' = Append(events, e), UNCHANGED <<processed, positions>>,
         Law(events' \o again')
  PROVE  RInv'
<1>1. /\ events \in Seq(Event) /\ events' \in Seq(Event) /\ Len(events') = Len(events) + 1
      /\ Len(events) \in Nat /\ \A i \in 1..Len(events) : events'[i] = events[i]
  BY DEF OInv, SequencesOK
<1>2. ASSUME NEW n \in 0..Len(events'), processed = 1..n PROVE positions = Replay(events')[n]
  <2>1. PICK k \in 0..Len(events) : processed = 1..k
    BY ProcessedCount
  <2>2. n = k
    BY <1>1, <1>2, <2>1, CountUnique
  <2>3. n \in 0..Len(events) /\ \A i \in 1..n : events'[i] = events[i]
    BY <1>1, <2>2
  <2>4. Replay(events')[n] = Replay(events)[n]
    BY <1>1, <1>2, <2>3, ReplayPrefix
  <2>5. positions = Replay(events)[n]
    BY <1>2, <2>3 DEF RInv
  <2> QED
    BY <2>4, <2>5
<1> QED
  BY <1>2 DEF RInv

LEMMA ReplayFetch == OInv /\ RInv /\ FetchAgain => RInv'
<1> SUFFICES ASSUME OInv, RInv, FetchAgain PROVE RInv'
  OBVIOUS
<1>1. /\ again # <<>> /\ events' = Append(events, Head(again)) /\ again' = Tail(again)
      /\ UNCHANGED <<processed, positions>>
  BY DEF FetchAgain
<1>2. events \in Seq(Event) /\ again \in Seq(Event)
  BY DEF OInv, SequencesOK
<1>3. Head(again) \in Event
  BY <1>1, <1>2
<1>4. Append(events, Head(again)) \o Tail(again) = events \o again
  BY <1>1, <1>2
<1>5. Law(events' \o again')
  BY <1>1, <1>4 DEF RInv
<1> QED
  BY <1>1, <1>3, <1>5, ReplayAppend

LEMMA ReplayNew == Plain /\ OInv /\ RInv /\ NewEvent => RInv'
<1> SUFFICES ASSUME Plain, OInv, RInv, NewEvent PROVE RInv'
  OBVIOUS
<1>1. again = <<>> /\ again' = <<>>
  BY DEF NewEvent, rollbackVars
<1>2. events \in Seq(Event) /\ Law(events)
  BY EventsLawful DEF OInv, SequencesOK
<1>3. PICK b \in LastBlock..LastBlock + 2 : ArriveAt(b)
  BY DEF NewEvent
<1>4. b \in Nat /\ b >= LastBlock
  BY <1>2, <1>3, LastBlockType
<1>5. PICK e \in Event : events' = Append(events, e) /\ Law(Append(events, e))
  BY <1>2, <1>3, <1>4, ArriveAppends
<1>6. Append(events, e) \in Seq(Event)
  BY <1>2
<1>7. events' \o again' = Append(events, e)
  BY <1>1, <1>5, <1>6
<1>8. UNCHANGED <<processed, positions>>
  BY <1>3 DEF ArriveAt
<1> QED
  BY <1>5, <1>7, <1>8, ReplayAppend

LEMMA ReplayCommit == ASSUME OInv, RInv, NEW i \in First(batch), Commit(i), again' = again PROVE RInv'
<1>1. PICK n \in 0..Len(events) : processed = 1..n
  BY ProcessedCount
<1>2. /\ events' = events /\ processed' = processed \cup {i}
      /\ positions' = Execute(positions, Handle(positions, events[i]))
  BY DEF Commit, Derive
<1>3. events \in Seq(Event) /\ DOMAIN events = 1..Len(events) /\ Len(events) \in Nat
  BY DEF OInv, SequencesOK
<1>4. /\ i \in batch /\ \A j \in batch : i <= j
      /\ i \in DOMAIN events /\ i \notin processed
  BY DEF First, OInv, OrderOK, Unprocessed
<1>5. i \in Nat /\ n < i /\ n + 1 \in Unprocessed
  BY <1>1, <1>3, <1>4 DEF Unprocessed
<1>6. n + 1 < i => n + 1 \in batch
  BY <1>4, <1>5 DEF OInv, OrderOK
<1>7. i = n + 1
  BY <1>4, <1>5, <1>6
<1>8. positions = Replay(events)[n]
  BY <1>1 DEF RInv
<1>9. positions' = Replay(events)[n + 1]
  BY <1>2, <1>3, <1>4, <1>7, <1>8, ReplayStep
<1>10. processed' = 1..(n + 1)
  BY <1>1, <1>2, <1>7
<1>11. \A k \in 0..Len(events) : processed' = 1..k => k = n + 1
  BY <1>10, CountUnique
<1> QED
  BY <1>2, <1>9, <1>11 DEF RInv

LEMMA ReplayLoop == OInv /\ RInv /\ Loop /\ again' = again => RInv'
<1> SUFFICES ASSUME OInv, RInv, Loop, again' = again PROVE RInv'
  OBVIOUS
<1>1. ASSUME UNCHANGED tables PROVE RInv'
  BY <1>1 DEF tables, RInv
<1>2. CASE Process \/ CallFails
  BY <1>1, <1>2, ReplayCommit DEF Process, CallFails
<1>3. CASE ReadBatch \/ QueryFails \/ ReadBreaksOff \/ PoisonFails \/ Crash \/ Restart
  BY <1>1, <1>3 DEF ReadBatch, QueryFails, ReadBreaksOff, PoisonFails, Crash, Restart
<1> QED
  BY <1>2, <1>3 DEF Loop

(* The cleanup takes the positions back to the events that are left: those *)
(* of the block itself are mints or burns, if they are processed.          *)
LEMMA ReplayCleanup == QuietBoundary /\ OInv /\ RInv /\ HandleReorg => RInv'
<1> SUFFICES ASSUME QuietBoundary, OInv, RInv, HandleReorg PROVE RInv'
  OBVIOUS
<1>1. PICK t \in DOMAIN events : CleanUp(events[t].block)
  BY DEF HandleReorg
<1>2. events \in Seq(Event) /\ DOMAIN events = 1..Len(events) /\ Len(events) \in Nat
  BY DEF OInv, SequencesOK
<1>3. \A i \in DOMAIN events : events[i] \in Event /\ events[i].block \in Nat
  BY <1>2 DEF Event
<1>4. PICK B \in Nat : CleanUp(B)
  BY <1>1, <1>3
<1>5. Quiet(B) /\ DeleteEvents(B) /\ positions' = CleanupFromBlock(positions, B)
  BY <1>4 DEF CleanUp
<1>6. PICK n, m \in 0..Len(events) :
        /\ Split(B, n, m)
        /\ events' = SubSeq(events, 1, n) /\ processed' = processed \cap 1..n
        /\ again' = SubSeq(events, n + 1, m)
  BY <1>5 DEF DeleteEvents
<1>7. PICK k \in 0..Len(events) : processed = 1..k
  BY ProcessedCount
<1>8. positions = Replay(events)[k]
  BY <1>7 DEF RInv
<1>9. Law(events)
  BY EventsLawful
<1>10. n <= m
  <2>1. CASE n = 0
    BY <2>1
  <2>2. CASE n # 0
    <3>1. n \in DOMAIN events /\ events[n].block < B
      BY <1>2, <1>6, <2>2 DEF Split
    <3>2. events[n].block <= B
      BY <1>3, <3>1
    <3> QED
      BY <1>6, <3>1, <3>2 DEF Split
  <2> QED
    BY <2>1, <2>2
<1>11. \A i \in DOMAIN events :
         /\ i > m => events[i].block > B
         /\ (n < i /\ i <= m) => events[i].block = B
         /\ i <= m => events[i].block <= B
  <2> SUFFICES ASSUME NEW i \in DOMAIN events
               PROVE  /\ i > m => events[i].block > B
                      /\ (n < i /\ i <= m) => events[i].block = B
                      /\ i <= m => events[i].block <= B
    OBVIOUS
  <2>1. (i <= n <=> events[i].block < B) /\ (i <= m <=> events[i].block <= B)
    BY <1>6 DEF Split
  <2>2. i \in Nat /\ events[i].block \in Nat
    BY <1>2, <1>3
  <2> QED
    BY <2>1, <2>2
<1> DEFINE c == IF k <= m THEN k ELSE m
           d == IF k <= n THEN k ELSE n
<1>12. c \in 0..Len(events) /\ d \in 0..Len(events) /\ d <= c /\ c <= m /\ d <= n /\ c <= k /\ d <= k
  BY <1>2, <1>10
<1>13. CleanupFromBlock(Replay(events)[k], B) = Replay(events)[c]
  <2>1. Height(events, c) <= B
    <3> HIDE DEF c
    <3>1. CASE c = 0
      BY <3>1 DEF Height
    <3>2. CASE c # 0
      <4>1. c \in DOMAIN events
        BY <1>2, <1>12, <3>2
      <4>2. events[c].block <= B
        BY <1>11, <1>12, <4>1
      <4> QED
        BY <3>2, <4>2 DEF Height
    <3> QED
      BY <3>1, <3>2
  <2>2. \A i \in (c + 1)..k : events[i].block > B
    <3> SUFFICES ASSUME NEW i \in (c + 1)..k PROVE events[i].block > B
      OBVIOUS
    <3>1. i \in DOMAIN events /\ i > m
      BY <1>2
    <3> QED
      BY <1>11, <3>1
  <2>3. \A r \in Replay(events)[k] : r.end # B
    BY <1>5, <1>8 DEF Quiet
  <2>4. k \in c..Len(events)
    BY <1>12
  <2> HIDE DEF c
  <2> QED
    BY <1>2, <1>9, <1>12, <2>1, <2>2, <2>3, <2>4, CleanBack
<1>14. Replay(events)[c] = Replay(events)[d]
  <2>1. \A i \in (d + 1)..c : events[i].kind = "transfer" /\ Zero \in {events[i].from, events[i].to}
    <3> SUFFICES ASSUME NEW i \in (d + 1)..c
                 PROVE  events[i].kind = "transfer" /\ Zero \in {events[i].from, events[i].to}
      OBVIOUS
    <3>1. i \in DOMAIN events /\ n < i /\ i <= m /\ i \in 1..k
      BY <1>2
    <3> QED
      BY <1>5, <1>7, <1>11, <3>1 DEF Quiet
  <2>2. c \in d..Len(events)
    BY <1>12
  <2> HIDE DEF c, d
  <2> QED
    BY <1>2, <1>12, <2>1, <2>2, ReplayMintsAndBurns
<1>15. /\ events' \in Seq(Event) /\ Len(events') = n /\ \A i \in 1..n : events'[i] = events[i]
  BY <1>2, <1>6
<1>16. Replay(events')[d] = Replay(events)[d]
  <2>1. d \in 0..Len(events') /\ \A i \in 1..d : events'[i] = events[i]
    BY <1>12, <1>15
  <2> HIDE DEF d
  <2> QED
    BY <1>2, <1>12, <1>15, <2>1, ReplayPrefix
<1>17. processed' = 1..d
  BY <1>6, <1>7
<1>18. positions' = Replay(events')[d]
  BY <1>5, <1>8, <1>13, <1>14, <1>16
<1>19. \A l \in 0..Len(events') : processed' = 1..l => l = d
  <2> HIDE DEF d
  <2> QED
    BY <1>12, <1>15, <1>17, CountUnique
<1>20. Law(events' \o again')
  <2>1. /\ SubSeq(events, 1, m) \in Seq(Event) /\ Len(SubSeq(events, 1, m)) = m
        /\ \A i \in 1..m : SubSeq(events, 1, m)[i] = events[i]
    BY <1>2
  <2>2. Law(SubSeq(events, 1, m))
    <3>1. m <= Len(events) /\ \A i \in DOMAIN SubSeq(events, 1, m) : SubSeq(events, 1, m)[i] = events[i]
      BY <1>2, <2>1
    <3> QED
      BY <1>2, <1>9, <2>1, <3>1, LawPrefix
  <2>3. SubSeq(events, 1, n) \o SubSeq(events, n + 1, m) = SubSeq(events, 1, m)
    BY <1>2, <1>10
  <2> QED
    BY <1>6, <2>2, <2>3
<1> QED
  BY <1>18, <1>19, <1>20 DEF RInv

LEMMA ReplayInvStep ==
  Plain /\ QuietBoundary /\ OInv /\ RInv /\ [RollbackNext]_<<vars, rollbackVars>> => RInv'
<1> SUFFICES ASSUME Plain, QuietBoundary, OInv, RInv, [RollbackNext]_<<vars, rollbackVars>> PROVE RInv'
  OBVIOUS
<1>1. CASE FetchAgain
  BY <1>1, ReplayFetch
<1>2. CASE NewEvent
  BY <1>2, ReplayNew
<1>3. CASE HandleReorg
  BY <1>3, ReplayCleanup
<1>4. CASE Loop /\ UNCHANGED rollbackVars
  BY <1>4, ReplayLoop DEF rollbackVars
<1>5. CASE UNCHANGED <<vars, rollbackVars>>
  BY <1>5 DEF vars, tables, rollbackVars, RInv
<1> QED
  BY <1>1, <1>2, <1>3, <1>4, <1>5 DEF RollbackNext

LEMMA ReplayInvariance == ASSUME Plain, QuietBoundary PROVE RollbackSpec => [](OInv /\ RInv)
<1>1. OInv /\ RInv /\ [RollbackNext]_<<vars, rollbackVars>> => RInv'
  BY ReplayInvStep
<1> QED
  BY <1>1, ReplayInit, RollbackOrder, PTL DEF RollbackSpec

(* After any number of reorganisations, failures and restarts the tables   *)
(* are those of a transformer that has seen the processed events of the    *)
(* chain only, for the plain classes of events and as long as no cleanup   *)
(* meets one of the rows that it gets wrong (transformer.go:295-346).      *)
THEOREM ReplayTheorem == ASSUME Plain, QuietBoundary PROVE RollbackSpec => []TablesAreReplay
<1>1. ASSUME OInv, RInv, RecordsAreReplay PROVE TablesAreReplay
  <2>1. PICK n \in 0..Len(events) : processed = 1..n
    BY <1>1, ProcessedCount
  <2>2. Cardinality(1..n) = n
    <3>1. 1 \in Int /\ n \in Int
      OBVIOUS
    <3>2. Cardinality(1..n) = IF 1 > n THEN 0 ELSE n - 1 + 1
      BY <3>1, FS_Interval
    <3> QED
      BY <3>2
  <2>3. positions = Replay(events)[n]
    BY <1>1, <2>1 DEF RInv
  <2> QED
    BY <1>1, <2>1, <2>2, <2>3 DEF TablesAreReplay
<1> QED
  BY <1>1, ReplayInvariance, RecordsTheorem, PTL

(* So the positions are the history of the balances again, whatever was    *)
(* dropped from the chain (src/README.md:41).                              *)
THEOREM RestoredTheorem == ASSUME Plain, QuietBoundary PROVE RollbackSpec => []HistoryIsRestored
<1>1. ASSUME OInv, RInv PROVE HistoryIsRestored
  <2>1. PICK n \in 0..Len(events) : processed = 1..n
    BY <1>1, ProcessedCount
  <2>2. events \in Seq(Event) /\ Law(events)
    BY <1>1, EventsLawful DEF OInv, SequencesOK
  <2>3. positions = Replay(events)[n]
    BY <1>1, <2>1 DEF RInv
  <2>4. \A u \in Users : HolderOK(positions, events, u, n)
    <3>1. Told(Replay(events)[n], events, n)
      BY <2>2, ReplayTold
    <3> QED
      BY <2>3, <3>1 DEF Told
  <2> QED
    BY <2>1, <2>2, <2>4, LedgerTold DEF HistoryIsRestored
<1> QED
  BY <1>1, ReplayInvariance, PTL
=============================================================================
