----------------------------- MODULE ReorgProofs -----------------------------
(***************************************************************************)
(* Theorems of Reorg, for any chain, depth and number of crashes.          *)
(***************************************************************************)
EXTENDS Reorg, TLAPS

(***************************************************************************)
(* Type correctness, however deep the chain reorganises.                   *)
(***************************************************************************)
LEMMA TypeInit == Init => TypeOK
<1> SUFFICES ASSUME Init PROVE TypeOK
  OBVIOUS
<1> USE ReorgAssumption
<1>1. head \in 0..MaxBlock /\ top \in head..MaxBlock /\ fork \in 1..MaxForks
  BY DEF Init
<1>2. block \in [1..MaxBlock -> 0..MaxForks] /\ validated \in [Tags -> 0..MaxBlock]
  BY DEF Init, NoLog
<1>3. rows \subseteq Log /\ queue \subseteq Log /\ held \subseteq Log /\ judged \subseteq Log
  BY DEF Init
<1>4. \A r, q \in rows : r.block = q.block => r = q
  BY DEF Init
<1>5. tag \in Tags /\ up \in BOOLEAN /\ token \in BOOLEAN
  BY DEF Init, Tags
<1>6. crashes \in 0..MaxCrashes /\ from \in 0..MaxBlock
  BY DEF Init
<1>7. /\ ep \in {"loop", "popped", "writing", "returning", "halted"} /\ tf \in {"loop", "halted"}
      /\ fin \in {"loop", "ended", "failed"}
      /\ handler \in {"waiting", "halting", "searching", "found", "stopping"}
  BY DEF Init
<1> QED
  BY <1>1, <1>2, <1>3, <1>4, <1>5, <1>6, <1>7 DEF TypeOK

LEMMA TypeStep == TypeOK /\ [Next]_vars => TypeOK'
<1> SUFFICES ASSUME TypeOK, [Next]_vars PROVE TypeOK'
  OBVIOUS
<1> USE ReorgAssumption
<1>1. CASE Mine
  <2>1. PICK h \in {NoLog, fork} :
          /\ block' = [block EXCEPT ![head + 1] = h]
          /\ queue' = IF up /\ h # NoLog THEN queue \cup {[block |-> head + 1, hash |-> h]}
                      ELSE queue
    BY <1>1 DEF Mine
  <2>2. head + 1 \in 1..MaxBlock /\ h \in 0..MaxForks
    BY <1>1 DEF Mine, TypeOK, NoLog
  <2>3. block' \in [1..MaxBlock -> 0..MaxForks]
    BY <2>1, <2>2 DEF TypeOK
  <2>4. queue' \subseteq Log
    BY <2>1, <2>2 DEF TypeOK, Log, NoLog
  <2>5. head' \in 0..MaxBlock /\ top' \in head'..MaxBlock
    BY <1>1 DEF Mine, TypeOK
  <2> QED
    BY <1>1, <2>3, <2>4, <2>5
    DEF Mine, TypeOK, tables, process, loops, finality, handling
<1>2. CASE Reorganise
  <2>1. PICK n \in 0..head - 1 :
          /\ head' = n
          /\ block' = [m \in 1..MaxBlock |-> IF m <= n THEN block[m] ELSE NoLog]
          /\ queue' = IF up THEN queue \cup {l \in Canon : l.block > n} ELSE queue
    BY <1>2 DEF Reorganise
  <2>2. block' \in [1..MaxBlock -> 0..MaxForks]
    BY <2>1 DEF TypeOK, NoLog
  <2>3. Canon \subseteq Log
    BY DEF Canon, LogAt, Log, TypeOK, NoLog
  <2>4. fork' \in 1..MaxForks /\ head' \in 0..MaxBlock /\ top' \in head'..MaxBlock
    BY <1>2, <2>1 DEF Reorganise, TypeOK
  <2> QED
    BY <1>2, <2>1, <2>2, <2>3, <2>4
    DEF Reorganise, TypeOK, tables, process, loops, finality, handling
<1>3. CASE Start
  <2>1. Canon \subseteq Log
    BY DEF Canon, LogAt, Log, TypeOK, NoLog
  <2>2. /\ queue' \subseteq Log /\ up' \in BOOLEAN
        /\ UNCHANGED <<chain, tables, crashes, held, loops, finality, handling>>
    BY <1>3, <2>1 DEF Start
  <2> QED
    BY <2>2 DEF TypeOK, chain, tables, loops, finality, handling
<1>4. CASE Crash \/ FinalityStops \/ TimeOut \/ SearchEnds \/ Stop
  <2>1. /\ Exit /\ UNCHANGED <<chain, tables>> /\ crashes' \in 0..MaxCrashes
    BY <1>4 DEF Crash, FinalityStops, TimeOut, SearchEnds, Stop, TypeOK
  <2>2. up' \in BOOLEAN /\ token' \in BOOLEAN /\ tag' \in Tags
    BY <2>1 DEF Exit, Tags
  <2>3. from' \in 0..MaxBlock
    BY <2>1 DEF Exit
  <2>4. queue' \subseteq Log /\ held' \subseteq Log /\ judged' \subseteq Log
    BY <2>1 DEF Exit
  <2>5. /\ ep' \in {"loop", "popped", "writing", "returning", "halted"} /\ tf' \in {"loop", "halted"}
        /\ fin' \in {"loop", "ended", "failed"}
        /\ handler' \in {"waiting", "halting", "searching", "found", "stopping"}
    BY <2>1 DEF Exit
  <2>6. UNCHANGED <<head, top, block, fork, rows, validated>>
    BY <2>1 DEF chain, tables
  <2> QED
    BY <2>1, <2>2, <2>3, <2>4, <2>5, <2>6 DEF TypeOK
<1>5. CASE TakeEvent \/ PutBack
  <2>1. held' \subseteq Log /\ queue' \subseteq Log
    BY <1>5 DEF TakeEvent, PutBack, TypeOK
  <2>2. /\ UNCHANGED <<head, top, block, fork, rows, validated, up, crashes, tf, fin, tag,
                       judged, handler, from, token>>
        /\ ep' \in {"popped", "loop"}
    BY <1>5 DEF TakeEvent, PutBack, chain, tables, process, finality, handling
  <2> QED
    BY <2>1, <2>2 DEF TypeOK
<1>6. CASE ReadHeight \/ Write
  BY <1>6 DEF ReadHeight, Write, TypeOK, chain, tables, process, finality, handling
<1>7. CASE HaltEventProcessor \/ HaltTransformer
  BY <1>7 DEF HaltEventProcessor, HaltTransformer, TypeOK, chain, tables, process, finality
<1>8. CASE NextEventToValidate
  BY <1>8 DEF NextEventToValidate, ToValidate, NextTag, Tags, TypeOK, chain, tables, process,
              loops, handling
<1>9. CASE Validate
  BY <1>9 DEF Validate, NextTag, Tags, TypeOK, Log, chain, process, loops, handling
<1>10. CASE ReportReorg
  BY <1>10 DEF ReportReorg, TypeOK, Log, chain, tables, process, loops
<1>11. CASE FinalityFails
  BY <1>11 DEF FinalityFails, TypeOK, chain, tables, loops, handling
<1>12. CASE WaitHalted
  BY <1>12 DEF WaitHalted, TypeOK, chain, tables, process, loops, finality
<1>13. CASE Search
  <2>1. PICK r \in Below :
          /\ from' \in {r.block, r.block - 1}
          /\ handler' \in {"found", handler}
    BY <1>13 DEF Search
  <2>2. r.block \in 1..MaxBlock
    BY DEF Below, TypeOK, Log
  <2>3. from' \in 0..MaxBlock
    BY <2>1, <2>2
  <2>4. handler' \in {"waiting", "halting", "searching", "found", "stopping"}
    BY <2>1 DEF TypeOK
  <2> QED
    BY <1>13, <2>3, <2>4 DEF Search, TypeOK, chain, tables, process, loops, finality
<1>14. CASE CleanUp
  BY <1>14 DEF CleanUp, TypeOK, chain, process, loops, finality
<1>15. CASE UNCHANGED vars
  BY <1>15 DEF vars, TypeOK, chain, tables, process, loops, finality, handling
<1> QED
  BY <1>1, <1>2, <1>3, <1>4, <1>5, <1>6, <1>7, <1>8, <1>9, <1>10, <1>11, <1>12, <1>13,
     <1>14, <1>15 DEF Next

(* Every reachable state is well typed and has one row for a place of the  *)
(* chain at most, under reorganisations of any depth and any answers.      *)
THEOREM TypeCorrect == Spec => []TypeOK
BY TypeInit, TypeStep, PTL DEF Spec

LEMMA Types ==
  ASSUME TypeOK
  PROVE /\ \A l \in Log : l.block \in Nat /\ l.block \in 1..MaxBlock /\ l.hash # NoLog
        /\ rows \subseteq Log /\ held \subseteq Log /\ queue \subseteq Log /\ judged \subseteq Log
        /\ top \in Nat /\ head \in Nat /\ block \in [1..MaxBlock -> 0..MaxForks]
        /\ tag \in Tags /\ validated \in [Tags -> 0..MaxBlock]
        /\ \A t \in Tags : validated[t] \in Nat
        /\ \A p, q \in rows : p.block = q.block => p = q
<1>1. \A l \in Log : l.block \in Nat /\ l.block \in 1..MaxBlock /\ l.hash # NoLog
  BY ReorgAssumption DEF Log, NoLog
<1>2. /\ rows \subseteq Log /\ held \subseteq Log /\ queue \subseteq Log /\ judged \subseteq Log
      /\ \A p, q \in rows : p.block = q.block => p = q
  BY DEF TypeOK
<1>3. top \in Nat /\ head \in Nat /\ block \in [1..MaxBlock -> 0..MaxForks]
  BY ReorgAssumption DEF TypeOK
<1>4. tag \in Tags /\ validated \in [Tags -> 0..MaxBlock]
  BY DEF TypeOK
<1>5. \A t \in Tags : validated[t] \in Nat
  BY <1>4
<1> QED
  BY <1>1, <1>2, <1>3, <1>4, <1>5

(***************************************************************************)
(* A cleanup has a cause.                                                  *)
(***************************************************************************)
(* A hash is of a branch, and those of the present branch are on the       *)
(* chain: a stale log stays stale.                                         *)
HashOK ==
  /\ \A n \in 1..MaxBlock : block[n] <= fork /\ (block[n] # NoLog => n <= head)
  /\ \A l \in rows \cup queue \cup held :
       l.hash <= fork /\ (l.hash = fork => Canonical(l))

(* Until the cleanup, some row is stale.                                   *)
CauseOK ==
  /\ \A j \in judged : fin = "loop" /\ j \in rows
  /\ handler # "waiting" => fin # "loop"
  /\ handler \in {"halting", "searching", "found"} => \E b \in rows : ~Canonical(b)

CInv == TypeOK /\ HashOK /\ CauseOK

LEMMA CanonIsCanonical == TypeOK => \A l \in Log : l \in Canon <=> Canonical(l)
<1> SUFFICES ASSUME TypeOK, NEW l \in Log PROVE l \in Canon <=> Canonical(l)
  OBVIOUS
<1>1. l.block \in 1..MaxBlock /\ l.hash # NoLog /\ l = [block |-> l.block, hash |-> l.hash]
  BY DEF Log, NoLog
<1> QED
  BY <1>1 DEF Canon, LogAt, Canonical

LEMMA CauseMine == CInv /\ TypeOK' /\ Mine => CInv'
<1> SUFFICES ASSUME CInv, TypeOK', Mine PROVE CInv'
  OBVIOUS
<1> USE ReorgAssumption
<1>1. PICK h \in {NoLog, fork} :
        /\ block' = [block EXCEPT ![head + 1] = h]
        /\ queue' = IF up /\ h # NoLog THEN queue \cup {[block |-> head + 1, hash |-> h]}
                    ELSE queue
  BY DEF Mine
<1>2. UNCHANGED <<fork, rows, held, fin, judged, handler>> /\ head' = head + 1
  BY DEF Mine, tables, process, finality, handling
<1>3. head + 1 \in 1..MaxBlock /\ fork \in Nat
  BY DEF Mine, CInv, TypeOK
<1>4. /\ \A l \in Log : l.block \in 1..MaxBlock /\ l.hash # NoLog
      /\ rows \subseteq Log /\ held \subseteq Log /\ queue \subseteq Log
      /\ block \in [1..MaxBlock -> 0..MaxForks] /\ head \in Nat
  BY Types DEF CInv
<1>5. block[head + 1] = NoLog
  BY <1>3, <1>4 DEF CInv, HashOK
<1>6. \A l \in Log : Canonical(l) => Canonical(l)'
  BY <1>1, <1>3, <1>4, <1>5 DEF Canonical
<1>7. \A l \in Log : Canonical(l)' => Canonical(l) \/ l.hash = fork
  BY <1>1, <1>3, <1>4 DEF Canonical, NoLog
<1>8. \A l \in queue' : l \in queue \/ (l.hash = fork /\ Canonical(l)')
  BY <1>1, <1>3, <1>4 DEF Canonical
<1>9. HashOK'
  <2>1. \A n \in 1..MaxBlock : block'[n] <= fork /\ (block'[n] # NoLog => n <= head + 1)
    BY <1>1, <1>3, <1>4 DEF CInv, HashOK, NoLog
  <2> QED
    BY <2>1, <1>2, <1>3, <1>4, <1>6, <1>8 DEF CInv, HashOK
<1>10. CauseOK'
  BY <1>2, <1>4, <1>7 DEF CInv, CauseOK, HashOK
<1> QED
  BY <1>9, <1>10 DEF CInv

LEMMA CauseReorganise == CInv /\ TypeOK' /\ Reorganise => CInv'
<1> SUFFICES ASSUME CInv, TypeOK', Reorganise PROVE CInv'
  OBVIOUS
<1> USE ReorgAssumption
<1>1. PICK n \in 0..head - 1 :
        /\ head' = n
        /\ block' = [m \in 1..MaxBlock |-> IF m <= n THEN block[m] ELSE NoLog]
        /\ queue' = IF up THEN queue \cup {l \in Canon : l.block > n} ELSE queue
  BY DEF Reorganise
<1>2. UNCHANGED <<rows, held, fin, judged, handler>> /\ fork' = fork + 1 /\ fork \in Nat
  BY DEF Reorganise, tables, process, finality, handling, CInv, TypeOK
<1>3. /\ \A l \in Log : l.block \in 1..MaxBlock /\ l.hash # NoLog
      /\ rows \subseteq Log /\ held \subseteq Log /\ queue \subseteq Log
      /\ block \in [1..MaxBlock -> 0..MaxForks] /\ head \in Nat
  BY Types DEF CInv
<1>4. \A l \in Log : Canonical(l)' => Canonical(l)
  BY <1>1, <1>3 DEF Canonical
<1>5. \A l \in Canon : l.hash <= fork
  BY DEF Canon, LogAt, CInv, HashOK
<1>6. \A l \in rows \cup queue' \cup held : l.hash <= fork
  BY <1>1, <1>5 DEF CInv, HashOK
<1>7. \A l \in rows \cup queue' \cup held : l.hash \in Nat
  BY <1>2 DEF TypeOK, Log
<1>8. \A m \in 1..MaxBlock : block'[m] <= fork + 1 /\ (block'[m] # NoLog => m <= n)
  <2>1. \A m \in 1..MaxBlock : block[m] \in Nat /\ block[m] <= fork
    BY <1>3 DEF CInv, HashOK
  <2> QED
    BY <2>1, <1>1, <1>2 DEF NoLog
<1>9. HashOK'
  BY <1>1, <1>2, <1>6, <1>7, <1>8 DEF HashOK
<1>10. CauseOK'
  BY <1>2, <1>3, <1>4 DEF CInv, CauseOK
<1> QED
  BY <1>9, <1>10 DEF CInv

LEMMA CauseStep == CInv /\ [Next]_vars => CInv'
<1> SUFFICES ASSUME CInv, [Next]_vars PROVE CInv'
  OBVIOUS
<1>1. TypeOK'
  BY TypeStep DEF CInv
<1>2. CASE Mine \/ Reorganise
  BY <1>1, <1>2, CauseMine, CauseReorganise
<1>3. CASE ~(Mine \/ Reorganise)
  <2>1. UNCHANGED <<head, block, fork>>
    BY <1>3 DEF Next, Start, Crash, TakeEvent, ReadHeight, PutBack, Write, HaltEventProcessor,
                HaltTransformer, NextEventToValidate, Validate, ReportReorg, FinalityFails,
                FinalityStops, WaitHalted, TimeOut, Search, SearchEnds, CleanUp, Stop, vars, chain
  <2>2. \A l \in rows' \cup queue' \cup held' : l \in rows \cup queue \cup held \cup Canon
    BY <1>3 DEF Next, Start, Crash, TakeEvent, ReadHeight, PutBack, Write, HaltEventProcessor,
                HaltTransformer, NextEventToValidate, Validate, ReportReorg, FinalityFails,
                FinalityStops, WaitHalted, TimeOut, Search, SearchEnds, CleanUp, Stop, Exit, vars, tables
  <2>3. \A l \in Canon : l.hash <= fork /\ Canonical(l)
    BY DEF Canon, LogAt, Canonical, CInv, HashOK
  <2>4. HashOK'
    BY <2>1, <2>2, <2>3 DEF CInv, HashOK, Canonical
  <2>5. CauseOK'
    <3>1. CASE Crash \/ FinalityStops \/ TimeOut \/ SearchEnds \/ Stop
      BY <3>1 DEF Crash, FinalityStops, TimeOut, SearchEnds, Stop, Exit, CauseOK
    <3>2. CASE ReportReorg
      <4>1. \E r \in judged : ~Canonical(r)
        BY <3>2, Zenon DEF ReportReorg, CheckCanonicalBlock
      <4> QED
        BY <3>2, <4>1, <2>1 DEF ReportReorg, CInv, CauseOK, tables, Canonical
    <3>3. CASE CleanUp
      <4>1. judged = {} /\ fin # "loop"
        BY <3>3 DEF CleanUp, CInv, CauseOK
      <4> QED
        BY <3>3, <4>1 DEF CleanUp, CauseOK, finality
    <3>4. CASE NextEventToValidate
      BY <3>4, <2>1 DEF NextEventToValidate, ToValidate, CInv, CauseOK, tables, handling, Canonical
    <3>5. CASE WaitHalted \/ Search
      BY <3>5, <2>1 DEF WaitHalted, Search, CInv, CauseOK, tables, finality, Canonical
    <3>6. CASE Validate \/ FinalityFails
      BY <3>6, <2>1 DEF Validate, FinalityFails, CInv, CauseOK, tables, handling, Canonical
    <3>7. CASE \/ Start \/ TakeEvent \/ ReadHeight \/ PutBack
              \/ HaltEventProcessor \/ HaltTransformer \/ UNCHANGED vars
      <4>1. UNCHANGED <<rows, judged, fin, handler>>
        BY <3>7 DEF Start, TakeEvent, ReadHeight, PutBack, HaltEventProcessor, HaltTransformer,
                    vars, tables, finality, handling
      <4> QED
        BY <4>1, <2>1 DEF CInv, CauseOK, Canonical
    <3>8. CASE Write
      <4>1. UNCHANGED <<judged, fin, handler>> /\ rows \subseteq rows'
        BY <3>8 DEF Write, finality, handling
      <4> QED
        BY <4>1, <2>1 DEF CInv, CauseOK, Canonical
    <3> QED
      BY <1>3, <3>1, <3>2, <3>3, <3>4, <3>5, <3>6, <3>7, <3>8 DEF Next
  <2> QED
    BY <1>1, <2>4, <2>5 DEF CInv
<1> QED
  BY <1>2, <1>3

LEMMA CauseInit == Init => CInv
<1> SUFFICES ASSUME Init PROVE CInv
  OBVIOUS
<1>1. TypeOK
  BY TypeInit
<1>2. HashOK /\ CauseOK
  BY DEF Init, HashOK, CauseOK, NoLog
<1> QED
  BY <1>1, <1>2 DEF CInv

(* Rows are deleted only while one of them is off the chain, however deep  *)
(* the chain reorganises, whatever the node still serves, and however far  *)
(* the report, the search and the deletion are apart.                      *)
THEOREM CauseTheorem == Spec => CleanupHasCause
<1>1. CInv /\ [Next]_vars => (rows \subseteq rows' \/ ~(rows \subseteq Canon))
  <2> SUFFICES ASSUME CInv, [Next]_vars, ~(rows \subseteq rows') PROVE ~(rows \subseteq Canon)
    OBVIOUS
  <2>1. CleanUp
    BY DEF Next, Mine, Reorganise, Start, Crash, TakeEvent, ReadHeight, PutBack, Write,
           HaltEventProcessor, HaltTransformer, NextEventToValidate, Validate, ReportReorg,
           FinalityFails, FinalityStops, WaitHalted, TimeOut, Search, SearchEnds, Stop, vars, tables
  <2>2. PICK b \in rows : ~Canonical(b)
    BY <2>1 DEF CleanUp, CInv, CauseOK
  <2>3. b \in Log
    BY Types DEF CInv
  <2> QED
    BY <2>2, <2>3, CanonIsCanonical DEF CInv
<1> QED
  BY <1>1, CauseInit, CauseStep, PTL DEF Spec, CleanupHasCause

(***************************************************************************)
(* Rows stay what they are.                                                *)
(***************************************************************************)
(* The height may fall below the highest so far, but not by much.          *)
ChainOK == top <= head + Confirmations

(* An event is in hand only between its pop and its row.                   *)
HeldOK ==
  /\ ep = "loop" \/ ~up => held = {}
  /\ \A l, m \in held : l = m

(* Stored, or about to be.                                                 *)
Settled == rows \cup {l \in held : ep = "writing"}

(* What is in the tables or about to be is too deep to be dropped.         *)
DeepOK ==
  /\ \A l \in Settled : l.block + Confirmations <= top
  /\ \A t \in Tags : validated[t] = 0 \/ validated[t] + Confirmations <= top

DInv == CInv /\ ChainOK /\ HeldOK /\ DeepOK

LEMMA SettledStay ==
  ASSUME ReorgDepth <= Confirmations, DInv, Mine \/ Reorganise
  PROVE  \A r \in Settled : /\ r.block <= head /\ r.block <= head'
                            /\ Canonical(r)' <=> Canonical(r)
<1> USE ReorgAssumption
<1>1. /\ \A l \in Log : l.block \in Nat /\ l.block \in 1..MaxBlock /\ l.hash # NoLog
      /\ rows \subseteq Log /\ held \subseteq Log /\ top \in Nat /\ head \in Nat
      /\ block \in [1..MaxBlock -> 0..MaxForks]
  BY Types DEF DInv, CInv
<1>2. Settled \subseteq Log
  BY <1>1 DEF Settled
<1>3. \A r \in Settled : r.block <= head
  BY <1>1, <1>2 DEF DInv, DeepOK, ChainOK
<1>4. CASE Mine
  <2>1. head' = head + 1 /\ \A m \in 1..MaxBlock : m <= head => block'[m] = block[m]
    BY <1>1, <1>4 DEF Mine
  <2> QED
    BY <1>1, <1>2, <1>3, <2>1 DEF Canonical
<1>5. CASE Reorganise
  <2>1. PICK n \in 0..head - 1 :
          /\ n + ReorgDepth >= top /\ head' = n
          /\ block' = [m \in 1..MaxBlock |-> IF m <= n THEN block[m] ELSE NoLog]
    BY <1>5 DEF Reorganise
  <2>2. top <= n + Confirmations
    BY <1>1, <2>1
  <2>3. \A r \in Settled : r.block <= n
    BY <1>1, <1>2, <2>2 DEF DInv, DeepOK
  <2> QED
    BY <1>1, <1>2, <1>3, <2>1, <2>3 DEF Canonical
<1> QED
  BY <1>4, <1>5

LEMMA DeepChain ==
  ReorgDepth <= Confirmations /\ DInv /\ TypeOK' /\ (Mine \/ Reorganise)
  => ChainOK' /\ HeldOK' /\ DeepOK'
<1> SUFFICES ASSUME ReorgDepth <= Confirmations, DInv, TypeOK', Mine \/ Reorganise
             PROVE  ChainOK' /\ HeldOK' /\ DeepOK'
  OBVIOUS
<1> USE ReorgAssumption
<1>1. UNCHANGED <<rows, validated, up, held, ep>>
  BY DEF Mine, Reorganise, tables, process, loops
<1>2. top \in Nat /\ top' \in Nat /\ head \in Nat
  BY DEF DInv, CInv, TypeOK
<1>3. top <= top' /\ top' <= head' + Confirmations
  BY <1>2 DEF Mine, Reorganise, DInv, ChainOK
<1>4. Settled' = Settled /\ Settled \subseteq Log /\ \A l \in Log : l.block \in Nat
  BY <1>1, Types DEF Settled, DInv, CInv
<1>5. \A t \in Tags : validated[t] \in Nat
  BY Types DEF DInv, CInv
<1>6. DeepOK'
  BY <1>1, <1>2, <1>3, <1>4, <1>5 DEF DInv, DeepOK
<1>7. HeldOK'
  BY <1>1 DEF DInv, HeldOK
<1> QED
  BY <1>3, <1>6, <1>7 DEF ChainOK

LEMMA DeepOthers ==
  DInv /\ TypeOK' /\ [Next]_vars /\ ~(Mine \/ Reorganise) => ChainOK' /\ HeldOK' /\ DeepOK'
<1> SUFFICES ASSUME DInv, TypeOK', [Next]_vars, ~(Mine \/ Reorganise)
             PROVE  ChainOK' /\ HeldOK' /\ DeepOK'
  OBVIOUS
<1> USE ReorgAssumption
<1>1. UNCHANGED <<head, top>>
  BY DEF Next, Start, Crash, TakeEvent, ReadHeight, PutBack, Write, HaltEventProcessor,
         HaltTransformer, NextEventToValidate, Validate, ReportReorg, FinalityFails,
         FinalityStops, WaitHalted, TimeOut, Search, SearchEnds, CleanUp, Stop, vars, chain
<1>2. ChainOK'
  BY <1>1 DEF DInv, ChainOK
<1>3. CASE Crash \/ FinalityStops \/ TimeOut \/ SearchEnds \/ Stop
  <2>1. held' = {} /\ UNCHANGED <<rows, validated>>
    BY <1>3 DEF Crash, FinalityStops, TimeOut, SearchEnds, Stop, Exit, tables
  <2> QED
    BY <2>1, <1>1, <1>2 DEF DInv, HeldOK, DeepOK, Settled
<1>4. CASE TakeEvent
  <2>1. \E l \in queue : held' = {l}
    BY <1>4 DEF TakeEvent
  <2>2. UNCHANGED <<rows, validated>> /\ up' /\ ep' = "popped"
    BY <1>4 DEF TakeEvent, tables, process
  <2> QED
    BY <2>1, <2>2, <1>1, <1>2 DEF DInv, HeldOK, DeepOK, Settled
<1>5. CASE ReadHeight
  <2>1. PICK l \in held : ep' = IF Deep(l) THEN "writing" ELSE "returning"
    BY <1>5 DEF ReadHeight
  <2>2. UNCHANGED <<rows, validated, held>> /\ up'
    BY <1>5 DEF ReadHeight, tables, process
  <2>3. held = {l} /\ head <= top /\ head \in Nat /\ top \in Nat /\ l.block \in Nat
    <3>1. held = {l}
      BY <2>1 DEF DInv, HeldOK
    <3>2. head \in Nat /\ top \in Nat /\ l.block \in Nat
      BY <2>1, Types DEF DInv, CInv
    <3>3. head <= top
      BY <3>2 DEF DInv, CInv, TypeOK
    <3> QED
      BY <3>1, <3>2, <3>3
  <2>4. ep' = "writing" => l.block + Confirmations <= top
    BY <2>1, <2>3 DEF Deep
  <2>5. DeepOK'
    BY <2>2, <2>3, <2>4, <1>1 DEF DInv, DeepOK, Settled
  <2>6. ep' # "loop"
    BY <2>1
  <2> QED
    BY <2>2, <2>5, <2>6, <1>2 DEF DInv, HeldOK
<1>6. CASE PutBack
  <2>1. held' = {} /\ UNCHANGED <<rows, validated>>
    BY <1>6 DEF PutBack, tables
  <2> QED
    BY <2>1, <1>1, <1>2 DEF DInv, HeldOK, DeepOK, Settled
<1>7. CASE Write
  <2>1. held' = {} /\ UNCHANGED validated /\ ep = "writing" /\ rows' \subseteq rows \cup held
    BY <1>7 DEF Write, MayWrite
  <2> QED
    BY <2>1, <1>1, <1>2 DEF DInv, HeldOK, DeepOK, Settled
<1>8. CASE HaltEventProcessor
  <2>1. held = {} /\ UNCHANGED <<rows, validated, held>>
    BY <1>8 DEF HaltEventProcessor, DInv, HeldOK, tables
  <2> QED
    BY <2>1, <1>1, <1>2 DEF DInv, HeldOK, DeepOK, Settled
<1>9. CASE Validate
  <2>1. PICK r \in judged : validated' = [validated EXCEPT ![tag] = r.block]
    BY <1>9 DEF Validate
  <2>2. UNCHANGED <<rows, held, up, ep>>
    BY <1>9 DEF Validate, process, loops
  <2>3. r \in rows /\ validated \in [Tags -> 0..MaxBlock]
    BY <2>1, Types DEF DInv, CInv, CauseOK
  <2> QED
    BY <2>1, <2>2, <2>3, <1>1, <1>2 DEF DInv, HeldOK, DeepOK, Settled
<1>10. CASE \/ Start \/ HaltTransformer \/ NextEventToValidate \/ ReportReorg \/ FinalityFails
            \/ WaitHalted \/ Search \/ CleanUp \/ UNCHANGED vars
  <2>1. UNCHANGED <<held, ep, validated>> /\ rows' \subseteq rows /\ (up' = TRUE \/ UNCHANGED up)
    BY <1>10 DEF Start, HaltTransformer, NextEventToValidate, ReportReorg, FinalityFails,
                 WaitHalted, Search, CleanUp, vars, tables, process, loops
  <2> QED
    BY <2>1, <1>1, <1>2 DEF DInv, HeldOK, DeepOK, Settled
<1> QED
  BY <1>3, <1>4, <1>5, <1>6, <1>7, <1>8, <1>9, <1>10 DEF Next

LEMMA DeepStep == ReorgDepth <= Confirmations /\ DInv /\ [Next]_vars => DInv'
BY CauseStep, DeepChain, DeepOthers DEF DInv, CInv

LEMMA DeepInit == Init => DInv
<1> SUFFICES ASSUME Init PROVE DInv
  OBVIOUS
<1>1. ChainOK /\ HeldOK /\ DeepOK
  BY ReorgAssumption DEF Init, ChainOK, HeldOK, DeepOK, Settled, Tags
<1> QED
  BY <1>1, CauseInit DEF DInv

(* While the chain drops no more blocks than the confirmations a row waits *)
(* for, no row of the chain is ever dropped, whatever the chain does       *)
(* between the reading of the height and the writing of the row.           *)
THEOREM ConfirmedTheorem == ReorgDepth <= Confirmations => (Spec => ConfirmedStays)
<1> SUFFICES ASSUME ReorgDepth <= Confirmations PROVE Spec => ConfirmedStays
  OBVIOUS
<1>1. DInv /\ [Next]_vars => DInv'
  BY DeepStep
<1>2. DInv /\ [Next]_vars => rows \cap Canon \subseteq Canon'
  <2> SUFFICES ASSUME DInv, [Next]_vars, NEW r \in rows, r \in Canon PROVE r \in Canon'
    OBVIOUS
  <2>1. CASE Mine \/ Reorganise
    <3>1. Canonical(r) /\ r \in Log
      BY CanonIsCanonical, Types DEF DInv, CInv
    <3>2. Canonical(r)'
      BY <2>1, <3>1, SettledStay DEF Settled
    <3>3. block'[r.block] = r.hash /\ r.block \in 1..MaxBlock /\ r.hash # NoLog
      BY <3>1, <3>2, Types DEF Canonical, DInv, CInv
    <3>4. r = [block |-> r.block, hash |-> r.hash]
      BY <3>1 DEF Log
    <3> QED
      BY <3>3, <3>4 DEF Canon, LogAt
  <2>2. CASE ~(Mine \/ Reorganise)
    <3>1. UNCHANGED block
      BY <2>2 DEF Next, Start, Crash, TakeEvent, ReadHeight, PutBack, Write, HaltEventProcessor,
         HaltTransformer, NextEventToValidate, Validate, ReportReorg, FinalityFails,
         FinalityStops, WaitHalted, TimeOut, Search, SearchEnds, CleanUp, Stop, vars, chain
    <3> QED
      BY <3>1 DEF Canon, LogAt
  <2> QED
    BY <2>1, <2>2
<1> QED
  BY <1>1, <1>2, DeepInit, PTL DEF Spec, ConfirmedStays

(***************************************************************************)
(* What was validated is canonical.                                        *)
(***************************************************************************)
(* The chain drops no block that is deep enough for a row, and the node    *)
(* knows nothing of the blocks it dropped.                                 *)
ShallowReorgs == ReorgDepth <= Confirmations /\ ~ServesStale

(* Nothing in memory is below a row of the chain, nor in the queue below   *)
(* an event of the chain in hand.  Of stale logs this is not true: an      *)
(* event popped early is written late if its block is dropped meanwhile.   *)
OrderOK ==
  /\ \A r \in rows : Canonical(r) => \A l \in queue \cup held : r.block <= l.block
  /\ \A l \in held : Canonical(l) => \A m \in queue : l.block <= m.block

(* Until the cleanup, a stale log in memory is above what was validated,   *)
(* or its place is taken and it will not be written.                       *)
StaleOK ==
  handler # "stopping" =>
    \A l \in queue \cup held : ~Canonical(l) =>
      \A t \in Tags :
        \/ validated[t] < l.block
        \/ validated[t] = l.block /\ \E r \in rows : r.block = l.block

(* If the event the finality loop looks at is on the chain, it is the next *)
(* one above its pointer.                                                  *)
JudgedOK ==
  \A j \in judged :
    /\ validated[tag] < j.block
    /\ Canonical(j) => \A r \in rows : r.block <= validated[tag] \/ j.block <= r.block

VInv == OrderOK /\ StaleOK /\ JudgedOK /\ ValidatedIsCanonical

IInv == DInv /\ VInv

LEMMA CheckSound ==
  ASSUME ~ServesStale, NEW l
  PROVE /\ TRUE \in CheckCanonicalBlock(l) => Canonical(l)
        /\ FALSE \in CheckCanonicalBlock(l) => ~Canonical(l)
BY Zenon DEF CheckCanonicalBlock

LEMMA InvTypes ==
  ASSUME IInv
  PROVE /\ \A l \in Log : l.block \in Nat /\ l.block \in 1..MaxBlock /\ l.hash # NoLog
        /\ rows \subseteq Log /\ held \subseteq Log /\ queue \subseteq Log /\ judged \subseteq Log
        /\ top \in Nat /\ head \in Nat /\ block \in [1..MaxBlock -> 0..MaxForks]
        /\ tag \in Tags /\ validated \in [Tags -> 0..MaxBlock]
        /\ \A t \in Tags : validated[t] \in Nat
        /\ \A p, q \in rows : p.block = q.block => p = q
BY Types DEF IInv, DInv, CInv

(* A log of a dropped block is stale for good, as hashes do not return.    *)
LEMMA StaleStays ==
  ASSUME CInv, Mine \/ Reorganise
  PROVE  \A l \in rows \cup queue \cup held : Canonical(l)' => Canonical(l)
<1> USE ReorgAssumption
<1>1. /\ \A l \in Log : l.block \in 1..MaxBlock /\ l.hash # NoLog
      /\ rows \subseteq Log /\ held \subseteq Log /\ queue \subseteq Log
      /\ block \in [1..MaxBlock -> 0..MaxForks] /\ head \in Nat
  BY Types DEF CInv
<1>2. CASE Mine
  <2>1. PICK h \in {NoLog, fork} : block' = [block EXCEPT ![head + 1] = h]
    BY <1>2 DEF Mine
  <2>2. \A l \in Log : Canonical(l)' => Canonical(l) \/ l.hash = fork
    BY <1>1, <2>1 DEF Canonical
  <2> QED
    BY <1>1, <2>2 DEF CInv, HashOK
<1>3. CASE Reorganise
  <2>1. PICK n \in 0..head - 1 :
          block' = [m \in 1..MaxBlock |-> IF m <= n THEN block[m] ELSE NoLog]
    BY <1>3 DEF Reorganise
  <2> QED
    BY <1>1, <2>1 DEF Canonical
<1> QED
  BY <1>2, <1>3

LEMMA MineStep == ShallowReorgs /\ IInv /\ Mine => VInv'
<1> SUFFICES ASSUME ShallowReorgs, IInv, Mine PROVE VInv'
  OBVIOUS
<1> USE ReorgAssumption
<1>1. PICK h \in {NoLog, fork} :
        /\ block' = [block EXCEPT ![head + 1] = h]
        /\ queue' = IF up /\ h # NoLog THEN queue \cup {[block |-> head + 1, hash |-> h]}
                    ELSE queue
  BY DEF Mine
<1>2. UNCHANGED <<rows, validated, held, tag, judged, handler>> /\ head + 1 \in 1..MaxBlock
  BY DEF Mine, tables, finality, handling, IInv, DInv, CInv, TypeOK
<1>3. /\ \A l \in Log : l.block \in Nat /\ l.block \in 1..MaxBlock /\ l.hash # NoLog
      /\ rows \subseteq Log /\ held \subseteq Log /\ queue \subseteq Log /\ head \in Nat
      /\ block \in [1..MaxBlock -> 0..MaxForks]
  BY InvTypes
<1>4. /\ \A l \in rows \cup queue \cup held : Canonical(l)' => Canonical(l)
      /\ \A r \in rows : r.block <= head /\ (Canonical(r)' <=> Canonical(r))
      /\ \A j \in judged : j \in rows
  BY StaleStays, SettledStay DEF ShallowReorgs, IInv, DInv, CInv, CauseOK, Settled
<1>5. block[head + 1] = NoLog
  BY <1>2, <1>3 DEF IInv, DInv, CInv, HashOK
<1>6. \A l \in Log : Canonical(l) => Canonical(l)' /\ l.block <= head
  BY <1>1, <1>2, <1>3, <1>5 DEF Canonical, IInv, DInv, CInv, HashOK
<1>7. \A l \in queue' : l \in queue \/ (l.block = head + 1 /\ Canonical(l)')
  BY <1>1, <1>2, <1>3 DEF Canonical
<1>8. OrderOK'
  BY <1>2, <1>3, <1>4, <1>6, <1>7 DEF IInv, VInv, OrderOK
<1>9. StaleOK'
  BY <1>2, <1>3, <1>6, <1>7 DEF IInv, VInv, StaleOK
<1>10. JudgedOK'
  BY <1>2, <1>4 DEF IInv, VInv, JudgedOK
<1>11. ValidatedIsCanonical'
  BY <1>2, <1>4 DEF IInv, VInv, ValidatedIsCanonical
<1> QED
  BY <1>8, <1>9, <1>10, <1>11 DEF VInv

LEMMA ReorganiseStep == ShallowReorgs /\ IInv /\ Reorganise => VInv'
<1> SUFFICES ASSUME ShallowReorgs, IInv, Reorganise PROVE VInv'
  OBVIOUS
<1> USE ReorgAssumption
<1>1. PICK n \in 0..head - 1 :
        /\ n + ReorgDepth >= top /\ head' = n
        /\ block' = [m \in 1..MaxBlock |-> IF m <= n THEN block[m] ELSE NoLog]
        /\ queue' = IF up THEN queue \cup {l \in Canon : l.block > n} ELSE queue
  BY DEF Reorganise
<1>2. UNCHANGED <<rows, validated, held, tag, judged, handler>>
  BY DEF Reorganise, tables, finality, handling
<1>3. /\ \A l \in Log : l.block \in Nat /\ l.block \in 1..MaxBlock /\ l.hash # NoLog
      /\ rows \subseteq Log /\ held \subseteq Log /\ queue \subseteq Log
      /\ top \in Nat /\ head \in Nat /\ block \in [1..MaxBlock -> 0..MaxForks]
      /\ \A t \in Tags : validated[t] \in Nat
  BY InvTypes
<1>4. top <= n + Confirmations /\ n \in Nat
  BY <1>1, <1>3 DEF ShallowReorgs
<1>5. /\ \A l \in rows \cup queue \cup held : Canonical(l)' => Canonical(l)
      /\ \A r \in rows : r.block <= n /\ (Canonical(r)' <=> Canonical(r))
      /\ \A j \in judged : j \in rows
  BY <1>1, StaleStays, SettledStay DEF ShallowReorgs, IInv, DInv, CInv, CauseOK, Settled
<1>6. \A l \in Log : /\ l.block <= n => (Canonical(l)' <=> Canonical(l))
                     /\ Canonical(l)' => l.block <= n
  BY <1>1, <1>3 DEF Canonical
<1>7. \A t \in Tags : validated[t] <= n
  <2> SUFFICES ASSUME NEW t \in Tags PROVE validated[t] <= n
    OBVIOUS
  <2>1. validated[t] = 0 \/ validated[t] + Confirmations <= top
    BY DEF IInv, DInv, DeepOK
  <2> QED
    BY <2>1, <1>3, <1>4
<1>8. queue' \subseteq Log /\ \A l \in queue' : l \in queue \/ l.block > n
  BY <1>1, <1>3 DEF Canon, LogAt, Log, NoLog
<1>9. OrderOK'
  BY <1>2, <1>3, <1>4, <1>5, <1>6, <1>8 DEF IInv, VInv, OrderOK
<1>10. StaleOK'
  <2> SUFFICES ASSUME handler # "stopping", NEW l \in queue' \cup held, ~Canonical(l)',
                      NEW t \in Tags
               PROVE \/ validated[t] < l.block
                     \/ validated[t] = l.block /\ \E r \in rows : r.block = l.block
    BY <1>2 DEF StaleOK
  <2>1. CASE l.block > n
    BY <2>1, <1>3, <1>4, <1>7, <1>8
  <2>2. CASE l.block <= n
    BY <2>2, <1>3, <1>4, <1>6, <1>8 DEF IInv, VInv, StaleOK
  <2> QED
    BY <2>1, <2>2, <1>3, <1>4, <1>8
<1>11. JudgedOK'
  BY <1>2, <1>5 DEF IInv, VInv, JudgedOK
<1>12. ValidatedIsCanonical'
  BY <1>2, <1>5 DEF IInv, VInv, ValidatedIsCanonical
<1> QED
  BY <1>9, <1>10, <1>11, <1>12 DEF VInv

LEMMA WriteStep == QuietStop /\ IInv /\ Write => VInv'
<1> SUFFICES ASSUME QuietStop, IInv, Write PROVE VInv'
  OBVIOUS
<1>1. PICK l \in held : rows' = rows \cup (IF \E r \in rows : r.block = l.block THEN {} ELSE {l})
  BY DEF Write
<1>2. /\ UNCHANGED <<block, validated, queue, tag, judged, handler>>
      /\ held' = {} /\ handler # "stopping"
  BY DEF Write, MayWrite, chain, finality, handling
<1>3. /\ \A m \in Log : m.block \in Nat
      /\ rows \subseteq Log /\ held \subseteq Log
      /\ \A t \in Tags : validated[t] \in Nat
  BY InvTypes
<1>4. \A m : Canonical(m)' <=> Canonical(m)
  BY <1>2 DEF Canonical
<1>5. /\ rows \subseteq rows'
      /\ \A r \in rows' : r \in rows \/ (r = l /\ \A q \in rows : q.block # l.block)
  BY <1>1
<1>6. OrderOK'
  BY <1>2, <1>4, <1>5 DEF IInv, VInv, OrderOK
<1>7. StaleOK'
  BY <1>2, <1>4, <1>5 DEF IInv, VInv, StaleOK
<1>8. JudgedOK'
  <2>1. \A j \in judged : j \in rows
    BY DEF IInv, DInv, CInv, CauseOK
  <2>2. \A j \in judged : Canonical(j) => j.block <= l.block
    BY <2>1 DEF IInv, VInv, OrderOK
  <2> QED
    BY <1>2, <1>4, <1>5, <2>2 DEF IInv, VInv, JudgedOK
<1>9. ValidatedIsCanonical'
  <2>1. ~Canonical(l) /\ l \in rows' \ rows => \A t \in Tags : validated[t] < l.block
    BY <1>2, <1>5 DEF IInv, VInv, StaleOK
  <2>2. \A r \in rows' : ~Canonical(r) => \A t \in Tags : validated[t] < r.block
    BY <1>3, <1>5, <2>1 DEF IInv, VInv, ValidatedIsCanonical
  <2>3. rows' \subseteq Log
    BY <1>3, <1>5
  <2> QED
    BY <1>2, <1>3, <1>4, <2>2, <2>3 DEF ValidatedIsCanonical
<1> QED
  BY <1>6, <1>7, <1>8, <1>9 DEF VInv

LEMMA ValidateStep == ShallowReorgs /\ IInv /\ Validate => VInv'
<1> SUFFICES ASSUME ShallowReorgs, IInv, Validate PROVE VInv'
  OBVIOUS
<1>1. PICK r \in judged :
        /\ TRUE \in CheckCanonicalBlock(r)
        /\ validated' = [validated EXCEPT ![tag] = r.block]
  BY DEF Validate
<1>2. UNCHANGED <<block, rows, queue, held, handler>> /\ judged' = {}
  BY DEF Validate, chain, handling
<1>3. /\ \A l \in Log : l.block \in Nat
      /\ rows \subseteq Log /\ held \subseteq Log /\ queue \subseteq Log
      /\ tag \in Tags /\ validated \in [Tags -> 0..MaxBlock]
      /\ \A t \in Tags : validated[t] \in Nat
      /\ \A p, q \in rows : p.block = q.block => p = q
  BY InvTypes
<1>4. \A m : Canonical(m)' <=> Canonical(m)
  BY <1>2 DEF Canonical
<1>5. Canonical(r) /\ r \in rows
  BY <1>1, CheckSound DEF ShallowReorgs, IInv, DInv, CInv, CauseOK
<1>6. /\ validated[tag] < r.block
      /\ \A q \in rows : q.block <= validated[tag] \/ r.block <= q.block
  BY <1>5 DEF IInv, VInv, JudgedOK
<1>7. /\ validated'[tag] = r.block
      /\ \A t \in Tags : t # tag => validated'[t] = validated[t]
  BY <1>1, <1>3
<1>8. OrderOK' /\ JudgedOK'
  BY <1>2, <1>4 DEF IInv, VInv, OrderOK, JudgedOK
<1>9. StaleOK'
  <2> SUFFICES ASSUME handler # "stopping", NEW l \in queue \cup held, ~Canonical(l),
                      NEW t \in Tags
               PROVE \/ validated'[t] < l.block
                     \/ validated'[t] = l.block /\ \E q \in rows : q.block = l.block
    BY <1>2, <1>4 DEF StaleOK
  <2>1. r.block <= l.block /\ r.block \in Nat /\ l.block \in Nat
    BY <1>3, <1>5 DEF IInv, VInv, OrderOK
  <2>2. CASE t = tag
    BY <2>1, <2>2, <1>5, <1>7
  <2>3. CASE t # tag
    BY <2>3, <1>7 DEF IInv, VInv, StaleOK
  <2> QED
    BY <2>2, <2>3
<1>10. ValidatedIsCanonical'
  <2> SUFFICES ASSUME NEW q \in rows, NEW t \in Tags, q.block <= validated'[t]
               PROVE Canonical(q)
    BY <1>2, <1>4 DEF ValidatedIsCanonical
  <2>1. CASE t = tag
    <3>1. q.block <= validated[tag] \/ q = r
      BY <2>1, <1>3, <1>5, <1>6, <1>7
    <3> QED
      BY <3>1, <1>3, <1>5 DEF IInv, VInv, ValidatedIsCanonical
  <2>2. CASE t # tag
    BY <2>2, <1>7 DEF IInv, VInv, ValidatedIsCanonical
  <2> QED
    BY <2>1, <2>2
<1> QED
  BY <1>8, <1>9, <1>10 DEF VInv

LEMMA CleanUpStep == IInv /\ DInv' /\ CleanUp => VInv'
<1> SUFFICES ASSUME IInv, DInv', CleanUp PROVE VInv'
  OBVIOUS
<1>1. /\ UNCHANGED <<block, validated, queue, held, judged, tag>>
      /\ rows' \subseteq rows /\ handler' = "stopping"
  BY DEF CleanUp, chain, finality
<1>2. \A m : Canonical(m)' <=> Canonical(m)
  BY <1>1 DEF Canonical
<1>3. OrderOK' /\ StaleOK' /\ JudgedOK'
  BY <1>1, <1>2 DEF IInv, VInv, OrderOK, StaleOK, JudgedOK
<1>4. ValidatedIsCanonical'
  BY <1>1, <1>2 DEF IInv, VInv, ValidatedIsCanonical
<1> QED
  BY <1>3, <1>4 DEF VInv

LEMMA StartStep == IInv /\ Start => VInv'
<1> SUFFICES ASSUME IInv, Start PROVE VInv'
  OBVIOUS
<1>1. /\ UNCHANGED <<block, rows, validated, judged, tag>> /\ held' = {}
      /\ queue' = {l \in Canon : \A r \in rows : r.block <= l.block}
  BY DEF Start, chain, tables, finality, IInv, DInv, HeldOK
<1>2. \A l \in queue' : Canonical(l)
  BY <1>1 DEF Canon, LogAt, Canonical
<1>3. \A m : Canonical(m)' <=> Canonical(m)
  BY <1>1 DEF Canonical
<1>4. OrderOK' /\ StaleOK'
  BY <1>1, <1>2, <1>3 DEF OrderOK, StaleOK
<1>5. JudgedOK' /\ ValidatedIsCanonical'
  BY <1>1, <1>3 DEF IInv, VInv, JudgedOK, ValidatedIsCanonical
<1> QED
  BY <1>4, <1>5 DEF VInv

(* The end of the process forgets what is in memory: fewer logs to keep.   *)
LEMMA ExitStep == IInv /\ Exit /\ UNCHANGED <<chain, tables>> => VInv'
<1> SUFFICES ASSUME IInv, Exit, UNCHANGED <<chain, tables>> PROVE VInv'
  OBVIOUS
<1>1. UNCHANGED <<block, rows, validated>> /\ queue' = {} /\ held' = {} /\ judged' = {}
  BY DEF Exit, chain, tables
<1> QED
  BY <1>1 DEF IInv, VInv, OrderOK, StaleOK, JudgedOK, ValidatedIsCanonical, Canonical

LEMMA TakeEventStep == IInv /\ TakeEvent => VInv'
<1> SUFFICES ASSUME IInv, TakeEvent PROVE VInv'
  OBVIOUS
<1>1. PICK l \in queue :
        /\ \A m \in queue : l.block <= m.block
        /\ held' = {l} /\ queue' = queue \ {l}
  BY DEF TakeEvent
<1>2. UNCHANGED <<block, rows, validated, judged, tag, handler>>
  BY DEF TakeEvent, chain, tables, finality, handling
<1>3. \A m : Canonical(m)' <=> Canonical(m)
  BY <1>2 DEF Canonical
<1>4. OrderOK' /\ StaleOK'
  BY <1>1, <1>2, <1>3 DEF IInv, VInv, OrderOK, StaleOK
<1>5. JudgedOK' /\ ValidatedIsCanonical'
  BY <1>2, <1>3 DEF IInv, VInv, JudgedOK, ValidatedIsCanonical
<1> QED
  BY <1>4, <1>5 DEF VInv

LEMMA NextEventStep == IInv /\ NextEventToValidate => VInv'
<1> SUFFICES ASSUME IInv, NextEventToValidate PROVE VInv'
  OBVIOUS
<1>1. UNCHANGED <<block, rows, validated, queue, held, handler>> /\ judged = {}
  BY DEF NextEventToValidate, chain, tables, handling
<1>2. JudgedOK'
  <2>1. CASE ToValidate = {}
    BY <2>1, <1>1 DEF NextEventToValidate, JudgedOK
  <2>2. CASE ToValidate # {}
    <3>1. PICK r \in ToValidate : (\A q \in ToValidate : r.block <= q.block) /\ judged' = {r}
      BY <2>2 DEF NextEventToValidate
    <3>2. tag' = tag
      BY <2>2 DEF NextEventToValidate
    <3>3. r.block > validated[tag] /\ r.block \in Nat /\ validated[tag] \in Nat
      BY <3>1, InvTypes DEF ToValidate
    <3>4. \A q \in rows : q.block <= validated[tag] \/ r.block <= q.block
      BY <3>1, <3>3, InvTypes DEF ToValidate
    <3> QED
      BY <3>1, <3>2, <3>3, <3>4, <1>1 DEF JudgedOK
  <2> QED
    BY <2>1, <2>2
<1>3. OrderOK' /\ StaleOK' /\ ValidatedIsCanonical'
  BY <1>1 DEF IInv, VInv, OrderOK, StaleOK, ValidatedIsCanonical, Canonical
<1> QED
  BY <1>2, <1>3 DEF VInv

(* Steps that leave the tables alone, bring no log into memory and judge   *)
(* nothing: reading, putting back, halting, reporting, searching, failing. *)
LEMMA OtherSteps ==
  ASSUME IInv,
         \/ ReadHeight \/ PutBack \/ HaltEventProcessor \/ HaltTransformer \/ ReportReorg
         \/ FinalityFails \/ WaitHalted \/ Search \/ UNCHANGED vars
  PROVE VInv'
<1>1. UNCHANGED <<block, rows, validated, tag>>
  BY DEF ReadHeight, PutBack, HaltEventProcessor, HaltTransformer, ReportReorg, FinalityFails,
         WaitHalted, Search, vars, chain, tables, finality
<1>2. \/ UNCHANGED held /\ queue' \subseteq queue
      \/ held' = {} /\ queue' = queue \cup held
  BY DEF ReadHeight, PutBack, HaltEventProcessor, HaltTransformer, ReportReorg, FinalityFails,
         WaitHalted, Search, vars
<1>3. judged' = {} \/ UNCHANGED judged
  BY DEF ReadHeight, PutBack, HaltEventProcessor, HaltTransformer, ReportReorg, FinalityFails,
         WaitHalted, Search, vars, finality
<1>4. UNCHANGED handler \/ handler # "stopping"
  BY DEF ReadHeight, PutBack, HaltEventProcessor, HaltTransformer, ReportReorg, FinalityFails,
         WaitHalted, Search, vars, handling, IInv, DInv, CInv, CauseOK
<1>5. \A m : Canonical(m)' <=> Canonical(m)
  BY <1>1 DEF Canonical
<1>6. OrderOK' /\ StaleOK'
  BY <1>1, <1>2, <1>4, <1>5 DEF IInv, VInv, OrderOK, StaleOK
<1>7. JudgedOK' /\ ValidatedIsCanonical'
  BY <1>1, <1>3, <1>5 DEF IInv, VInv, JudgedOK, ValidatedIsCanonical
<1> QED
  BY <1>6, <1>7 DEF VInv

LEMMA InvStep == ShallowReorgs /\ QuietStop /\ IInv /\ [Next]_vars => IInv'
<1> SUFFICES ASSUME ShallowReorgs, QuietStop, IInv, [Next]_vars PROVE IInv'
  OBVIOUS
<1>1. DInv'
  BY DeepStep DEF ShallowReorgs, IInv
<1>2. CASE Crash \/ FinalityStops \/ TimeOut \/ SearchEnds \/ Stop
  <2>1. Exit /\ UNCHANGED <<chain, tables>>
    BY <1>2 DEF Crash, FinalityStops, TimeOut, SearchEnds, Stop
  <2> QED
    BY <2>1, <1>1, ExitStep DEF IInv
<1>3. CASE ~(Crash \/ FinalityStops \/ TimeOut \/ SearchEnds \/ Stop)
  <2>1. VInv'
    BY <1>1, <1>3, MineStep, ReorganiseStep, StartStep, TakeEventStep, WriteStep,
       NextEventStep, ValidateStep, CleanUpStep, OtherSteps DEF Next
  <2> QED
    BY <1>1, <2>1 DEF IInv
<1> QED
  BY <1>2, <1>3

LEMMA InvInit == Init => IInv
<1> SUFFICES ASSUME Init PROVE IInv
  OBVIOUS
<1>1. OrderOK /\ StaleOK /\ JudgedOK /\ ValidatedIsCanonical
  BY DEF Init, OrderOK, StaleOK, JudgedOK, ValidatedIsCanonical
<1> QED
  BY <1>1, DeepInit DEF IInv, VInv

(* While the chain drops no block as deep as a row's, the node forgets     *)
(* what was dropped and nothing is written between the cleanup and the     *)
(* exit, no stale row is ever recorded as validated, whatever the halting  *)
(* does and though the finalized height is not looked at.                  *)
THEOREM ValidatedTheorem == ShallowReorgs /\ QuietStop => (Spec => []ValidatedIsCanonical)
<1> SUFFICES ASSUME ShallowReorgs, QuietStop PROVE Spec => []ValidatedIsCanonical
  OBVIOUS
<1>1. IInv /\ [Next]_vars => IInv'
  BY InvStep
<1>2. IInv => ValidatedIsCanonical
  BY DEF IInv, VInv
<1> QED
  BY <1>1, <1>2, InvInit, PTL DEF Spec

(***************************************************************************)
(* No hole below the newest row.                                           *)
(***************************************************************************)
(* What is stored or on its way to be.                                     *)
Memory == rows \cup queue \cup held

(* A stale row dooms the place of m: no log of the chain lies between it   *)
(* and m, so the cleanup it will cause deletes whatever is above m.        *)
Doomed(m, logs) ==
  \E b \in rows :
    /\ ~Canonical(b)
    /\ \A l \in logs : Canonical(l) /\ l.block < b.block => l.block <= m.block

(* A log of the chain that a row is above of is stored, or its place is    *)
(* doomed.                                                                 *)
HoleOK ==
  \A m \in Canon : (\E r \in rows : m.block <= r.block) => m \in rows \/ Doomed(m, rows)

(* Until the cleanup, each log of the chain is stored, or on its way, or   *)
(* its place is doomed.                                                    *)
FlightOK ==
  up /\ handler # "stopping" => \A m \in Canon : m \in Memory \/ Doomed(m, Memory)

(* The search ends at a row of the chain.                                  *)
FoundOK == handler = "found" => \E r \in rows : Canonical(r) /\ r.block = from

Holes == HoleOK /\ FlightOK /\ FoundOK

HInv == IInv /\ Holes

LEMMA CanonTypes ==
  ASSUME IInv
  PROVE  /\ \A m \in Log : m.block \in Nat
         /\ rows \subseteq Log /\ held \subseteq Log /\ queue \subseteq Log /\ Canon \subseteq Log
         /\ from \in Nat
         /\ \A m \in Canon : Canonical(m)
<1>1. Canon \subseteq Log
  BY DEF Canon, LogAt, Log, IInv, DInv, CInv, TypeOK, NoLog
<1>2. from \in Nat
  BY ReorgAssumption DEF IInv, DInv, CInv, TypeOK
<1>3. \A m \in Canon : Canonical(m)
  BY DEF Canon, LogAt, Canonical
<1> QED
  BY <1>1, <1>2, <1>3, InvTypes

(* A place has one log of the chain.                                       *)
LEMMA OneLog ==
  ASSUME NEW l \in Log, NEW m \in Log, Canonical(l), Canonical(m), l.block = m.block
  PROVE  l = m
BY DEF Canonical, Log

LEMMA HoleMine == ShallowReorgs /\ HInv /\ Mine => Holes'
<1> SUFFICES ASSUME ShallowReorgs, HInv, Mine PROVE Holes'
  OBVIOUS
<1> USE ReorgAssumption
<1>1. PICK h \in {NoLog, fork} :
        /\ block' = [block EXCEPT ![head + 1] = h]
        /\ queue' = IF up /\ h # NoLog THEN queue \cup {[block |-> head + 1, hash |-> h]}
                    ELSE queue
  BY DEF Mine
<1>2. UNCHANGED <<rows, up, held, handler, from>>
  BY DEF Mine, tables, process, handling
<1>3. /\ \A r \in rows : r.block <= head /\ (Canonical(r)' <=> Canonical(r))
      /\ \A l \in Memory : Canonical(l)' => Canonical(l)
  BY SettledStay, StaleStays DEF ShallowReorgs, HInv, IInv, DInv, Settled, Memory
<1>4. /\ head \in Nat /\ block \in [1..MaxBlock -> 0..MaxForks]
      /\ rows \subseteq Log /\ \A m \in Log : m.block \in Nat
  BY InvTypes DEF HInv
<1>5. \A m \in Canon' : m \in Canon \/ (m = [block |-> head + 1, hash |-> h] /\ h # NoLog)
  BY <1>1, <1>4 DEF Canon, LogAt
<1>6. \A r \in rows : r.block \in Nat /\ ~(head + 1 <= r.block) /\ ~(head + 1 < r.block)
  BY <1>3, <1>4
<1>7. HoleOK'
  <2> SUFFICES ASSUME NEW m \in Canon', NEW r \in rows, m.block <= r.block
               PROVE  m \in rows \/ Doomed(m, rows)'
    BY <1>2 DEF HoleOK
  <2>1. m \in Canon
    BY <1>5, <1>6
  <2>2. m \in rows \/ Doomed(m, rows)
    BY <2>1 DEF HInv, Holes, HoleOK
  <2> QED
    BY <2>2, <1>2, <1>3 DEF Doomed
<1>8. FlightOK'
  <2> SUFFICES ASSUME up, handler # "stopping", NEW m \in Canon'
               PROVE  m \in Memory' \/ Doomed(m, Memory)'
    BY <1>2 DEF FlightOK
  <2>1. CASE m \notin Canon
    BY <2>1, <1>1, <1>5 DEF Memory
  <2>2. CASE m \in Canon
    <3>1. m \in Memory \/ Doomed(m, Memory)
      BY <2>2 DEF HInv, Holes, FlightOK
    <3>2. Memory \subseteq Memory' /\ \A l \in Memory' : l \in Memory \/ l.block = head + 1
      BY <1>1, <1>2 DEF Memory
    <3>3. Doomed(m, Memory) => Doomed(m, Memory)'
      BY <3>2, <1>2, <1>3, <1>6 DEF Doomed
    <3> QED
      BY <3>1, <3>2, <3>3
  <2> QED
    BY <2>1, <2>2
<1>9. FoundOK'
  BY <1>2, <1>3 DEF HInv, Holes, FoundOK
<1> QED
  BY <1>7, <1>8, <1>9 DEF Holes

LEMMA HoleReorganise == ShallowReorgs /\ HInv /\ Reorganise => Holes'
<1> SUFFICES ASSUME ShallowReorgs, HInv, Reorganise PROVE Holes'
  OBVIOUS
<1> USE ReorgAssumption
<1>1. PICK n \in 0..head - 1 :
        /\ block' = [m \in 1..MaxBlock |-> IF m <= n THEN block[m] ELSE NoLog]
        /\ queue' = IF up THEN queue \cup {l \in Canon : l.block > n} ELSE queue
  BY DEF Reorganise
<1>2. UNCHANGED <<rows, up, held, handler, from>>
  BY DEF Reorganise, tables, process, handling
<1>3. /\ \A r \in rows : Canonical(r)' <=> Canonical(r)
      /\ \A l \in Memory : Canonical(l)' => Canonical(l)
  BY SettledStay, StaleStays DEF ShallowReorgs, HInv, IInv, DInv, Settled, Memory
<1>4. \A m \in Canon' : m \in Canon
  BY <1>1 DEF Canon, LogAt
<1>5. Memory \subseteq Memory' /\ \A l \in Memory' : Canonical(l)' => l \in Memory
  <2>1. /\ \A m \in Log : m.block \in Nat /\ m.block \in 1..MaxBlock /\ m.hash # NoLog
        /\ head \in Nat
    BY InvTypes DEF HInv
  <2>2. \A l \in Log : Canonical(l)' => l.block <= n
    BY <2>1, <1>1 DEF Canonical
  <2>3. Canon \subseteq Log
    BY CanonTypes DEF HInv
  <2>4. \A l \in Canon : l.block > n => ~(l.block <= n)
    BY <2>1, <2>3
  <2> QED
    BY <2>2, <2>3, <2>4, <1>1, <1>2 DEF Memory
<1>6. HoleOK'
  <2> SUFFICES ASSUME NEW m \in Canon, NEW r \in rows, m.block <= r.block
               PROVE  m \in rows \/ Doomed(m, rows)'
    BY <1>2, <1>4 DEF HoleOK
  <2>1. m \in rows \/ Doomed(m, rows)
    BY DEF HInv, Holes, HoleOK
  <2> QED
    BY <2>1, <1>2, <1>3 DEF Doomed
<1>7. FlightOK'
  <2> SUFFICES ASSUME up, handler # "stopping", NEW m \in Canon
               PROVE  m \in Memory' \/ Doomed(m, Memory)'
    BY <1>2, <1>4 DEF FlightOK
  <2>1. m \in Memory \/ Doomed(m, Memory)
    BY DEF HInv, Holes, FlightOK
  <2>2. Doomed(m, Memory) => Doomed(m, Memory)'
    BY <1>2, <1>3, <1>5 DEF Doomed
  <2> QED
    BY <2>1, <2>2, <1>5
<1>8. FoundOK'
  BY <1>2, <1>3 DEF HInv, Holes, FoundOK
<1> QED
  BY <1>6, <1>7, <1>8 DEF Holes

LEMMA HoleWrite == QuietStop /\ HInv /\ VInv' /\ Write => Holes'
<1> SUFFICES ASSUME QuietStop, HInv, VInv', Write PROVE Holes'
  OBVIOUS
<1>1. PICK l \in held : rows' = rows \cup (IF \E r \in rows : r.block = l.block THEN {} ELSE {l})
  BY DEF Write
<1>2. UNCHANGED <<block, up, queue, handler, from>> /\ held' = {} /\ handler # "stopping" /\ up
  BY DEF Write, MayWrite, chain, process, handling
<1>3. Canon' = Canon /\ \A m : Canonical(m)' <=> Canonical(m)
  BY <1>2 DEF Canon, LogAt, Canonical
<1>4. /\ \A m \in Log : m.block \in Nat
      /\ rows \subseteq Log /\ held \subseteq Log /\ queue \subseteq Log /\ Canon \subseteq Log
      /\ \A m \in Canon : Canonical(m)
  BY CanonTypes DEF HInv
<1>5. rows \subseteq rows' /\ Memory' \subseteq Memory /\ Memory \subseteq Memory' \cup {l}
  <2>1. held = {l}
    BY <1>1 DEF HInv, IInv, DInv, HeldOK
  <2> QED
    BY <2>1, <1>1, <1>2 DEF Memory
<1>6. \A m \in Canon : m \in Memory' \/ Doomed(m, Memory)'
  <2> SUFFICES ASSUME NEW m \in Canon PROVE m \in Memory' \/ Doomed(m, Memory)'
    OBVIOUS
  <2>1. m \in Memory \/ Doomed(m, Memory)
    BY <1>2 DEF HInv, Holes, FlightOK
  <2>2. Doomed(m, Memory) => Doomed(m, Memory)'
    BY <1>3, <1>5 DEF Doomed
  <2>3. CASE m = l /\ m \notin rows'
    <3>1. PICK r \in rows : r.block = l.block
      BY <2>3, <1>1
    <3>2. ~Canonical(r)
      BY <3>1, <2>3, <1>4, <1>5, OneLog
    <3>3. rows' \subseteq Log /\ Memory' \subseteq Log
      BY <1>1, <1>4, <1>5 DEF Memory
    <3>4. \A k \in Memory' : k.block < r.block => k.block <= m.block
      BY <3>1, <3>3, <2>3, <1>4
    <3> QED
      BY <3>2, <3>4, <1>3, <1>5 DEF Doomed
  <2> QED
    BY <2>1, <2>2, <2>3, <1>5 DEF Memory
<1>7. FlightOK'
  BY <1>3, <1>6 DEF FlightOK
<1>8. HoleOK'
  <2> SUFFICES ASSUME NEW m \in Canon, NEW r \in rows', m.block <= r.block
               PROVE  m \in rows' \/ Doomed(m, rows)'
    BY <1>3 DEF HoleOK
  <2>1. Doomed(m, Memory)' => Doomed(m, rows)'
    BY DEF Doomed, Memory
  <2>2. CASE m \in queue
    <3>1. \A k \in rows' : Canonical(k) => k.block <= m.block
      BY <2>2, <1>2, <1>3 DEF VInv, OrderOK
    <3>2. CASE Canonical(r)
      <4>1. r \in Log /\ m \in Log
        BY <1>1, <1>4
      <4>2. r.block = m.block
        BY <3>1, <3>2, <4>1, <1>4
      <4> QED
        BY <3>2, <4>1, <4>2, <1>4, OneLog
    <3>3. CASE ~Canonical(r)
      BY <3>1, <3>3, <1>3 DEF Doomed
    <3> QED
      BY <3>2, <3>3
  <2> QED
    BY <2>1, <2>2, <1>2, <1>6 DEF Memory
<1>9. FoundOK'
  BY <1>2, <1>3, <1>5 DEF HInv, Holes, FoundOK
<1> QED
  BY <1>7, <1>8, <1>9 DEF Holes

LEMMA HoleHandler == ShallowReorgs /\ HInv /\ (WaitHalted \/ Search \/ CleanUp) => Holes'
<1> SUFFICES ASSUME ShallowReorgs, HInv, WaitHalted \/ Search \/ CleanUp PROVE Holes'
  OBVIOUS
<1>1. UNCHANGED <<block, up, held>>
  BY DEF WaitHalted, Search, CleanUp, chain, process
<1>2. Canon' = Canon /\ \A m : Canonical(m)' <=> Canonical(m)
  BY <1>1 DEF Canon, LogAt, Canonical
<1>3. /\ \A m \in Log : m.block \in Nat
      /\ rows \subseteq Log /\ Canon \subseteq Log /\ from \in Nat
      /\ \A p, q \in rows : p.block = q.block => p = q
  BY CanonTypes, InvTypes DEF HInv
<1>4. CASE WaitHalted
  <2>1. UNCHANGED rows /\ queue' = {} /\ handler = "halting" /\ handler' = "searching"
    BY <1>4 DEF WaitHalted, tables
  <2>2. PICK b \in rows : ~Canonical(b)
    BY <2>1 DEF HInv, IInv, DInv, CInv, CauseOK
  <2>3. Memory' = rows \cup held
    BY <2>1, <1>1 DEF Memory
  <2>4. ASSUME NEW m \in queue PROVE Doomed(m, Memory)'
    <3>1. \A l \in rows \cup held : Canonical(l) => l.block <= m.block
      BY DEF HInv, IInv, VInv, OrderOK
    <3> QED
      BY <3>1, <2>1, <2>2, <2>3, <1>2 DEF Doomed
  <2>5. \A m : Doomed(m, Memory) => Doomed(m, Memory)'
    BY <2>1, <2>3, <1>2 DEF Doomed, Memory
  <2>6. FlightOK'
    BY <2>1, <2>3, <2>4, <2>5, <1>1, <1>2 DEF HInv, Holes, FlightOK, Memory
  <2>7. HoleOK'
    BY <2>1, <1>2 DEF HInv, Holes, HoleOK, Doomed
  <2> QED
    BY <2>1, <2>6, <2>7 DEF Holes, FoundOK
<1>5. CASE Search
  <2>1. UNCHANGED <<rows, queue>> /\ handler = "searching"
    BY <1>5 DEF Search, tables
  <2>2. \/ handler' = "searching"
        \/ handler' = "found" /\ \E r \in rows : Canonical(r) /\ r.block = from'
    BY <2>1, <1>5, CheckSound DEF Search, Below, ShallowReorgs
  <2>3. FoundOK'
    BY <2>1, <2>2, <1>2 DEF FoundOK
  <2>4. HoleOK' /\ FlightOK'
    BY <2>1, <1>1, <1>2 DEF HInv, Holes, HoleOK, FlightOK, Doomed, Memory
  <2> QED
    BY <2>3, <2>4 DEF Holes
<1>6. CASE CleanUp
  <2>1. rows' = {r \in rows : r.block < from} /\ handler = "found" /\ handler' = "stopping"
    BY <1>6 DEF CleanUp
  <2>2. PICK x \in rows : Canonical(x) /\ x.block = from
    BY <2>1 DEF HInv, Holes, FoundOK
  <2>3. HoleOK'
    <3> SUFFICES ASSUME NEW m \in Canon, NEW r \in rows', m.block <= r.block
                 PROVE  m \in rows' \/ Doomed(m, rows)'
      BY <1>2 DEF HoleOK
    <3>1. m.block < from /\ r \in rows
      BY <2>1, <1>3
    <3>2. CASE m \in rows
      BY <3>1, <3>2, <2>1
    <3>3. CASE Doomed(m, rows)
      <4>1. PICK b \in rows : /\ ~Canonical(b)
                              /\ \A l \in rows : Canonical(l) /\ l.block < b.block
                                                   => l.block <= m.block
        BY <3>3 DEF Doomed
      <4>2. ~(from < b.block)
        BY <4>1, <3>1, <2>2, <1>3
      <4>3. b.block # from
        BY <4>1, <2>2, <1>3
      <4>4. b \in rows'
        BY <4>2, <4>3, <2>1, <1>3
      <4> QED
        BY <4>1, <4>4, <2>1, <1>2 DEF Doomed
    <3> QED
      BY <3>1, <3>2, <3>3 DEF HInv, Holes, HoleOK
  <2> QED
    BY <2>1, <2>3 DEF Holes, FlightOK, FoundOK
<1> QED
  BY <1>4, <1>5, <1>6

LEMMA HoleStart == HInv /\ Start => Holes'
<1> SUFFICES ASSUME HInv, Start PROVE Holes'
  OBVIOUS
<1>1. /\ UNCHANGED <<block, rows, handler, from>> /\ held' = {}
      /\ queue' = {l \in Canon : \A r \in rows : r.block <= l.block}
  BY DEF Start, chain, tables, handling, HInv, IInv, DInv, HeldOK
<1>2. Canon' = Canon /\ \A m : Canonical(m)' <=> Canonical(m)
  BY <1>1 DEF Canon, LogAt, Canonical
<1>3. /\ \A m \in Log : m.block \in Nat
      /\ rows \subseteq Log /\ Canon \subseteq Log
  BY CanonTypes DEF HInv
<1>4. Memory' = rows \cup queue'
  BY <1>1 DEF Memory
<1>5. \A l \in queue' : \A r \in rows : ~(l.block < r.block)
  BY <1>1, <1>3
<1>6. \A m \in Canon : m \in Memory' \/ Doomed(m, Memory)'
  <2> SUFFICES ASSUME NEW m \in Canon, m \notin Memory' PROVE Doomed(m, Memory)'
    OBVIOUS
  <2>1. \E r \in rows : m.block <= r.block
    BY <1>1, <1>3, <1>4
  <2>2. Doomed(m, rows)
    BY <2>1, <1>4 DEF HInv, Holes, HoleOK
  <2> QED
    BY <2>2, <1>1, <1>2, <1>4, <1>5 DEF Doomed
<1>7. HoleOK' /\ FoundOK'
  BY <1>1, <1>2 DEF HInv, Holes, HoleOK, FoundOK, Doomed
<1> QED
  BY <1>2, <1>6, <1>7 DEF Holes, FlightOK

LEMMA HoleOthers ==
  ASSUME HInv,
         \/ Exit /\ UNCHANGED <<chain, tables>>
         \/ TakeEvent \/ ReadHeight \/ PutBack \/ HaltEventProcessor \/ HaltTransformer
         \/ NextEventToValidate \/ Validate \/ ReportReorg \/ FinalityFails \/ UNCHANGED vars
  PROVE  Holes'
<1>1. UNCHANGED <<block, rows>>
  BY DEF TakeEvent, ReadHeight, PutBack, HaltEventProcessor, HaltTransformer,
         NextEventToValidate, Validate, ReportReorg, FinalityFails, vars, chain, tables
<1>2. Canon' = Canon /\ \A m : Canonical(m)' <=> Canonical(m)
  BY <1>1 DEF Canon, LogAt, Canonical
<1>3. HoleOK'
  BY <1>1, <1>2 DEF HInv, Holes, HoleOK, Doomed
<1>4. CASE Exit /\ UNCHANGED <<chain, tables>>
  BY <1>3, <1>4 DEF Exit, Holes, FlightOK, FoundOK
<1>5. CASE ~(Exit /\ UNCHANGED <<chain, tables>>)
  <2>1. UNCHANGED up
    BY <1>5 DEF TakeEvent, ReadHeight, PutBack, HaltEventProcessor, HaltTransformer,
         NextEventToValidate, Validate, ReportReorg, FinalityFails, vars, process
  <2>2. \/ UNCHANGED <<handler, from>>
        \/ handler = "waiting" /\ handler' = "halting"
    BY <1>5 DEF TakeEvent, ReadHeight, PutBack, HaltEventProcessor, HaltTransformer,
         NextEventToValidate, Validate, ReportReorg, FinalityFails, vars, handling,
         HInv, IInv, DInv, CInv, CauseOK
  <2>3. Memory' = Memory
    <3>1. CASE TakeEvent
      BY <3>1, <1>1 DEF TakeEvent, Memory, HInv, IInv, DInv, HeldOK
    <3>2. CASE PutBack
      BY <3>2, <1>1 DEF PutBack, Memory
    <3>3. CASE ~(TakeEvent \/ PutBack)
      BY <3>3, <1>1, <1>5 DEF ReadHeight, HaltEventProcessor, HaltTransformer,
         NextEventToValidate, Validate, ReportReorg, FinalityFails, vars, Memory
    <3> QED
      BY <3>1, <3>2, <3>3
  <2>4. FlightOK'
    BY <2>1, <2>2, <2>3, <1>1, <1>2 DEF HInv, Holes, FlightOK, Doomed
  <2>5. FoundOK'
    BY <2>2, <1>1, <1>2 DEF HInv, Holes, FoundOK
  <2> QED
    BY <2>4, <2>5, <1>3 DEF Holes
<1> QED
  BY <1>4, <1>5

LEMMA HoleStep == ShallowReorgs /\ QuietStop /\ HInv /\ [Next]_vars => HInv'
<1> SUFFICES ASSUME ShallowReorgs, QuietStop, HInv, [Next]_vars PROVE HInv'
  OBVIOUS
<1>1. IInv'
  BY InvStep DEF HInv
<1>2. CASE Crash \/ FinalityStops \/ TimeOut \/ SearchEnds \/ Stop
  <2>1. Exit /\ UNCHANGED <<chain, tables>>
    BY <1>2 DEF Crash, FinalityStops, TimeOut, SearchEnds, Stop
  <2> QED
    BY <2>1, <1>1, HoleOthers DEF HInv
<1>3. CASE Mine \/ Reorganise \/ Write
  BY <1>1, <1>3, HoleMine, HoleReorganise, HoleWrite DEF HInv, IInv
<1>4. CASE WaitHalted \/ Search \/ CleanUp \/ Start
  BY <1>1, <1>4, HoleHandler, HoleStart DEF HInv
<1>5. CASE \/ TakeEvent \/ ReadHeight \/ PutBack \/ HaltEventProcessor \/ HaltTransformer
           \/ NextEventToValidate \/ Validate \/ ReportReorg \/ FinalityFails \/ UNCHANGED vars
  BY <1>1, <1>5, HoleOthers DEF HInv
<1> QED
  BY <1>2, <1>3, <1>4, <1>5 DEF Next

(* Whoever takes the halt token, and wherever the process crashes: a       *)
(* restart resumes at the newest row and no confirmed log below it is      *)
(* missing for good, as what is missing goes with a row that the finality  *)
(* processor will find to be stale.  Nothing may be written between the    *)
(* cleanup and the exit.                                                   *)
THEOREM NoHoleTheorem == ShallowReorgs /\ QuietStop => (Spec => []NoHole)
<1> SUFFICES ASSUME ShallowReorgs, QuietStop PROVE Spec => []NoHole
  OBVIOUS
<1>1. Init => HInv
  <2> SUFFICES ASSUME Init PROVE HInv
    OBVIOUS
  <2>1. HoleOK /\ FlightOK /\ FoundOK
    BY DEF Init, HoleOK, FlightOK, FoundOK
  <2> QED
    BY <2>1, InvInit DEF HInv, Holes
<1>2. HInv /\ [Next]_vars => HInv'
  BY HoleStep
<1>3. HInv => NoHole
  BY DEF HInv, Holes, HoleOK, NoHole, Doomed, Canon, LogAt, Canonical
<1> QED
  BY <1>1, <1>2, <1>3, PTL DEF Spec
=============================================================================
