------------------------- MODULE TradeReportsProofs -------------------------
(***************************************************************************)
(* TradeReports for any number of trades and restarts: the trades table    *)
(* ends up as the engine reported, and no hash is credited to a trade      *)
(* earlier than its own.                                                   *)
(***************************************************************************)
EXTENDS TradeReports, TLAPS

\* Nothing is known of a trade that has not been opened, and the engine's
\* position is the last trade opened.
OpenedInOrder ==
  /\ lastTrade <= opened
  /\ holds => openTrade = opened /\ opened > 0
  /\ \A t \in Trades : t > opened => ledger[t] = "absent"
  /\ holds => ledger[opened] = "open"

\* The stages a trade's two pushes go through when none is lost or overtaken.
Delivered(t) ==
  LET o == post[t][Push("open")]  c == post[t][Push("close")]  st == rows[t].st IN
  /\ ledger[t] = "absent" => o = "none" /\ c = "none" /\ st = "absent"
  /\ ledger[t] \in {"open", "dropped"} => c = "none" /\ st = (IF o = "none" THEN "open" ELSE "absent")
  /\ ledger[t] = "closed" =>
       /\ c \in {"none", "sent"}
       /\ c = "none" => o = "none" /\ st = "closed"
       /\ c = "sent" => st = (IF o = "none" THEN "open" ELSE "absent")

\* A hash only ever travels to a trade at least as late as its own.
HashesLate ==
  /\ \A x \in Txs : tx[x] = "start" => x[1] <= lastTrade
  /\ \A t \in Trades, x \in Txs : post[t][x] # "none" => post[t][x] = "sent" /\ x[1] <= t

ReportsInv ==
  /\ TypeOK
  /\ OpenedInOrder
  /\ \A t \in Trades \ troubled : Delivered(t)
  /\ HashesLate
  /\ TxHashNotFromFuture

USE ReportsAssumption

\* What a push and a hash are: the one is never the other.
LEMMA ReportKinds ==
  /\ Push("open") \in Reports /\ Push("close") \in Reports
  /\ Push("open") # Push("close")
  /\ Push("open") \notin Txs /\ Push("close") \notin Txs
  /\ Txs \subseteq Reports
  /\ \A e \in Ends : e = "open" \/ e = "close"
  /\ \A t \in Trades, e \in Ends : <<t, e>> \in Txs
  /\ \A x \in Txs : x[1] \in Trades
  /\ NoTx \notin Txs
BY DEF Push, Reports, Txs, Trades, Ends, NoTx

\* TradeReports starts in the invariant.
LEMMA InitInv == Init => ReportsInv
<1> SUFFICES ASSUME Init PROVE ReportsInv
  OBVIOUS
<1> USE ReportKinds
<1>1. TypeOK
  <2>1. opened \in 0..MaxTrades /\ openTrade \in 0..MaxTrades /\ lastTrade \in 0..MaxTrades
    BY DEF Init, None
  <2>2. restarts \in 0..MaxRestarts /\ pending \in Txs \cup {NoTx}
    BY DEF Init
  <2>3. post \in [Trades -> [Reports -> Stages]]
    BY DEF Init, Stages
  <2>4. rows \in [Trades -> Row]
    BY DEF Init, Row
  <2>5. ledger \in [Trades -> Fates]
    BY DEF Init, Fates
  <2> QED
    BY <2>1, <2>2, <2>3, <2>4, <2>5 DEF Init, TypeOK
<1>2. OpenedInOrder
  BY DEF Init, OpenedInOrder, None
<1>3. \A t \in Trades : Delivered(t)
  BY DEF Init, Delivered
<1>4. HashesLate /\ TxHashNotFromFuture
  BY DEF Init, HashesLate, TxHashNotFromFuture
<1> QED
  BY <1>1, <1>2, <1>3, <1>4 DEF ReportsInv

\* Every step keeps the types.
LEMMA TypeStep == TypeOK /\ OpenedInOrder /\ [Next]_vars => TypeOK'
<1> SUFFICES ASSUME TypeOK, OpenedInOrder, [Next]_vars PROVE TypeOK'
  OBVIOUS
<1> USE ReportKinds DEF TypeOK, Stages, Fates
<1>1. CASE Open
  <2> DEFINE t == opened + 1
  <2>0. t \in Trades /\ t \in 0..MaxTrades
    BY <1>1 DEF Open, Trades
  <2>1. t \in Trades /\ t \in 0..MaxTrades /\ <<t, "open">> \in Txs
    BY <2>0 DEF Ends
  <2>2. post' \in [Trades -> [Reports -> Stages]] /\ tx' \in [Txs -> {"none", "start", "sent", "failed", "mined"}]
    BY <1>1, <2>1 DEF Open, ReportTrade
  <2>3. ledger' \in [Trades -> Fates] /\ holds' \in BOOLEAN
    BY <1>1, <2>1 DEF Open
  <2>4. opened' \in 0..MaxTrades /\ openTrade' \in 0..MaxTrades /\ lastTrade' \in 0..MaxTrades
    BY <1>1, <2>1 DEF Open, ReportTrade
  <2> QED
    BY <1>1, <2>2, <2>3, <2>4 DEF Open
<1>2. CASE Close
  <2> DEFINE t == openTrade
  <2>0. t \in Trades
    BY <1>2 DEF Close, OpenedInOrder, Trades
  <2>1. t \in Trades /\ <<t, "close">> \in Txs
    BY <2>0 DEF Ends
  <2>2. post' \in [Trades -> [Reports -> Stages]] /\ tx' \in [Txs -> {"none", "start", "sent", "failed", "mined"}]
    BY <1>2, <2>1 DEF Close, ReportTrade
  <2>3. ledger' \in [Trades -> Fates] /\ holds' \in BOOLEAN
    BY <1>2, <2>1 DEF Close
  <2>4. openTrade' \in 0..MaxTrades /\ lastTrade' \in 0..MaxTrades
    BY <1>2, <2>1 DEF Close, ReportTrade, None
  <2> QED
    BY <1>2, <2>2, <2>3, <2>4 DEF Close
<1>3. CASE Restart
  <2>1. tx' \in [Txs -> {"none", "start", "sent", "failed", "mined"}]
    BY <1>3 DEF Restart
  <2>2. restarts' \in 0..MaxRestarts
    BY <1>3 DEF Restart
  <2>3. openTrade' \in 0..MaxTrades /\ lastTrade' \in 0..MaxTrades
    BY <1>3 DEF Restart, None
  <2>4. ledger' \in [Trades -> Fates]
    BY <1>3 DEF Restart
  <2> QED
    BY <1>3, <2>1, <2>2, <2>3, <2>4 DEF Restart
<1>4. CASE Mine
  BY <1>4 DEF Mine, agentVars
<1>5. ASSUME NEW x \in Txs, Send(x) \/ SendFails(x) PROVE TypeOK'
  <2>1. CASE Send(x)
    BY <2>1 DEF Send, agentVars, Trades, None
  <2>2. CASE SendFails(x)
    BY <2>2 DEF SendFails, agentVars
  <2> QED
    BY <1>5, <2>1, <2>2
<1>6. ASSUME NEW t \in Trades, NEW r \in Reports, FindsNone(t, r) \/ Insert(t, r) \/ Update(t, r)
      PROVE  TypeOK'
  <2>1. CASE FindsNone(t, r)
    BY <2>1 DEF FindsNone, agentVars, chainVars
  <2>2. CASE Insert(t, r)
    BY <2>2 DEF Insert, State, Row, agentVars, chainVars
  <2>3. CASE Update(t, r)
    BY <2>3 DEF Update, State, Row, agentVars, chainVars
  <2> QED
    BY <1>6, <2>1, <2>2, <2>3
<1>7. ASSUME NEW t \in Trades, NEW e \in Ends, Lose(t, e) PROVE TypeOK'
  BY <1>7 DEF Lose, agentVars, chainVars
<1>8. CASE StopCloses
  BY <1>8 DEF StopCloses, chainVars
<1>9. CASE UNCHANGED vars
  BY <1>9 DEF vars, agentVars, chainVars
<1> QED
  BY <1>1, <1>2, <1>3, <1>4, <1>5, <1>6, <1>7, <1>8, <1>9 DEF Next

\* Opens are numbered in order and the engine's position is the last one.
LEMMA OrderStep == ReportsInv /\ [Next]_vars => OpenedInOrder'
<1> SUFFICES ASSUME ReportsInv, [Next]_vars PROVE OpenedInOrder'
  OBVIOUS
<1> USE DEF ReportsInv, TypeOK, OpenedInOrder, Trades, None
<1>1. CASE Open
  BY <1>1 DEF Open, ReportTrade
<1>2. CASE Close
  BY <1>2 DEF Close, ReportTrade
<1>3. CASE StopCloses
  BY <1>3 DEF StopCloses
<1>4. CASE Restart
  BY <1>4 DEF Restart
<1>5. ASSUME UNCHANGED <<agentVars, ledger>> PROVE OpenedInOrder'
  BY <1>5 DEF agentVars
<1> QED
  BY <1>1, <1>2, <1>3, <1>4, <1>5
     DEF Next, vars, Mine, Send, SendFails, FindsNone, Insert, Update, Lose

\* A trade whose pushes are neither lost nor overtaken goes through its stages.
LEMMA DeliveryStep ==
  ASSUME ReportsInv, [Next]_vars, NEW u \in Trades, u \notin troubled'
  PROVE  Delivered(u)'
<1> USE ReportKinds DEF ReportsInv, TypeOK, Row, Stages
<1>1. troubled \subseteq troubled'
  BY DEF Next, Open, Close, StopCloses, Restart, Mine, Send, SendFails, FindsNone, Insert, Update, Lose, vars
<1>2. u \notin troubled /\ Delivered(u)
  BY <1>1
<1>3. CASE Open
  <2>1. CASE u = opened + 1
    BY <1>2, <1>3, <2>1 DEF Open, ReportTrade, OpenedInOrder, Delivered, Trades
  <2>2. CASE u # opened + 1
    BY <1>2, <1>3, <2>2 DEF Open, ReportTrade, Delivered, Trades
  <2> QED
    BY <2>1, <2>2
<1>4. CASE Close
  <2>1. CASE u = openTrade
    BY <1>2, <1>4, <2>1 DEF Close, ReportTrade, OpenedInOrder, Delivered
  <2>2. CASE u # openTrade
    BY <1>2, <1>4, <2>2 DEF Close, ReportTrade, Delivered
  <2> QED
    BY <2>1, <2>2
<1>5. ASSUME NEW x \in Txs, Send(x) PROVE Delivered(u)'
  BY <1>2, <1>5 DEF Send, Delivered, None
<1>6. ASSUME NEW t \in Trades, NEW r \in Reports, FindsNone(t, r) PROVE Delivered(u)'
  <2>1. CASE t = u
    BY <1>2, <1>6, <2>1 DEF FindsNone, Overtakes, Delivered, Reports, Ends
  <2>2. CASE t # u
    BY <1>2, <1>6, <2>2 DEF FindsNone, Delivered
  <2> QED
    BY <2>1, <2>2
<1>7. ASSUME NEW t \in Trades, NEW r \in Reports, Insert(t, r) PROVE Delivered(u)'
  <2>1. CASE t = u
    <3>1. CASE r = Push("open")
      BY <1>2, <1>7, <2>1, <3>1 DEF Insert, State, Delivered
    <3>2. CASE r = Push("close")
      BY <1>2, <1>7, <2>1, <3>2 DEF Insert, State, Delivered
    <3>3. CASE r \in Txs
      BY <1>7, <3>3 DEF Insert, HashesLate
    <3> QED
      BY <3>1, <3>2, <3>3 DEF Reports, Ends
  <2>2. CASE t # u
    BY <1>2, <1>7, <2>2 DEF Insert, Delivered
  <2> QED
    BY <2>1, <2>2
<1>8. ASSUME NEW t \in Trades, NEW r \in Reports, Update(t, r) PROVE Delivered(u)'
  <2>1. CASE t = u
    <3>1. CASE r = Push("open")
      BY <1>2, <1>8, <2>1, <3>1 DEF Update, State, Delivered
    <3>2. CASE r = Push("close")
      BY <1>2, <1>8, <2>1, <3>2 DEF Update, State, Overtakes, Delivered
    <3>3. CASE r \in Txs
      BY <1>2, <1>8, <2>1, <3>3 DEF Update, Delivered
    <3> QED
      BY <3>1, <3>2, <3>3 DEF Reports, Ends
  <2>2. CASE t # u
    BY <1>2, <1>8, <2>2 DEF Update, Delivered
  <2> QED
    BY <2>1, <2>2
<1>9. ASSUME NEW t \in Trades, NEW e \in Ends, Lose(t, e) PROVE Delivered(u)'
  BY <1>2, <1>9 DEF Lose, Delivered
<1>10. CASE StopCloses \/ Restart
  <2>1. UNCHANGED <<post, rows>>
    BY <1>10 DEF StopCloses, Restart
  <2>2. ledger'[u] = ledger[u] \/ (ledger[u] = "open" /\ ledger'[u] = "dropped")
    BY <1>10 DEF StopCloses, Restart, OpenedInOrder
  <2> QED
    BY <1>2, <2>1, <2>2 DEF Delivered
<1>11. ASSUME UNCHANGED <<post, rows, ledger>> PROVE Delivered(u)'
  BY <1>2, <1>11 DEF Delivered
<1> QED
  BY <1>3, <1>4, <1>5, <1>6, <1>7, <1>8, <1>9, <1>10, <1>11 DEF Next, vars, Mine, SendFails

\* A hash is sent to, and stored with, a trade at least as late as its own.
LEMMA HashStep == ReportsInv /\ [Next]_vars => HashesLate' /\ TxHashNotFromFuture'
<1> SUFFICES ASSUME ReportsInv, [Next]_vars PROVE HashesLate' /\ TxHashNotFromFuture'
  OBVIOUS
<1> USE ReportKinds DEF ReportsInv, TypeOK, Stages, Trades, HashesLate
<1>1. CASE Open
  <2>1. \A x \in Txs : tx'[x] = "start" => x[1] <= lastTrade'
    BY <1>1 DEF Open, ReportTrade, OpenedInOrder, Txs, Ends
  <2>2. \A t \in Trades, x \in Txs : post'[t][x] = post[t][x]
    BY <1>1 DEF Open, ReportTrade
  <2>3. HashesLate'
    BY <2>1, <2>2
  <2>4. TxHashNotFromFuture'
    BY <1>1 DEF Open, TxHashNotFromFuture
  <2> QED
    BY <2>3, <2>4
<1>2. CASE Close
  <2>1. \A x \in Txs : tx'[x] = "start" => x[1] <= lastTrade'
    BY <1>2 DEF Close, ReportTrade, OpenedInOrder, Txs, Ends
  <2>2. \A t \in Trades, x \in Txs : post'[t][x] = post[t][x]
    BY <1>2 DEF Close, ReportTrade
  <2> QED
    BY <1>2, <2>1, <2>2 DEF Close, TxHashNotFromFuture
<1>3. CASE Restart
  BY <1>3 DEF Restart, TxHashNotFromFuture
<1>4. CASE Mine
  BY <1>4 DEF Mine, agentVars, TxHashNotFromFuture
<1>5. ASSUME NEW y \in Txs, Send(y) PROVE HashesLate' /\ TxHashNotFromFuture'
  BY <1>5 DEF Send, agentVars, None, TxHashNotFromFuture
<1>6. ASSUME NEW y \in Txs, SendFails(y) PROVE HashesLate' /\ TxHashNotFromFuture'
  BY <1>6 DEF SendFails, agentVars, TxHashNotFromFuture
<1>7. ASSUME NEW t \in Trades, NEW r \in Reports, FindsNone(t, r) PROVE HashesLate' /\ TxHashNotFromFuture'
  BY <1>7 DEF FindsNone, agentVars, chainVars, TxHashNotFromFuture
<1>8. ASSUME NEW t \in Trades, NEW r \in Reports, Insert(t, r) PROVE HashesLate' /\ TxHashNotFromFuture'
  BY <1>8 DEF Insert, Row, agentVars, chainVars, TxHashNotFromFuture
<1>9. ASSUME NEW t \in Trades, NEW r \in Reports, Update(t, r) PROVE HashesLate' /\ TxHashNotFromFuture'
  BY <1>9 DEF Update, Row, agentVars, chainVars, TxHashNotFromFuture
<1>10. ASSUME NEW t \in Trades, NEW e \in Ends, Lose(t, e) PROVE HashesLate' /\ TxHashNotFromFuture'
  BY <1>10 DEF Lose, agentVars, chainVars, TxHashNotFromFuture
<1>11. CASE StopCloses
  BY <1>11 DEF StopCloses, chainVars, TxHashNotFromFuture
<1>12. CASE UNCHANGED vars
  BY <1>12 DEF vars, agentVars, chainVars, TxHashNotFromFuture
<1> QED
  BY <1>1, <1>2, <1>3, <1>4, <1>5, <1>6, <1>7, <1>8, <1>9, <1>10, <1>11, <1>12 DEF Next

-----------------------------------------------------------------------------
\* Every variable keeps its type, and the invariant holds throughout, whatever
\* is lost, refused or overtaken and however often the agent restarts.
THEOREM ReportsInvariant == Spec => []ReportsInv
<1>1. Init => ReportsInv
  BY InitInv
<1>2. ReportsInv /\ [Next]_vars => ReportsInv'
  BY TypeStep, OrderStep, DeliveryStep, HashStep DEF ReportsInv
<1> QED
  BY <1>1, <1>2, PTL DEF Spec

\* The types of push_trade's rows, of the agent's bookkeeping and of the chain.
THEOREM ReportsTypeCorrect == Spec => []TypeOK
BY ReportsInvariant, PTL DEF ReportsInv

\* The hash that patch_trade_tx_hash stores is never one of a later trade.
THEOREM HashSafe == Spec => []TxHashNotFromFuture
BY ReportsInvariant, PTL DEF ReportsInv

\* The trades table ends up as report_trade's callers reported: open for the
\* position held and for those that stop() or a restart dropped, closed otherwise.
THEOREM LedgerKept == Spec => []RowsMatchLedger
<1>1. ReportsInv => RowsMatchLedger
  BY ReportKinds DEF ReportsInv, TypeOK, Delivered, RowsMatchLedger, Reported, Fates, Ends
<1> QED
  BY <1>1, ReportsInvariant, PTL
=============================================================================
