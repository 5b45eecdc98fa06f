---------------------------- MODULE TradeReports ----------------------------
(***************************************************************************)
(* How an agent's trades reach the user-server's database and the chain.   *)
(* The engine fires two tasks for every open and close: a POST /trades     *)
(* (app/hub_callback.py) and a TradeLogger transaction whose hash is       *)
(* POSTed to the most recent trade.  The user-server                       *)
(* (agents/push_router.py) handles each request as a read of the row and a *)
(* commit; requests overlap, overtake one another, fail or are lost, and   *)
(* the agent looks at no response.                                         *)
(*                                                                         *)
(* Trades are numbered in the order in which they are opened; trade_id,    *)
(* a fresh UUID, is that number.  No trade is number 0, Python's None.     *)
(***************************************************************************)
EXTENDS Naturals

CONSTANTS
  MaxTrades,   \* bound on the trades opened
  MaxRestarts  \* bound on the restarts of the agent's container

ASSUME ReportsAssumption == MaxTrades \in Nat /\ MaxRestarts \in Nat

VARIABLES
  opened,     \* trades opened so far
  holds,      \* the engine has a position: the last trade opened
  openTrade,  \* _open_trades[agent_id]: the trade_id, or None
  lastTrade,  \* _last_trade_id[agent_id], or None
  post,       \* the requests under way for each trade
  rows,       \* the trades table
  tx,         \* the chain transaction of each open and close
  pending,    \* the account's transaction the chain is about to mine
  restarts,   \* restarts so far
  ledger,     \* history: what became of each trade in the engine
  troubled    \* history: trades with a push that was lost or overtaken

agentVars == <<opened, holds, openTrade, lastTrade>>
chainVars == <<tx, pending>>
vars == <<agentVars, post, rows, chainVars, restarts, ledger, troubled>>

Trades == 1..MaxTrades
Ends == {"open", "close"}
Txs == Trades \X Ends
None == 0
NoTx == <<0, "none">>
Push(e) == <<0, e>>                              \* POST /trades
Reports == {Push(e) : e \in Ends} \cup Txs   \* or POST /trades/{id}/tx-hash

Row == [st : {"absent", "open", "closed"}, tx : Txs \cup {NoTx}]

\* A trade is open until the engine closes it; or stop() closes its position, or
\* a restart forgets it, and neither is reported.
Fates == {"absent", "open", "closed", "dropped"}

\* A request is on its way, or its handler has found no row and is about to
\* insert one.
Stages == {"none", "sent", "insert"}

TypeOK ==
  /\ opened \in 0..MaxTrades
  /\ holds \in BOOLEAN
  /\ openTrade \in 0..MaxTrades /\ lastTrade \in 0..MaxTrades
  /\ post \in [Trades -> [Reports -> Stages]]
  /\ rows \in [Trades -> Row]
  /\ tx \in [Txs -> {"none", "start", "sent", "failed", "mined"}]
  /\ pending \in Txs \cup {NoTx}
  /\ restarts \in 0..MaxRestarts
  /\ ledger \in [Trades -> Fates]
  /\ troubled \subseteq Trades

Init ==
  /\ opened = 0 /\ holds = FALSE
  /\ openTrade = None /\ lastTrade = None
  /\ post = [t \in Trades |-> [r \in Reports |-> "none"]]
  /\ rows = [t \in Trades |-> [st |-> "absent", tx |-> NoTx]]
  /\ tx = [x \in Txs |-> "none"]
  /\ pending = NoTx
  /\ restarts = 0
  /\ ledger = [t \in Trades |-> "absent"]
  /\ troubled = {}

-----------------------------------------------------------------------------
(* The agent                                                               *)

MutLastTradeLate(t, e) ==
  /\ openTrade' = IF e = "open" THEN t ELSE None
  /\ lastTrade' = IF e = "open" THEN lastTrade ELSE t
  /\ post' = [post EXCEPT ![t][Push(e)] = "sent"]
\* report_trade: the trade_id of a close is the one its open was given, which is
\* there whenever the engine has a position.
ReportTrade(t, e) ==
  /\ openTrade' = IF e = "open" THEN t ELSE None
  /\ lastTrade' = t
  /\ post' = [post EXCEPT ![t][Push(e)] = "sent"]

\* _execute_action: both tasks are created; until its first await a task runs
\* alone, and nothing that runs before it reads what it writes.
Open ==
  LET t == opened + 1 IN
  /\ ~holds /\ opened < MaxTrades
  /\ opened' = t /\ holds' = TRUE
  /\ ReportTrade(t, "open")
  /\ tx' = [tx EXCEPT ![<<t, "open">>] = "start"]
  /\ ledger' = [ledger EXCEPT ![t] = "open"]
  /\ UNCHANGED <<rows, pending, restarts, troubled>>

Close ==
  LET t == openTrade IN
  /\ holds
  /\ holds' = FALSE
  /\ ReportTrade(t, "close")
  /\ tx' = [tx EXCEPT ![<<t, "close">>] = "start"]
  /\ ledger' = [ledger EXCEPT ![t] = "closed"]
  /\ UNCHANGED <<opened, rows, pending, restarts, troubled>>

\* stop() closes the position with neither report_trade nor a transaction: the
\* trade_id stays in _open_trades until the next open overwrites it.
StopCloses ==
  /\ holds
  /\ holds' = FALSE
  /\ ledger' = [ledger EXCEPT ![opened] = "dropped"]
  /\ UNCHANGED <<opened, openTrade, lastTrade, post, rows, chainVars, restarts, troubled>>

\* The container dies and comes back (restart policy on-failure) with nothing in
\* memory.  Requests that have left it are still handled.
Restart ==
  /\ restarts < MaxRestarts
  /\ restarts' = restarts + 1
  /\ holds' = FALSE /\ openTrade' = None /\ lastTrade' = None
  /\ tx' = [x \in Txs |-> IF tx[x] = "start" THEN "failed" ELSE tx[x]]
  /\ ledger' = IF holds THEN [ledger EXCEPT ![opened] = "dropped"] ELSE ledger
  /\ UNCHANGED <<opened, post, rows, pending, troubled>>

-----------------------------------------------------------------------------
(* TradeLogger transactions: _log_trade_onchain, log_trade                 *)

\* The nonce is the number of the account's mined transactions when the thread
\* asks for it.  The node refuses the transaction if that nonce has been used
\* since, or is taken by a pending transaction that pays as much; or a call fails.
SendFails(x) ==
  /\ tx[x] = "start"
  /\ tx' = [tx EXCEPT ![x] = "failed"]
  /\ UNCHANGED <<agentVars, post, rows, pending, restarts, ledger, troubled>>

\* Or it takes it, in place of a pending one that pays less.  The hash is returned
\* at once and reported to the most recent trade (patch_trade_tx_hash).
Send(x) ==
  /\ tx[x] = "start"
  /\ tx' = [y \in Txs |-> IF y = x THEN "sent" ELSE IF y = pending THEN "failed" ELSE tx[y]]
  /\ pending' = x
  /\ post' = IF lastTrade = None THEN post ELSE [post EXCEPT ![lastTrade][x] = "sent"]
  /\ UNCHANGED <<agentVars, rows, restarts, ledger, troubled>>

Mine ==
  /\ pending # NoTx
  /\ tx' = [tx EXCEPT ![pending] = "mined"]
  /\ pending' = NoTx
  /\ UNCHANGED <<agentVars, post, rows, restarts, ledger, troubled>>

-----------------------------------------------------------------------------
(* The user-server's handlers: push_trade and patch_trade_tx_hash          *)

State(r) == IF r = Push("open") THEN "open" ELSE "closed"

\* A report that is handled while an earlier one of the trade is under way.
Overtakes(t, r) == r = Push("close") /\ post[t][Push("open")] # "none"

\* db.get finds no row: a push is about to insert one, a patch is answered 404.
FindsNone(t, r) ==
  /\ post[t][r] = "sent" /\ rows[t].st = "absent"
  /\ post' = [post EXCEPT ![t][r] = IF r \in Txs THEN "none" ELSE "insert"]
  /\ troubled' = IF Overtakes(t, r) THEN troubled \cup {t} ELSE troubled
  /\ UNCHANGED <<agentVars, rows, chainVars, restarts, ledger>>

\* Of two handlers that both found no row, the second violates the primary key.
Insert(t, r) ==
  /\ post[t][r] = "insert"
  /\ rows' = IF rows[t].st = "absent" THEN [rows EXCEPT ![t] = [st |-> State(r), tx |-> NoTx]]
                                      ELSE rows
  /\ post' = [post EXCEPT ![t][r] = "none"]
  /\ UNCHANGED <<agentVars, chainVars, restarts, ledger, troubled>>

MutUpdateKeepsExit(t, r) ==
  /\ post[t][r] = "sent" /\ rows[t].st # "absent"
  /\ rows' = IF r \in Txs THEN [rows EXCEPT ![t].tx = r] ELSE rows
  /\ post' = [post EXCEPT ![t][r] = "none"]
  /\ troubled' = IF Overtakes(t, r) THEN troubled \cup {t} ELSE troubled
  /\ UNCHANGED <<agentVars, chainVars, restarts, ledger>>
\* db.get finds the row.  A push overwrites exit_price, pnl_usdt, close_at and
\* close_reason, with None too; a patch overwrites tx_hash.  (A row that exists
\* stays, so the commit may as well follow at once.)
Update(t, r) ==
  /\ post[t][r] = "sent" /\ rows[t].st # "absent"
  /\ rows' = IF r \in Txs THEN [rows EXCEPT ![t].tx = r] ELSE [rows EXCEPT ![t].st = State(r)]
  /\ post' = [post EXCEPT ![t][r] = "none"]
  /\ troubled' = IF Overtakes(t, r) THEN troubled \cup {t} ELSE troubled
  /\ UNCHANGED <<agentVars, chainVars, restarts, ledger>>

\* A push is lost or answered with an error, which nobody looks at.  (A patch
\* that is lost is one that is never handled.)
Lose(t, e) ==
  /\ post[t][Push(e)] = "sent"
  /\ post' = [post EXCEPT ![t][Push(e)] = "none"]
  /\ troubled' = troubled \cup {t}
  /\ UNCHANGED <<agentVars, rows, chainVars, restarts, ledger>>

-----------------------------------------------------------------------------
Next ==
  \/ Open \/ Close \/ StopCloses \/ Restart \/ Mine
  \/ \E x \in Txs : Send(x) \/ SendFails(x)
  \/ \E t \in Trades, r \in Reports : FindsNone(t, r) \/ Insert(t, r) \/ Update(t, r)
  \/ \E t \in Trades, e \in Ends : Lose(t, e)

Spec == Init /\ [][Next]_vars

-----------------------------------------------------------------------------
(* Properties                                                              *)

\* What the engine reports of a trade: nothing when its position is dropped.
Reported(t) == IF ledger[t] = "dropped" THEN "open" ELSE ledger[t]

\* The trades table tells what was reported: once no report of a trade is under
\* way, and unless one was lost or its close was handled before its open was done,
\* the row says closed if the engine closed the trade itself, and open if it has
\* not, or if stop() or a restart took the position away, whose rows stay open for
\* good.  Neither the other trades' reports in between, nor the trade_id that a
\* stop leaves in _open_trades, nor a restart makes a row say anything else.
RowsMatchLedger ==
  \A t \in Trades \ troubled :
    (\A e \in Ends : post[t][Push(e)] = "none") => rows[t].st = Reported(t)

\* The hash shown with a trade is never one of a later trade: a hash that comes
\* late is at worst credited to a trade opened since.
TxHashNotFromFuture ==
  \A t \in Trades : rows[t].tx # NoTx => rows[t].tx[1] <= t
=============================================================================
