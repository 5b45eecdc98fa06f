--------------------------- MODULE TradingEngine ---------------------------
(***************************************************************************)
(* The trading engine of one agent (app/engine.py) with its paper position *)
(* (app/executor/paper.py) and the HTTP calls that drive it (app/main.py): *)
(* /start, which returns at once and plans in the background, /stop, and   *)
(* /config.  Everything runs on one event loop; an action is what runs     *)
(* between two awaits, so calls and trading loops interleave at their      *)
(* awaits and nowhere else.                                                *)
(*                                                                         *)
(* Prices are positive integers and percentages whole percents; 0 stands   *)
(* for None, and, as in the code, for a percentage that is switched off.   *)
(* What the market, the LLM and the candles answer is nondeterministic.    *)
(***************************************************************************)
EXTENDS Integers

CONSTANTS
  Starts,    \* concurrent calls of /start
  Stops,     \* concurrent calls of /stop
  Loops,     \* trading loops that can be created: bounds the sessions
  NoLoop,    \* _loop_task is None
  Prices,    \* prices the feed delivers
  Dists,     \* ATR-based distances of the stop from the entry
  Pcts       \* take-profit and stop-loss percentages that are configured

ASSUME EngineAssumption ==
  /\ NoLoop \notin Loops
  /\ Prices \subseteq Int /\ Dists \subseteq Int /\ Pcts \subseteq Int
  /\ \A p \in Prices : p > 0
  /\ \A p \in Prices, d \in Dists : d > 0 /\ p > 2 * d

VARIABLES
  running,   \* self.running
  loopTask,  \* self._loop_task
  tpslMode,  \* self._tp_sl_mode
  pcts,      \* self.tp_pct and self.sl_pct
  pos,       \* self.position
  supFresh,  \* self._last_supervisor_time == 0
  spc,       \* each /start: idle, or planning
  xpc,       \* each /stop: idle, or waiting for the loop
  xloop,     \* the loop it waits for
  xclose,    \* its closePosition argument
  lpc,       \* each trading loop
  lprice,    \* the price of its tick
  ledger,    \* the side that the trade reports sent so far add up to
  silent,    \* history: the last close was not reported
  stopped    \* history: a /stop has returned, no /start came since

callVars == <<spc, xpc, xloop, xclose>>
vars == <<running, loopTask, tpslMode, pcts, pos, supFresh, callVars, lpc, lprice,
          ledger, silent, stopped>>

Sides == {"FLAT", "LONG", "SHORT"}
Modes == {"fixed", "dynamic"}
PctPair == [tp : Pcts \cup {0}, sl : Pcts \cup {0}]
Positions == [side : Sides, entry : Prices \cup {0}, tp : Int, sl : Int, pct : PctPair]
NoPct == [tp |-> 0, sl |-> 0]
Flat == [side |-> "FLAT", entry |-> 0, tp |-> 0, sl |-> 0, pct |-> NoPct]

TypeOK ==
  /\ running \in BOOLEAN
  /\ loopTask \in Loops \cup {NoLoop}
  /\ tpslMode \in Modes
  /\ pcts \in PctPair
  /\ pos \in Positions
  /\ supFresh \in BOOLEAN
  /\ spc \in [Starts -> {"idle", "planning"}]
  /\ xpc \in [Stops -> {"idle", "waiting"}]
  /\ xloop \in [Stops -> Loops \cup {NoLoop}]
  /\ xclose \in [Stops -> BOOLEAN]
  /\ lpc \in [Loops -> {"none", "top", "supervise", "sleep", "done"}]
  /\ lprice \in [Loops -> Prices \cup {0}]
  /\ ledger \in Sides
  /\ silent \in BOOLEAN
  /\ stopped \in BOOLEAN

Init ==
  /\ running = FALSE
  /\ loopTask = NoLoop
  /\ tpslMode = "fixed"
  /\ pcts = NoPct
  /\ pos = Flat
  /\ supFresh = TRUE
  /\ spc = [s \in Starts |-> "idle"]
  /\ xpc = [x \in Stops |-> "idle"]
  /\ xloop = [x \in Stops |-> NoLoop]
  /\ xclose = [x \in Stops |-> FALSE]
  /\ lpc = [l \in Loops |-> "none"]
  /\ lprice = [l \in Loops |-> 0]
  /\ ledger = "FLAT"
  /\ silent = FALSE
  /\ stopped = FALSE

-----------------------------------------------------------------------------
(* PaperPosition                                                           *)

Gain(q, p) == IF q.side = "LONG" THEN p - q.entry ELSE q.entry - p

\* check_tp_sl: price levels when both are set, percentages otherwise.
CheckTpSl(q, p) ==
  /\ q.side # "FLAT"
  /\ IF q.tp # 0 /\ q.sl # 0
     THEN IF q.side = "LONG" THEN p >= q.tp \/ p <= q.sl ELSE p <= q.tp \/ p >= q.sl
     ELSE \/ q.pct.tp # 0 /\ Gain(q, p) * 100 >= q.pct.tp * q.entry
          \/ q.pct.sl # 0 /\ Gain(q, p) * 100 <= -(q.pct.sl * q.entry)

MutLevelsIgnoreSide(side, entry, d) == [tp |-> entry + 2 * d, sl |-> entry - d]
\* str(side).lower() for a member of PositionSide, a (str, Enum).
StrLower == [LONG |-> "positionside.long", SHORT |-> "positionside.short", FLAT |-> "positionside.flat"]
IsLong(side) == StrLower[side] \in {"long"}
\* _compute_dynamic_tp_sl: the stop at distance d, the target at 2 * d.
DynamicLevels(side, entry, d) ==
  IF IsLong(side) THEN [tp |-> entry + 2 * d, sl |-> entry - d]
                  ELSE [tp |-> entry - 2 * d, sl |-> entry + d]

WithLevels(q, lv) == [q EXCEPT !.tp = lv.tp, !.sl = lv.sl]

\* open_long and open_short under the configuration in force.
Opened(side, p) ==
  LET q == [Flat EXCEPT !.side = side, !.entry = p, !.pct = pcts] IN
  IF tpslMode = "dynamic" THEN {WithLevels(q, DynamicLevels(side, p, d)) : d \in Dists}
                          ELSE {q}

-----------------------------------------------------------------------------
(* The trading loop                                                        *)

\* _decide_action for a signal above, below or inside the threshold.
Decide(side, signal) ==
  CASE side = "FLAT" /\ signal = "bull" -> "OPEN_LONG"
    [] side = "FLAT" /\ signal = "bear" -> "OPEN_SHORT"
    [] side = "LONG" /\ signal = "bear" -> "CLOSE"
    [] side = "SHORT" /\ signal = "bull" -> "CLOSE"
    [] OTHER -> "HOLD"

MutCloseUnreported ==
  pos' = Flat /\ UNCHANGED <<ledger, silent>>
\* _execute_action(CLOSE): nothing on a flat position; otherwise the close
\* is reported (hub and chain, both fire-and-forget) and the position reset.
CloseReported ==
  /\ pos' = Flat
  /\ ledger' = IF pos.side = "FLAT" THEN ledger ELSE "FLAT"
  /\ silent' = (silent /\ pos.side = "FLAT")

\* _execute_action at price p.
Execute(action, p) ==
  CASE action \in {"OPEN_LONG", "OPEN_SHORT"} ->
         LET side == IF action = "OPEN_LONG" THEN "LONG" ELSE "SHORT" IN
         /\ pos' \in Opened(side, p)
         /\ ledger' = side
         /\ silent' = FALSE
    [] action = "CLOSE" -> CloseReported
    [] action = "HOLD" -> UNCHANGED <<pos, ledger, silent>>

\* From the signal to the end of the tick: compute, decide, execute, report.
TradeOnSignal(l, p) ==
  /\ \E signal \in {"bull", "bear", "weak"} : Execute(Decide(pos.side, signal), p)
  /\ lpc' = [lpc EXCEPT ![l] = "sleep"]

engineVars == <<running, loopTask, tpslMode, pcts, callVars, stopped>>

MutLoopIgnoresStop(l) ==
  /\ lpc[l] = "top"
  /\ ~running
  /\ lpc' = [lpc EXCEPT ![l] = "sleep"]
  /\ UNCHANGED <<engineVars, pos, supFresh, lprice, ledger, silent>>
\* while self.running is over.
LoopEnds(l) ==
  /\ lpc[l] = "top"
  /\ ~running
  /\ lpc' = [lpc EXCEPT ![l] = "done"]
  /\ UNCHANGED <<engineVars, pos, supFresh, lprice, ledger, silent>>

\* No price this time, or an exception anywhere before the decision.
NoPrice(l) ==
  /\ lpc[l] = "top" /\ running
  /\ lpc' = [lpc EXCEPT ![l] = "sleep"]
  /\ UNCHANGED <<engineVars, pos, supFresh, lprice, ledger, silent>>

\* A tick that reaches its end without an await.
Tick(l) ==
  /\ lpc[l] = "top" /\ running
  /\ \E p \in Prices :
       IF CheckTpSl(pos, p)
       THEN CloseReported /\ lpc' = [lpc EXCEPT ![l] = "sleep"]
       ELSE /\ pos.side # "FLAT" => ~supFresh   \* no supervisor check is due
            /\ TradeOnSignal(l, p)
  /\ UNCHANGED <<engineVars, supFresh, lprice>>

\* A supervisor check is due: the LLM answers, and the decision is logged on
\* chain and pushed to the hub, with awaits, before it is acted on.
Supervise(l) ==
  /\ lpc[l] = "top" /\ running
  /\ pos.side # "FLAT"
  /\ \E p \in Prices :
       /\ ~CheckTpSl(pos, p)
       /\ lprice' = [lprice EXCEPT ![l] = p]
  /\ lpc' = [lpc EXCEPT ![l] = "supervise"]
  /\ supFresh' = FALSE
  /\ UNCHANGED <<engineVars, pos, ledger, silent>>

\* CLOSE: the rest of the tick is skipped.
SupervisorCloses(l) ==
  /\ lpc[l] = "supervise"
  /\ CloseReported
  /\ lpc' = [lpc EXCEPT ![l] = "sleep"]
  /\ lprice' = [lprice EXCEPT ![l] = 0]
  /\ UNCHANGED <<engineVars, supFresh>>

MutSupervisorForgetsFlat(l) ==
  /\ lpc[l] = "supervise"
  /\ TradeOnSignal(l, lprice[l])
  /\ lprice' = [lprice EXCEPT ![l] = 0]
  /\ UNCHANGED <<engineVars, supFresh>>
\* KEEP, or ADJUST_TP_SL in fixed mode: the tick goes on to the signal,
\* unless the position is gone.
SupervisorKeeps(l) ==
  /\ lpc[l] = "supervise"
  /\ IF pos.side = "FLAT"
     THEN lpc' = [lpc EXCEPT ![l] = "sleep"] /\ UNCHANGED <<pos, ledger, silent>>
     ELSE TradeOnSignal(l, lprice[l])
  /\ lprice' = [lprice EXCEPT ![l] = 0]
  /\ UNCHANGED <<engineVars, supFresh>>

\* The position after ADJUST_TP_SL in dynamic mode: levels from the entry
\* price and side it has now.
Adjusted == {WithLevels(pos, DynamicLevels(pos.side, pos.entry, d)) : d \in Dists}

\* ADJUST_TP_SL in dynamic mode, then the signal.  Without a position the
\* arithmetic on None raises and the loop's handler ends the tick.
SupervisorAdjusts(l) ==
  /\ lpc[l] = "supervise"
  /\ tpslMode = "dynamic"
  /\ lpc' = [lpc EXCEPT ![l] = "sleep"]
  /\ IF pos.side = "FLAT"
     THEN UNCHANGED <<pos, ledger, silent>>
     ELSE \E signal \in {"bull", "bear", "weak"} :
            IF Decide(pos.side, signal) = "CLOSE" THEN CloseReported
            ELSE pos' \in Adjusted /\ UNCHANGED <<ledger, silent>>
  /\ lprice' = [lprice EXCEPT ![l] = 0]
  /\ UNCHANGED <<engineVars, supFresh>>

\* poll_seconds, the status push and the log flush have passed.
LoopWakes(l) ==
  /\ lpc[l] = "sleep"
  /\ lpc' = [lpc EXCEPT ![l] = "top"]
  /\ UNCHANGED <<engineVars, pos, supFresh, lprice, ledger, silent>>

-----------------------------------------------------------------------------
(* The calls                                                               *)

\* POST /start: refused (with a log line) while running; otherwise the
\* configuration is in force and the planning awaits begin.
StartCall(s) ==
  /\ spc[s] = "idle" /\ ~running
  /\ tpslMode' \in Modes
  /\ pcts' \in PctPair
  /\ supFresh' = TRUE
  /\ spc' = [spc EXCEPT ![s] = "planning"]
  /\ stopped' = FALSE
  /\ UNCHANGED <<running, loopTask, pos, xpc, xloop, xclose, lpc, lprice, ledger, silent>>

\* No initial price: start() gives up.
StartFails(s) ==
  /\ spc[s] = "planning"
  /\ spc' = [spc EXCEPT ![s] = "idle"]
  /\ UNCHANGED <<running, loopTask, tpslMode, pcts, pos, supFresh, xpc, xloop, xclose,
                 lpc, lprice, ledger, silent, stopped>>

MutStopLossScaledTwice(s) ==
  /\ spc[s] = "planning"
  /\ spc' = [spc EXCEPT ![s] = "idle"]
  /\ \E sl \in Pcts : pcts' = IF pcts.sl = 0 THEN [pcts EXCEPT !.sl = 100 * sl] ELSE pcts
  /\ \E l \in Loops :
       /\ lpc[l] = "none"
       /\ lpc' = [lpc EXCEPT ![l] = "top"]
       /\ loopTask' = l
  /\ running' = TRUE
  /\ UNCHANGED <<tpslMode, pos, supFresh, xpc, xloop, xclose, lprice, ledger, silent, stopped>>
\* Market context, LLM plan, candles and price listener are there: the
\* strategy's stop loss fills in a missing one and the loop is created.
StartDone(s) ==
  /\ spc[s] = "planning"
  /\ spc' = [spc EXCEPT ![s] = "idle"]
  /\ \E sl \in Pcts \cup {0} :   \* 0: switched off by the caller, not missing
       pcts' = IF pcts.sl = 0 THEN [pcts EXCEPT !.sl = sl] ELSE pcts
  /\ \E l \in Loops :
       /\ lpc[l] = "none"
       /\ lpc' = [lpc EXCEPT ![l] = "top"]
       /\ loopTask' = l
  /\ running' = TRUE
  /\ UNCHANGED <<tpslMode, pos, supFresh, xpc, xloop, xclose, lprice, ledger, silent, stopped>>

\* POST /stop on an engine that is not running: "stopped" at once.
StopIdle ==
  /\ ~running
  /\ stopped' = TRUE
  /\ UNCHANGED <<running, loopTask, tpslMode, pcts, pos, supFresh, callVars, lpc, lprice,
                 ledger, silent>>

StopCall(x) ==
  /\ xpc[x] = "idle" /\ running
  /\ running' = FALSE
  /\ xpc' = [xpc EXCEPT ![x] = "waiting"]
  /\ xloop' = [xloop EXCEPT ![x] = loopTask]
  /\ \E close \in BOOLEAN : xclose' = [xclose EXCEPT ![x] = close]
  /\ UNCHANGED <<loopTask, tpslMode, pcts, pos, supFresh, spc, lpc, lprice, ledger,
                 silent, stopped>>

MutStopDoesNotWait(x) ==
  /\ xpc[x] = "waiting"
  /\ xpc' = [xpc EXCEPT ![x] = "idle"]
  /\ xloop' = [xloop EXCEPT ![x] = NoLoop]
  /\ xclose' = [xclose EXCEPT ![x] = FALSE]
  /\ pos' = IF xclose[x] THEN Flat ELSE pos
  /\ silent' = (silent \/ (xclose[x] /\ pos.side # "FLAT"))
  /\ stopped' = TRUE
  /\ UNCHANGED <<running, loopTask, tpslMode, pcts, supFresh, spc, lpc, lprice, ledger>>
\* The awaited loop has ended: the position is closed, without the reports
\* of _execute_action, and the call returns.
StopDone(x) ==
  /\ xpc[x] = "waiting"
  /\ lpc[xloop[x]] = "done"
  /\ xpc' = [xpc EXCEPT ![x] = "idle"]
  /\ xloop' = [xloop EXCEPT ![x] = NoLoop]
  /\ xclose' = [xclose EXCEPT ![x] = FALSE]
  /\ pos' = IF xclose[x] THEN Flat ELSE pos
  /\ silent' = (silent \/ (xclose[x] /\ pos.side # "FLAT"))
  /\ stopped' = TRUE
  /\ UNCHANGED <<running, loopTask, tpslMode, pcts, supFresh, spc, lpc, lprice, ledger>>

NotGiven == -1
\* The fields that a request gives replace the old ones.
Merge(old, new) == [f \in {"tp", "sl"} |-> IF new[f] = NotGiven THEN old[f] ELSE new[f]]

\* POST /config while running: the percentages also reach an open position,
\* the mode does not.
Config ==
  /\ running
  /\ tpslMode' \in Modes
  /\ \E c \in [{"tp", "sl"} -> Pcts \cup {0, NotGiven}] :
       /\ pcts' = Merge(pcts, c)
       /\ pos' = IF pos.side = "FLAT" THEN pos ELSE [pos EXCEPT !.pct = Merge(pos.pct, c)]
  /\ UNCHANGED <<running, loopTask, supFresh, callVars, lpc, lprice, ledger, silent, stopped>>

-----------------------------------------------------------------------------
Loop(l) ==
  \/ LoopEnds(l) \/ NoPrice(l) \/ Tick(l) \/ Supervise(l) \/ SupervisorCloses(l)
  \/ SupervisorKeeps(l) \/ SupervisorAdjusts(l) \/ LoopWakes(l)

Next ==
  \/ \E l \in Loops : Loop(l)
  \/ \E s \in Starts : StartCall(s) \/ StartFails(s) \/ StartDone(s)
  \/ StopIdle
  \/ \E x \in Stops : StopCall(x) \/ StopDone(x)
  \/ Config

Spec == Init /\ [][Next]_vars

\* The event loop runs every task that is ready and every await has a bound.
Fairness ==
  (\A l \in Loops : WF_vars(Loop(l))) /\ (\A x \in Stops : WF_vars(StopDone(x)))

-----------------------------------------------------------------------------
(* Properties                                                              *)

Active(l) == lpc[l] \in {"top", "supervise", "sleep"}

\* Whatever calls and loops interleave, with the supervisor acting on a
\* position it looked at before its awaits: a position has an entry price
\* exactly when it is open, its price levels are both there or both missing,
\* and a short's lie on the two sides of the entry, the stop on the losing one.
PositionShape ==
  /\ pos.side = "FLAT" <=> pos.entry = 0
  /\ pos.tp = 0 <=> pos.sl = 0
  /\ pos.side = "FLAT" => pos.tp = 0
  /\ pos.side = "SHORT" /\ pos.tp # 0 => pos.tp < pos.entry /\ pos.entry < pos.sl

\* The trade reports add up to the position: opens and closes alternate, and
\* only a close made by stop() is missing from them.
LedgerMatches == ledger = pos.side \/ (silent /\ pos.side = "FLAT")

\* Once stop() has cleared the running flag no position is opened, not even
\* by a tick that was waiting for its supervisor's awaits.
NoOpenWhenStopped == [][pos.side = "FLAT" /\ pos'.side # "FLAT" => running]_vars

\* One loop trades at a time ("Engine already running. Stop it first.").
OneTradingLoop == \A l, m \in Loops : Active(l) /\ Active(m) => l = m

\* A /stop that has returned has stopped the engine.
StoppedStaysStopped == stopped => ~running /\ \A l \in Loops : ~Active(l)
=============================================================================
