------------------------------ MODULE Backtest ------------------------------
(***************************************************************************)
(* The backtest a user-server runs before a strategy is published          *)
(* (user_server/strategies/publish_router.py, user_server/backtest,        *)
(* user_server/strategies/runner.py): the strategy is loaded, its candles  *)
(* are fetched, and the engine replays them bar by bar through the         *)
(* sandbox. A request runs on the event loop to its end; the bars are      *)
(* steps of it. The row get_candles adds to backtest_candles goes with the *)
(* request's session, which nothing commits, so the table stays empty and  *)
(* every request asks the provider.                                        *)
(*                                                                         *)
(* Money is an integer amount of a unit small enough for the divisions of  *)
(* a run to be exact.  What the strategy answers is nondeterministic, and  *)
(* so is what it writes: on_tick is handed the engine's own position and   *)
(* candles, and the sandbox lets it assign to their items.                 *)
(***************************************************************************)
EXTENDS Integers, Sequences, FiniteSets, FiniteSetsExt

CONSTANTS
  TestBars,   \* candles the provider can deliver, [high, low, close]
  NoBars,     \* numbers of candles it delivers
  WarmUp,     \* candles before the first tick (20)
  Cash0,      \* initial_usdt
  FeeOf,      \* a fee is one FeeOf-th of the size
  Stops,      \* stop losses and take profits a strategy asks for or writes
  NoStop,     \* None
  Prices,     \* entries and closes a strategy writes
  Sizes,      \* sizes it writes
  MaxTests    \* requests: bounds the model

ASSUME BacktestAssumption ==
  /\ {WarmUp, Cash0, FeeOf, MaxTests} \cup NoBars \subseteq Nat
  /\ IsFiniteSet(NoBars) /\ NoBars # {}
  /\ WarmUp > 0 /\ Cash0 > 0 /\ FeeOf > 0 /\ NoStop \notin Stops
  /\ Stops \cup {NoStop} \cup Sizes \subseteq Int /\ Prices \subseteq Int \ {0}
  /\ TestBars \subseteq [high : Nat, low : Nat, close : Nat]
  /\ \A b \in TestBars : 0 < b.low /\ b.low <= b.close /\ b.close <= b.high

VARIABLES
  bpc,       \* the request: idle, or running
  left,      \* candles left to replay
  position,  \* the open position, or NoPosition
  cash, curve,            \* of engine.run
  last,      \* the close of the last bar
  final,     \* that close as on_tick has left it in the candle
  realized, fees,         \* history: profit of the closed trades, fees paid
  written,   \* history: what on_tick has written into the size of its positions
  tests      \* history: requests so far

backtestVars == <<bpc, left, position, cash, curve, last, final, realized, fees, written, tests>>
moneyVars == <<position, cash, curve, last, final, realized, fees, written>>

NoPosition == [side |-> "none", entry |-> 1, size |-> 0, stop |-> NoStop, target |-> NoStop]

\* pnl_frac of a position times its size; an entry a strategy has written may be negative.
Profit(p, price) ==
  LET gain == p.size * (IF p.side = "long" THEN price - p.entry ELSE p.entry - price)
  IN IF p.entry > 0 THEN gain \div p.entry ELSE (-gain) \div (-p.entry)
MtM(p, c, price) == IF p = NoPosition THEN c ELSE c + p.size + Profit(p, price)
Fee(size) == size \div FeeOf

\* max_drawdown: how far the curve falls below its peak so far, compared
\* with the loss of a part lost of the whole w.
Peak(s) == [i \in DOMAIN s |-> Max({s[j] : j \in 1 .. i})]
FallsBy(s, lost, w) == \E i \in DOMAIN s : (Peak(s)[i] - s[i]) * w >= lost * Peak(s)[i]

BacktestInit ==
  /\ bpc = "idle" /\ left = 0
  /\ position = NoPosition /\ cash = Cash0 /\ curve = <<Cash0>>
  /\ last = 0 /\ final = 0 /\ realized = 0 /\ fees = 0 /\ written = 0 /\ tests = 0

\* validate_and_backtest: a strategy that does not load is refused.
Refused ==
  /\ bpc = "idle" /\ tests < MaxTests /\ tests' = tests + 1
  /\ UNCHANGED <<bpc, left, moneyVars>>

\* The candles of the provider, of which there may be none.
Submitted ==
  /\ bpc = "idle" /\ tests < MaxTests /\ tests' = tests + 1
  /\ left' \in NoBars
  /\ bpc' = "running"
  /\ position' = NoPosition /\ cash' = Cash0 /\ curve' = <<Cash0>>
  /\ last' = 0 /\ final' = 0 /\ realized' = 0 /\ fees' = 0 /\ written' = 0

ClosedAt(p, price, c) == c + p.size + Profit(p, price) - Fee(p.size)
\* The levels are looked at before the strategy is asked, the stop loss first.
LevelHit(p, b) ==
  LET reached(level, falling) == level # NoStop /\ IF falling THEN b.low <= level ELSE b.high >= level
  IN IF reached(p.stop, p.side = "long") THEN p.stop
     ELSE IF reached(p.target, p.side # "long") THEN p.target ELSE NoStop
Exit(b) == IF position = NoPosition THEN NoStop ELSE LevelHit(position, b)
Kept(b) == IF Exit(b) # NoStop THEN NoPosition ELSE position
CashThen(b) == IF Exit(b) # NoStop THEN ClosedAt(position, Exit(b), cash) ELSE cash

\* What on_tick leaves of the position it is handed, whatever it answers or raises.
Leaves(p) ==
  IF p = NoPosition THEN {p}
  ELSE [side : {"long", "short"}, entry : {p.entry} \cup Prices, size : {p.size} \cup Sizes,
        stop : {p.stop} \cup Stops, target : {p.target} \cup Stops]

\* runner.tick: of what on_tick returns, the action, the size and the reason
\* are handed on.
Ticked(answer) == [action |-> answer.action, half |-> answer.half, stop |-> NoStop]
Answers == [action : {"OPEN_LONG", "OPEN_SHORT", "CLOSE", "HOLD"}, half : BOOLEAN,
            stop : Stops \cup {NoStop}]

OpenedAt(side, price, t, c) ==
  LET size == IF t.half THEN c \div 2 ELSE c
  IN [pos |-> [side |-> side, entry |-> price, size |-> size, stop |-> t.stop, target |-> NoStop],
      cash |-> c - size - Fee(size)]

CanOpen(p, c) == p = NoPosition /\ c > 0

\* One bar: the levels, the strategy, the action, the curve.  A tick that raises is a HOLD,
\* after what it wrote; p is the position and close the candle's close as it leaves them.
Bar(b, answer, p, close) ==
  LET hit == Exit(b) # NoStop
      t == Ticked(answer)
      opens == t.action \in {"OPEN_LONG", "OPEN_SHORT"} /\ CanOpen(p, CashThen(b))
      closes == t.action = "CLOSE" /\ p # NoPosition
      new == OpenedAt(IF t.action = "OPEN_LONG" THEN "long" ELSE "short", b.close, t, CashThen(b))
  IN /\ bpc = "running" /\ left > WarmUp
     /\ left' = left - 1
     /\ position' = IF opens THEN new.pos ELSE IF closes THEN NoPosition ELSE p
     /\ cash' = IF opens THEN new.cash
                ELSE IF closes THEN ClosedAt(p, b.close, CashThen(b)) ELSE CashThen(b)
     /\ realized' = realized + (IF hit THEN Profit(position, Exit(b)) ELSE 0)
                             + (IF closes THEN Profit(p, b.close) ELSE 0)
     /\ fees' = fees + (IF hit THEN Fee(position.size) ELSE 0)
                     + (IF closes THEN Fee(p.size) ELSE 0)
                     + (IF opens THEN Fee(new.pos.size) ELSE 0)
     /\ written' = written + (p.size - Kept(b).size)
     /\ last' = b.close /\ final' = close
     /\ curve' = Append(curve, MtM(position', cash', b.close))
     /\ UNCHANGED <<bpc, tests>>

\* What on_tick wrote is no number or is missing: the engine raises, and the request with it.
Raised ==
  /\ bpc = "running" /\ left > WarmUp
  /\ bpc' = "idle" /\ left' = 0
  /\ position' = NoPosition /\ cash' = Cash0 /\ curve' = <<Cash0>>
  /\ last' = 0 /\ final' = 0 /\ realized' = 0 /\ fees' = 0 /\ written' = 0
  /\ UNCHANGED tests

\* The rest of engine.run: an open position is closed at the last candle's close, read again.
MutEndKeepsCurve ==
  IF position = NoPosition THEN UNCHANGED moneyVars
  ELSE /\ cash' = ClosedAt(position, final, cash)
       /\ realized' = realized + Profit(position, final) /\ fees' = fees + Fee(position.size)
       /\ position' = NoPosition /\ UNCHANGED <<last, final, written, curve>>
ForceClose ==
  IF position = NoPosition THEN UNCHANGED moneyVars
  ELSE /\ cash' = ClosedAt(position, final, cash)
       /\ curve' = [curve EXCEPT ![Len(curve)] = cash']
       /\ realized' = realized + Profit(position, final) /\ fees' = fees + Fee(position.size)
       /\ position' = NoPosition /\ UNCHANGED <<last, final, written>>

Answered ==
  /\ bpc = "running" /\ left <= WarmUp
  /\ ForceClose
  /\ bpc' = "answered" /\ left' = 0
  /\ UNCHANGED tests

\* The next request starts a run of its own.
Forgotten ==
  /\ bpc = "answered" /\ bpc' = "idle"
  /\ position' = NoPosition /\ cash' = Cash0 /\ curve' = <<Cash0>>
  /\ last' = 0 /\ final' = 0 /\ realized' = 0 /\ fees' = 0 /\ written' = 0
  /\ UNCHANGED <<left, tests>>

BacktestNext ==
  \/ Refused \/ Submitted
  \/ \E b \in TestBars, answer \in Answers :
       \E p \in Leaves(Kept(b)), close \in {b.close} \cup Prices : Bar(b, answer, p, close)
  \/ Raised \/ Answered \/ Forgotten

BacktestSpec == BacktestInit /\ [][BacktestNext]_backtestVars
-----------------------------------------------------------------------------
(* Properties *)

\* Types.
BacktestTypeOK ==
  /\ bpc \in {"idle", "running", "answered"} /\ left \in NoBars \cup 0 .. Max(NoBars)
  /\ position.side \in {"none", "long", "short"} /\ position.entry # 0
  /\ cash \in Int /\ curve \in Seq(Int) /\ tests \in 0 .. MaxTests
  /\ position # NoPosition => bpc = "running"

\* engine.py:214 and :219: what the curve of a finished run ends at is the initial cash, the
\* profits of its trades as they are booked and the fees of both their sides, and nothing
\* else but what the strategy itself wrote into the size of a position it was handed
\* (engine.py:166): entries, sides, levels and closes it writes change the profits, not the
\* sum.  During the run the open position is in it at the price of the bar.
MoneyAddsUp ==
  /\ MtM(position, cash, last) = Cash0 + realized - fees + written
        + (IF position = NoPosition THEN 0 ELSE Profit(position, last))
  /\ bpc # "idle" => curve[Len(curve)] = MtM(position, cash, last)

\* metrics.py:39 against :60, the two figures a publication is attested
\* with: a run that has lost a part of its capital has a drawdown at least
\* as large.
LossIsInDrawdown ==
  bpc = "answered" /\ 0 <= cash /\ cash < Cash0 => FallsBy(curve, Cash0 - cash, Cash0)

\* The figures a publication is attested with (backtest/engine.py:91, metrics.py:36) are
\* figures of the same run.
FiguresAddUp == MoneyAddsUp /\ LossIsInDrawdown
=============================================================================
