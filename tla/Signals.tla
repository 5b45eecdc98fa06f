------------------------------ MODULE Signals ------------------------------
(***************************************************************************)
(* The strategies of an agent (app/strategies/signals.py and the           *)
(* quant_algos beside it) and the action the trading engine takes on their *)
(* signal (app/engine.py _compute_signal, _decide_action).                 *)
(*                                                                         *)
(* A signal is modelled by its sign: 1 bullish, -1 bearish, 0 for none, as *)
(* the thresholds of the plans are below anything the prices of an         *)
(* instance can make.  Prices are positive integers; fractions are         *)
(* compared by cross multiplication.  The fixed periods of the code are    *)
(* constants, in the order the code has them in.                           *)
(***************************************************************************)
EXTENDS Series, FiniteSets

CONSTANTS
  Strategies,  \* names a plan can hold
  Lookbacks,   \* lookbacks a plan can hold
  TickPrices,  \* prices the feed delivers
  TickBars,    \* candles the market makes, [high, low, close, volume]
  MaxTicks,    \* length of the two series together: bounds the model
  Period,      \* 14: true range, directional index, RSI, stochastic
  TrendMult,   \* 3: width of the supertrend in true ranges
  Fast, Slow, Smooth,      \* 12, 26, 9 of MACD
  Tenkan, Kijun, Senkou,   \* 9, 26, 52 of Ichimoku
  VolumeBars, ObvBars, SmartBars  \* 7, 5, 15 of the smart-money tracker

ASSUME SignalAssumption ==
  /\ Period \in Nat \ {0} /\ Lookbacks \subseteq Int /\ MaxTicks \in Nat
  /\ IsFiniteSet(TickPrices) /\ TickPrices \subseteq Nat \ {0}
  /\ {Fast, Slow, Smooth} \subseteq Nat \ {0} /\ Fast <= Slow

VARIABLES
  plan,     \* self.strategy_plan: its strategy and its lookback
  prices,   \* self.price_history
  bars,     \* self._candle_cache
  holding,  \* self.position.side
  raised    \* the last signal ended in an exception

signalVars == <<plan, prices, bars, holding, raised>>

Raises == 9  \* the outcome of a computation that raises
Larger(x, y) == IF x > y THEN x ELSE y
Smaller(x, y) == IF x > y THEN y ELSE x
Sign(x) == IF x > 0 THEN 1 ELSE IF x < 0 THEN -1 ELSE 0

Latest(s) == s[Len(s)]
Squares(s) == Total(LAMBDA i : s[i] * s[i], 1, Len(s))
\* n^2 times the variance.
Spread(s) == Len(s) * Squares(s) - SumOf(s) * SumOf(s)
Warm(s, n, g) == IF Len(s) < n THEN 0 ELSE g
-----------------------------------------------------------------------------
(* Signals of the price history *)

SimpleMomentum(s, n) == Warm(s, n, Sign(Latest(s) - FromEnd(s, n)))
\* short - long: (p - p_short) - (p - p_long), in which p cancels.
DualMomentum(s, short, long) ==
  Warm(s, long, Sign((Latest(s) - FromEnd(s, short)) - (Latest(s) - FromEnd(s, long))))
Breakout(s, n) ==
  Warm(s, n + 1,
    LET window == SubSeq(s, Len(s) - n, Len(s) - 1)
    IN IF Latest(s) > MaxOf(window) THEN 1 ELSE IF Latest(s) < MinOf(window) THEN -1 ELSE 0)
\* The price against the middle of the window, which range_sr fades.
MiddleOf(s) == MaxOf(s) + MinOf(s)
Donchian(s, n) == Warm(s, n, Sign(2 * Latest(s) - MiddleOf(LastN(s, n))))
RangeSr(s, n) == Warm(s, n, Sign(MiddleOf(LastN(s, n)) - 2 * Latest(s)))
MutMaSwapped(s, fast, slow) ==
  Warm(s, slow, Sign(fast * SumOf(LastN(s, slow)) - slow * SumOf(LastN(s, fast))))
MaCrossover(s, fast, slow) ==
  Warm(s, slow, Sign(slow * SumOf(LastN(s, fast)) - fast * SumOf(LastN(s, slow))))

Power(x, k) == LET f[i \in 0 .. k] == IF i = 0 THEN 1 ELSE x * f[i - 1] IN f[k]
\* After k prices an exponential average of n is counted in units of 1 / Unit(n, k).
Unit(n, k) == n * Power(n + 1, k)
\* The averages over a series, started from the mean of n entries, which add up to sum.
Ema(s, from, n, sum) ==
  LET e[i \in from - 1 .. Len(s)] ==
        IF i < from THEN sum ELSE 2 * Unit(n, i - from) * s[i] + (n - 1) * e[i - 1]
  IN e
\* _ema: the mean of the last n prices, into which n - 1 of them go again.
EmaOfLast(s, n) == Ema(s, Len(s) - n + 2, n, SumOf(LastN(s, n)))[Len(s)]
EmaCrossover(s, fast, slow) ==
  Warm(s, slow, Sign(Unit(slow, slow - 1) * EmaOfLast(s, fast)
                     - Unit(fast, fast - 1) * EmaOfLast(s, slow)))
\* All points of a line in the unit of its last.
LineOf(s, n, i) == Ema(s, n + 1, n, SumOf(SubSeq(s, 1, n)))[i] * Power(n + 1, Len(s) - i)
MacdOf(s, i) ==
  Unit(Slow, Len(s) - Slow) * LineOf(s, Fast, i) - Unit(Fast, Len(s) - Fast) * LineOf(s, Slow, i)
Macd(s) ==
  Warm(s, Slow + Smooth,
    Sign(Smooth * MacdOf(s, Len(s))
         - Total(LAMBDA i : MacdOf(s, i), Len(s) - Smooth + 1, Len(s))))

\* z_score and bollinger_reversion differ in their scale only.
ZScore(s, n) == Warm(s, n, Sign(SumOf(LastN(s, n)) - n * Latest(s)))
\* Without a loss the index is 100, in a flat market too.
Rsi(s, n) ==
  LET Change(i) == s[i] - s[i - 1]
      gain == Total(LAMBDA i : Larger(Change(i), 0), Len(s) - n + 1, Len(s))
      loss == Total(LAMBDA i : Larger(-Change(i), 0), Len(s) - n + 1, Len(s))
  IN Warm(s, n + 1, IF loss = 0 THEN -1 ELSE Sign(loss - gain))

\* The bands of the last n prices against those of the n before: a flat
\* window has a spread of 1e-10, below every other.
Wider(w, v) ==
  IF Spread(w) = 0 THEN Spread(v) = 0 /\ 10 * SumOf(v) > 11 * SumOf(w)
  ELSE 100 * Spread(w) * SumOf(v) * SumOf(v) > 121 * Spread(v) * SumOf(w) * SumOf(w)
Squeeze(s, n) ==
  Warm(s, 2 * n,
    LET w == LastN(s, n)  v == SubSeq(s, Len(s) - 2 * n + 1, Len(s) - n)
    IN IF ~Wider(w, v) THEN 0 ELSE IF n * Latest(s) > SumOf(w) THEN 1 ELSE -1)

\* The last price against the least-squares line through the last n.
Regression(s, n) ==
  LET w == LastN(s, n)
      X(i) == i - 1
      sx == Total(X, 1, n)
      den == n * Total(LAMBDA i : X(i) * X(i), 1, n) - sx * sx
      rise == n * Total(LAMBDA i : X(i) * w[i], 1, n) - sx * SumOf(w)
  IN Warm(s, n, Sign(SumOf(w) * den + rise * (n * (n - 1) - sx) - n * den * Latest(s)))
\* A filter's value lies between the prices it has seen.
Kalman(s) ==
  IF Len(s) < 5 THEN {0}
  ELSE {Sign(fair - Latest(s)) : fair \in MinOf(s) .. MaxOf(s)}
\* The ratio of two tokens is expected near 1; the feed delivers dollars.
MethRwa(s) == Warm(s, 2, IF Latest(s) > 1 THEN -1 ELSE 0)
DemoMode(s) ==
  Warm(s, 4, LET delta == Latest(s) - FromEnd(s, 4)
             IN IF delta # 0 THEN Sign(delta)
                ELSE IF Latest(s) >= FromEnd(s, 2) THEN 1 ELSE -1)
-----------------------------------------------------------------------------
(* Signals of the candles *)

TrueRanges(b) == Moved(TrueRange, b, Period)  \* _atr times the period
AdxFilter(b) ==
  LET plus == Moved(PlusMove, b, Period)  minus == Moved(MinusMove, b, Period)
  IN Warm(b, 2 * Period,
          IF plus + minus > 0 /\ 100 * Distance(plus, minus) >= 25 * (plus + minus) THEN 1 ELSE 0)
Supertrend(b) ==
  LET c == Latest(b)  width == 2 * TrendMult * TrueRanges(b)
  IN Warm(b, Period + 1,
       IF 2 * Period * c.close > Period * (c.high + c.low) + width THEN 1
       ELSE IF 2 * Period * c.close < Period * (c.high + c.low) - width THEN -1 ELSE 0)
Ichimoku(b) ==
  LET Mid(n) == Highest(LastN(b, n)) + Lowest(LastN(b, n))
      cross == Sign(Mid(Tenkan) - Mid(Kijun))
  IN Warm(b, Senkou, IF 2 * Latest(b).close > Mid(Kijun) THEN Sign(1 + cross) ELSE Sign(cross - 1))

\* s[from:to] in the code, where a negative index counts from the end.
Slice(s, from, to) ==
  LET first == IF from >= 0 THEN from ELSE Larger(0, Len(s) + from)
  IN SubSeq(s, first + 1, to)
\* The averaged %K only goes to the log, but its windows reach k - 1 bars
\* behind the last k, and the largest entry of an empty window raises.
Stochastic(b, k) ==
  LET w == LastN(b, k)
  IN IF Len(b) < k \/ RangeOf(w) = 0 THEN 0
     ELSE IF \E i \in Len(b) - k .. Len(b) - 1 : Slice(b, i - k + 1, i + 1) = <<>> THEN Raises
     ELSE Sign(Highest(w) + Lowest(w) - 2 * Latest(b).close)

AtrBreakout(b) ==
  LET c == Latest(b)
  IN Warm(b, Period + 1,
       IF 2 * Period * (c.high - c.low) <= 3 * TrueRanges(b) THEN 0
       ELSE IF 2 * c.close > c.high + c.low THEN 1 ELSE -1)
\* Keltner bands of two true ranges, or of two deviations while there are
\* too few candles for a true range.
Keltner(b, n) ==
  LET closes == [i \in 1 .. n |-> LastN(b, n)[i].close]
      away == n * Latest(b).close - SumOf(closes)
      Beyond(d) == IF Len(b) > Period THEN Period * d >= 2 * n * TrueRanges(b)
                   ELSE d > 0 /\ d * d >= 4 * Spread(closes)
  IN Warm(b, n + 1, IF Beyond(away) THEN -1 ELSE IF Beyond(-away) THEN 1 ELSE 0)
Vwap(b) ==
  LET V(i) == b[i].volume
      Value(i) == (b[i].high + b[i].low + b[i].close) * V(i)
  IN IF b[1].volume = 0 THEN 0
     ELSE Sign(Total(Value, 1, Len(b)) - 3 * Latest(b).close * Total(V, 1, Len(b)))
\* Volume counted up or down with the close, over bars 2 to last.
OnBalance(b, last) ==
  Total(LAMBDA i : IF b[i].close >= b[i-1].close THEN b[i].volume ELSE -b[i].volume, 2, last)
ObvTrend(b, n) ==
  Warm(b, n + 1, IF OnBalance(b, Len(b) - n) = 0 THEN 0
                 ELSE Sign(OnBalance(b, Len(b)) - OnBalance(b, Len(b) - n)))
SmartMoney(b) ==
  LET c == Latest(b)
      before == Total(LAMBDA i : b[i].volume, Len(b) - VolumeBars, Len(b) - 1)
  IN Warm(b, SmartBars,
       IF /\ before > 0 /\ c.volume * VolumeBars >= 2 * before
          /\ c.high > c.low /\ 4 * (c.close - c.low) >= 3 * (c.high - c.low)
          /\ OnBalance(b, Len(b)) > OnBalance(b, Len(b) - ObvBars)
       THEN 1 ELSE 0)
-----------------------------------------------------------------------------
(* compute_strategy_signal *)

OfPrices == {"momentum", "dual_momentum", "breakout", "donchian_channel", "ma_crossover",
             "ema_crossover", "macd_signal", "z_score", "bollinger_reversion", "rsi_signal",
             "range_sr", "bollinger_squeeze", "linear_regression_channel", "kalman_fair_value",
             "meth_rwa", "demo_mode", "funding_oi_filter"}
OfBars == {"adx_filter", "supertrend", "ichimoku_signal", "stochastic_signal", "atr_breakout",
           "keltner_bollinger", "vwap_deviation", "obv_trend", "smart_money"}
OfBoth == {"trend_following", "mean_reversion"}

PriceSignal(name, s, asked) ==
  LET n == Larger(2, asked)
      half == n \div 2
  IN CASE name = "dual_momentum" -> {DualMomentum(s, half, n)}
       [] name = "breakout" -> {Breakout(s, n)}
       [] name = "donchian_channel" -> {Donchian(s, n)}
       [] name = "ma_crossover" -> {MaCrossover(s, Larger(2, half), n)}
       [] name = "ema_crossover" -> {EmaCrossover(s, Larger(2, half), n)}
       [] name = "macd_signal" -> {Macd(s)}
       [] name \in {"z_score", "bollinger_reversion"} -> {ZScore(s, n)}
       [] name = "rsi_signal" -> {Rsi(s, Smaller(Period, n))}
       [] name = "range_sr" -> {RangeSr(s, n)}
       [] name = "bollinger_squeeze" -> {Squeeze(s, n)}
       [] name = "linear_regression_channel" -> {Regression(s, n)}
       [] name = "kalman_fair_value" -> Kalman(s)
       [] name = "meth_rwa" -> {MethRwa(s)}
       [] name = "demo_mode" -> {DemoMode(s)}
       [] name = "funding_oi_filter" -> {SimpleMomentum(s, Larger(1, asked))}
       [] OTHER -> {SimpleMomentum(s, n)}
BarSignal(name, b, n) ==
  CASE name = "adx_filter" -> AdxFilter(b)
    [] name = "supertrend" -> Supertrend(b)
    [] name = "ichimoku_signal" -> Ichimoku(b)
    [] name = "stochastic_signal" -> Stochastic(b, Smaller(Period, n))
    [] name = "atr_breakout" -> AtrBreakout(b)
    [] name = "keltner_bollinger" -> Keltner(b, n)
    [] name = "vwap_deviation" -> Vwap(b)
    [] name = "obv_trend" -> ObvTrend(b, n)
    [] name = "smart_money" -> SmartMoney(b)
\* The fallbacks for too few candles work on the prices, with the smallest
\* windows a little different.
Fallback(name, s, asked) ==
  LET n == Larger(2, asked)
  IN IF name = "trend_following" THEN MaCrossover(s, Larger(1, n \div 2), n)
     ELSE ZScore(s, Larger(3, asked))
\* The signals a plan can get from the two series: several, or an exception.
Signal(p, s, b) ==
  LET n == Larger(2, p.lookback)
      enough == b # <<>> /\ Len(b) >= n
  IN IF p.strategy \in OfBars /\ enough THEN {BarSignal(p.strategy, b, n)}
     ELSE IF p.strategy = "trend_following" /\ enough
       THEN {MaCrossover(s, Larger(2, n \div 2), n)}
     ELSE IF p.strategy = "mean_reversion" /\ enough THEN {ZScore(s, n)}
     ELSE IF p.strategy \in OfBoth THEN {Fallback(p.strategy, s, p.lookback)}
     ELSE PriceSignal(p.strategy, s, p.lookback)
-----------------------------------------------------------------------------
(* The engine *)

SignalInit ==
  /\ plan \in [strategy : Strategies, lookback : Lookbacks]
  /\ prices \in {<<p>> : p \in TickPrices} /\ bars = <<>>
  /\ holding = "FLAT" /\ raised = FALSE

\* _decide_action and the paper position: a signal against the position
\* closes it, one without a position opens one.
ActsOn(side, g) ==
  IF side = "FLAT" THEN (IF g = 1 THEN "LONG" ELSE IF g = -1 THEN "SHORT" ELSE "FLAT")
  ELSE IF (side = "LONG" /\ g = -1) \/ (side = "SHORT" /\ g = 1) THEN "FLAT" ELSE side

\* One tick of the loop.  An exception ends the tick before any action.
PriceTick(p) ==
  /\ Len(prices) + Len(bars) < MaxTicks
  /\ prices' = Append(prices, p)
  /\ \E g \in Signal(plan, prices', bars) :
       IF g = Raises THEN raised' = TRUE /\ UNCHANGED holding
       ELSE raised' = FALSE /\ holding' = ActsOn(holding, g)
  /\ UNCHANGED <<plan, bars>>

\* _refresh_candles with one more candle, and the next tick at an unchanged
\* price.  Candles that the strategy does not read are left out; two
\* strategies read no more of them than their number.
BarTick(c) ==
  /\ plan.strategy \in OfBars \cup OfBoth
  /\ plan.strategy \in OfBoth => c = CHOOSE d \in TickBars : TRUE
  /\ Len(prices) + Len(bars) < MaxTicks
  /\ bars' = Append(bars, c)
  /\ \E g \in Signal(plan, prices, bars') :
       IF g = Raises THEN raised' = TRUE /\ UNCHANGED holding
       ELSE raised' = FALSE /\ holding' = ActsOn(holding, g)
  /\ UNCHANGED <<plan, prices>>

\* /stop closes the position.
SignalStop == holding # "FLAT" /\ holding' = "FLAT" /\ UNCHANGED <<plan, prices, bars, raised>>

SignalNext ==
  \/ \E p \in TickPrices : PriceTick(p)
  \/ \E c \in TickBars : BarTick(c)
  \/ SignalStop

SignalSpec == SignalInit /\ [][SignalNext]_signalVars
-----------------------------------------------------------------------------
(* Properties *)

Outcomes == {-1, 0, 1, Raises}

\* Types.
SignalTypeOK ==
  /\ plan.strategy \in Strategies /\ plan.lookback \in Lookbacks
  /\ Signal(plan, prices, bars) \subseteq Outcomes
  /\ holding \in {"FLAT", "LONG", "SHORT"} /\ raised \in BOOLEAN

\* stochastic_signal (mean_reversion_algos.py:95) looks k - 1 candles
\* further back than it asks for; every other strategy asks for all the
\* candles it reads, and no exception keeps the engine from acting.
RaisesOnlyShort ==
  raised => /\ plan.strategy = "stochastic_signal"
            /\ LET k == Smaller(Period, Larger(2, plan.lookback))
               IN Len(bars) >= k /\ Len(bars) < 2 * k - 1

Rising(s) == \A i \in DOMAIN s : i > 1 => s[i] > s[i - 1]
Falling(s) == \A i \in DOMAIN s : i > 1 => s[i] < s[i - 1]
FollowTrend == {"momentum", "breakout", "donchian_channel", "ma_crossover", "ema_crossover",
                "funding_oi_filter", "trend_following"}
FadeTrend == {"z_score", "bollinger_reversion", "rsi_signal", "range_sr", "mean_reversion"}

\* momentum_algos.py:3, "signal > 0 bullish, < 0 bearish": in a market that
\* has only risen a strategy that follows it is never short and one that
\* fades it is never long, and the other way round.
TrendSideKept ==
  /\ Rising(prices) /\ plan.strategy \in FollowTrend => holding # "SHORT"
  /\ Falling(prices) /\ plan.strategy \in FollowTrend => holding # "LONG"
  /\ Rising(prices) /\ plan.strategy \in FadeTrend => holding # "LONG"
  /\ Falling(prices) /\ plan.strategy \in FadeTrend => holding # "SHORT"

MirrorAt == Max(TickPrices) + Min(TickPrices)
Mirrored(s) == [i \in DOMAIN s |-> MirrorAt - s[i]]
\* momentum_algos.py:3: seen upside down, the market gets the opposite
\* signal.  The others of the strategies on prices lean to one side, as RSI
\* does without a loss, or on a tie.
NoLeaning ==
  plan.strategy \in (FollowTrend \cup FadeTrend \cup {"macd_signal", "linear_regression_channel",
                     "kalman_fair_value", "dual_momentum"}) \ {"rsi_signal"}
    => Signal(plan, Mirrored(prices), bars) = {-g : g \in Signal(plan, prices, bars)}

\* A signal is computed or the call raises for the one reason known, it is on the side
\* of the market its strategy says, and it treats both sides alike.
SignalsSound == RaisesOnlyShort /\ TrendSideKept /\ NoLeaning
=============================================================================
