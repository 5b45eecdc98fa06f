--------------------------- MODULE MarketAnalysis ---------------------------
(***************************************************************************)
(* How an agent's planner turns candles into a list of strategies          *)
(* (app/market/market.py get_ohlcv_candles, app/market/market_analysis.py, *)
(* app/llm/llm_planner.py plan_strategy): the candles come from the cache  *)
(* behind HUB_URL or else from the provider, the planner computes the      *)
(* features of the market over its last bars, and the features choose the  *)
(* strategies the LLM is offered.  The planner's windows are constants, in *)
(* the order the code has them in.                                         *)
(*                                                                         *)
(* Prices are integers and ratios are compared by cross multiplication.    *)
(* The realized volatility is a number the later steps only test: whether  *)
(* there is one, and whether it lies in the range called reasonable.       *)
(***************************************************************************)
EXTENDS Series

CONSTANTS
  Bars,       \* the candles the market can make, [high, low, close]
  MaxBars,    \* bars of the history: bounds the model
  BarCount,   \* bars the planner asks for
  HubBars,    \* bars the hub's cache holds of a pair (100 in the code)
  MinBars,    \* bars below which the planner takes the default (200)
  Medium,     \* bars of the range (20)
  Recent,     \* its last bars (10)
  Moves       \* bars of the directional movement (14)

ASSUME AnalysisAssumption ==
  /\ {Recent, Moves, Medium, MinBars, HubBars, BarCount} \subseteq Nat
  /\ 0 < Recent /\ Recent < Moves /\ Moves < Medium /\ Medium <= MinBars
  /\ Bars \subseteq [high : Nat, low : Nat, close : Nat]
  /\ \A b \in Bars : 0 < b.low /\ b.low <= b.close /\ b.close <= b.high

VARIABLES
  history,    \* the pair's candles so far, oldest first
  candles,    \* those the planner works on
  mpc,        \* the planner
  summary,    \* MarketRegimeSummary: what the later steps read of it
  shortlist,  \* strategy_shortlist
  chosen      \* the strategy of the plan

analysisVars == <<history, candles, mpc, summary, shortlist, chosen>>

NoAdx == [num |-> 0, den |-> 0]
\* metrics["adx"], a percentage num/den: absent when nothing moved.
Adx(s) ==
  LET plus == Moved(PlusMove, s, Moves)  minus == Moved(MinusMove, s, Moves)
  IN IF Len(s) < Moves \/ plus + minus = 0 THEN NoAdx
     ELSE [num |-> 100 * Distance(plus, minus),
           den |-> plus + minus]

HasRange(s) == Len(s) >= Medium /\ RangeOf(LastN(s, Medium)) > 0
RecentRange(s) == RangeOf(LastN(s, Recent))
MutMediumBeforeRecent(s) == RangeOf(SubSeq(s, Len(s) - Medium + 1, Len(s) - Recent))
MediumRange(s) == RangeOf(LastN(s, Medium))

\* range_ratio < 0.7, and range_ratio > 1.3.
Compressed(s) == HasRange(s) /\ 10 * RecentRange(s) < 7 * MediumRange(s)
Expanded(s) == HasRange(s) /\ 10 * RecentRange(s) > 13 * MediumRange(s)

Volatilities == {"none", "moderate", "reasonable"}
NoSummary == [bars |-> 0, adx |-> NoAdx, compressed |-> FALSE, expanded |-> FALSE, vol |-> "none"]
\* A volatility of exactly 0, or none at all, is falsy in every test.
SummaryOf(s, v) ==
  [bars |-> Len(s), adx |-> Adx(s), compressed |-> Compressed(s), expanded |-> Expanded(s),
   vol |-> IF \A i \in DOMAIN s : s[i].close = s[1].close THEN "none" ELSE v]

Above(x, t) == x.num > t * x.den
Below(x, t) == 0 < x.num /\ x.num < t * x.den  \* an index of 0 is falsy
Followers == {"trend_following", "ma_crossover", "ema_crossover"}
StrongFollowers == {"breakout", "donchian_channel", "macd_signal", "supertrend"}
Reverters == {"mean_reversion", "z_score", "bollinger_reversion", "rsi_signal"}
Squeezes == {"bollinger_squeeze", "linear_regression_channel"}
\* summary.range_compression_flag or (summary.adx and summary.adx < 20)
Ranging(m) == m.compressed \/ Below(m.adx, 20)

\* suggest_strategy_shortlist.  The funding and open-interest sources are
\* stubs that answer None, so its last condition never holds.
Suggested(m) ==
  {"momentum"}
  \cup (IF Above(m.adx, 25) /\ m.vol = "reasonable" THEN Followers ELSE {})
  \cup (IF Above(m.adx, 30) /\ m.vol = "reasonable" THEN StrongFollowers ELSE {})
  \cup (IF Ranging(m) THEN Reverters ELSE {})
  \cup (IF Ranging(m) /\ m.expanded THEN Squeezes ELSE {})
  \cup (IF m.expanded /\ ~Ranging(m) THEN {"atr_breakout", "breakout"} ELSE {})

\* The strategies compute_strategy_signal knows by name; any other name is
\* traded as momentum.
ByName == {"momentum", "dual_momentum", "breakout", "donchian_channel", "ma_crossover",
           "ema_crossover", "macd_signal", "z_score", "bollinger_reversion", "rsi_signal",
           "range_sr", "bollinger_squeeze", "linear_regression_channel", "kalman_fair_value",
           "meth_rwa", "trend_following", "mean_reversion", "adx_filter", "supertrend",
           "ichimoku_signal", "stochastic_signal", "atr_breakout", "keltner_bollinger",
           "vwap_deviation", "obv_trend", "smart_money", "funding_oi_filter", "demo_mode"}
UnknownStrategy == "a name the LLM made up"

AnalysisInit ==
  /\ history = <<>> /\ candles = <<>> /\ mpc = "idle"
  /\ summary = NoSummary /\ shortlist = {} /\ chosen = "momentum"

\* The market makes a bar.
BarCloses(b) ==
  /\ Len(history) < MaxBars
  /\ history' = Append(history, b)
  /\ UNCHANGED <<candles, mpc, summary, shortlist, chosen>>

\* A request to plan: what the hub's cache answers is taken if it is not
\* empty, however few bars it holds; else the provider is asked.
FetchFromHub ==
  /\ mpc = "idle" /\ history # <<>>
  /\ candles' = LastN(LastN(history, HubBars), BarCount)
  /\ mpc' = "fetched"
  /\ UNCHANGED <<history, summary, shortlist, chosen>>
FetchDirect ==
  /\ mpc = "idle"
  /\ \E failed \in BOOLEAN : candles' = IF failed THEN <<>> ELSE LastN(history, BarCount)
  /\ mpc' = "fetched"
  /\ UNCHANGED <<history, summary, shortlist, chosen>>

TooFewBars ==
  /\ mpc = "fetched" /\ Len(candles) < MinBars
  /\ chosen' = "momentum" /\ mpc' = "idle"
  /\ summary' = NoSummary /\ shortlist' = {} /\ candles' = <<>>
  /\ UNCHANGED history

Summarise ==
  /\ mpc = "fetched" /\ Len(candles) >= MinBars
  /\ \E v \in Volatilities : summary' = SummaryOf(candles, v)
  /\ shortlist' = Suggested(summary')
  /\ mpc' = "asking"
  /\ UNCHANGED <<history, candles, chosen>>

\* The LLM answers with one of the strategies offered, with a name of its
\* own, or with nothing usable, and then the default stands.
LlmChooses ==
  /\ mpc = "asking"
  /\ \E s \in shortlist \cup {UnknownStrategy, "momentum"} : chosen' = s
  /\ mpc' = "idle" /\ candles' = <<>>
  /\ UNCHANGED <<history, summary, shortlist>>

AnalysisNext ==
  \/ \E b \in Bars : BarCloses(b)
  \/ FetchFromHub \/ FetchDirect \/ TooFewBars \/ Summarise \/ LlmChooses

AnalysisSpec == AnalysisInit /\ [][AnalysisNext]_analysisVars
-----------------------------------------------------------------------------
(* Properties *)

\* Types; the directional index (market_analysis.py:217) is a percentage.
AnalysisTypeOK ==
  /\ history \in Seq(Bars) /\ candles \in Seq(Bars) /\ Len(candles) <= BarCount
  /\ mpc \in {"idle", "fetched", "asking"}
  /\ summary.adx.num >= 0 /\ summary.adx.num <= 100 * summary.adx.den
  /\ summary.vol \in Volatilities
  /\ shortlist \subseteq ByName /\ chosen \in ByName \cup {UnknownStrategy}

\* The last 10 bars are part of the last 20 (market_analysis.py:228), so the
\* range never counts as expanded, and the strategies that wait for an
\* expansion are never offered.
NeverExpands ==
  /\ ~summary.expanded
  /\ shortlist \cap (Squeezes \cup {"atr_breakout"}) = {}

\* Strategies that follow a trend and strategies that bet on its end are
\* offered together only when a trend runs inside a narrow range
\* (market_analysis.py:426), and the followers never without a trend.
BothOnlyWhenCompressed ==
  /\ shortlist \cap Followers # {} /\ shortlist \cap Reverters # {} => summary.compressed
  /\ shortlist \cap StrongFollowers # {} => Followers \subseteq shortlist

\* The regimes suggest_strategy_shortlist (market_analysis.py:408) tells apart,
\* computed from overlapping windows of the same bars.
RegimesApart == NeverExpands /\ BothOnlyWhenCompressed
=============================================================================
