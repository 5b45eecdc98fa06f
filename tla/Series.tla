------------------------------- MODULE Series -------------------------------
(***************************************************************************)
(* What the agent's market analysis and its strategies compute from a      *)
(* sequence of prices or of candles, oldest first.                         *)
(***************************************************************************)
EXTENDS Integers, Sequences, FiniteSetsExt, Functions

\* The last n entries, as s[-n:] in the code.
LastN(s, n) == SubSeq(s, (IF n > Len(s) THEN 0 ELSE Len(s) - n) + 1, Len(s))
\* s[-n]
FromEnd(s, n) == s[Len(s) - n + 1]

Total(f(_), from, to) == SumFunctionOnSet([i \in from .. to |-> f(i)], from .. to)
SumOf(s) == Total(LAMBDA i : s[i], 1, Len(s))
MaxOf(s) == Max({s[i] : i \in DOMAIN s})
MinOf(s) == Min({s[i] : i \in DOMAIN s})

Highest(bars) == Max({bars[i].high : i \in DOMAIN bars})
Lowest(bars) == Min({bars[i].low : i \in DOMAIN bars})
RangeOf(bars) == Highest(bars) - Lowest(bars)

\* The upward and the downward movement into bar i, of which one is 0.
PlusMove(bars, i) ==
  LET up == bars[i].high - bars[i-1].high  down == bars[i-1].low - bars[i].low
  IN IF up > down /\ up > 0 THEN up ELSE 0
MinusMove(bars, i) ==
  LET up == bars[i].high - bars[i-1].high  down == bars[i-1].low - bars[i].low
  IN IF down > up /\ down > 0 THEN down ELSE 0
\* The sum of a measure of a bar and its predecessor over the last n bars
\* that have one.
Moved(Measure(_,_), bars, n) ==
  Total(LAMBDA i : Measure(bars, i), Max({2, Len(bars) - n + 1}), Len(bars))

Distance(x, y) == IF x > y THEN x - y ELSE y - x
TrueRange(bars, i) ==
  Max({bars[i].high - bars[i].low, Distance(bars[i].high, bars[i-1].close),
       Distance(bars[i].low, bars[i-1].close)})
=============================================================================
