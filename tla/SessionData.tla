---------------------------- MODULE SessionData ----------------------------
(***************************************************************************)
(* What a trading engine (app/engine.py) keeps of its market from one      *)
(* session to the next: the price history, the candles with the tick of    *)
(* their last refresh, and the position.  One client starts and stops it,  *)
(* each time with a symbol of its choice, and waits for every answer; how  *)
(* calls overlap is the subject of TradingEngine.                          *)
(***************************************************************************)
EXTENDS Integers, Sequences

CONSTANTS
  Tokens,        \* symbols that are traded
  NoToken,       \* None
  HistoryLen,    \* maxlen of the price history (200)
  RefreshTicks,  \* ticks between refreshes of the candles (300)
  MaxTick,       \* ticks of one session: bounds the model
  MaxStarts      \* sessions: bounds the model

ASSUME SessionAssumption ==
  /\ NoToken \notin Tokens /\ HistoryLen \in Nat \ {0} /\ MaxTick \in Nat
  /\ RefreshTicks \in 1..(MaxTick - 1)

VARIABLES
  trades,       \* self.running
  token,        \* self.symbol
  past,         \* self.price_history: the symbol each price is of
  candlesOf,    \* the symbol of self._candle_cache
  tick,         \* tick_count of the running loop
  refreshedAt,  \* self._last_candle_refresh_tick
  held,         \* the symbol the open position was opened on
  sessions,     \* history: sessions started
  due,          \* history: ticks of this session that reached the refresh since one was tried
  kept          \* history: a stop left the position open

sessionVars == <<trades, token, past, candlesOf, tick, refreshedAt, held, sessions, due, kept>>

SessionInit ==
  /\ trades = FALSE /\ token = NoToken /\ past = <<>> /\ candlesOf = NoToken
  /\ tick = 0 /\ refreshedAt = 0 /\ held = NoToken
  /\ sessions = 0 /\ due = 0 /\ kept = FALSE

\* deque(maxlen): the oldest entry makes room.
Pushed(s, x) ==
  IF Len(s) < HistoryLen THEN Append(s, x) ELSE Append(Tail(s), x)

\* _refresh_candles: a fetch that fails leaves the candles as they are.
RefreshCandles == \E ok \in BOOLEAN : candlesOf' = IF ok THEN token' ELSE candlesOf

\* start with no initial price: the new symbol stays, nothing runs.
SessionFails(t) ==
  /\ ~trades /\ sessions < MaxStarts
  /\ token' = t /\ sessions' = sessions + 1
  /\ UNCHANGED <<trades, past, candlesOf, tick, refreshedAt, held, due, kept>>

\* start: the histories go on where the last session left them.
SessionStarts(t) ==
  /\ ~trades /\ sessions < MaxStarts
  /\ token' = t /\ past' = Pushed(past, t)
  /\ RefreshCandles
  /\ trades' = TRUE /\ tick' = 0 /\ due' = 0 /\ sessions' = sessions + 1
  /\ UNCHANGED <<refreshedAt, held, kept>>

SessionPriceless ==
  /\ trades /\ tick < MaxTick
  /\ tick' = tick + 1
  /\ UNCHANGED <<trades, token, past, candlesOf, refreshedAt, held, sessions, due, kept>>

\* A tick that closes the position on its levels, or on the supervisor's
\* word, ends there.
SessionTickCloses ==
  /\ trades /\ tick < MaxTick /\ held # NoToken
  /\ tick' = tick + 1 /\ past' = Pushed(past, token) /\ held' = NoToken /\ kept' = FALSE
  /\ UNCHANGED <<trades, token, candlesOf, refreshedAt, sessions, due>>

RefreshIfDue ==
  IF tick' - refreshedAt >= RefreshTicks
  THEN RefreshCandles /\ refreshedAt' = tick' /\ due' = 0
  ELSE due' = due + 1 /\ UNCHANGED <<candlesOf, refreshedAt>>

SessionTick ==
  /\ trades /\ tick < MaxTick
  /\ tick' = tick + 1 /\ past' = Pushed(past, token) /\ token' = token
  /\ RefreshIfDue
  /\ \E opens \in BOOLEAN :
       IF held = NoToken THEN held' = (IF opens THEN token ELSE NoToken) /\ kept' = kept
       ELSE held' = (IF opens THEN held ELSE NoToken) /\ kept' = (opens /\ kept)
  /\ UNCHANGED <<trades, sessions>>

MutStopNeedsPrice(close) ==
  /\ trades
  /\ trades' = FALSE
  /\ \E priced \in BOOLEAN :
       IF close /\ priced THEN held' = NoToken /\ kept' = FALSE
       ELSE held' = held /\ kept' = (~close /\ held # NoToken)
  /\ UNCHANGED <<token, past, candlesOf, tick, refreshedAt, sessions, due>>
\* stop: without closePosition the position outlives the session.
SessionEnds(close) ==
  /\ trades
  /\ trades' = FALSE
  /\ IF close THEN held' = NoToken /\ kept' = FALSE
     ELSE held' = held /\ kept' = (held # NoToken)
  /\ UNCHANGED <<token, past, candlesOf, tick, refreshedAt, sessions, due>>

SessionNext ==
  \/ \E t \in Tokens : SessionFails(t) \/ SessionStarts(t)
  \/ SessionPriceless \/ SessionTickCloses \/ SessionTick
  \/ \E close \in BOOLEAN : SessionEnds(close)

SessionSpec == SessionInit /\ [][SessionNext]_sessionVars
-----------------------------------------------------------------------------
(* Properties *)

\* Types.
SessionTypeOK ==
  /\ trades \in BOOLEAN /\ kept \in BOOLEAN /\ token \in Tokens \cup {NoToken}
  /\ past \in Seq(Tokens) /\ Len(past) <= HistoryLen
  /\ candlesOf \in Tokens \cup {NoToken} /\ held \in Tokens \cup {NoToken}
  /\ tick \in 0 .. MaxTick /\ refreshedAt \in 0 .. MaxTick /\ due \in 0 .. MaxTick

\* engine.py:287: a session trades a position of another symbol only if the
\* stop before it was told to leave the position open.
ForeignPositionWasKept == trades /\ held \notin {NoToken, token} => kept

\* engine.py:334 in the first session of a process: the candles are tried
\* again after at most RefreshTicks ticks with a price, and all the data a
\* signal is computed from is of the symbol that is traded.
FirstSessionClean ==
  sessions = 1 =>
    /\ due < RefreshTicks
    /\ candlesOf \in {NoToken, token}
    /\ \A i \in DOMAIN past : past[i] = token

\* engine.py:334, "Refresh candles periodically for candle-based
\* strategies": in no session do more than RefreshTicks ticks reach the
\* refresh without one.
CandlesRefreshed == due <= RefreshTicks

\* What start() (engine.py:112) may find of the session before it, and what none
\* finds in the first one.
SessionSafe == ForeignPositionWasKept /\ FirstSessionClean
=============================================================================
