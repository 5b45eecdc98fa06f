SPECIFICATION Spec
CONSTANTS
  Sessions = {c1, c2}
  LlmProviders = {"openai", "anthropic", "0g_compute"}
  ProviderOrder <- MCOrder
  TeeProvider = "0g_compute"
  LlmKeys = {"openai", "0g_compute"}
  Preferred = "anthropic"
  Requested = "none"
  NoProvider = "none"
  MaxLlmCalls = 2
  LogCalls = {c1, c2}
  NoLogCall = NoLogCall
  GasPrices = {5, 10}
  MaxAttempts = 3
  TxHashes = {h1, h2}
  Window = 2
  BatchSize = 1
  MaxIndexClock = 4
  MaxLines = 3
  PollLimit = 2
  MaxCopies = 2
  ProxyAgents = {c1, c2}
  NoAgent = NoAgent
  ProxyProviders = {p1}
  Unknown = Unknown
  Capacity = 2
  Refill = 1
  MaxProxyClock = 3
  MaxProxyCalls = 4
  Bars <- MCBars
  MaxBars = 5
  BarCount = 5
  HubBars = 3
  MinBars = 4
  Medium = 4
  Recent = 2
  Moves = 3
  Strategies = {"momentum", "dual_momentum", "breakout", "donchian_channel", "ma_crossover", "ema_crossover", "macd_signal", "z_score", "bollinger_reversion", "rsi_signal", "range_sr", "bollinger_squeeze", "linear_regression_channel", "kalman_fair_value", "meth_rwa", "demo_mode", "funding_oi_filter", "adx_filter", "supertrend", "ichimoku_signal", "stochastic_signal", "atr_breakout", "keltner_bollinger", "vwap_deviation", "obv_trend", "smart_money", "trend_following", "mean_reversion", "other"}
  Lookbacks = {1, 3}
  TickPrices = {2, 3, 5}
  TickBars <- MCTickBars
  MaxTicks = 6
  Period = 3
  TrendMult = 1
  Fast = 1
  Slow = 2
  Smooth = 2
  Tenkan = 2
  Kijun = 3
  Senkou = 4
  VolumeBars = 2
  ObvBars = 2
  SmartBars = 4
  Tokens = {c1, c2}
  NoToken = NoToken
  HistoryLen = 3
  RefreshTicks = 2
  MaxTick = 4
  MaxStarts = 3
  TestBars <- MCTestBars
  NoBars = {0, 4}
  WarmUp = 1
  Cash0 = 1024
  FeeOf = 4
  Stops = {1}
  NoStop = 0
  Prices = {1}
  Sizes = {2048}
  MaxTests = 2
  Names = {"BTC", "BINANCE:BTCUSDT", "XMR"}
  Tracked = {"BTC"}
  DbName <- MCDbName
  CmcName <- MCCmcName
  Ranges = {"1y"}
  KeptRanges = {"1y"}
  DefaultRange = "1y"
  OtherRange = "5y"
SYMMETRY Interchangeable
INVARIANTS
  ServicesTypesOK  SignerSafe PushedUnlessCrowded LogSafe CallsPaidAndCounted
  RegimesApart SignalsSound SessionSafe FiguresAddUp TokenCacheSafe
CHECK_DEADLOCK FALSE
