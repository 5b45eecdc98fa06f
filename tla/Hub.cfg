SPECIFICATION Spec
CONSTANTS
  Users = {u1, u2}
  Codes = {k1, k2}
  Names = {n1, n2}
  ChainUsers = {u1}
  Calls = {c1, c2}
  MaxRows = 3
  MaxListings = 2
  MaxTokens = 1
  MaxCalls = 5
  Wallets = {w1}
  Nonces = {k1, k2}
  AuthCalls = {c1, c2}
  NoAuthCall = NoAuthCall
  MaxSessions = 2
  MaxRequests = 2
  WalletCalls = {c1, c2}
  NoUse = NoUse
  MaxKeys = 3
  MaxBalance = 3
  MaxChainTxs = 3
  Keys = {k1, k2}
  EnvKeys = {}
  SecretCalls = {c1, c2}
  NoSecretCall = NoSecretCall
  NoPush = NoPush
  MaxPuts = 3
  Pairs = {k1, k2}
  CandleCalls = {c1, c2}
  Staleness = 1
  MaxCandleClock = 2
  MaxCandleRows = 2
SYMMETRY Interchangeable
INVARIANTS
  HubTypesOK CountersKept ListingsAttested SignInSafe WalletSafe CandlesSound
PROPERTIES SecretsSafe
CHECK_DEADLOCK FALSE
