SPECIFICATION FeedSpec
CONSTANTS
  Symbols = {"BTC"}
  AgentSymbol = "BTC"
  FeedOf <- MCFeedOf
  Tracked = {"BTC"}
  Listeners = {l1, l2}
  NoListener = NoListener
  MaxRestarts = 1
INVARIANTS FeedSafe
PROPERTIES PriceComesBack
CHECK_DEADLOCK FALSE
