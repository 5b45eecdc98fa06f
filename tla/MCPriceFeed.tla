---------------------------- MODULE MCPriceFeed ----------------------------
EXTENDS PriceFeed

\* The feed ids Pyth has for the symbols.
MCFeedOf == [s \in Symbols |-> "btc"]
=============================================================================
