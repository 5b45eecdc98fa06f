---------------------------- MODULE MCServices ----------------------------
(***************************************************************************)
(* One instance of what agents and user-servers compute and keep beside    *)
(* the trades.  The parts share no state: a behaviour of the run is a      *)
(* behaviour of one of them, the others at rest.                           *)
(***************************************************************************)
EXTENDS DecisionLog, ChainSigner, Indexer, LogChannel, LlmProxy, MarketAnalysis, Signals,
        SessionData, Backtest, TokenCache, TLC

MCOrder == <<"0g_compute", "openai", "anthropic">>  \* of _get_provider

\* Bars that hold still, rise, open up and fall.
MCBars == {[high |-> 3, low |-> 2, close |-> 2], [high |-> 4, low |-> 3, close |-> 4],
           [high |-> 6, low |-> 2, close |-> 5], [high |-> 2, low |-> 1, close |-> 2]}
MCTickBars == {[high |-> 3, low |-> 1, close |-> 3, volume |-> 1],
               [high |-> 4, low |-> 3, close |-> 3, volume |-> 4],
               [high |-> 2, low |-> 2, close |-> 2, volume |-> 1]}
MCTestBars == {[high |-> 2, low |-> 2, close |-> 2], [high |-> 1, low |-> 1, close |-> 1],
               [high |-> 4, low |-> 1, close |-> 4]}

\* Of the second name CoinMarketCap's client strips the exchange, MongoDB's name does not.
MCDbName == [n \in Names |-> IF n = "BINANCE:BTCUSDT" THEN "BINANCE:BTC" ELSE n]
MCCmcName == [n \in Names |-> IF n = "BINANCE:BTCUSDT" THEN "BTC" ELSE n]

VARIABLE part  \* the part this behaviour is of

Init ==
  /\ part \in {"decision log", "signer", "indexer", "log lines", "model proxy",
              "analysis", "signals", "session", "backtest", "documents"}
  /\ DecisionInit /\ SignerInit /\ IndexerInit /\ LogInit /\ ProxyInit
  /\ AnalysisInit /\ SignalInit /\ SessionInit /\ BacktestInit /\ TokenInit
  /\ part # "signals" => /\ plan = CHOOSE q \in [strategy : Strategies, lookback : Lookbacks] : TRUE
                        /\ prices = <<CHOOSE q \in TickPrices : TRUE>>

Next ==
  \/ /\ part = "decision log" /\ DecisionNext
     /\ UNCHANGED <<part, signerVars, indexerVars, logVars, proxyVars, analysisVars,
                   signalVars, sessionVars, backtestVars, cacheVars>>
  \/ /\ part = "signer" /\ SignerNext
     /\ UNCHANGED <<part, decisionVars, indexerVars, logVars, proxyVars,
                   analysisVars, signalVars, sessionVars, backtestVars, cacheVars>>
  \/ /\ part = "indexer" /\ IndexerNext
     /\ UNCHANGED <<part, decisionVars, signerVars, logVars, proxyVars, analysisVars,
                   signalVars, sessionVars, backtestVars, cacheVars>>
  \/ /\ part = "log lines" /\ LogNext
     /\ UNCHANGED <<part, decisionVars, signerVars, indexerVars, proxyVars,
                   analysisVars, signalVars, sessionVars, backtestVars, cacheVars>>
  \/ /\ part = "model proxy" /\ ProxyNext
     /\ UNCHANGED <<part, decisionVars, signerVars, indexerVars, logVars,
                   analysisVars, signalVars, sessionVars, backtestVars, cacheVars>>
  \/ /\ part = "analysis" /\ AnalysisNext
     /\ UNCHANGED <<part, decisionVars, signerVars, indexerVars, logVars, proxyVars,
                   signalVars, sessionVars, backtestVars, cacheVars>>
  \/ /\ part = "signals" /\ SignalNext
     /\ UNCHANGED <<part, decisionVars, signerVars, indexerVars, logVars, proxyVars,
                   analysisVars, sessionVars, backtestVars, cacheVars>>
  \/ /\ part = "session" /\ SessionNext
     /\ UNCHANGED <<part, decisionVars, signerVars, indexerVars, logVars, proxyVars,
                   analysisVars, signalVars, backtestVars, cacheVars>>
  \/ /\ part = "backtest" /\ BacktestNext
     /\ UNCHANGED <<part, decisionVars, signerVars, indexerVars, logVars, proxyVars,
                   analysisVars, signalVars, sessionVars, cacheVars>>
  \/ /\ part = "documents" /\ TokenNext
     /\ UNCHANGED <<part, decisionVars, signerVars, indexerVars, logVars, proxyVars,
                   analysisVars, signalVars, sessionVars, backtestVars>>

vars == <<part, decisionVars, signerVars, indexerVars, logVars, proxyVars,
         analysisVars, signalVars, sessionVars, backtestVars, cacheVars>>

Spec == Init /\ [][Next]_vars

\* Types of the parts but the documents, whose types TokenCacheSafe has.  A line is at one
\* place (app/hub_callback.py:109): what is being sent is not in the buffer as well.
ServicesTypesOK ==
  /\ DecisionTypeOK /\ SignerTypeOK /\ IndexerTypeOK /\ LogTypeOK /\ ProxyTypeOK
  /\ AnalysisTypeOK /\ SignalTypeOK /\ SessionTypeOK /\ BacktestTypeOK

\* The parts share the names of their calls, agents and symbols.
Interchangeable == Permutations(LogCalls)
=============================================================================
