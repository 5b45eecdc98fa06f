-------------------------- MODULE MCTradingEngine --------------------------
(***************************************************************************)
(* TradingEngine with its calls observed: "overlapped" remembers whether a *)
(* /start or /stop ever came before the one before it had taken effect.    *)
(***************************************************************************)
EXTENDS TradingEngine

VARIABLE overlapped

Calls == {<<"start", s>> : s \in {t \in Starts : spc[t] = "planning"}}
           \cup {<<"stop", x>> : x \in {y \in Stops : xpc[y] = "waiting"}}
Overlap ==
  \/ \E c, d \in Calls : c # d
  \/ stopped /\ Calls # {}   \* a second /stop, or one that found nothing to stop

InitMC == Init /\ overlapped = FALSE
NextMC == Next /\ overlapped' = (overlapped \/ Overlap')
SpecMC == InitMC /\ [][NextMC]_<<vars, overlapped>> /\ Fairness

\* A client that lets each call take effect before the next gets what the API
\* promises: one loop trades at a time, and none once a /stop has returned.
OneSession == ~overlapped => OneTradingLoop /\ StoppedStaysStopped

\* Every /stop returns, however long the tick it waits for is held up by the
\* supervisor, unless a /start has set the running flag again under it.
StopReturns == \A x \in Stops : xpc[x] = "waiting" ~> (xpc[x] = "idle" \/ overlapped)
=============================================================================
