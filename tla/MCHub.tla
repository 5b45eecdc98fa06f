------------------------------- MODULE MCHub -------------------------------
(***************************************************************************)
(* One instance of the hub's own services.  They share no state: a         *)
(* behaviour of the run is a behaviour of one of them, the others at rest. *)
(***************************************************************************)
EXTENDS Marketplace, SignIn, HubWallet, Secrets, CandleCache, TLC

VARIABLE part  \* the service this behaviour is of

vars == <<part, marketVars, signInVars, walletVars, secretsVars, candleVars>>

Init ==
  /\ part \in {"market", "sign-in", "wallet", "secrets", "candles"}
  /\ MarketInit /\ SignInInit /\ WalletInit /\ SecretsInit /\ CandleInit

Next ==
  \/ /\ part = "market" /\ MarketNext
     /\ UNCHANGED <<part, signInVars, walletVars, secretsVars, candleVars>>
  \/ /\ part = "sign-in" /\ SignInNext
     /\ UNCHANGED <<part, marketVars, walletVars, secretsVars, candleVars>>
  \/ /\ part = "wallet" /\ WalletNext
     /\ UNCHANGED <<part, marketVars, signInVars, secretsVars, candleVars>>
  \/ /\ part = "secrets" /\ SecretsNext
     /\ UNCHANGED <<part, marketVars, signInVars, walletVars, candleVars>>
  \/ /\ part = "candles" /\ CandleNext
     /\ UNCHANGED <<part, marketVars, signInVars, walletVars, secretsVars>>

Spec == Init /\ [][Next]_vars

\* Types of the five services.  The counts of a listing are natural numbers: the
\* deletes that overlap (hub/strategies/router.py:225) take none below zero.
HubTypesOK == MarketTypeOK /\ SignInTypeOK /\ WalletTypeOK /\ SecretsTypeOK /\ CandleTypeOK

\* The services share the names of their calls and of their data.
Interchangeable == Permutations(Calls) \cup Permutations(Codes) \cup Permutations(Names)
=============================================================================
