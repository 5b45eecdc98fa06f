---------------------------- MODULE ChainSigner ----------------------------
(***************************************************************************)
(* Signing a decision on the user-server and getting it mined              *)
(* (user_server/chain/signer.py, retry.py): a nonce and a gas price are    *)
(* asked for once, then the transaction is sent up to three times, each    *)
(* time a fifth dearer, and its receipt asked for after each send.         *)
(*                                                                         *)
(* A transaction is told by its call, nonce and price: what it says is the *)
(* same in all attempts, and a hash of it is the transaction.              *)
(***************************************************************************)
EXTENDS Naturals, FiniteSets, Sequences

CONSTANTS
  LogCalls,    \* calls of log_decision
  NoLogCall,   \* a call that has not begun
  GasPrices,   \* answers of eth_gasPrice
  MaxAttempts  \* max_attempts of with_gas_bump

ASSUME SignerAssumption ==
  GasPrices \subseteq Nat /\ MaxAttempts \in Nat \ {0}

VARIABLES
  logCall,   \* the calls: how far they are, what they sent last, what they returned
  mempool,   \* transactions the node holds, of different nonces
  chain,     \* mined transactions, by nonce: the n-th has nonce n - 1
  accepted,  \* history: calls of which the node has taken a transaction
  contended  \* history: calls that took a nonce while another had one it was not done with

signerVars == <<logCall, mempool, chain, accepted, contended>>

\* int(gas * (1 + bump_pct))
Bump(gas) == gas + (gas * 20) \div 100
Tx == [call : LogCalls, nonce : Nat, gas : Nat]
NoTx == [call |-> NoLogCall]
LogCallState ==
  [at : {"gas", "send", "receipt", "logged", "gaveUp", "raised"}, nonce : Nat, gas : Nat,
   attempts : 0..MaxAttempts, tx : Tx \cup {NoTx}]

ASSUME NoCallAssumption == NoLogCall \notin LogCallState

SignerTypeOK ==
  /\ logCall \in [LogCalls -> LogCallState \cup {NoLogCall}]
  /\ mempool \subseteq Tx
  /\ \A t, u \in mempool : t.nonce = u.nonce => t = u
  /\ chain \in Seq([tx : Tx, ok : BOOLEAN])
  /\ accepted \subseteq LogCalls /\ contended \subseteq LogCalls

SignerInit ==
  /\ logCall = [c \in LogCalls |-> NoLogCall]
  /\ mempool = {} /\ chain = <<>>
  /\ accepted = {} /\ contended = {}

-----------------------------------------------------------------------------
InCall(c, at) == logCall[c] # NoLogCall /\ logCall[c].at = at
Ended(c) == logCall[c] # NoLogCall /\ logCall[c].at \in {"logged", "gaveUp", "raised"}
UnderWay == {c \in LogCalls : logCall[c] # NoLogCall /\ ~Ended(c)}

\* eth_getTransactionCount at "pending": mined ones and those the node holds in a row.
PendingCount ==
  CHOOSE n \in Len(chain)..(Len(chain) + Cardinality(mempool)) :
    /\ \A m \in Len(chain)..(n - 1) : \E t \in mempool : t.nonce = m
    /\ ~\E t \in mempool : t.nonce = n

NonceAsked(c, n) ==
  /\ logCall[c] = NoLogCall
  /\ logCall' = [logCall EXCEPT ![c] =
       [at |-> "gas", nonce |-> n, gas |-> 0, attempts |-> 0, tx |-> NoTx]]
  /\ contended' = IF UnderWay # {} THEN contended \cup UnderWay \cup {c} ELSE contended
  /\ UNCHANGED <<mempool, chain, accepted>>
\* The key is loaded, else the call raises; then the nonce is asked for.
GetNonce(c) == NonceAsked(c, PendingCount)

GetGasPrice(c, gas) ==
  /\ InCall(c, "gas")
  /\ logCall' = [logCall EXCEPT ![c].at = "send", ![c].gas = gas]
  /\ UNCHANGED <<mempool, chain, accepted, contended>>

MutNextNonce(c, n, over) ==
  logCall' = [logCall EXCEPT ![c].at = IF n = MaxAttempts \/ over THEN "gaveUp" ELSE "send",
                             ![c].gas = Bump(@), ![c].attempts = n, ![c].nonce = PendingCount]
\* An attempt that has failed: another one, dearer, unless they are used up or the
\* total budget of seconds is (over).
NextAttempt(c, n, over) ==
  logCall' = [logCall EXCEPT ![c].at = IF n = MaxAttempts \/ over THEN "gaveUp" ELSE "send",
                             ![c].gas = Bump(@), ![c].attempts = n]

\* The node takes a transaction of a nonce it has not mined, and in place of one it
\* holds if the price is a tenth higher.
Takes(t) ==
  /\ t.nonce >= Len(chain)
  /\ \A u \in mempool : u.nonce = t.nonce => t.gas * 10 >= u.gas * 11
Holds(t) ==
  /\ mempool' = {u \in mempool : u.nonce # t.nonce} \cup {t}
  /\ accepted' = accepted \cup {t.call}

\* _send_raw: the hash; or an error, of the node or on the way there or back.
Send(c, over) ==
  LET t == [call |-> c, nonce |-> logCall[c].nonce, gas |-> logCall[c].gas]
      n == logCall[c].attempts + 1 IN
  /\ InCall(c, "send")
  /\ \/ /\ Takes(t) /\ Holds(t)
        /\ \/ logCall' = [logCall EXCEPT ![c].at = "receipt", ![c].attempts = n, ![c].tx = t]
           \/ NextAttempt(c, n, over)
     \/ UNCHANGED <<mempool, accepted>> /\ NextAttempt(c, n, over)
  /\ UNCHANGED <<chain, contended>>

\* _get_receipt asks once.  It times out, or the transaction is not mined yet or was
\* reverted: the next attempt.  It succeeded: its hash is returned.
AskReceipt(c, over) ==
  LET t == logCall[c].tx
      mined == {i \in 1..Len(chain) : chain[i].tx = t /\ chain[i].ok} IN
  /\ InCall(c, "receipt")
  /\ \/ mined # {} /\ logCall' = [logCall EXCEPT ![c].at = "logged"]
     \/ NextAttempt(c, logCall[c].attempts, over)
  /\ UNCHANGED <<mempool, chain, accepted, contended>>

\* An error of the connection while nonce, price or receipt is asked for is not caught.
Raise(c) ==
  /\ InCall(c, "gas") \/ InCall(c, "receipt")
  /\ logCall' = [logCall EXCEPT ![c].at = "raised"]
  /\ UNCHANGED <<mempool, chain, accepted, contended>>

Mine(ok) ==
  \E t \in mempool :
    /\ t.nonce = Len(chain)
    /\ chain' = Append(chain, [tx |-> t, ok |-> ok])
    /\ mempool' = mempool \ {t}
    /\ UNCHANGED <<logCall, accepted, contended>>

SignerNext ==
  \/ \E c \in LogCalls :
       \/ GetNonce(c) \/ Raise(c)
       \/ \E gas \in GasPrices : GetGasPrice(c, gas)
       \/ \E over \in BOOLEAN : Send(c, over) \/ AskReceipt(c, over)
  \/ \E ok \in BOOLEAN : Mine(ok)

SignerSpec == SignerInit /\ [][SignerNext]_signerVars

-----------------------------------------------------------------------------
(* Properties                                                              *)

\* However often a decision is sent again, after an answer that was lost, a receipt
\* that was late or a revert, it is mined at most once: all attempts share a nonce.
MinedOncePerCall ==
  \A i, j \in 1..Len(chain) : chain[i].tx.call = chain[j].tx.call => i = j

\* A hash that log_decision returns is of a transaction that is mined and succeeded.
LoggedIsMined ==
  \A c \in LogCalls : InCall(c, "logged") =>
    \E i \in 1..Len(chain) : chain[i].tx = logCall[c].tx /\ chain[i].ok

\* A decision the node has taken is in the chain or on its way there, even when its
\* call gave up on it or raised and others have been logged since, unless two calls
\* were under way at a time.
TakenIsKept ==
  \A c \in accepted \ contended :
    \/ \E t \in mempool : t.call = c
    \/ \E i \in 1..Len(chain) : chain[i].tx.call = c

\* log_decision with its retries (chain/signer.py:137, chain/retry.py:19): at most once
\* on the chain, there when it says so, and never lost once the node has taken it.
SignerSafe == MinedOncePerCall /\ LoggedIsMined /\ TakenIsKept
=============================================================================
