-------------------------- MODULE UserServerProofs --------------------------
(***************************************************************************)
(* Proofs about a user-server's services: ChainSigner for any number of    *)
(* calls and attempts and every gas price, LlmProxy for every capacity and *)
(* refill, Indexer for every window and size of a batch.                   *)
(***************************************************************************)
EXTENDS ChainSigner, LlmProxy, Indexer, LogChannel, Integers, FiniteSetTheorems, SequenceTheorems,
        TLAPS

-----------------------------------------------------------------------------
(* The chain signer (ChainSigner)                                          *)

Begun(c) == logCall[c] # NoLogCall

\* There is an attempt left wherever a transaction is about to be sent, and one was made
\* where a receipt is asked for.
AttemptsLeft ==
  \A c \in LogCalls :
    /\ InCall(c, "gas") \/ InCall(c, "send") => logCall[c].attempts < MaxAttempts
    /\ InCall(c, "receipt") => logCall[c].attempts > 0

\* A nonce is the place of its transaction in the chain, and a call has one nonce.
ChainInOrder == \A i \in 1..Len(chain) : chain[i].tx.nonce = i - 1
OwnNonce ==
  /\ \A t \in mempool : Begun(t.call) /\ t.nonce = logCall[t.call].nonce
  /\ \A i \in 1..Len(chain) :
       Begun(chain[i].tx.call) /\ chain[i].tx.nonce = logCall[chain[i].tx.call].nonce

\* The node holds the nonces up to k in a row, and nobody has been given one above.
NoGapTo(k) ==
  /\ k >= Len(chain)
  /\ \A t \in mempool : t.nonce \in Len(chain)..(k - 1)
  /\ \A m \in Len(chain)..(k - 1) : \E t \in mempool : t.nonce = m
  /\ \A c \in LogCalls : Begun(c) => logCall[c].nonce <= k
NoGap == \E k \in Nat : NoGapTo(k)

\* A call that is under way beside nobody's, and what it means for the others once
\* the node has taken its transaction.
Alone == \A c, d \in UnderWay : c # d => c \in contended
TakenSlot ==
  \A c \in accepted \ contended :
    /\ Begun(c)
    /\ \A d \in LogCalls : d # c /\ Begun(d) /\ logCall[d].nonce = logCall[c].nonce => Ended(d)

SignerInv ==
  /\ SignerTypeOK /\ IsFiniteSet(mempool) /\ AttemptsLeft
  /\ ChainInOrder /\ OwnNonce /\ NoGap
  /\ LoggedIsMined
  /\ Alone /\ TakenSlot /\ TakenIsKept

-----------------------------------------------------------------------------
(* Lemmas.                                                                 *)

\* A fifth more is a price.
LEMMA BumpType == ASSUME NEW g \in Nat PROVE Bump(g) \in Nat
  BY DEF Bump

\* A call's state after an attempt that failed, and after one that was answered.
Failed(r, at, g, n) == [r EXCEPT !.at = at, !.gas = g, !.attempts = n]
Sent(r, n, t) == [r EXCEPT !.at = "receipt", !.attempts = n, !.tx = t]

LEMMA AttemptState ==
  ASSUME NEW r \in LogCallState, NEW at, at = "send" \/ at = "gaveUp", NEW g \in Nat,
         NEW n \in 0..MaxAttempts
  PROVE  /\ Failed(r, at, g, n) \in LogCallState
         /\ Failed(r, at, g, n).at = at
         /\ Failed(r, at, g, n).nonce = r.nonce
         /\ Failed(r, at, g, n).attempts = n
<1> DEFINE range == 0..MaxAttempts
           s == Failed(r, at, g, n)
<1>1. n \in range
  OBVIOUS
<1>2. LogCallState = [at : {"gas", "send", "receipt", "logged", "gaveUp", "raised"}, nonce : Nat,
                      gas : Nat, attempts : range, tx : Tx \cup {NoTx}]
  BY DEF LogCallState
<1> HIDE DEF range
<1>3. s \in LogCallState
  BY <1>1, <1>2 DEF Failed
<1>4. s.at = at /\ s.nonce = r.nonce /\ s.attempts = n
  BY <1>2 DEF Failed
<1> QED BY <1>3, <1>4

LEMMA AttemptSent ==
  ASSUME NEW r \in LogCallState, NEW t \in Tx, NEW n \in 0..MaxAttempts
  PROVE  /\ Sent(r, n, t) \in LogCallState
         /\ Sent(r, n, t).at = "receipt"
         /\ Sent(r, n, t).nonce = r.nonce
         /\ Sent(r, n, t).attempts = n
<1> DEFINE range == 0..MaxAttempts
           txs == Tx \cup {NoTx}
           s == Sent(r, n, t)
<1>1. n \in range /\ t \in txs
  OBVIOUS
<1>2. LogCallState = [at : {"gas", "send", "receipt", "logged", "gaveUp", "raised"}, nonce : Nat,
                      gas : Nat, attempts : range, tx : txs]
  BY DEF LogCallState
<1> HIDE DEF range, txs
<1>3. s \in LogCallState
  BY <1>1, <1>2 DEF Sent
<1>4. s.at = "receipt" /\ s.nonce = r.nonce /\ s.attempts = n
  BY <1>2 DEF Sent
<1> QED BY <1>3, <1>4

\* The pending count is the first nonce the node does not hold.
LEMMA PendingIsNext ==
  ASSUME SignerTypeOK, IsFiniteSet(mempool), NEW k \in Nat, NoGapTo(k)
  PROVE  PendingCount = k
<1> DEFINE Free(n) == /\ \A m \in Len(chain)..(n - 1) : \E t \in mempool : t.nonce = m
                      /\ ~\E t \in mempool : t.nonce = n
           range == Len(chain)..(Len(chain) + Cardinality(mempool))
           nonceOf == [t \in mempool |-> t.nonce]
<1>1. Len(chain) \in Nat /\ Cardinality(mempool) \in Nat
  BY FS_CardinalityType DEF SignerTypeOK
<1>2. nonceOf \in Surjection(mempool, Len(chain)..(k - 1))
  BY <1>1 DEF NoGapTo, Surjection
<1>3. Cardinality(Len(chain)..(k - 1)) <= Cardinality(mempool)
  BY <1>2, FS_Surjection
<1>4. k - Len(chain) <= Cardinality(mempool)
  BY <1>1, <1>3, FS_Interval DEF NoGapTo
<1>5. k \in range /\ Free(k)
  BY <1>1, <1>4 DEF NoGapTo
<1>6. ASSUME NEW n \in range, Free(n) PROVE n = k
  <2>1. n \in Nat /\ n >= Len(chain)
    BY <1>1
  <2>2. ~(n < k)
    BY <1>1, <1>6, <2>1 DEF NoGapTo
  <2>3. ~(n > k)
    BY <1>1, <1>6, <2>1 DEF NoGapTo
  <2> QED BY <2>1, <2>2, <2>3
<1>7. PendingCount = CHOOSE n \in range : Free(n)
  BY DEF PendingCount
<1> HIDE DEF range, Free
<1> QED BY <1>5, <1>6, <1>7

-----------------------------------------------------------------------------
\* The invariant holds before the first call.
LEMMA SignerInitInv == SignerInit => SignerInv
<1> SUFFICES ASSUME SignerInit PROVE SignerInv
  OBVIOUS
<1> USE DEF SignerInit
<1>1. SignerTypeOK
  BY DEF SignerTypeOK
<1>2. IsFiniteSet(mempool)
  BY FS_EmptySet
<1>3. AttemptsLeft /\ LoggedIsMined /\ Alone
  BY DEF AttemptsLeft, LoggedIsMined, InCall, Alone, UnderWay
<1>4. ChainInOrder /\ OwnNonce
  BY DEF ChainInOrder, OwnNonce
<1>5. NoGapTo(0)
  BY DEF NoGapTo, Begun
<1>6. TakenSlot /\ TakenIsKept
  BY DEF TakenSlot, TakenIsKept
<1> QED BY <1>1, <1>2, <1>3, <1>4, <1>5, <1>6 DEF SignerInv, NoGap

\* A call that goes on with its nonce, while nothing is sent or mined, disturbs none of
\* the relations between calls, mempool and chain.
LEMMA GoesOnInv ==
  ASSUME SignerInv, NEW c \in LogCalls, Begun(c),
         NEW s \in LogCallState, s.nonce = logCall[c].nonce,
         ~Ended(c), logCall' = [logCall EXCEPT ![c] = s],
         UNCHANGED <<mempool, chain, accepted, contended>>
  PROVE  /\ SignerTypeOK' /\ IsFiniteSet(mempool)' /\ ChainInOrder' /\ OwnNonce' /\ NoGap'
         /\ Alone' /\ TakenSlot' /\ TakenIsKept'
<1> USE DEF SignerInv, Begun
<1>1. SignerTypeOK'
  BY DEF SignerTypeOK
<1>2. \A d \in LogCalls : /\ Begun(d)' <=> Begun(d)
                          /\ Begun(d) => logCall'[d].nonce = logCall[d].nonce
                          /\ Ended(d) => Ended(d)'
  BY NoCallAssumption DEF SignerTypeOK, Ended
<1>3. UnderWay' \subseteq UnderWay
  BY <1>2 DEF UnderWay
<1>4. OwnNonce'
  BY <1>2 DEF OwnNonce, SignerTypeOK, Tx
<1>5. NoGap'
  <2> PICK k \in Nat : NoGapTo(k)
    BY DEF NoGap
  <2>1. NoGapTo(k)'
    BY <1>2 DEF NoGapTo
  <2> QED BY <2>1 DEF NoGap
<1>6. TakenSlot'
  BY <1>2 DEF TakenSlot, SignerTypeOK
<1> QED BY <1>1, <1>3, <1>4, <1>5, <1>6 DEF ChainInOrder, Alone, TakenIsKept

\* GetNonce: the nonce is nobody's whose transaction is taken and alone.
LEMMA GetNonceInv ==
  ASSUME SignerInv, NEW c \in LogCalls, GetNonce(c)
  PROVE  SignerInv'
<1> USE DEF SignerInv, Begun
<1> PICK k \in Nat : NoGapTo(k)
  BY DEF NoGap
<1>1. PendingCount = k
  BY PendingIsNext
<1> DEFINE s == [at |-> "gas", nonce |-> k, gas |-> 0, attempts |-> 0, tx |-> NoTx]
<1>2. /\ ~Begun(c) /\ logCall' = [logCall EXCEPT ![c] = s]
      /\ contended' = IF UnderWay # {} THEN contended \cup UnderWay \cup {c} ELSE contended
      /\ UNCHANGED <<mempool, chain, accepted>>
  BY <1>1 DEF GetNonce, NonceAsked
<1>3. s \in LogCallState /\ s # NoLogCall
  BY NoCallAssumption, SignerAssumption DEF LogCallState
<1>4. SignerTypeOK'
  BY <1>2, <1>3 DEF SignerTypeOK, UnderWay
<1>5. /\ Begun(c)' /\ logCall'[c] = s /\ ~Ended(c)'
      /\ \A d \in LogCalls \ {c} : logCall'[d] = logCall[d] /\ (Ended(d)' <=> Ended(d))
  BY <1>2, <1>3 DEF SignerTypeOK, Ended
<1>6. UnderWay' = UnderWay \cup {c}
  BY <1>5 DEF UnderWay
<1>7. AttemptsLeft'
  BY <1>5, SignerAssumption DEF AttemptsLeft, InCall
<1>8. LoggedIsMined'
  BY <1>2, <1>5 DEF LoggedIsMined, InCall
<1>9. ChainInOrder' /\ OwnNonce'
  BY <1>2, <1>5 DEF ChainInOrder, OwnNonce, SignerTypeOK, Tx
<1>10. NoGap'
  <2>1. NoGapTo(k)'
    BY <1>2, <1>5 DEF NoGapTo
  <2> QED BY <2>1 DEF NoGap
<1>11. Alone'
  BY <1>2, <1>6 DEF Alone
<1>12. TakenSlot'
  <2> SUFFICES ASSUME NEW d \in accepted, d \notin contended'
               PROVE  /\ Begun(d)'
                      /\ \A e \in LogCalls : e # d /\ Begun(e)' /\ logCall'[e].nonce = logCall'[d].nonce
                                            => Ended(e)'
    BY <1>2 DEF TakenSlot
  <2>1. d \in LogCalls /\ d \notin contended /\ d # c /\ Begun(d)
    BY <1>2 DEF TakenSlot, SignerTypeOK
  <2>2. d \in accepted \ contended
    BY <2>1
  <2>3. logCall[d].nonce # k
    <3>1. CASE \E t \in mempool : t.call = d
      BY <2>1, <3>1 DEF OwnNonce, NoGapTo
    <3>2. CASE \E i \in 1..Len(chain) : chain[i].tx.call = d
      BY <2>1, <3>2 DEF OwnNonce, ChainInOrder, NoGapTo, SignerTypeOK
    <3> QED BY <2>2, <3>1, <3>2 DEF TakenIsKept
  <2> QED BY <1>5, <2>1, <2>2, <2>3 DEF TakenSlot
<1>13. TakenIsKept'
  BY <1>2 DEF TakenIsKept
<1> QED BY <1>2, <1>4, <1>7, <1>8, <1>9, <1>10, <1>11, <1>12, <1>13

\* GetGasPrice.
LEMMA GetGasPriceInv ==
  ASSUME SignerInv, NEW c \in LogCalls, NEW gas \in GasPrices, GetGasPrice(c, gas)
  PROVE  SignerInv'
<1> DEFINE s == [logCall[c] EXCEPT !.at = "send", !.gas = gas]
<1>1. Begun(c) /\ logCall[c].at = "gas" /\ logCall[c] \in LogCallState /\ gas \in Nat
  BY SignerAssumption DEF GetGasPrice, InCall, SignerInv, SignerTypeOK, Begun
<1>2. s \in LogCallState /\ s.nonce = logCall[c].nonce /\ s.attempts = logCall[c].attempts /\ s.at = "send"
  BY <1>1 DEF LogCallState
<1>3. /\ logCall' = [logCall EXCEPT ![c] = s]
      /\ UNCHANGED <<mempool, chain, accepted, contended>>
  BY DEF GetGasPrice, SignerInv, SignerTypeOK
<1>4. ~Ended(c)
  BY <1>1 DEF Ended
<1> HIDE DEF s
<1>5. AttemptsLeft' /\ LoggedIsMined'
  BY <1>1, <1>2, <1>3 DEF SignerInv, SignerTypeOK, AttemptsLeft, LoggedIsMined, InCall, Begun
<1> QED BY <1>1, <1>2, <1>3, <1>4, <1>5, GoesOnInv DEF SignerInv

\* An attempt that has failed leaves one, or ends the call.
LEMMA NextAttemptInv ==
  ASSUME SignerInv, NEW c \in LogCalls, Begun(c), ~Ended(c), NEW n \in 1..MaxAttempts,
         NEW over \in BOOLEAN, NextAttempt(c, n, over),
         UNCHANGED <<mempool, chain, accepted, contended>>
  PROVE  SignerInv'
<1> DEFINE at == IF n = MaxAttempts \/ over THEN "gaveUp" ELSE "send"
           s == Failed(logCall[c], at, Bump(logCall[c].gas), n)
<1>1. logCall[c] \in LogCallState
  BY DEF SignerInv, SignerTypeOK, Begun
<1>2. Bump(logCall[c].gas) \in Nat
  BY <1>1, BumpType DEF LogCallState
<1>3. logCall' = [logCall EXCEPT ![c] = s]
  BY DEF NextAttempt, Failed, SignerInv, SignerTypeOK
<1>4. (at = "send" \/ at = "gaveUp") /\ (at = "send" => n < MaxAttempts) /\ n \in 0..MaxAttempts
  BY SignerAssumption
<1> HIDE DEF at
<1>5. s \in LogCallState /\ s.at = at /\ s.nonce = logCall[c].nonce /\ s.attempts = n
  BY <1>1, <1>2, <1>4, AttemptState
<1> HIDE DEF s
<1>6. AttemptsLeft' /\ LoggedIsMined'
  BY <1>3, <1>4, <1>5 DEF SignerInv, SignerTypeOK, AttemptsLeft, LoggedIsMined, InCall
<1> QED BY <1>3, <1>5, <1>6, GoesOnInv DEF SignerInv

\* A call that returns or raises.
LEMMA CallEndsInv ==
  ASSUME SignerInv, NEW c \in LogCalls, Begun(c), ~Ended(c), NEW at \in {"logged", "raised"},
         logCall' = [logCall EXCEPT ![c].at = at],
         at = "logged" => \E i \in 1..Len(chain) : chain[i].tx = logCall[c].tx /\ chain[i].ok,
         UNCHANGED <<mempool, chain, accepted, contended>>
  PROVE  SignerInv'
<1> DEFINE s == [logCall[c] EXCEPT !.at = at]
<1>1. logCall[c] \in LogCallState
  BY DEF SignerInv, SignerTypeOK, Begun
<1>2. s \in LogCallState /\ s.nonce = logCall[c].nonce /\ s.at = at /\ s.tx = logCall[c].tx
  BY <1>1 DEF LogCallState
<1>3. logCall' = [logCall EXCEPT ![c] = s]
  BY <1>1 DEF SignerInv, SignerTypeOK, LogCallState
<1> HIDE DEF s
<1>4. AttemptsLeft'
  BY <1>2, <1>3 DEF SignerInv, SignerTypeOK, AttemptsLeft, InCall
<1>5. LoggedIsMined'
  BY <1>2, <1>3 DEF SignerInv, SignerTypeOK, LoggedIsMined, InCall
<1> QED BY <1>2, <1>3, <1>4, <1>5, GoesOnInv DEF SignerInv

\* AskReceipt.
LEMMA AskReceiptInv ==
  ASSUME SignerInv, NEW c \in LogCalls, NEW over \in BOOLEAN, AskReceipt(c, over)
  PROVE  SignerInv'
<1>1. Begun(c) /\ ~Ended(c) /\ UNCHANGED <<mempool, chain, accepted, contended>>
  BY DEF AskReceipt, InCall, Begun, Ended
<1>2. CASE logCall' = [logCall EXCEPT ![c].at = "logged"]
           /\ {i \in 1..Len(chain) : chain[i].tx = logCall[c].tx /\ chain[i].ok} # {}
  BY <1>1, <1>2, CallEndsInv
<1>3. CASE NextAttempt(c, logCall[c].attempts, over)
  <2>1. CASE logCall[c].attempts \in 1..MaxAttempts
    BY <1>1, <1>3, <2>1, NextAttemptInv
  <2>2. CASE logCall[c].attempts \notin 1..MaxAttempts
    BY <1>1, <2>2 DEF AskReceipt, SignerInv, SignerTypeOK, LogCallState, AttemptsLeft, InCall, Begun
  <2> QED BY <2>1, <2>2
<1> QED BY <1>2, <1>3 DEF AskReceipt

\* Raise.
LEMMA RaiseInv ==
  ASSUME SignerInv, NEW c \in LogCalls, Raise(c)
  PROVE  SignerInv'
<1>1. Begun(c) /\ ~Ended(c)
  BY DEF Raise, InCall, Begun, Ended
<1> QED BY <1>1, CallEndsInv DEF Raise

\* What the node takes is in no gap, replaces nobody else's that is to be kept, and
\* nobody beside this call has its nonce unless it is contended.
LEMMA TakenInv ==
  ASSUME SignerInv, NEW c \in LogCalls, InCall(c, "send"),
         NEW t \in Tx, t.call = c, t.nonce = logCall[c].nonce, Takes(t), Holds(t),
         NEW s \in LogCallState, s.nonce = logCall[c].nonce,
         s.at \in {"receipt", "gaveUp", "send"}, s.attempts > 0,
         s.at = "send" => s.attempts < MaxAttempts,
         logCall' = [logCall EXCEPT ![c] = s],
         UNCHANGED <<chain, contended>>
  PROVE  SignerInv'
<1> USE DEF SignerInv, Begun
<1> PICK k \in Nat : NoGapTo(k)
  BY DEF NoGap
<1>1. mempool' = {u \in mempool : u.nonce # t.nonce} \cup {t} /\ accepted' = accepted \cup {c}
  BY DEF Holds
<1>2. Begun(c) /\ ~Ended(c) /\ c \in UnderWay
  BY DEF InCall, Ended, UnderWay
<1>3. /\ \A d \in LogCalls : /\ Begun(d)' <=> Begun(d)
                             /\ Begun(d) => logCall'[d].nonce = logCall[d].nonce
                             /\ Ended(d) => Ended(d)'
      /\ logCall'[c] = s
      /\ \A d \in LogCalls \ {c} : logCall'[d] = logCall[d]
  BY <1>2, NoCallAssumption DEF SignerTypeOK, Ended
<1>4. SignerTypeOK'
  BY <1>1 DEF SignerTypeOK
<1>5. IsFiniteSet(mempool)'
  <2>1. IsFiniteSet({u \in mempool : u.nonce # t.nonce})
    BY FS_Subset
  <2> QED BY <1>1, <2>1, FS_AddElement
<1>6. AttemptsLeft' /\ LoggedIsMined'
  BY <1>3, NoCallAssumption DEF AttemptsLeft, LoggedIsMined, InCall
<1>7. ChainInOrder'
  BY DEF ChainInOrder
<1>8. OwnNonce'
  <2>1. \A d \in LogCalls : Begun(d) => Begun(d)' /\ logCall'[d].nonce = logCall[d].nonce
    BY <1>3
  <2>2. ASSUME NEW u \in mempool' PROVE Begun(u.call)' /\ u.nonce = logCall'[u.call].nonce
    <3>1. CASE u = t
      BY <1>2, <2>1, <3>1
    <3>2. CASE u \in mempool
      <4>1. u.call \in LogCalls /\ Begun(u.call) /\ u.nonce = logCall[u.call].nonce
        BY <3>2 DEF OwnNonce, SignerTypeOK, Tx
      <4> QED BY <2>1, <4>1
    <3> QED BY <1>1, <3>1, <3>2
  <2>3. ASSUME NEW i \in 1..Len(chain)
        PROVE  Begun(chain[i].tx.call)' /\ chain[i].tx.nonce = logCall'[chain[i].tx.call].nonce
    <3>1. chain[i].tx \in Tx
      <4> DEFINE MinedTx == [tx : Tx, ok : BOOLEAN]
      <4>1. chain \in Seq(MinedTx)
        BY DEF SignerTypeOK
      <4> HIDE DEF MinedTx
      <4>2. chain[i] \in MinedTx
        BY <4>1
      <4> QED BY <4>2 DEF MinedTx
    <3>2. chain[i].tx.call \in LogCalls /\ Begun(chain[i].tx.call)
          /\ chain[i].tx.nonce = logCall[chain[i].tx.call].nonce
      BY <3>1 DEF OwnNonce, Tx
    <3> QED BY <2>1, <3>2
  <2> QED BY <2>2, <2>3 DEF OwnNonce
<1>9. NoGap'
  <2>1. t.nonce \in Nat /\ Len(chain) \in Nat /\ t.nonce \in Len(chain)..k
    BY <1>2 DEF Tx, Takes, NoGapTo, SignerTypeOK
  <2>2. CASE t.nonce = k
    <3>1. NoGapTo(k + 1)'
      <4>1. \A u \in mempool' : u.nonce \in Len(chain)..k
        BY <1>1, <2>1 DEF NoGapTo
      <4>2. \A m \in Len(chain)..k : \E u \in mempool' : u.nonce = m
        BY <1>1, <2>1, <2>2 DEF NoGapTo
      <4>3. \A d \in LogCalls : Begun(d)' => logCall'[d].nonce <= k + 1
        BY <1>3 DEF NoGapTo, SignerTypeOK, LogCallState
      <4> QED BY <2>1, <4>1, <4>2, <4>3 DEF NoGapTo
    <3> QED BY <3>1 DEF NoGap
  <2>3. CASE t.nonce # k
    <3>1. NoGapTo(k)'
      BY <1>1, <1>3, <2>1, <2>3 DEF NoGapTo
    <3> QED BY <3>1 DEF NoGap
  <2> QED BY <2>2, <2>3
<1>10. Alone'
  BY <1>2, <1>3 DEF Alone, UnderWay
<1>11. TakenSlot'
  <2> SUFFICES ASSUME NEW d \in accepted', d \notin contended
               PROVE  /\ Begun(d)'
                      /\ \A e \in LogCalls : e # d /\ Begun(e)' /\ logCall'[e].nonce = logCall'[d].nonce
                                            => Ended(e)'
    BY DEF TakenSlot
  <2>1. CASE d = c
    <3>1. \A e \in LogCalls : e # c /\ Begun(e) => Ended(e)
      BY <1>2, <2>1 DEF Alone, UnderWay
    <3> QED BY <1>2, <1>3, <2>1, <3>1
  <2>2. CASE d # c
    <3>1. d \in accepted \ contended /\ d \in LogCalls
      BY <1>1, <2>2 DEF SignerTypeOK
    <3> QED BY <1>3, <3>1 DEF TakenSlot
  <2> QED BY <2>1, <2>2
<1>12. TakenIsKept'
  <2> SUFFICES ASSUME NEW d \in accepted', d \notin contended
               PROVE  \/ \E u \in mempool' : u.call = d
                      \/ \E i \in 1..Len(chain) : chain[i].tx.call = d
    BY DEF TakenIsKept
  <2>1. CASE d = c
    BY <1>1, <2>1
  <2>2. CASE d # c
    <3>1. d \in accepted \ contended /\ d \in LogCalls
      BY <1>1, <2>2 DEF SignerTypeOK
    <3>2. logCall[d].nonce # t.nonce
      BY <1>2, <2>2, <3>1 DEF TakenSlot
    <3> QED BY <1>1, <3>1, <3>2 DEF TakenIsKept, OwnNonce
  <2> QED BY <2>1, <2>2
<1> QED BY <1>4, <1>5, <1>6, <1>7, <1>8, <1>9, <1>10, <1>11, <1>12

\* Send: taken and answered, taken and the answer lost, or not taken.
LEMMA SendInv ==
  ASSUME SignerInv, NEW c \in LogCalls, NEW over \in BOOLEAN, Send(c, over)
  PROVE  SignerInv'
<1> DEFINE t == [call |-> c, nonce |-> logCall[c].nonce, gas |-> logCall[c].gas]
           n == logCall[c].attempts + 1
<1>1. /\ InCall(c, "send") /\ Begun(c) /\ ~Ended(c) /\ logCall[c] \in LogCallState
      /\ UNCHANGED <<chain, contended>>
  BY DEF Send, InCall, Begun, Ended, SignerInv, SignerTypeOK
<1>2. n \in 1..MaxAttempts
  BY <1>1, SignerAssumption DEF SignerInv, AttemptsLeft, LogCallState
<1>3. t \in Tx /\ t.call = c /\ t.nonce = logCall[c].nonce
  BY <1>1 DEF Tx, LogCallState
<1>4. CASE Takes(t) /\ Holds(t)
           /\ logCall' = [logCall EXCEPT ![c].at = "receipt", ![c].attempts = n, ![c].tx = t]
  <2> DEFINE s == Sent(logCall[c], n, t)
  <2>1. logCall' = [logCall EXCEPT ![c] = s]
    BY <1>4 DEF Sent, SignerInv, SignerTypeOK
  <2>3. n > 0 /\ n \in 0..MaxAttempts
    BY <1>2, SignerAssumption
  <2> HIDE DEF n, t
  <2>2. s \in LogCallState /\ s.nonce = logCall[c].nonce /\ s.at = "receipt" /\ s.attempts = n
    BY <1>1, <1>3, <2>3, AttemptSent
  <2> HIDE DEF s
  <2> QED BY <1>1, <1>3, <1>4, <2>1, <2>2, <2>3, TakenInv
<1>5. CASE Takes(t) /\ Holds(t) /\ NextAttempt(c, n, over)
  <2> DEFINE at == IF n = MaxAttempts \/ over THEN "gaveUp" ELSE "send"
             s == Failed(logCall[c], at, Bump(logCall[c].gas), n)
  <2>1. Bump(logCall[c].gas) \in Nat
    BY <1>1, BumpType DEF LogCallState
  <2>2. logCall' = [logCall EXCEPT ![c] = s]
    BY <1>5 DEF NextAttempt, Failed, SignerInv, SignerTypeOK
  <2>3. (at = "send" \/ at = "gaveUp") /\ (at = "send" => n < MaxAttempts) /\ n \in 0..MaxAttempts
    BY <1>2, SignerAssumption
  <2> HIDE DEF at, n, t
  <2>4. s \in LogCallState /\ s.at = at /\ s.nonce = logCall[c].nonce /\ s.attempts = n
    BY <1>1, <1>2, <2>1, <2>3, AttemptState
  <2>5. n > 0
    BY <1>2
  <2> HIDE DEF s
  <2> QED BY <1>1, <1>3, <1>5, <2>2, <2>3, <2>4, <2>5, TakenInv
<1>6. CASE UNCHANGED <<mempool, accepted>> /\ NextAttempt(c, n, over)
  BY <1>1, <1>2, <1>6, NextAttemptInv
<1> QED BY <1>4, <1>5, <1>6 DEF Send

\* Mine.
LEMMA MineInv ==
  ASSUME SignerInv, NEW ok \in BOOLEAN, Mine(ok)
  PROVE  SignerInv'
<1> USE DEF SignerInv, Begun
<1> PICK k \in Nat : NoGapTo(k)
  BY DEF NoGap
<1> PICK t \in mempool :
      /\ t.nonce = Len(chain)
      /\ chain' = Append(chain, [tx |-> t, ok |-> ok])
      /\ mempool' = mempool \ {t}
      /\ UNCHANGED <<logCall, accepted, contended>>
  BY DEF Mine
<1>1. t \in Tx /\ Len(chain) \in Nat
  BY DEF SignerTypeOK
<1>2. /\ chain' \in Seq([tx : Tx, ok : BOOLEAN]) /\ Len(chain') = Len(chain) + 1
      /\ \A i \in 1..Len(chain) : chain'[i] = chain[i]
      /\ chain'[Len(chain) + 1].tx = t
  BY <1>1 DEF SignerTypeOK
<1>3. SignerTypeOK'
  BY <1>2 DEF SignerTypeOK
<1>4. IsFiniteSet(mempool)'
  BY FS_RemoveElement
<1>5. AttemptsLeft' /\ Alone' /\ TakenSlot'
  BY DEF AttemptsLeft, InCall, Alone, UnderWay, Ended, TakenSlot
<1>6. LoggedIsMined'
  BY <1>1, <1>2 DEF LoggedIsMined, InCall
<1>7. ChainInOrder' /\ OwnNonce'
  BY <1>1, <1>2 DEF ChainInOrder, OwnNonce
<1>8. NoGapTo(k)'
  <2>1. k >= Len(chain) + 1
    BY <1>1 DEF NoGapTo
  <2>2. \A u \in mempool' : u.nonce \in (Len(chain) + 1)..(k - 1)
    BY <1>1 DEF NoGapTo, SignerTypeOK
  <2>3. \A m \in (Len(chain) + 1)..(k - 1) : \E u \in mempool' : u.nonce = m
    BY <1>1 DEF NoGapTo
  <2>4. \A c \in LogCalls : Begun(c)' => logCall'[c].nonce <= k
    BY DEF NoGapTo
  <2> QED BY <1>2, <2>1, <2>2, <2>3, <2>4 DEF NoGapTo
<1>9. TakenIsKept'
  <2> SUFFICES ASSUME NEW d \in accepted \ contended
               PROVE  \/ \E u \in mempool' : u.call = d
                      \/ \E i \in 1..Len(chain') : chain'[i].tx.call = d
    BY DEF TakenIsKept
  <2>1. CASE t.call = d
    BY <1>1, <1>2, <2>1
  <2>2. CASE \E u \in mempool : u.call = d /\ u # t
    BY <2>2
  <2>3. CASE \E i \in 1..Len(chain) : chain[i].tx.call = d
    BY <1>1, <1>2, <2>3
  <2> QED BY <2>1, <2>2, <2>3 DEF TakenIsKept
<1> QED BY <1>3, <1>4, <1>5, <1>6, <1>7, <1>8, <1>9 DEF NoGap

-----------------------------------------------------------------------------
(* Theorems.                                                               *)

\* The inductive invariant: the mempool holds the nonces after the chain's without a
\* gap, so the pending count is a nonce no call still wants to have kept.
THEOREM SignerInvariant == SignerSpec => []SignerInv
<1>1. SignerInit => SignerInv
  BY SignerInitInv
<1>2. SignerInv /\ [SignerNext]_signerVars => SignerInv'
  <2> SUFFICES ASSUME SignerInv, [SignerNext]_signerVars PROVE SignerInv'
    OBVIOUS
  <2>1. CASE \E c \in LogCalls : GetNonce(c)
    BY <2>1, GetNonceInv
  <2>2. CASE \E c \in LogCalls : Raise(c)
    BY <2>2, RaiseInv
  <2>3. CASE \E c \in LogCalls, gas \in GasPrices : GetGasPrice(c, gas)
    BY <2>3, GetGasPriceInv
  <2>4. CASE \E c \in LogCalls, over \in BOOLEAN : Send(c, over)
    BY <2>4, SendInv
  <2>5. CASE \E c \in LogCalls, over \in BOOLEAN : AskReceipt(c, over)
    BY <2>5, AskReceiptInv
  <2>6. CASE \E ok \in BOOLEAN : Mine(ok)
    BY <2>6, MineInv
  <2>7. CASE UNCHANGED signerVars
    BY <2>7 DEF signerVars, SignerInv, SignerTypeOK, AttemptsLeft, ChainInOrder, OwnNonce,
                NoGap, NoGapTo, LoggedIsMined, Alone, TakenSlot, TakenIsKept, InCall, Ended,
                UnderWay, Begun
  <2> QED BY <2>1, <2>2, <2>3, <2>4, <2>5, <2>6, <2>7 DEF SignerNext
<1> QED BY <1>1, <1>2, PTL DEF SignerSpec

\* chain/signer.py: types, one transaction for a nonce in the node, attempts within
\* their number.
THEOREM SignerTypeCorrect == SignerSpec => []SignerTypeOK
<1>1. SignerInv => SignerTypeOK
  BY DEF SignerInv
<1> QED BY <1>1, SignerInvariant, PTL

\* log_decision: at most once on the chain, there when it says so, never lost.
THEOREM SignedOnceAndKept == SignerSpec => []SignerSafe
<1>1. SignerInv => SignerSafe
  <2> SUFFICES ASSUME SignerInv PROVE SignerSafe
    OBVIOUS
  <2>1. MinedOncePerCall
    <3> SUFFICES ASSUME NEW i \in 1..Len(chain), NEW j \in 1..Len(chain),
                        chain[i].tx.call = chain[j].tx.call
                 PROVE  i = j
      BY DEF MinedOncePerCall
    <3>1. chain[i].tx.nonce = chain[j].tx.nonce
      BY DEF SignerInv, OwnNonce
    <3>2. i - 1 = j - 1
      BY <3>1 DEF SignerInv, ChainInOrder
    <3> QED BY <3>2
  <2> QED BY <2>1 DEF SignerInv, SignerSafe
<1> QED BY <1>1, SignerInvariant, PTL

-----------------------------------------------------------------------------
(* The LLM proxy (LlmProxy)                                                *)

\* What flows in between two moments.
Flow(a, b) == (b - a) * Refill

\* What the bucket still holds is covered, too: with it the takes since any one of
\* them are at most a full bucket and the refills up to its last settlement.
BucketPays ==
  \A i \in 1..Len(taken) :
    /\ taken[i] <= bucket.last
    /\ Len(taken) - i + 1 + bucket.tokens <= Capacity + Flow(taken[i], bucket.last)

\* Every count is of takes, those of calls that name no agent left out.
CountsAreOfTakes ==
  /\ \A a \in ProxyAgents : counts[a] <= Len(taken)
  /\ \A a \in Callers : answered[a] <= Len(taken)

ProxyInv ==
  /\ ProxyTypeOK /\ bucket.last <= proxyClock
  /\ BucketPays /\ TakesArePaidFor
  /\ CountsAreOfTakes /\ AnswersAreCounted

-----------------------------------------------------------------------------
(* Lemmas.                                                                 *)

\* Refills of two stretches of time add up, and none is negative.
LEMMA RefillsAdd ==
  ASSUME NEW a \in Nat, NEW b \in Nat, NEW c \in Nat, a <= b, b <= c
  PROVE  /\ Flow(a, b) + Flow(b, c) = Flow(a, c)
         /\ Flow(a, b) \in Nat /\ Flow(b, c) \in Nat /\ Flow(a, c) \in Nat
<1>1. b - a \in Nat /\ c - b \in Nat /\ c - a \in Nat /\ Refill \in Nat
  BY ProxyAssumption
<1>2. \A x, y \in Nat : x * y \in Nat
  OBVIOUS
<1>3. \A x, y, r \in Nat : x * r + y * r = (x + y) * r
  BY Z3
<1>4. (b - a) + (c - b) = c - a
  OBVIOUS
<1> QED BY <1>1, <1>2, <1>3, <1>4 DEF Flow

LEMMA FlowType ==
  ASSUME NEW a \in Nat, NEW b \in Nat, a <= b
  PROVE  Flow(a, b) \in Nat
  BY RefillsAdd

\* The sum the next two lemmas come down to.
LEMMA BooksAdd ==
  ASSUME NEW n \in Int, NEW old \in Nat, NEW now \in Nat, NEW cap \in Nat,
         NEW x \in Nat, NEW y \in Nat, NEW z \in Nat,
         x + y = z, now <= old + y, n + old <= cap + x
  PROVE  n + now <= cap + z
  OBVIOUS

\* Settled now, the bucket has no more than before and what has flowed in since, and
\* no more than it can hold.
LEMMA RefilledBounds ==
  ASSUME ProxyTypeOK, bucket.last <= proxyClock
  PROVE  /\ Refilled \in 0..Capacity /\ proxyClock \in Nat
         /\ Refilled <= bucket.tokens + Flow(bucket.last, proxyClock)
<1>1. /\ bucket.tokens \in 0..Capacity /\ bucket.last \in Nat /\ proxyClock \in Nat
      /\ Capacity \in Nat /\ Refill \in Nat
  BY ProxyAssumption DEF ProxyTypeOK
<1>2. Flow(bucket.last, proxyClock) \in Nat
  BY <1>1, FlowType
<1> DEFINE n == bucket.tokens + Flow(bucket.last, proxyClock)
<1>3. Refilled = IF n < Capacity THEN n ELSE Capacity
  BY DEF Refilled, Flow
<1> QED BY <1>1, <1>2, <1>3

\* A settlement that takes n tokens, 0 or 1, keeps the books.
LEMMA Settles ==
  ASSUME ProxyInv, bucket' = [tokens |-> Refilled, last |-> proxyClock], taken' = taken
  PROVE  BucketPays' /\ bucket'.last = proxyClock /\ bucket'.tokens \in 0..Capacity
<1>1. bucket'.tokens = Refilled /\ bucket'.last = proxyClock
  OBVIOUS
<1>2. ASSUME NEW i \in 1..Len(taken)
      PROVE  /\ taken[i] <= proxyClock
             /\ Len(taken) - i + 1 + Refilled <= Capacity + Flow(taken[i], proxyClock)
  <2>1. /\ taken[i] \in Nat /\ bucket.last \in Nat /\ bucket.tokens \in Nat /\ Refill \in Nat
        /\ Len(taken) \in Nat /\ Capacity \in Nat /\ Refill \in Nat /\ proxyClock \in Nat
    BY ProxyAssumption DEF ProxyInv, ProxyTypeOK
  <2>2. /\ taken[i] <= bucket.last /\ bucket.last <= proxyClock
        /\ Len(taken) - i + 1 + bucket.tokens <= Capacity + Flow(taken[i], bucket.last)
    BY DEF ProxyInv, BucketPays
  <2>3. /\ Flow(taken[i], bucket.last) + Flow(bucket.last, proxyClock)
             = Flow(taken[i], proxyClock)
        /\ Flow(taken[i], bucket.last) \in Nat
        /\ Flow(bucket.last, proxyClock) \in Nat
        /\ Flow(taken[i], proxyClock) \in Nat
    BY <2>1, <2>2, RefillsAdd
  <2>4. Refilled \in Nat /\ Refilled <= bucket.tokens + Flow(bucket.last, proxyClock)
    BY <2>1, RefilledBounds DEF ProxyInv
  <2>5. Len(taken) - i + 1 \in Int
    BY <2>1
  <2>6. Len(taken) - i + 1 + Refilled <= Capacity + Flow(taken[i], proxyClock)
    BY <2>1, <2>2, <2>3, <2>4, <2>5, BooksAdd
  <2> QED BY <2>1, <2>2, <2>6
<1> QED BY <1>1, <1>2, RefilledBounds DEF BucketPays, ProxyInv

\* A take is paid for by what the settlement left.
LEMMA TakeInv ==
  ASSUME ProxyInv, Take, proxyClock' = proxyClock
  PROVE  /\ BucketPays' /\ TakesArePaidFor' /\ (bucket.last <= proxyClock)'
         /\ bucket' \in [tokens : 0..Capacity, last : 0..MaxProxyClock]
         /\ taken' \in Seq(0..MaxProxyClock) /\ Len(taken') = Len(taken) + 1
<1>1. /\ Len(taken) \in Nat /\ Capacity \in Nat /\ Refill \in Nat /\ proxyClock \in Nat
      /\ proxyClock \in 0..MaxProxyClock /\ taken \in Seq(0..MaxProxyClock)
      /\ Refilled \in 0..Capacity /\ Refilled >= 1
  BY ProxyAssumption, RefilledBounds DEF ProxyInv, ProxyTypeOK, Take
<1>2. /\ bucket' = [tokens |-> Refilled - 1, last |-> proxyClock]
      /\ taken' = Append(taken, proxyClock)
  BY DEF Take
<1>3. /\ taken' \in Seq(0..MaxProxyClock) /\ Len(taken') = Len(taken) + 1
      /\ \A i \in 1..Len(taken) : taken'[i] = taken[i]
      /\ taken'[Len(taken) + 1] = proxyClock
  BY <1>1, <1>2
<1>4. bucket'.tokens = Refilled - 1 /\ bucket'.last = proxyClock
  BY <1>2
<1>5. \A i \in 1..Len(taken) :
        /\ taken[i] \in Nat /\ taken[i] <= proxyClock
        /\ Flow(taken[i], proxyClock) \in Nat
        /\ Len(taken) - i + 1 + Refilled <= Capacity + Flow(taken[i], proxyClock)
  <2> SUFFICES ASSUME NEW i \in 1..Len(taken)
               PROVE  /\ taken[i] \in Nat /\ taken[i] <= proxyClock
                      /\ Flow(taken[i], proxyClock) \in Nat
                      /\ Len(taken) - i + 1 + Refilled <= Capacity + Flow(taken[i], proxyClock)
    OBVIOUS
  <2>1. /\ taken[i] \in Nat /\ bucket.last \in Nat /\ bucket.tokens \in Nat
    BY ProxyAssumption DEF ProxyInv, ProxyTypeOK
  <2>2. /\ taken[i] <= bucket.last /\ bucket.last <= proxyClock
        /\ Len(taken) - i + 1 + bucket.tokens <= Capacity + Flow(taken[i], bucket.last)
    BY DEF ProxyInv, BucketPays
  <2>3. /\ Flow(taken[i], bucket.last) + Flow(bucket.last, proxyClock)
             = Flow(taken[i], proxyClock)
        /\ Flow(taken[i], bucket.last) \in Nat
        /\ Flow(bucket.last, proxyClock) \in Nat
        /\ Flow(taken[i], proxyClock) \in Nat
    BY <1>1, <2>1, <2>2, RefillsAdd
  <2>4. Refilled <= bucket.tokens + Flow(bucket.last, proxyClock)
    BY RefilledBounds DEF ProxyInv
  <2>5. Len(taken) - i + 1 \in Int /\ Refilled \in Nat
    BY <1>1
  <2>6. Len(taken) - i + 1 + Refilled <= Capacity + Flow(taken[i], proxyClock)
    BY <1>1, <2>1, <2>2, <2>3, <2>4, <2>5, BooksAdd
  <2>7. taken[i] <= proxyClock
    BY <1>1, <2>1, <2>2
  <2> QED BY <2>1, <2>3, <2>6, <2>7
<1>6. Flow(proxyClock, proxyClock) = 0
  BY <1>1, ProxyAssumption DEF Flow
<1>7. BucketPays'
  <2> SUFFICES ASSUME NEW i \in 1..(Len(taken) + 1)
               PROVE  /\ taken'[i] <= proxyClock
                      /\ Len(taken) + 1 - i + 1 + (Refilled - 1)
                           <= Capacity + Flow(taken'[i], proxyClock)
    BY <1>3, <1>4 DEF BucketPays
  <2>1. CASE i \in 1..Len(taken)
    <3>1. taken'[i] = taken[i] /\ taken[i] <= proxyClock
      BY <1>3, <1>5, <2>1
    <3>2. /\ Flow(taken[i], proxyClock) \in Nat
          /\ Len(taken) - i + 1 + Refilled <= Capacity + Flow(taken[i], proxyClock)
      BY <1>5, <2>1
    <3>3. Len(taken) + 1 - i + 1 + (Refilled - 1) = Len(taken) - i + 1 + Refilled
      BY <1>1
    <3> QED BY <3>1, <3>2, <3>3
  <2>2. CASE i = Len(taken) + 1
    BY <1>1, <1>3, <1>6, <2>2
  <2> QED BY <1>1, <2>1, <2>2
<1>8. TakesArePaidFor'
  <2> SUFFICES ASSUME NEW i \in 1..(Len(taken) + 1), NEW j \in 1..(Len(taken) + 1), i <= j
               PROVE  j - i + 1 <= Capacity + Flow(taken'[i], taken'[j])
    BY <1>3 DEF TakesArePaidFor, Flow
  <2>1. CASE j \in 1..Len(taken)
    <3>1. i \in 1..Len(taken)
      BY <1>1, <2>1
    <3> QED BY <1>3, <2>1, <3>1 DEF ProxyInv, TakesArePaidFor, Flow
  <2>2. CASE j = Len(taken) + 1 /\ i \in 1..Len(taken)
    BY <1>1, <1>3, <1>5, <2>2
  <2>3. CASE j = Len(taken) + 1 /\ i = Len(taken) + 1
    BY <1>1, <1>3, <1>6, <2>3
  <2> QED BY <1>1, <2>1, <2>2, <2>3
<1>9. bucket' \in [tokens : 0..Capacity, last : 0..MaxProxyClock]
  BY <1>1, <1>2
<1> QED BY <1>1, <1>3, <1>4, <1>7, <1>8, <1>9

-----------------------------------------------------------------------------
(* Theorems.                                                               *)

\* llm/rate_limit.py:16: the bucket's books balance at every moment.
THEOREM ProxyInvariant == ProxySpec => []ProxyInv
<1>1. ProxyInit => ProxyInv
  BY ProxyAssumption DEF ProxyInit, ProxyInv, ProxyTypeOK, BucketPays, TakesArePaidFor,
     CountsAreOfTakes, AnswersAreCounted, Callers
<1>2. ProxyInv /\ [ProxyNext]_proxyVars => ProxyInv'
  <2> SUFFICES ASSUME ProxyInv, [ProxyNext]_proxyVars PROVE ProxyInv'
    OBVIOUS
  <2>1. CASE ProxyTick
    <3>1. ProxyTypeOK' /\ (bucket.last <= proxyClock)'
      BY <2>1, ProxyAssumption DEF ProxyTick, ProxyInv, ProxyTypeOK
    <3> QED BY <2>1, <3>1 DEF ProxyTick, ProxyInv, BucketPays, TakesArePaidFor,
                          CountsAreOfTakes, AnswersAreCounted
  <2>2. CASE \E ks \in SUBSET ProxyProviders : KeysPushed(ks)
    BY <2>2 DEF KeysPushed, ProxyInv, ProxyTypeOK, BucketPays, TakesArePaidFor,
                CountsAreOfTakes, AnswersAreCounted
  <2>3. CASE LlmCallLimited
    <3>1. BucketPays' /\ bucket'.last = proxyClock /\ bucket'.tokens \in 0..Capacity
      BY <2>3, Settles DEF LlmCallLimited
    <3>2. ProxyTypeOK' /\ (bucket.last <= proxyClock)'
      BY <2>3, <3>1, RefilledBounds DEF LlmCallLimited, ProxyInv, ProxyTypeOK
    <3> QED BY <2>3, <3>1, <3>2 DEF LlmCallLimited, ProxyInv, TakesArePaidFor,
                                CountsAreOfTakes, AnswersAreCounted
  <2>4. ASSUME NEW a \in Callers, NEW p \in ProxyProviders \cup {Unknown}, LlmCall(a, p)
        PROVE  ProxyInv'
    <3>1. /\ Take /\ UNCHANGED <<proxyClock, keyed>> /\ Len(taken) < MaxProxyCalls
          /\ counts' = Counted(a)
          /\ answered' = answered \/ answered' = [answered EXCEPT ![a] = @ + 1]
      BY <2>4 DEF LlmCall, Dispatch
    <3>2. /\ BucketPays' /\ TakesArePaidFor' /\ (bucket.last <= proxyClock)'
          /\ bucket' \in [tokens : 0..Capacity, last : 0..MaxProxyClock]
          /\ taken' \in Seq(0..MaxProxyClock) /\ Len(taken') = Len(taken) + 1
      BY <3>1, TakeInv
    <3>3. /\ Len(taken) \in Nat /\ MaxProxyCalls \in Nat
          /\ counts \in [ProxyAgents -> 0..MaxProxyCalls]
          /\ answered \in [Callers -> 0..MaxProxyCalls]
      BY ProxyAssumption DEF ProxyInv, ProxyTypeOK
    <3>4. /\ counts' \in [ProxyAgents -> Nat]
          /\ \A b \in ProxyAgents : counts'[b] = IF b = a THEN counts[b] + 1 ELSE counts[b]
      BY <3>1, <3>3, ProxyAssumption DEF Counted, Callers
    <3>5. /\ answered' \in [Callers -> Nat]
          /\ \A b \in Callers : answered'[b] \in {answered[b], IF b = a THEN answered[b] + 1 ELSE answered[b]}
      BY <3>1, <3>3
    <3>6. CountsAreOfTakes'
      <4>1. \A b \in ProxyAgents : counts'[b] <= Len(taken')
        <5> SUFFICES ASSUME NEW b \in ProxyAgents PROVE counts'[b] <= Len(taken')
          OBVIOUS
        <5>1. counts[b] \in Nat /\ counts[b] <= Len(taken)
          BY <3>3 DEF ProxyInv, CountsAreOfTakes
        <5>2. counts'[b] = counts[b] \/ counts'[b] = counts[b] + 1
          BY <3>4
        <5> QED BY <3>2, <3>3, <5>1, <5>2
      <4>2. \A b \in Callers : answered'[b] <= Len(taken')
        BY <3>2, <3>3, <3>5 DEF ProxyInv, CountsAreOfTakes
      <4> QED BY <4>1, <4>2 DEF CountsAreOfTakes
    <3>7. AnswersAreCounted'
      <4>1. \A b \in ProxyAgents : answered'[b] <= counts'[b]
        BY <3>3, <3>4, <3>5 DEF ProxyInv, AnswersAreCounted, Callers
      <4>2. \A b, d \in ProxyAgents : b # d => counts'[b] + counts'[d] <= Len(taken')
        <5> SUFFICES ASSUME NEW b \in ProxyAgents, NEW d \in ProxyAgents, b # d
                     PROVE  counts'[b] + counts'[d] <= Len(taken')
          OBVIOUS
        <5>1. counts[b] \in Nat /\ counts[d] \in Nat /\ counts[b] + counts[d] <= Len(taken)
          BY <3>3 DEF ProxyInv, AnswersAreCounted
        <5>2. /\ counts'[b] = IF b = a THEN counts[b] + 1 ELSE counts[b]
              /\ counts'[d] = IF d = a THEN counts[d] + 1 ELSE counts[d]
          BY <3>4
        <5> QED BY <3>2, <3>3, <5>1, <5>2
      <4> QED BY <4>1, <4>2 DEF AnswersAreCounted
    <3>8. ProxyTypeOK'
      <4>1. counts' \in [ProxyAgents -> 0..MaxProxyCalls]
        BY <3>1, <3>2, <3>3, <3>4, <3>6 DEF CountsAreOfTakes
      <4>2. answered' \in [Callers -> 0..MaxProxyCalls]
        BY <3>1, <3>2, <3>3, <3>5, <3>6 DEF CountsAreOfTakes
      <4> QED BY <3>1, <3>2, <3>3, <4>1, <4>2 DEF ProxyInv, ProxyTypeOK
    <3> QED BY <3>2, <3>6, <3>7, <3>8 DEF ProxyInv
  <2>5. CASE UNCHANGED proxyVars
    BY <2>5 DEF proxyVars, ProxyInv, ProxyTypeOK, BucketPays, TakesArePaidFor,
                CountsAreOfTakes, AnswersAreCounted
  <2> QED BY <2>1, <2>2, <2>3, <2>4, <2>5 DEF ProxyNext
<1> QED BY <1>1, <1>2, PTL DEF ProxySpec

\* llm/rate_limit.py:34: what gets through over any stretch of time is paid for, and
\* what is answered is counted.
THEOREM ProxyPaidAndCounted == ProxySpec => []CallsPaidAndCounted
<1>1. ProxyInv => CallsPaidAndCounted
  BY DEF ProxyInv, CallsPaidAndCounted
<1> QED BY <1>1, ProxyInvariant, PTL
-----------------------------------------------------------------------------
(* The indexer's flush (Indexer)                                           *)

\* A flush of period q has r in its batch.
Due(r, q) == r.seen < q /\ q <= r.at + Window /\ Cardinality(Before(r, q)) <= BatchSize

\* The flush under way has every row that is due in its period.
InFlight == sending # {} => \A r \in indexed : Due(r, began) => r \in sending

IndexerInv ==
  /\ IndexerTypeOK /\ IsFiniteSet(indexed)
  /\ \A r \in indexed : r.seen <= indexClock
  /\ began <= indexClock /\ \A q \in flushed : q <= indexClock
  /\ InFlight /\ PushedUnlessCrowded

LEMMA PushedIsDue ==
  PushedUnlessCrowded <=> \A r \in indexed, q \in flushed : Due(r, q) => r.hash \in atHub
BY DEF PushedUnlessCrowded, Due

\* More rows crowd more: what is due then was due before.
LEMMA DueStays ==
  ASSUME indexed \subseteq indexed', IsFiniteSet(indexed'),
         NEW r \in indexed, NEW q \in IndexTime,
         r.seen < q, q <= r.at + Window, Cardinality(Before(r, q)') <= BatchSize
  PROVE  Due(r, q)
<1>1. Before(r, q) \subseteq Before(r, q)' /\ Before(r, q)' \subseteq indexed'
  BY DEF Before
<1>2. Cardinality(Before(r, q)) <= Cardinality(Before(r, q)')
      /\ Cardinality(Before(r, q)) \in Nat /\ Cardinality(Before(r, q)') \in Nat
  BY <1>1, FS_Subset, FS_CardinalityType
<1> QED
  BY <1>2, IndexerAssumption DEF Due

\* A batch that leaves out a row is full of rows that are within reach and no younger.
LEMMA DueIsPicked ==
  ASSUME IndexerInv, NEW picked \in Oldest, NEW r \in indexed, Due(r, indexClock)
  PROVE  r \in picked
<1> SUFFICES ASSUME r \notin picked PROVE FALSE
  OBVIOUS
<1>1. /\ \A s \in indexed : s.at \in Nat /\ s.seen <= indexClock
      /\ Window \in Nat /\ BatchSize \in Nat /\ indexClock \in Nat
  BY IndexerAssumption DEF IndexerInv, IndexerTypeOK, IndexRow, IndexTime
<1>2. /\ r \in InReach /\ picked \subseteq InReach /\ InReach \subseteq indexed
      /\ r \in Before(r, indexClock)
  BY <1>1 DEF InReach, Oldest, Due, Before
<1>3. /\ IsFiniteSet(InReach) /\ IsFiniteSet(picked) /\ IsFiniteSet(Before(r, indexClock))
      /\ Before(r, indexClock) \subseteq indexed
  BY <1>2, FS_Subset DEF IndexerInv, Before
<1>4. picked \cup {r} \subseteq Before(r, indexClock)
  <2> SUFFICES ASSUME NEW s \in picked PROVE s \in Before(r, indexClock)
    BY <1>2
  <2>1. s.at <= r.at
    BY <1>2 DEF Oldest
  <2>2. s \in indexed /\ s.at + Window >= indexClock
    BY <1>2 DEF InReach
  <2> QED
    BY <1>1, <2>1, <2>2 DEF Before
<1>5. Cardinality(picked \cup {r}) = Cardinality(picked) + 1 /\ Cardinality(picked) \in Nat
  BY <1>3, FS_AddElement, FS_CardinalityType
<1>6. Cardinality(picked) = BatchSize
  <2>1. Cardinality(picked) \in {Cardinality(InReach), BatchSize}
    BY DEF Oldest
  <2>2. picked \cup {r} \subseteq InReach
    BY <1>2
  <2>3. Cardinality(picked \cup {r}) <= Cardinality(InReach) /\ Cardinality(InReach) \in Nat
    BY <1>3, <2>2, FS_Subset, FS_CardinalityType
  <2> QED
    BY <1>5, <2>1, <2>3
<1>7. /\ Cardinality(picked \cup {r}) <= Cardinality(Before(r, indexClock))
      /\ Cardinality(Before(r, indexClock)) \in Nat
  BY <1>3, <1>4, FS_Subset, FS_CardinalityType
<1>8. Cardinality(Before(r, indexClock)) <= BatchSize
  BY DEF Due
<1> QED
  BY <1>1, <1>5, <1>6, <1>7, <1>8

LEMMA IndexerStarts == IndexerInit => IndexerInv
<1> SUFFICES ASSUME IndexerInit PROVE IndexerInv
  OBVIOUS
<1>1. IsFiniteSet(indexed)
  BY FS_EmptySet DEF IndexerInit
<1>2. IndexerTypeOK
  BY IndexerAssumption DEF IndexerInit, IndexerTypeOK, IndexTime
<1> QED
  BY <1>1, <1>2 DEF IndexerInit, IndexerInv, InFlight, PushedUnlessCrowded

LEMMA IndexerStep == IndexerInv /\ [IndexerNext]_indexerVars => IndexerInv'
<1> SUFFICES ASSUME IndexerInv, [IndexerNext]_indexerVars PROVE IndexerInv'
  OBVIOUS
<1>1. /\ indexClock \in Nat /\ began \in Nat /\ indexClock \in IndexTime
      /\ \A q \in flushed : q \in Nat /\ q \in IndexTime
      /\ \A r \in indexed : r.seen \in Nat
      /\ \A r \in indexed, q \in flushed : Due(r, q) => r.hash \in atHub
  BY PushedIsDue DEF IndexerInv, IndexerTypeOK, IndexRow, IndexTime
<1>2. ASSUME indexed' = indexed
      PROVE  /\ \A r \in indexed', q \in IndexTime : Due(r, q)' <=> Due(r, q)
             /\ PushedUnlessCrowded' <=>
                  \A r \in indexed, q \in flushed' : Due(r, q) => r.hash \in atHub'
  BY <1>2 DEF Due, Before, PushedUnlessCrowded
<1>3. CASE PeriodEnds
  <2>1. /\ indexClock' = indexClock + 1 /\ indexClock' \in IndexTime
        /\ UNCHANGED <<indexed, sending, began, atHub, flushed>>
    BY <1>3, IndexerAssumption DEF PeriodEnds, IndexerInv, IndexerTypeOK, IndexTime
  <2>2. InFlight' /\ PushedUnlessCrowded'
    BY <2>1 DEF IndexerInv, InFlight, Due, Before, PushedUnlessCrowded
  <2> QED
    BY <1>1, <2>1, <2>2 DEF IndexerInv, IndexerTypeOK
<1>4. CASE FlushStarts
  <2>1. /\ sending' \in Oldest /\ began' = indexClock
        /\ flushed' = (IF sending' = {} THEN flushed \cup {indexClock} ELSE flushed)
        /\ UNCHANGED <<indexClock, indexed, atHub>>
    BY <1>4 DEF FlushStarts
  <2>2. sending' \subseteq indexed
    BY <2>1 DEF Oldest, InReach
  <2>3. \A r \in indexed : Due(r, indexClock) => r \in sending'
    BY <2>1, DueIsPicked
  <2>4. InFlight'
    BY <2>1, <2>3 DEF InFlight, Due, Before
  <2>5. PushedUnlessCrowded'
    BY <1>1, <1>2, <2>1, <2>3
  <2> QED
    BY <1>1, <2>1, <2>2, <2>4, <2>5 DEF IndexerInv, IndexerTypeOK
<1>5. CASE FlushDone
  <2>1. /\ sending # {} /\ sending' = {} /\ flushed' = flushed \cup {began}
        /\ atHub' = atHub \cup {r.hash : r \in sending}
        /\ UNCHANGED <<indexClock, indexed, began>>
    BY <1>5 DEF FlushDone, HubAccepts
  <2>2. \A r \in indexed : Due(r, began) => r \in sending
    BY <2>1 DEF IndexerInv, InFlight
  <2>3. PushedUnlessCrowded'
    BY <1>1, <1>2, <2>1, <2>2
  <2>4. atHub' \subseteq TxHashes /\ flushed' \subseteq IndexTime
    BY <2>1 DEF IndexerInv, IndexerTypeOK, IndexRow
  <2> QED
    BY <1>1, <2>1, <2>3, <2>4 DEF IndexerInv, IndexerTypeOK, InFlight
<1>6. CASE FlushFails \/ UNCHANGED indexerVars
  <2>1. /\ sending' \in {{}, sending} /\ UNCHANGED <<indexClock, indexed, began, atHub, flushed>>
    BY <1>6 DEF FlushFails, indexerVars
  <2>2. InFlight' /\ PushedUnlessCrowded'
    BY <2>1 DEF IndexerInv, InFlight, Due, Before, PushedUnlessCrowded
  <2> QED
    BY <2>1, <2>2 DEF IndexerInv, IndexerTypeOK
<1>7. ASSUME NEW h \in TxHashes, NEW at \in IndexTime, Write(h, at)
      PROVE  IndexerInv'
  <2>1. PICK new \in IndexRow : new = [hash |-> h, at |-> at, seen |-> indexClock]
    BY <1>1 DEF IndexRow
  <2>2. /\ indexed' \in {indexed, indexed \cup {new}} /\ new.hash = h /\ new.seen = indexClock
        /\ (indexed' # indexed => \A r \in indexed : r.hash # h)
        /\ UNCHANGED <<indexClock, sending, began, atHub, flushed>>
    BY <1>7, <2>1 DEF Write
  <2>3. IsFiniteSet(indexed') /\ indexed \subseteq indexed'
    BY <2>2, FS_AddElement DEF IndexerInv
  <2>4. IndexerTypeOK'
    BY <2>2 DEF IndexerInv, IndexerTypeOK
  <2>5. \A r \in indexed' : r \in indexed \/ r.seen = indexClock
    BY <2>2
  <2>6. ASSUME NEW r \in indexed', NEW q \in IndexTime, q <= indexClock, Due(r, q)'
        PROVE  r \in indexed /\ Due(r, q)
    <3>1. /\ r.seen < q /\ q <= r.at + Window /\ Cardinality(Before(r, q)') <= BatchSize
      BY <2>6 DEF Due
    <3>2. r \in indexed
      BY <1>1, <2>5, <2>6, <3>1 DEF IndexTime
    <3> QED
      BY <2>3, <3>1, <3>2, DueStays
  <2>7. InFlight'
    <3>1. PICK q \in IndexTime : q = began
      BY DEF IndexerInv, IndexerTypeOK
    <3>2. q <= indexClock /\ (sending # {} => \A r \in indexed : Due(r, q) => r \in sending)
      BY <3>1 DEF IndexerInv, InFlight
    <3>3. SUFFICES ASSUME sending # {}, NEW r \in indexed', Due(r, q)' PROVE r \in sending
      BY <2>2, <3>1 DEF InFlight, Due, Before
    <3> QED
      BY <2>6, <3>2, <3>3
  <2>8. PushedUnlessCrowded'
    <3> SUFFICES ASSUME NEW r \in indexed', NEW q \in flushed, Due(r, q)' PROVE r.hash \in atHub
      BY <2>2 DEF PushedUnlessCrowded, Due, Before
    <3>1. q \in IndexTime /\ q <= indexClock
      BY <1>1 DEF IndexerInv
    <3> QED
      BY <1>1, <2>6, <3>1
  <2>9. \A r \in indexed' : r.seen <= indexClock'
    BY <1>1, <2>2, <2>5 DEF IndexerInv
  <2> QED
    BY <2>2, <2>3, <2>4, <2>7, <2>8, <2>9 DEF IndexerInv
<1> QED
  BY <1>3, <1>4, <1>5, <1>6, <1>7 DEF IndexerNext

\* What a flush (indexer/flusher.py:49) takes: every row that was there when its period began
\* and is not crowded out is in its batch, and at the hub once the batch is acknowledged.
THEOREM IndexerInvariant == IndexerSpec => []IndexerInv
BY IndexerStarts, IndexerStep, PTL DEF IndexerSpec

\* PushedUnlessCrowded: without a cursor the flush still skips no row for good, unless in every
\* period of its window no flush went through, or more rows than a batch came before it.
THEOREM NothingSkipped == IndexerSpec => []PushedUnlessCrowded
<1>1. IndexerInv => PushedUnlessCrowded
  BY DEF IndexerInv
<1> QED
  BY <1>1, IndexerInvariant, PTL
-----------------------------------------------------------------------------
(* The log lines of an agent (LogChannel)                                  *)

\* What is under way has been emitted.
LinesEmitted ==
  /\ InSeq(buffer) \cup InSeq(batch) \subseteq 1..emitted
  /\ \A sent \in atServer : sent \subseteq 1..emitted
  /\ \A n \in Lines : copies[n] > 0 => n <= emitted

\* While the loop waits for an answer the server has the batch, or has stored it.
BatchSent == InSeq(batch) \in atServer \/ \A n \in InSeq(batch) : copies[n] > 0

\* Until a flush of it is given up, a line is in the buffer or in one batch, and not stored.
FirstWay ==
  \A n \in Lines \ resent :
    /\ n \in InSeq(buffer) => copies[n] = 0 /\ \A sent \in atServer : n \notin sent
    /\ \A sent \in atServer :
         n \in sent => copies[n] = 0 /\ \A other \in atServer : n \in other => other = sent

\* last_ts is the time the stream opened or that of a stored line, and nothing shown is later.
StreamAt ==
  /\ socket.open => /\ socket.since <= socket.lastTs /\ socket.lastTs <= emitted
                    /\ \/ socket.lastTs = socket.since
                       \/ socket.lastTs \in Lines /\ copies[socket.lastTs] > 0
                    /\ \A i \in 1..Len(shown) : shown[i] <= socket.lastTs
  /\ ~socket.open => shown = <<>>

LogInv == LogTypeOK /\ LinesEmitted /\ BatchSent /\ FirstWay /\ StreamAt /\ LogSafe

LEMMA ConcatAt ==
  ASSUME NEW S, NEW s \in Seq(S), NEW t \in Seq(S)
  PROVE  /\ s \o t \in Seq(S) /\ Len(s \o t) = Len(s) + Len(t)
         /\ \A i \in 1..Len(s) : (s \o t)[i] = s[i]
         /\ \A i \in 1..Len(t) : (s \o t)[Len(s) + i] = t[i]
         /\ \A i \in 1..Len(s \o t) : i \in 1..Len(s) \/ \E j \in 1..Len(t) : i = Len(s) + j
<1> DEFINE u == s \o t
<1>1. /\ u \in Seq(S) /\ Len(u) = Len(s) + Len(t)
      /\ \A i \in 1..Len(s) : u[i] = s[i]
      /\ \A i \in 1..Len(t) : u[Len(s) + i] = t[i]
  OBVIOUS
<1>2. \A i \in 1..Len(u) : i \in 1..Len(s) \/ \E j \in 1..Len(t) : i = Len(s) + j
  <2> TAKE i \in 1..Len(u)
  <2>1. i \in 1..Len(s) \/ (i - Len(s) \in 1..Len(t) /\ i = Len(s) + (i - Len(s)))
    BY <1>1
  <2> QED
    BY <2>1
<1> QED
  BY <1>1, <1>2

LEMMA InSeqOf ==
  ASSUME NEW S, NEW s \in Seq(S), NEW t \in Seq(S)
  PROVE  /\ InSeq(s \o t) = InSeq(s) \cup InSeq(t) /\ InSeq(s) \subseteq S
         /\ \A x : InSeq(Append(s, x)) = InSeq(s) \cup {x}
<1>1. /\ Len(s) \in Nat /\ Len(t) \in Nat /\ Len(s \o t) = Len(s) + Len(t)
      /\ \A i \in 1..Len(s) : (s \o t)[i] = s[i]
      /\ \A i \in 1..Len(t) : (s \o t)[Len(s) + i] = t[i]
      /\ \A i \in 1..Len(s \o t) : i \in 1..Len(s) \/ \E j \in 1..Len(t) : i = Len(s) + j
  BY ConcatAt
<1>2. \A i \in 1..Len(s) : i \in 1..Len(s \o t)
  BY <1>1
<1>3. \A i \in 1..Len(t) : Len(s) + i \in 1..Len(s \o t)
  BY <1>1
<1>4. InSeq(s \o t) = InSeq(s) \cup InSeq(t)
  <2>1. InSeq(s \o t) \subseteq InSeq(s) \cup InSeq(t)
    BY <1>1 DEF InSeq
  <2>2. InSeq(s) \cup InSeq(t) \subseteq InSeq(s \o t)
    BY <1>1, <1>2, <1>3 DEF InSeq
  <2> QED
    BY <2>1, <2>2
<1>5. ASSUME NEW x PROVE InSeq(Append(s, x)) = InSeq(s) \cup {x}
  <2>1. /\ Len(Append(s, x)) = Len(s) + 1 /\ Append(s, x)[Len(s) + 1] = x
        /\ \A i \in 1..Len(s) : Append(s, x)[i] = s[i]
    OBVIOUS
  <2>2. Len(s) + 1 \in 1..(Len(s) + 1) /\ 1..(Len(s) + 1) = 1..Len(s) \cup {Len(s) + 1}
    OBVIOUS
  <2> QED
    BY <2>1, <2>2 DEF InSeq
<1>6. InSeq(s) \subseteq S
  BY DEF InSeq
<1> QED
  BY <1>4, <1>5, <1>6

LEMMA InSeqOfNone == InSeq(<<>>) = {}
BY DEF InSeq

LEMMA InjectiveConcat ==
  ASSUME NEW S, NEW s \in Seq(S), NEW t \in Seq(S)
  PROVE  IsInjective(s \o t) <=>
           IsInjective(s) /\ IsInjective(t) /\ InSeq(s) \cap InSeq(t) = {}
<1> DEFINE u == s \o t
<1>1. /\ u \in Seq(S) /\ Len(u) = Len(s) + Len(t)
      /\ \A i \in 1..Len(s) : u[i] = s[i]
      /\ \A i \in 1..Len(t) : u[Len(s) + i] = t[i]
      /\ DOMAIN u = 1..Len(u) /\ DOMAIN s = 1..Len(s) /\ DOMAIN t = 1..Len(t)
  BY ConcatAt
<1>2. \A i \in 1..Len(u) : i \in 1..Len(s) \/ \E k \in 1..Len(t) : i = Len(s) + k
  BY ConcatAt
<1> HIDE DEF u
<1>3. ASSUME IsInjective(u)
      PROVE  IsInjective(s) /\ IsInjective(t) /\ InSeq(s) \cap InSeq(t) = {}
  <2>1. \A i, j \in 1..Len(u) : u[i] = u[j] => i = j
    BY <1>1, <1>3 DEF IsInjective
  <2>2. \A i \in 1..Len(s) : i \in 1..Len(u)
    BY <1>1
  <2>3. \A k \in 1..Len(t) : Len(s) + k \in 1..Len(u)
    BY <1>1
  <2>4. IsInjective(s)
    BY <1>1, <2>1, <2>2 DEF IsInjective
  <2>5. IsInjective(t)
    <3> SUFFICES ASSUME NEW j \in 1..Len(t), NEW k \in 1..Len(t), t[j] = t[k] PROVE j = k
      BY <1>1 DEF IsInjective
    <3>1. Len(s) + j = Len(s) + k
      BY <1>1, <2>1, <2>3
    <3> QED
      BY <3>1
  <2>6. ASSUME NEW j \in 1..Len(s), NEW k \in 1..Len(t), s[j] = t[k] PROVE FALSE
    <3>1. j = Len(s) + k
      BY <1>1, <2>1, <2>2, <2>3, <2>6
    <3> QED
      BY <3>1
  <2> QED
    BY <2>4, <2>5, <2>6 DEF InSeq
<1>4. ASSUME IsInjective(s), IsInjective(t), InSeq(s) \cap InSeq(t) = {}
      PROVE  IsInjective(u)
  <2> SUFFICES ASSUME NEW i \in 1..Len(u), NEW j \in 1..Len(u), u[i] = u[j] PROVE i = j
    BY <1>1 DEF IsInjective
  <2>1. \A a \in 1..Len(s), b \in 1..Len(t) : s[a] # t[b]
    BY <1>4 DEF InSeq
  <2>2. \A a, b \in 1..Len(s) : s[a] = s[b] => a = b
    BY <1>1, <1>4 DEF IsInjective
  <2>3. \A a, b \in 1..Len(t) : t[a] = t[b] => a = b
    BY <1>1, <1>4 DEF IsInjective
  <2>4. CASE i \in 1..Len(s)
    BY <1>1, <1>2, <2>1, <2>2, <2>4
  <2>5. ASSUME j \in 1..Len(s), NEW a \in 1..Len(t), i = Len(s) + a PROVE FALSE
    <3>1. u[i] = t[a] /\ u[j] = s[j]
      BY <1>1, <2>5
    <3> QED
      BY <2>1, <2>5, <3>1
  <2>6. ASSUME NEW a \in 1..Len(t), NEW b \in 1..Len(t), i = Len(s) + a, j = Len(s) + b PROVE i = j
    BY <1>1, <2>3, <2>6
  <2> QED
    BY <1>2, <2>4, <2>5, <2>6
<1> QED
  BY <1>3, <1>4 DEF u

LEMMA LogFacts ==
  ASSUME LogInv
  PROVE  /\ buffer \in Seq(Lines) /\ batch \in Seq(Lines) /\ shown \in Seq(Lines)
         /\ emitted \in Nat /\ MaxLines \in Nat /\ emitted <= MaxLines /\ Lines = 1..MaxLines
         /\ MaxCopies \in Nat /\ PollLimit \in Nat /\ PollLimit > 0
         /\ InSeq(buffer) \subseteq 1..emitted /\ InSeq(batch) \subseteq 1..emitted
         /\ 1..emitted \subseteq Lines /\ Lines \subseteq Nat
         /\ InSeq(buffer \o batch) = InSeq(buffer) \cup InSeq(batch)
         /\ copies \in [Lines -> 0..MaxCopies] /\ \A n \in Lines : copies[n] \in Nat
         /\ socket.open \in BOOLEAN /\ socket.since \in Nat /\ socket.lastTs \in Nat
<1>1. /\ buffer \in Seq(Lines) /\ batch \in Seq(Lines) /\ emitted \in 0..MaxLines
      /\ copies \in [Lines -> 0..MaxCopies] /\ shown \in Seq(Lines)
      /\ socket \in [open : BOOLEAN, since : 0..MaxLines, lastTs : 0..MaxLines]
  BY DEF LogInv, LogTypeOK
<1>2. InSeq(buffer \o batch) = InSeq(buffer) \cup InSeq(batch)
  BY <1>1, InSeqOf
<1>3. MaxLines \in Nat /\ MaxCopies \in Nat /\ PollLimit \in Nat /\ PollLimit > 0
  BY LogAssumption
<1>4. InSeq(buffer) \subseteq 1..emitted /\ InSeq(batch) \subseteq 1..emitted
  BY DEF LogInv, LinesEmitted
<1>5. socket.open \in BOOLEAN /\ socket.since \in Nat /\ socket.lastTs \in Nat
  BY <1>1, <1>3
<1>6. emitted \in Nat /\ emitted <= MaxLines /\ Lines = 1..MaxLines
  BY <1>1, <1>3 DEF Lines
<1>7. 1..emitted \subseteq Lines /\ Lines \subseteq Nat
  BY <1>3, <1>6
<1>8. \A n \in Lines : copies[n] \in Nat
  BY <1>1, <1>3
<1> QED
  BY <1>1, <1>2, <1>3, <1>4, <1>5, <1>6, <1>7, <1>8

\* The stream's part of the invariant depends on nothing the agent changes but what is emitted.
StreamKept == StreamAt /\ StreamInOrder /\ StreamComplete
LEMMA StreamUntouched ==
  ASSUME LogInv, UNCHANGED <<tableVars, streamVars>>, emitted' \in {emitted, emitted + 1}
  PROVE  StreamKept'
<1> USE LogFacts
<1>1. UNCHANGED <<copies, late, socket, shown>> /\ emitted' \in Nat /\ emitted <= emitted'
  BY DEF tableVars, streamVars
<1>2. StreamAt' /\ StreamInOrder'
  BY <1>1 DEF LogInv, LogSafe, StreamAt, StreamInOrder
<1>3. StreamComplete'
  <2> SUFFICES ASSUME socket.open, NEW n \in (socket.since + 1)..emitted', copies[n] > 0
               PROVE  n \in InSeq(shown) \cup late \/ n > socket.lastTs
    BY <1>1 DEF StreamComplete
  <2>1. CASE n \in (socket.since + 1)..emitted
    BY <2>1 DEF LogInv, LogSafe, StreamComplete
  <2>2. CASE n > emitted
    BY <2>2 DEF LogInv, StreamAt
  <2> QED
    BY <1>1, <2>1, <2>2
<1> QED
  BY <1>2, <1>3 DEF StreamKept

LEMMA BatchSentUntouched ==
  ASSUME BatchSent, UNCHANGED <<batch, atServer, copies>> PROVE BatchSent'
BY DEF BatchSent

LEMMA OneMore == \A k \in Nat : 1..(k + 1) = 1..k \cup {k + 1}
OBVIOUS

\* A line emitted is new: nothing under way and no row has its number.
LEMMA EmitKeepsLog == ASSUME LogInv, Emit PROVE LogInv'
<1> DEFINE e == emitted + 1
<1>1. /\ buffer \in Seq(Lines) /\ batch \in Seq(Lines) /\ emitted \in Nat
      /\ e \in 0..MaxLines /\ e \in Lines
      /\ 1..e = 1..emitted \cup {e} /\ e \notin 1..emitted
  <2>1. emitted < MaxLines
    BY DEF Emit
  <2>2. emitted \in Nat /\ MaxLines \in Nat /\ Lines = 1..MaxLines
    BY LogFacts
  <2>3. e \in 0..MaxLines /\ e \in Lines /\ e \notin 1..emitted
    BY <2>1, <2>2
  <2> QED
    BY <2>2, <2>3, LogFacts, OneMore
<1>2. /\ emitted' = e /\ buffer' = Append(buffer, e)
      /\ UNCHANGED <<looping, batch, atServer, copies, late, socket, shown, given, resent>>
      /\ UNCHANGED <<tableVars, streamVars>>
  BY DEF Emit, BufferLog, tableVars, streamVars
<1> HIDE DEF e
<1>3. /\ \A sent \in atServer : sent \subseteq 1..emitted /\ e \notin sent
      /\ e \notin InSeq(buffer) /\ e \notin InSeq(batch)
      /\ InSeq(buffer) \cup InSeq(batch) \subseteq 1..emitted
      /\ \A n \in Lines : copies[n] > 0 => n \in 1..emitted
  <2>1. \A n \in Lines : n <= emitted => n \in 1..emitted
    BY <1>1 DEF Lines
  <2> QED
    BY <1>1, <2>1 DEF LogInv, LinesEmitted
<1>4. /\ buffer' \in Seq(Lines) /\ InSeq(buffer') = InSeq(buffer) \cup {e} /\ batch' = batch
      /\ InSeq(buffer' \o batch') = InSeq(buffer \o batch) \cup {e}
      /\ InSeq(buffer') \cap InSeq(batch) = {}
  <2>1. buffer' \in Seq(Lines) /\ InSeq(buffer') = InSeq(buffer) \cup {e} /\ batch' = batch
    BY <1>1, <1>2, InSeqOf
  <2>2. /\ InSeq(buffer \o batch) = InSeq(buffer) \cup InSeq(batch)
        /\ InSeq(buffer' \o batch) = InSeq(buffer') \cup InSeq(batch)
    BY <1>1, <2>1, InSeqOf
  <2>3. InSeq(buffer) \cap InSeq(batch) = {}
    BY <1>1, InjectiveConcat DEF LogInv, LogTypeOK
  <2> QED
    BY <1>3, <2>1, <2>2, <2>3
<1>5. IsInjective(buffer' \o batch')
  <2>1. \A s \in Seq(Lines), t \in Seq(Lines) :
          IsInjective(s \o t) <=>
            IsInjective(s) /\ IsInjective(t) /\ InSeq(s) \cap InSeq(t) = {}
    BY InjectiveConcat
  <2>2. IsInjective(buffer) /\ IsInjective(batch)
    BY <1>1, InjectiveConcat DEF LogInv, LogTypeOK
  <2>3. <<e>> \in Seq(Lines) /\ InSeq(<<e>>) = {e} /\ IsInjective(<<e>>)
    BY <1>1 DEF InSeq, IsInjective
  <2>4. buffer' = buffer \o <<e>>
    BY <1>1, <1>2
  <2>5. IsInjective(buffer \o <<e>>)
    <3>1. InSeq(buffer) \cap InSeq(<<e>>) = {} /\ buffer \in Seq(Lines)
      BY <1>1, <1>3, <2>3
    <3> DEFINE one == <<e>>
    <3>2. one \in Seq(Lines) /\ IsInjective(one) /\ InSeq(buffer) \cap InSeq(one) = {}
      BY <2>3, <3>1
    <3> HIDE DEF one
    <3>3. IsInjective(buffer \o one)
      BY <2>1, <2>2, <3>1, <3>2
    <3> QED
      BY <3>3 DEF one
  <2>6. IsInjective(buffer')
    BY <2>4, <2>5
  <2> QED
    BY <1>1, <1>4, <2>1, <2>2, <2>6
<1>6. LogTypeOK'
  BY <1>1, <1>2, <1>4, <1>5 DEF LogInv, LogTypeOK
<1>7. LinesEmitted'
  <2>1. \A n \in Lines : copies[n] > 0 => n <= e
    BY <1>1, <1>3 DEF e
  <2> QED
    BY <1>1, <1>2, <1>3, <1>4, <2>1 DEF LinesEmitted
<1>8. BatchSent'
  BY <1>2, BatchSentUntouched DEF LogInv
<1>9. FirstWay'
  <2>1. copies[e] = 0
    BY <1>1, <1>3, LogFacts
  <2> SUFFICES ASSUME NEW n \in Lines \ resent
               PROVE  /\ n \in InSeq(buffer') =>
                           copies[n] = 0 /\ \A sent \in atServer : n \notin sent
                      /\ \A sent \in atServer :
                           n \in sent =>
                             copies[n] = 0 /\ \A other \in atServer : n \in other => other = sent
    BY <1>2 DEF FirstWay
  <2>2. /\ n \in InSeq(buffer) => copies[n] = 0 /\ \A sent \in atServer : n \notin sent
        /\ \A sent \in atServer :
             n \in sent =>
               copies[n] = 0 /\ \A other \in atServer : n \in other => other = sent
    BY DEF LogInv, FirstWay
  <2> QED
    BY <1>3, <1>4, <2>1, <2>2
<1>10. LineKept'
  <2>1. \A n \in 1..emitted : n \in InSeq(buffer \o batch) \cup given \/ copies[n] > 0
    BY DEF LogInv, LogSafe, LineKept
  <2> QED
    BY <1>1, <1>2, <1>4, <2>1 DEF LineKept
<1>11. StoredOnce'
  BY <1>2 DEF LogInv, LogSafe, StoredOnce
<1>12. StreamKept'
  BY <1>2, StreamUntouched DEF e
<1> QED
  BY <1>6, <1>7, <1>8, <1>9, <1>10, <1>11, <1>12 DEF LogInv, LogSafe, StreamKept

\* A flush sends every line of the buffer; given up it puts them back, answered it forgets them.
LEMMA FlushKeepsLog ==
  ASSUME LogInv, FlushLogs \/ FlushFailsOrTimesOut \/ FlushAnswered \/ AgentEnds
  PROVE  LogInv'
<1> USE LogFacts
<1>1. /\ emitted' = emitted /\ UNCHANGED <<copies, late, socket, shown>>
      /\ UNCHANGED <<tableVars, streamVars>> /\ looping' \in BOOLEAN
  BY DEF FlushLogs, FlushFailsOrTimesOut, FlushAnswered, AgentEnds, tableVars, streamVars, LogInv,
         LogTypeOK
<1>2. StreamKept'
  BY <1>1, StreamUntouched
<1>3. IsInjective(buffer) /\ IsInjective(batch) /\ IsInjective(buffer \o batch)
  BY InjectiveConcat DEF LogInv, LogTypeOK
<1>4. atServer \subseteq SUBSET Lines /\ given \subseteq Lines /\ resent \subseteq Lines
  BY DEF LogInv, LogTypeOK
<1>5. <<>> \in Seq(Lines) /\ (\A s \in Seq(Lines) : s \o <<>> = s /\ <<>> \o s = s)
      /\ IsInjective(<<>>)
  BY DEF IsInjective
<1>6. ASSUME /\ buffer' \in Seq(Lines) /\ batch' \in Seq(Lines) /\ IsInjective(buffer' \o batch')
             /\ atServer' \subseteq SUBSET Lines /\ given' \subseteq Lines /\ resent' \subseteq Lines
             /\ InSeq(buffer') \cup InSeq(batch') \subseteq InSeq(buffer) \cup InSeq(batch)
             /\ \A sent \in atServer' : sent \subseteq 1..emitted
             /\ BatchSent' /\ FirstWay' /\ resent \subseteq resent'
             /\ \A n \in InSeq(buffer) \cup InSeq(batch) \cup given :
                  n \in InSeq(buffer') \cup InSeq(batch') \cup given' \/ copies[n] > 0
      PROVE  LogInv'
  <2>1. LogTypeOK'
    BY <1>1, <1>6 DEF LogInv, LogTypeOK
  <2>2. LinesEmitted'
    BY <1>1, <1>6 DEF LogInv, LinesEmitted
  <2>3. InSeq(buffer' \o batch') = InSeq(buffer') \cup InSeq(batch')
    BY <1>6, InSeqOf
  <2>4. LineKept'
    BY <1>1, <1>6, <2>3 DEF LogInv, LogSafe, LineKept
  <2>5. StoredOnce'
    BY <1>1, <1>6 DEF LogInv, LogSafe, StoredOnce
  <2> QED
    BY <1>2, <1>6, <2>1, <2>2, <2>4, <2>5 DEF LogInv, LogSafe, StreamKept
<1>7. CASE FlushLogs
  <2>1. /\ batch' = buffer /\ buffer' = <<>> /\ batch = <<>>
        /\ atServer' = atServer \cup {InSeq(buffer)} /\ UNCHANGED <<given, resent>>
    BY <1>7 DEF FlushLogs
  <2>2. InSeq(buffer') = {} /\ InSeq(batch') = InSeq(buffer) /\ InSeq(batch) = {}
    BY <2>1, InSeqOfNone
  <2>3. BatchSent'
    BY <2>1, <2>2 DEF BatchSent
  <2>4. FirstWay'
    BY <1>1, <2>1, <2>2 DEF LogInv, FirstWay
  <2>5. IsInjective(buffer' \o batch')
    BY <1>3, <1>5, <2>1
  <2>6. \A sent \in atServer' : sent \subseteq 1..emitted
    BY <2>1 DEF LogInv, LinesEmitted
  <2> QED
    BY <1>4, <1>5, <1>6, <2>1, <2>2, <2>3, <2>4, <2>5, <2>6
<1>8. CASE FlushFailsOrTimesOut
  <2>1. /\ buffer' = buffer \o batch /\ batch' = <<>> /\ atServer' \subseteq atServer
        /\ resent' = resent \cup InSeq(batch) /\ given' = given
    BY <1>8 DEF FlushFailsOrTimesOut
  <2>2. InSeq(batch') = {} /\ InSeq(buffer') = InSeq(buffer) \cup InSeq(batch)
    BY <2>1, InSeqOfNone
  <2>3. BatchSent'
    BY <2>2 DEF BatchSent
  <2>4. FirstWay'
    BY <1>1, <2>1, <2>2 DEF LogInv, FirstWay
  <2>5. buffer' \in Seq(Lines) /\ IsInjective(buffer' \o batch')
    BY <1>3, <1>5, <2>1
  <2>6. (\A sent \in atServer' : sent \subseteq 1..emitted) /\ InSeq(batch) \subseteq Lines
    BY <2>1 DEF LogInv, LinesEmitted
  <2> QED
    BY <1>4, <1>5, <1>6, <2>1, <2>2, <2>3, <2>4, <2>5, <2>6
<1>9. CASE FlushAnswered
  <2>1. /\ batch' = <<>> /\ UNCHANGED <<buffer, resent>> /\ atServer' \subseteq atServer
        /\ \/ InSeq(batch) \notin atServer /\ given' = given
           \/ given' = given \cup InSeq(batch)
    BY <1>9 DEF FlushAnswered
  <2>2. InSeq(batch') = {} /\ InSeq(buffer') = InSeq(buffer)
    BY <2>1, InSeqOfNone
  <2>3. BatchSent'
    BY <2>2 DEF BatchSent
  <2>4. FirstWay'
    BY <1>1, <2>1, <2>2 DEF LogInv, FirstWay
  <2>5. IsInjective(buffer' \o batch')
    BY <1>3, <1>5, <2>1
  <2>6. (\A sent \in atServer' : sent \subseteq 1..emitted) /\ InSeq(batch) \subseteq Lines
    BY <2>1 DEF LogInv, LinesEmitted
  <2>7. \A n \in InSeq(batch) : n \in given' \/ copies[n] > 0
    BY <2>1 DEF LogInv, BatchSent
  <2> QED
    BY <1>4, <1>5, <1>6, <2>1, <2>2, <2>3, <2>4, <2>5, <2>6, <2>7
<1>10. CASE AgentEnds
  <2>1. /\ batch' = <<>> /\ buffer' = <<>> /\ UNCHANGED <<atServer, resent>>
        /\ given' = given \cup InSeq(buffer) \cup InSeq(batch)
    BY <1>10, InSeqOf DEF AgentEnds
  <2>2. InSeq(batch') = {} /\ InSeq(buffer') = {}
    BY <2>1, InSeqOfNone
  <2>3. BatchSent' /\ FirstWay'
    BY <1>1, <2>1, <2>2 DEF LogInv, BatchSent, FirstWay
  <2>4. IsInjective(buffer' \o batch')
    BY <1>5, <2>1
  <2>5. (\A sent \in atServer' : sent \subseteq 1..emitted)
        /\ InSeq(batch) \subseteq Lines /\ InSeq(buffer) \subseteq Lines
    BY <2>1 DEF LogInv, LinesEmitted
  <2> QED
    BY <1>4, <1>5, <1>6, <2>1, <2>2, <2>3, <2>4, <2>5
<1> QED
  BY <1>7, <1>8, <1>9, <1>10

\* A batch is stored once, after which no line of it is on its first way; a line that reaches
\* the table behind last_ts is late.
LEMMA StoreKeepsLog ==
  ASSUME LogInv, NEW sent \in atServer, Store(sent) PROVE LogInv'
<1> USE LogFacts
<1>1. /\ \A n \in sent : copies[n] < MaxCopies
      /\ atServer' = atServer \ {sent}
      /\ copies' = [n \in Lines |-> IF n \in sent THEN copies[n] + 1 ELSE copies[n]]
      /\ late' = late \cup {n \in sent : copies[n] = 0 /\ \E m \in Lines : m > n /\ copies[m] > 0}
      /\ UNCHANGED <<emitted, buffer, looping, batch, socket, shown, given, resent>>
  BY DEF Store, streamVars
<1>2. /\ sent \subseteq Lines /\ sent \subseteq 1..emitted /\ late \subseteq Lines
      /\ atServer \subseteq SUBSET Lines
  BY DEF LogInv, LogTypeOK, LinesEmitted
<1>3. \A n \in Lines :
        /\ n \in sent => copies'[n] = copies[n] + 1
        /\ n \notin sent => copies'[n] = copies[n]
        /\ copies'[n] \in 0..MaxCopies /\ copies'[n] >= copies[n]
        /\ copies'[n] > 0 => copies[n] > 0 \/ n \in sent
  BY <1>1
<1>4. LogTypeOK'
  <2>1. copies' \in [Lines -> 0..MaxCopies]
    BY <1>1, <1>3
  <2> QED
    BY <1>1, <1>2, <2>1 DEF LogInv, LogTypeOK
<1>5. LinesEmitted'
  BY <1>1, <1>2, <1>3 DEF LogInv, LinesEmitted
<1>6. BatchSent'
  <2>1. InSeq(batch') = InSeq(batch) /\ InSeq(batch) \subseteq Lines
    BY <1>1
  <2>2. CASE InSeq(batch) = sent
    BY <1>3, <2>1, <2>2 DEF BatchSent
  <2>3. CASE InSeq(batch) # sent
    BY <1>1, <1>3, <2>1, <2>3 DEF LogInv, BatchSent
  <2> QED
    BY <2>2, <2>3
<1>7. FirstWay'
  <2> SUFFICES ASSUME NEW n \in Lines \ resent
               PROVE  /\ n \in InSeq(buffer) =>
                           copies'[n] = 0 /\ \A x \in atServer' : n \notin x
                      /\ \A x \in atServer' :
                           n \in x =>
                             copies'[n] = 0 /\ \A other \in atServer' : n \in other => other = x
    BY <1>1 DEF FirstWay
  <2>1. /\ n \in InSeq(buffer) => copies[n] = 0 /\ \A x \in atServer : n \notin x
        /\ \A x \in atServer :
             n \in x => copies[n] = 0 /\ \A other \in atServer : n \in other => other = x
    BY DEF LogInv, FirstWay
  <2> QED
    BY <1>1, <1>3, <2>1
<1>8. LineKept'
  <2>1. InSeq(buffer' \o batch') = InSeq(buffer \o batch) /\ given' = given /\ emitted' = emitted
    BY <1>1
  <2> SUFFICES ASSUME NEW n \in 1..emitted
               PROVE  n \in InSeq(buffer \o batch) \cup given \/ copies'[n] > 0
    BY <2>1 DEF LineKept
  <2>2. n \in InSeq(buffer \o batch) \cup given \/ copies[n] > 0
    BY DEF LogInv, LogSafe, LineKept
  <2>3. n \in Lines
    OBVIOUS
  <2> QED
    BY <1>3, <2>2, <2>3
<1>9. StoredOnce'
  <2> SUFFICES ASSUME NEW n \in Lines \ resent PROVE copies'[n] <= 1
    BY <1>1 DEF StoredOnce
  <2>1. CASE n \in sent
    BY <1>3, <2>1 DEF LogInv, FirstWay
  <2>2. CASE n \notin sent
    BY <1>3, <2>2 DEF LogInv, LogSafe, StoredOnce
  <2> QED
    BY <2>1, <2>2
<1>10. StreamAt' /\ StreamInOrder'
  BY <1>1, <1>3 DEF LogInv, LogSafe, StreamAt, StreamInOrder
<1>11. StreamComplete'
  <2> SUFFICES ASSUME socket.open, NEW n \in (socket.since + 1)..emitted, copies'[n] > 0,
                      ~(n > socket.lastTs)
               PROVE  n \in InSeq(shown) \cup late'
    BY <1>1 DEF StreamComplete
  <2>1. n \in Lines /\ n > socket.since /\ n <= socket.lastTs
    OBVIOUS
  <2>2. CASE copies[n] > 0
    BY <1>1, <2>1, <2>2 DEF LogInv, LogSafe, StreamComplete
  <2>3. CASE ~(copies[n] > 0)
    <3>1. n \in sent /\ copies[n] = 0
      BY <1>3, <2>1, <2>3
    <3>2. socket.lastTs \in Lines /\ copies[socket.lastTs] > 0
      BY <2>1 DEF LogInv, StreamAt
    <3>3. socket.lastTs > n
      BY <2>1, <3>1, <3>2
    <3> QED
      BY <1>1, <3>1, <3>2, <3>3
  <2> QED
    BY <2>2, <2>3
<1> QED
  BY <1>4, <1>5, <1>6, <1>7, <1>8, <1>9, <1>10, <1>11 DEF LogInv, LogSafe

\* A stream opens at the present, and a closed one shows nothing.
LEMMA StreamOpensKeepsLog ==
  ASSUME LogInv, OpenStream \/ CloseStream PROVE LogInv'
<1> USE LogFacts
<1>1. /\ UNCHANGED <<emitted, buffer, looping, batch, atServer, copies, late, given, resent>>
      /\ shown' = <<>>
      /\ \/ socket' = [open |-> TRUE, since |-> emitted, lastTs |-> emitted]
         \/ socket' = [open |-> FALSE, since |-> 0, lastTs |-> 0]
  BY DEF OpenStream, CloseStream, tableVars, Closed
<1>2. /\ socket' \in [open : BOOLEAN, since : 0..MaxLines, lastTs : 0..MaxLines]
      /\ shown' \in Seq(Lines) /\ Len(shown') = 0
      /\ socket'.open => socket'.since = emitted /\ socket'.lastTs = emitted
  <2>1. emitted \in 0..MaxLines /\ 0 \in 0..MaxLines
    OBVIOUS
  <2>2. CASE socket' = [open |-> TRUE, since |-> emitted, lastTs |-> emitted]
    BY <1>1, <2>1, <2>2
  <2>3. CASE socket' = [open |-> FALSE, since |-> 0, lastTs |-> 0]
    BY <1>1, <2>1, <2>3
  <2> QED
    BY <1>1, <2>2, <2>3
<1>3. LogTypeOK'
  BY <1>1, <1>2 DEF LogInv, LogTypeOK
<1>4. LinesEmitted' /\ BatchSent' /\ FirstWay' /\ LineKept' /\ StoredOnce'
  BY <1>1 DEF LogInv, LogSafe, LinesEmitted, BatchSent, FirstWay, LineKept, StoredOnce
<1>5. StreamAt' /\ StreamInOrder'
  BY <1>1, <1>2 DEF StreamAt, StreamInOrder
<1>6. StreamComplete'
  <2> SUFFICES ASSUME socket'.open, NEW n \in (socket'.since + 1)..emitted PROVE FALSE
    BY <1>1 DEF StreamComplete
  <2> QED
    BY <1>2
<1> QED
  BY <1>3, <1>4, <1>5, <1>6 DEF LogInv, LogSafe

\* A page has, of the lines after last_ts, all that are not later than its last.
LEMMA PageOf ==
  ASSUME LogInv, NEW page \in NewRows
  PROVE  /\ page \in Seq(Lines) /\ Len(page) \in Nat /\ Len(page) > 0
         /\ \A i, j \in 1..Len(page) : i <= j => page[i] <= page[j]
         /\ \A i \in 1..Len(page) :
              page[i] \in Lines /\ page[i] > socket.lastTs /\ copies[page[i]] > 0
         /\ \A n \in Lines :
              n > socket.lastTs /\ copies[n] > 0 => n \in InSeq(page) \/ n > page[Len(page)]
<1>1. PICK k \in 1..PollLimit : page \in [1..k -> Lines]
  BY DEF NewRows
<1>2. k \in Nat /\ k > 0 /\ page \in Seq(Lines) /\ Len(page) = k
  <2>1. k \in Nat /\ k > 0
    BY LogFacts
  <2>2. page \in Seq(Lines)
    BY <1>1, <2>1, SeqDef
  <2>3. DOMAIN page = 1..k
    BY <1>1
  <2>4. Len(page) = k
    BY <2>1, <2>2, <2>3
  <2> QED BY <2>1, <2>2, <2>4
<1> USE LogFacts
<1>3. /\ \A i, j \in 1..k : i <= j => page[i] <= page[j]
      /\ \A i \in 1..k : page[i] > socket.lastTs /\ page[i] \in Lines
      /\ \A n \in Lines : n > socket.lastTs =>
           \/ Times(page, n) = copies[n]
           \/ Times(page, n) < copies[n] /\ k = PollLimit /\ page[PollLimit] <= n
  BY <1>1, <1>2 DEF NewRows, InOrder
<1> DEFINE At(n) == {i \in 1..k : page[i] = n}
<1>4. \A n : IsFiniteSet(At(n)) /\ Cardinality(At(n)) \in Nat /\ Times(page, n) = Cardinality(At(n))
              /\ (Cardinality(At(n)) = 0 <=> At(n) = {})
  <2> TAKE n
  <2>1. IsFiniteSet(At(n))
    <3>1. IsFiniteSet(1..k)
      BY <1>2, FS_Interval
    <3>2. At(n) \subseteq 1..k
      OBVIOUS
    <3> QED
      BY <3>1, <3>2, FS_Subset
  <2> QED
    BY <1>2, <2>1, FS_CardinalityType, FS_EmptySet DEF Times
<1> HIDE DEF At
<1>5. ASSUME NEW i \in 1..k PROVE copies[page[i]] > 0
  <2>1. i \in At(page[i])
    BY DEF At
  <2> DEFINE p == page[i]
  <2>2. Times(page, p) \in Nat /\ Times(page, p) # 0
    BY <1>4, <2>1
  <2>3. p \in Lines /\ p > socket.lastTs
    BY <1>3
  <2>4. Times(page, p) = copies[p] \/ Times(page, p) < copies[p]
    BY <1>3, <2>3
  <2>5. copies[p] \in Nat
    BY <2>3
  <2> HIDE DEF p
  <2>6. copies[p] > 0
    BY <2>2, <2>4, <2>5
  <2> QED
    BY <2>6 DEF p
<1>6. ASSUME NEW n \in Lines, n > socket.lastTs, copies[n] > 0, n \notin InSeq(page)
      PROVE  n > page[k]
  <2>1. At(n) = {}
    BY <1>2, <1>6 DEF At, InSeq
  <2>2. Times(page, n) = 0
    BY <1>4, <2>1
  <2>3. page[k] <= n
    <3>1. Times(page, n) # copies[n]
      BY <1>6, <2>2
    <3>2. k = PollLimit /\ page[PollLimit] <= n
      BY <1>3, <1>6, <3>1
    <3> QED
      BY <3>2
  <2>4. page[k] # n /\ page[k] \in Lines
    BY <1>2, <1>3, <1>6 DEF InSeq
  <2> QED
    BY <2>3, <2>4
<1> QED
  BY <1>2, <1>3, <1>5, <1>6

\* A poll shows what is after last_ts, in order, and last_ts moves on to its last row.
LEMMA PollKeepsLog == ASSUME LogInv, Poll PROVE LogInv'
<1>1. PICK page \in NewRows : /\ shown' = shown \o page
                              /\ socket' = [socket EXCEPT !.lastTs = page[Len(page)]]
  BY DEF Poll
<1>2. /\ socket.open
      /\ UNCHANGED <<emitted, buffer, looping, batch, atServer, copies, late, given, resent>>
      /\ socket \in [open : BOOLEAN, since : 0..MaxLines, lastTs : 0..MaxLines]
      /\ shown \in Seq(Lines) /\ Len(shown) \in Nat
  BY DEF Poll, tableVars, LogInv, LogTypeOK
<1> DEFINE k == Len(page)
           l == page[k]
           m == Len(shown)
<1>3. /\ page \in Seq(Lines) /\ k \in Nat /\ k > 0
      /\ \A i, j \in 1..k : i <= j => page[i] <= page[j]
      /\ \A i \in 1..k : page[i] \in Lines /\ page[i] > socket.lastTs /\ copies[page[i]] > 0
      /\ \A n \in Lines :
           n > socket.lastTs /\ copies[n] > 0 => n \in InSeq(page) \/ n > l
  BY PageOf
<1>4. l \in Lines /\ l > socket.lastTs /\ copies[l] > 0 /\ l <= emitted
      /\ \A i \in 1..k : page[i] <= l
  <2>1. k \in 1..k /\ \A i \in 1..k : i <= k
    BY <1>3
  <2>2. l \in Lines /\ copies[l] > 0 /\ l > socket.lastTs
    BY <1>3, <2>1
  <2>3. l <= emitted
    BY <2>2 DEF LogInv, LinesEmitted
  <2>4. \A i \in 1..k : page[i] <= l
    BY <1>3, <2>1
  <2> QED
    BY <2>2, <2>3, <2>4
<1>5. /\ socket'.open /\ socket'.since = socket.since /\ socket'.lastTs = l
      /\ socket' \in [open : BOOLEAN, since : 0..MaxLines, lastTs : 0..MaxLines]
  <2>1. l \in 0..MaxLines
    BY <1>4, LogAssumption DEF Lines
  <2> QED
    BY <1>1, <1>2, <2>1
<1>6. /\ shown' \in Seq(Lines) /\ Len(shown') = m + k
      /\ \A i \in 1..m : shown'[i] = shown[i]
      /\ \A i \in 1..k : shown'[m + i] = page[i]
      /\ \A i \in 1..Len(shown') : i \in 1..m \/ \E j \in 1..k : i = m + j
  <2>1. shown \in Seq(Lines) /\ page \in Seq(Lines)
    BY <1>2, <1>3
  <2> DEFINE whole == shown \o page
  <2>2. /\ whole \in Seq(Lines) /\ Len(whole) = m + k
        /\ \A i \in 1..m : whole[i] = shown[i]
        /\ \A i \in 1..k : whole[m + i] = page[i]
        /\ \A i \in 1..Len(whole) : i \in 1..m \/ \E j \in 1..k : i = m + j
    BY <2>1, ConcatAt
  <2>3. shown' = whole
    BY <1>1
  <2> HIDE DEF whole
  <2> QED
    BY <2>2, <2>3
<1>7. socket.lastTs \in Nat /\ socket.since \in Nat /\ emitted \in Nat /\ Lines \subseteq Nat
      /\ Lines = 1..MaxLines /\ MaxLines \in Nat /\ 1..emitted \subseteq Lines /\ m \in Nat
  BY <1>2, LogFacts
<1>8. InSeq(shown') = InSeq(shown) \cup InSeq(page)
  BY <1>1, <1>2, <1>3, InSeqOf
<1>9. \A i \in 1..m : shown[i] <= socket.lastTs /\ shown[i] \in Nat
  <2>1. \A i \in 1..m : shown[i] \in Lines
    BY <1>2
  <2> QED
    BY <1>2, <2>1 DEF LogInv, StreamAt, Lines
<1> HIDE DEF k, l, m
<1>10. LogTypeOK'
  BY <1>2, <1>5, <1>6 DEF LogInv, LogTypeOK
<1>11. LinesEmitted' /\ BatchSent' /\ FirstWay' /\ LineKept' /\ StoredOnce'
  BY <1>2 DEF LogInv, LogSafe, LinesEmitted, BatchSent, FirstWay, LineKept, StoredOnce
<1>12. StreamAt'
  <2>1. socket.since <= socket.lastTs
    BY <1>2 DEF LogInv, StreamAt
  <2>2. ASSUME NEW i \in 1..Len(shown') PROVE shown'[i] <= l
    <3>1. CASE i \in 1..m
      <4>1. shown'[i] <= socket.lastTs /\ shown'[i] \in Nat
        BY <1>6, <1>9, <3>1
      <4> QED
        BY <1>4, <1>7, <4>1
    <3>2. ASSUME NEW j \in 1..k, i = m + j PROVE shown'[i] <= l
      BY <1>4, <1>6, <3>2
    <3> QED
      BY <1>6, <3>1, <3>2
  <2>3. socket.since <= l
    BY <1>4, <1>7, <2>1
  <2> QED
    BY <1>2, <1>4, <1>5, <2>2, <2>3 DEF StreamAt
<1>13. StreamInOrder'
  <2> SUFFICES ASSUME NEW i \in 1..(Len(shown') - 1) PROVE shown'[i] <= shown'[i + 1]
    BY DEF StreamInOrder
  <2>1. i \in 1..Len(shown') /\ i + 1 \in 1..Len(shown') /\ i \in Nat
    BY <1>3, <1>6, <1>7
  <2>2. CASE i + 1 \in 1..m
    <3>1. i \in 1..(m - 1) /\ i \in 1..m
      BY <1>7, <2>1, <2>2
    <3>2. shown[i] <= shown[i + 1]
      BY <3>1 DEF LogInv, LogSafe, StreamInOrder, m
    <3> QED
      BY <1>6, <2>2, <3>1, <3>2
  <2>3. ASSUME i \in 1..m, NEW j \in 1..k, i + 1 = m + j PROVE shown'[i] <= shown'[i + 1]
    <3>1. shown'[i + 1] = page[j] /\ page[j] > socket.lastTs /\ page[j] \in Nat
      BY <1>3, <1>6, <1>7, <2>3
    <3>2. shown'[i] <= socket.lastTs /\ shown'[i] \in Nat
      BY <1>6, <1>9, <2>3
    <3> QED
      BY <1>7, <3>1, <3>2
  <2>4. ASSUME NEW j \in 1..k, NEW h \in 1..k, i = m + j, i + 1 = m + h
        PROVE  shown'[i] <= shown'[i + 1]
    <3>1. j <= h
      BY <1>7, <2>4
    <3> QED
      BY <1>3, <1>6, <2>4, <3>1
  <2>5. ASSUME NEW j \in 1..k, i = m + j PROVE i + 1 \notin 1..m
    BY <1>7, <2>5
  <2> QED
    BY <1>6, <2>1, <2>2, <2>3, <2>4, <2>5
<1>14. StreamComplete'
  <2> SUFFICES ASSUME NEW n \in (socket.since + 1)..emitted, copies[n] > 0
               PROVE  n \in InSeq(shown') \cup late \/ n > l
    BY <1>2, <1>5 DEF StreamComplete
  <2>1. n \in Lines
    BY <1>7
  <2>2. n \in InSeq(shown) \cup late \/ n > socket.lastTs
    BY <1>2 DEF LogInv, LogSafe, StreamComplete
  <2> QED
    BY <1>3, <1>8, <2>1, <2>2
<1> QED
  BY <1>10, <1>11, <1>12, <1>13, <1>14 DEF LogInv, LogSafe

LEMMA LogStep == LogInv /\ [LogNext]_logVars => LogInv'
<1> SUFFICES ASSUME LogInv, [LogNext]_logVars PROVE LogInv'
  OBVIOUS
<1>1. CASE LoopStarts \/ LoopEnds \/ UNCHANGED logVars
  <2>1. /\ UNCHANGED <<emitted, buffer, batch, atServer, copies, late, socket, shown, given, resent>>
        /\ looping' \in BOOLEAN
    BY <1>1 DEF LoopStarts, LoopEnds, logVars, tableVars, streamVars, LogInv, LogTypeOK
  <2> QED
    BY <2>1 DEF LogInv, LogTypeOK, LinesEmitted, BatchSent, FirstWay, StreamAt, LogSafe, LineKept,
                StoredOnce, StreamInOrder, StreamComplete
<1>2. CASE Emit
  BY <1>2, EmitKeepsLog
<1>3. CASE FlushLogs \/ FlushFailsOrTimesOut \/ FlushAnswered \/ AgentEnds
  BY <1>3, FlushKeepsLog
<1>4. ASSUME NEW sent \in atServer, Store(sent) PROVE LogInv'
  BY <1>4, StoreKeepsLog
<1>5. CASE OpenStream \/ CloseStream
  BY <1>5, StreamOpensKeepsLog
<1>6. CASE Poll
  BY <1>6, PollKeepsLog
<1> QED
  BY <1>1, <1>2, <1>3, <1>4, <1>5, <1>6 DEF LogNext

LEMMA LogStarts == LogInit => LogInv
<1> SUFFICES ASSUME LogInit PROVE LogInv
  OBVIOUS
<1>1. /\ emitted = 0 /\ buffer = <<>> /\ looping = FALSE /\ batch = <<>> /\ atServer = {}
      /\ copies = [n \in Lines |-> 0] /\ socket = Closed /\ shown = <<>>
      /\ given = {} /\ resent = {} /\ late = {}
  BY DEF LogInit
<1>2. /\ 0 \in 0..MaxLines /\ 0 \in 0..MaxCopies /\ ~(0 > 0) /\ 0 <= 1 /\ 1..0 = {}
      /\ 1..(0 - 1) = {}
  BY LogAssumption
<1>3. InSeq(buffer) = {} /\ InSeq(batch) = {}
  BY <1>1, InSeqOfNone
<1>4. buffer \in Seq(Lines) /\ batch \in Seq(Lines) /\ shown \in Seq(Lines) /\ Len(shown) = 0
  BY <1>1
<1>5. IsInjective(buffer \o batch)
  <2>1. buffer \o batch = <<>>
    BY <1>1
  <2> QED
    BY <2>1 DEF IsInjective
<1>6. socket \in [open : BOOLEAN, since : 0..MaxLines, lastTs : 0..MaxLines] /\ ~socket.open
  BY <1>1, <1>2 DEF Closed
<1>7. LogTypeOK
  <2>1. copies \in [Lines -> 0..MaxCopies]
    BY <1>1, <1>2
  <2> QED
    BY <1>1, <1>2, <1>4, <1>5, <1>6, <2>1 DEF LogTypeOK
<1>8. LinesEmitted /\ BatchSent /\ FirstWay
  BY <1>1, <1>2, <1>3 DEF LinesEmitted, BatchSent, FirstWay
<1>9. LineKept /\ StoredOnce
  BY <1>1, <1>2 DEF LineKept, StoredOnce
<1>10. StreamAt /\ StreamInOrder /\ StreamComplete
  BY <1>1, <1>2, <1>4, <1>6 DEF StreamAt, StreamInOrder, StreamComplete
<1> QED
  BY <1>7, <1>8, <1>9, <1>10 DEF LogInv, LogSafe

\* Where the lines of an agent's log are, under way and in the table, and how far a stream is.
THEOREM LogInvariant == LogSpec => []LogInv
BY LogStarts, LogStep, PTL DEF LogSpec

\* LogSafe: from emit_log of app/hub_callback.py to the socket of logs/ws.py no line is lost,
\* stored twice, shown out of order or passed over but for the causes it names.
THEOREM LinesReachStream == LogSpec => []LogSafe
<1>1. LogInv => LogSafe
  BY DEF LogInv
<1> QED
  BY <1>1, LogInvariant, PTL
=============================================================================
