----------------------------- MODULE HubProofs -----------------------------
(***************************************************************************)
(* Proofs about the hub's own services for any number of users, requests,  *)
(* rows and calls, and about its price feed for any symbols, feeds,        *)
(* listeners and restarts.  They share no state: each is proved on its own *)
(* specification.                                                          *)
(***************************************************************************)
EXTENDS MCHub, PriceFeed, FiniteSetTheorems, TLAPS

-----------------------------------------------------------------------------
(* The chain wallet (HubWallet)                                            *)

Using(c) == walletUse[c] # NoUse

\* A use that found no wallet is alone, and one that found a wallet found the present one.
UseAlone(c) ==
  Using(c) /\ walletUse[c].at = "ensure" =>
    IF walletUse[c].seen = NoKey
    THEN walletKey = NoKey /\ \A d \in WalletCalls : Using(d) => d = c
    ELSE walletUse[c].seen = walletKey

WalletInv ==
  /\ WalletTypeOK
  /\ \A c \in WalletCalls : Using(c) /\ walletUse[c].at = "refresh" => walletKey # NoKey
  /\ ~usesOverlap => WalletKept /\ \A c \in WalletCalls : UseAlone(c)
  /\ WithdrawalCovered /\ withdrawal.nonce <= minedTxs

\* A use gets a key and ends.
LEMMA GetsKeepsWallet ==
  ASSUME WalletInv, NEW c \in WalletCalls, NEW k \in 1..MaxKeys, Using(c), Gets(c, k),
         ~usesOverlap => k = walletKey,
         UNCHANGED <<walletKey, keysMade, usesOverlap>>
  PROVE  WalletInv'
<1> USE DEF chainState, Using
<1>1. /\ walletUse' = [walletUse EXCEPT ![c] = NoUse]
      /\ vmKey' \in {vmKey, k} /\ shownKeys' \in {shownKeys, shownKeys \cup {k}}
      /\ UNCHANGED <<balance, minedTxs>>
  BY DEF Gets, Shows
<1>2. /\ withdrawal' \in [nonce : 0..MaxChainTxs, amount : 0..MaxBalance]
      /\ WithdrawalCovered' /\ withdrawal'.nonce <= minedTxs'
  <2>1. CASE UNCHANGED withdrawal
    BY <1>1, <2>1 DEF WalletInv, WalletTypeOK, WithdrawalCovered
  <2>2. ASSUME NEW amount \in 1..MaxBalance, amount + Fee <= balance,
               withdrawal' = [nonce |-> minedTxs, amount |-> amount]
        PROVE  /\ withdrawal' \in [nonce : 0..MaxChainTxs, amount : 0..MaxBalance]
               /\ WithdrawalCovered' /\ withdrawal'.nonce <= minedTxs'
    <3>1. minedTxs \in 0..MaxChainTxs /\ amount \in 0..MaxBalance /\ minedTxs <= minedTxs
      BY WalletAssumption DEF WalletInv, WalletTypeOK
    <3> QED
      BY <1>1, <2>2, <3>1 DEF WithdrawalCovered
  <2>3. UNCHANGED withdrawal \/ Withdraw(k)
    BY DEF Gets
  <2> QED
    BY <2>1, <2>2, <2>3 DEF Withdraw
<1>3. WalletTypeOK'
  BY <1>1, <1>2 DEF WalletInv, WalletTypeOK
<1>4. ASSUME NEW d \in WalletCalls, Using(d)'
      PROVE  Using(d) /\ walletUse'[d] = walletUse[d]
  BY <1>1, <1>4 DEF WalletInv, WalletTypeOK
<1>5. ~usesOverlap' => WalletKept' /\ \A d \in WalletCalls : UseAlone(d)'
  BY <1>1, <1>4 DEF WalletInv, WalletKept, UseAlone
<1>6. \A d \in WalletCalls : Using(d)' /\ walletUse'[d].at = "refresh" => walletKey' # NoKey
  BY <1>4 DEF WalletInv
<1> QED
  BY <1>2, <1>3, <1>5, <1>6 DEF WalletInv

LEMMA WalletStep == WalletInv /\ [WalletNext]_walletVars => WalletInv'
<1> SUFFICES ASSUME WalletInv, [WalletNext]_walletVars PROVE WalletInv'
  OBVIOUS
<1> USE DEF chainState, Using
<1>1. ASSUME NEW c \in WalletCalls, NEW purpose \in Purposes, UseLoadsUser(c, purpose)
      PROVE  WalletInv'
  <2>1. WalletTypeOK'
    BY <1>1 DEF UseLoadsUser, WalletInv, WalletTypeOK, WalletUse
  <2>2. walletUse'[c] = [for |-> purpose, at |-> "ensure", seen |-> walletKey]
    BY <1>1 DEF UseLoadsUser, WalletInv, WalletTypeOK
  <2>3. \A d \in WalletCalls \ {c} : walletUse'[d] = walletUse[d]
    BY <1>1 DEF UseLoadsUser, WalletInv, WalletTypeOK
  <2>4. \A d \in WalletCalls : Using(d)' /\ walletUse'[d].at = "refresh" => walletKey' # NoKey
    BY <1>1, <2>2, <2>3 DEF UseLoadsUser, WalletInv
  <2>5. ASSUME ~usesOverlap'
        PROVE  WalletKept' /\ \A d \in WalletCalls : UseAlone(d)'
    <3>1. ~usesOverlap /\ (walletKey = NoKey => \A d \in WalletCalls : ~Using(d))
      BY <1>1, <2>5 DEF UseLoadsUser
    <3>2. WalletKept'
      BY <1>1, <3>1 DEF UseLoadsUser, WalletInv, WalletKept
    <3>3. UseAlone(c)'
      BY <1>1, <2>2, <2>3, <3>1 DEF UseLoadsUser, UseAlone
    <3>4. ASSUME NEW d \in WalletCalls \ {c}
          PROVE  UseAlone(d)'
      BY <1>1, <2>3, <3>1 DEF UseLoadsUser, UseAlone, WalletInv
    <3> QED
      BY <3>2, <3>3, <3>4
  <2>6. WithdrawalCovered' /\ withdrawal'.nonce <= minedTxs'
    BY <1>1 DEF UseLoadsUser, WalletInv, WithdrawalCovered
  <2> QED
    BY <2>1, <2>4, <2>5, <2>6 DEF WalletInv
<1>2. ASSUME NEW c \in WalletCalls, EnsureWallet(c)
      PROVE  WalletInv'
  <2>1. walletUse[c] \in WalletUse /\ walletUse[c].at = "ensure" /\ walletUse[c].seen \in 0..MaxKeys
    BY <1>2 DEF EnsureWallet, WalletInv, WalletTypeOK, WalletUse
  <2>2. CASE walletUse[c].seen # NoKey
    <3>1. ~usesOverlap => walletUse[c].seen = walletKey
      BY <1>2, <2>1, <2>2 DEF EnsureWallet, WalletInv, UseAlone
    <3>2. walletUse[c].seen \in 1..MaxKeys
      BY <2>1, <2>2, WalletAssumption DEF NoKey
    <3> QED
      BY <1>2, <2>2, <3>1, <3>2, GetsKeepsWallet DEF EnsureWallet
  <2>3. CASE walletUse[c].seen = NoKey
    <3>1. /\ keysMade < MaxKeys /\ keysMade' = keysMade + 1 /\ walletKey' = keysMade'
          /\ walletUse' = [walletUse EXCEPT ![c].at = "refresh"]
          /\ UNCHANGED <<shownKeys, vmKey, balance, minedTxs, withdrawal, usesOverlap>>
      BY <1>2, <2>3 DEF EnsureWallet
    <3>2. walletKey' \in 1..MaxKeys /\ keysMade' \in 0..MaxKeys /\ walletKey' # NoKey
      BY <3>1, WalletAssumption DEF WalletInv, WalletTypeOK, NoKey
    <3>3. walletUse' = [walletUse EXCEPT ![c] = [walletUse[c] EXCEPT !.at = "refresh"]]
          /\ [walletUse[c] EXCEPT !.at = "refresh"] \in WalletUse
          /\ [walletUse[c] EXCEPT !.at = "refresh"].at = "refresh"
      BY <2>1, <3>1 DEF WalletUse
    <3>4. WalletTypeOK'
      BY <3>1, <3>2, <3>3, WalletAssumption DEF WalletInv, WalletTypeOK
    <3>5. \A d \in WalletCalls \ {c} : walletUse'[d] = walletUse[d]
      BY <3>3 DEF WalletInv, WalletTypeOK
    <3>6. walletUse'[c].at = "refresh"
      BY <3>3 DEF WalletInv, WalletTypeOK
    <3>7. ASSUME ~usesOverlap'
          PROVE  WalletKept' /\ \A d \in WalletCalls : UseAlone(d)'
      <4>1. ~usesOverlap /\ UseAlone(c) /\ WalletKept
        BY <3>1, <3>7 DEF WalletInv
      <4>2. walletKey = NoKey /\ \A d \in WalletCalls : Using(d) => d = c
        BY <1>2, <2>1, <2>3, <4>1 DEF UseAlone, EnsureWallet
      <4>3. shownKeys = {} /\ vmKey = NoKey
        BY <4>1, <4>2 DEF WalletKept, WalletInv, WalletTypeOK, NoKey
      <4>4. WalletKept'
        BY <3>1, <4>3 DEF WalletKept
      <4>5. \A d \in WalletCalls : UseAlone(d)'
        BY <3>5, <3>6, <4>2 DEF UseAlone
      <4> QED
        BY <4>4, <4>5
    <3>8. WithdrawalCovered' /\ withdrawal'.nonce <= minedTxs'
      BY <3>1 DEF WalletInv, WithdrawalCovered
    <3> QED
      BY <3>2, <3>4, <3>7, <3>8 DEF WalletInv
  <2> QED
    BY <2>2, <2>3
<1>3. ASSUME NEW c \in WalletCalls, RefreshUser(c)
      PROVE  WalletInv'
  <2>1. walletKey \in 1..MaxKeys
    BY <1>3, WalletAssumption DEF RefreshUser, WalletInv, WalletTypeOK, NoKey
  <2> QED
    BY <1>3, <2>1, GetsKeepsWallet DEF RefreshUser
<1>4. ASSUME NEW c \in WalletCalls, WalletCallFails(c)
      PROVE  WalletInv'
  <2>1. WalletTypeOK'
    BY <1>4 DEF WalletCallFails, WalletInv, WalletTypeOK
  <2>2. ASSUME NEW d \in WalletCalls, Using(d)'
        PROVE  Using(d) /\ walletUse'[d] = walletUse[d]
    BY <1>4, <2>2 DEF WalletCallFails, WalletInv, WalletTypeOK
  <2> QED
    BY <1>4, <2>1, <2>2 DEF WalletCallFails, WalletInv, WalletKept, UseAlone, WithdrawalCovered
<1>5. CASE VMStops
  BY <1>5, WalletAssumption
  DEF VMStops, WalletInv, WalletTypeOK, WalletKept, UseAlone, WithdrawalCovered, NoKey
<1>6. ASSUME UNCHANGED <<walletKey, keysMade, walletUse, shownKeys, vmKey, usesOverlap>>,
             balance' \in 0..MaxBalance, minedTxs' \in 0..MaxChainTxs,
             withdrawal' \in [nonce : 0..MaxChainTxs, amount : 0..MaxBalance],
             withdrawal'.nonce <= minedTxs', WithdrawalCovered'
      PROVE  WalletInv'
  BY <1>6 DEF WalletInv, WalletTypeOK, WalletKept, UseAlone
<1>7. CASE Deposit
  <2>1. /\ balance \in 0..MaxBalance /\ MaxBalance \in Nat /\ balance' = balance + 1
        /\ balance < MaxBalance /\ withdrawal.amount \in Nat
    BY <1>7, WalletAssumption DEF Deposit, WalletInv, WalletTypeOK
  <2>2. WithdrawalCovered'
    BY <1>7, <2>1 DEF Deposit, WalletInv, WithdrawalCovered, Fee
  <2> QED
    BY <1>6, <1>7, <2>1, <2>2 DEF Deposit, WalletInv, WalletTypeOK
<1>8. CASE MineWithdrawal
  <2>1. /\ balance \in 0..MaxBalance /\ MaxBalance \in Nat /\ withdrawal.amount \in 0..MaxBalance
        /\ minedTxs \in 0..MaxChainTxs /\ MaxChainTxs \in Nat
    BY WalletAssumption DEF WalletInv, WalletTypeOK
  <2>2. balance' \in 0..MaxBalance /\ minedTxs' \in 0..MaxChainTxs
    BY <1>8, <2>1 DEF MineWithdrawal, Fee
  <2>3. NoTransfer \in [nonce : 0..MaxChainTxs, amount : 0..MaxBalance] /\ NoTransfer.nonce = 0
    BY <2>1 DEF NoTransfer
  <2>4. WithdrawalCovered' /\ withdrawal'.nonce <= minedTxs'
    BY <1>8, <2>1, <2>3 DEF MineWithdrawal, WithdrawalCovered
  <2> QED
    BY <1>6, <1>8, <2>2, <2>3, <2>4 DEF MineWithdrawal
<1>9. CASE AgentTxMined
  <2>1. /\ balance \in 0..MaxBalance /\ MaxBalance \in Nat
        /\ minedTxs \in 0..MaxChainTxs /\ MaxChainTxs \in Nat /\ withdrawal.nonce \in Nat
        /\ withdrawal.nonce <= minedTxs
    BY WalletAssumption DEF WalletInv, WalletTypeOK
  <2>2. balance' \in 0..MaxBalance /\ minedTxs' \in 0..MaxChainTxs /\ withdrawal'.nonce < minedTxs'
    BY <1>9, <2>1 DEF AgentTxMined, Fee
  <2>3. WithdrawalCovered' /\ withdrawal'.nonce <= minedTxs'
    BY <2>1, <2>2, <1>9 DEF AgentTxMined, WithdrawalCovered
  <2> QED
    BY <1>6, <1>9, <2>2, <2>3 DEF AgentTxMined, WalletInv, WalletTypeOK
<1>10. CASE UNCHANGED walletVars
  BY <1>6, <1>10 DEF walletVars, WalletInv, WalletTypeOK, WithdrawalCovered
<1> QED
  BY <1>1, <1>2, <1>3, <1>4, <1>5, <1>7, <1>8, <1>9, <1>10 DEF WalletNext

LEMMA WalletStart == WalletInit => WalletInv
<1> SUFFICES ASSUME WalletInit PROVE WalletInv
  OBVIOUS
<1>1. 0 \in 0..MaxKeys /\ 0 \in 0..MaxBalance /\ 0 \in 0..MaxChainTxs
  BY WalletAssumption
<1>2. NoTransfer \in [nonce : 0..MaxChainTxs, amount : 0..MaxBalance] /\ NoTransfer.nonce = 0
  BY <1>1 DEF NoTransfer
<1>3. WalletTypeOK
  BY <1>1, <1>2 DEF WalletInit, WalletTypeOK, NoKey
<1>4. \A c \in WalletCalls : ~Using(c)
  BY DEF WalletInit, Using
<1>5. WithdrawalCovered /\ withdrawal.nonce <= minedTxs /\ WalletKept
  BY <1>2 DEF WalletInit, WithdrawalCovered, WalletKept
<1> QED
  BY <1>3, <1>4, <1>5 DEF WalletInv, UseAlone

\* WalletSafe: the address a user was shown stays the wallet and the VM's key is its key, and
\* what can be withdrawn is there.
THEOREM WalletProved == WalletSpec => []WalletSafe
<1>1. WalletInv => WalletSafe
  BY DEF WalletInv, WalletSafe, WalletKept
<1> QED
  BY <1>1, WalletStart, WalletStep, PTL DEF WalletSpec

-----------------------------------------------------------------------------
(* A user's secrets (Secrets)                                              *)

CallFor(c, k) == secretCall[c] # NoSecretCall /\ secretCall[c].key = k

\* A key no two puts of which overlapped has one row, and no call is about to make another.
KeySingle(k) ==
  /\ \A i, j \in RowsOf(k) : i = j
  /\ \A c, d \in SecretCalls : CallFor(c, k) /\ CallFor(d, k) => c = d
  /\ \A c \in SecretCalls : CallFor(c, k) /\ secretCall[c].row = 0 => RowsOf(k) = {}

\* The row a call has found is gone or still the row of its key: ids are not used again.
FoundRow(c) ==
  secretCall[c] # NoSecretCall /\ secretCall[c].row # 0 =>
    LET r == secretCall[c].row IN
    r <= putsMade /\ (secretRows[r] = NoSecretRow \/ secretRows[r].key = secretCall[c].key)

SecretsInv ==
  /\ SecretsTypeOK
  /\ \A i \in PutIds : i > putsMade => secretRows[i] = NoSecretRow
  /\ \A c \in SecretCalls : FoundRow(c)
  /\ \A k \in Keys \ doubled : KeySingle(k)
  /\ pushed # NoPush => pushed \in snapshots

\* The call ends, and no key has got a row by it.
LEMMA CallEndKeepsSecrets ==
  ASSUME SecretsInv, NEW c \in SecretCalls, secretCall[c] # NoSecretCall,
         secretCall' = [secretCall EXCEPT ![c] = NoSecretCall],
         secretRows' \in [PutIds -> SecretRow \cup {NoSecretRow}],
         putsMade' \in 0..MaxPuts, putsMade <= putsMade',
         \A i \in PutIds : secretRows'[i] \in {secretRows[i], NoSecretRow}
                           \/ (secretRows[i] # NoSecretRow /\ secretRows'[i].key = secretRows[i].key),
         UNCHANGED <<pushed, vmCache, vmUp, snapshots, doubled>>
  PROVE  SecretsInv'
<1>1. SecretsTypeOK'
  BY DEF SecretsInv, SecretsTypeOK
<1>2. ASSUME NEW i \in PutIds, i > putsMade'
      PROVE  secretRows'[i] = NoSecretRow
  <2>1. putsMade \in Nat /\ putsMade' \in Nat /\ i \in Nat
    BY SecretsAssumption DEF SecretsInv, SecretsTypeOK, PutIds
  <2> QED
    BY <1>2, <2>1 DEF SecretsInv
<1>3. ASSUME NEW d \in SecretCalls, secretCall'[d] # NoSecretCall
      PROVE  d # c /\ secretCall'[d] = secretCall[d] /\ secretCall[d] \in SecretCall
  BY <1>3 DEF SecretsInv, SecretsTypeOK
<1>4. ASSUME NEW d \in SecretCalls
      PROVE  FoundRow(d)'
  <2> SUFFICES ASSUME secretCall'[d] # NoSecretCall, secretCall[d].row # 0
               PROVE  /\ secretCall[d].row <= putsMade'
                      /\ \/ secretRows'[secretCall[d].row] = NoSecretRow
                         \/ secretRows'[secretCall[d].row].key = secretCall[d].key
    BY <1>3 DEF FoundRow
  <2>1. FoundRow(d) /\ secretCall[d].row \in PutIds /\ secretCall[d] # NoSecretCall
    BY <1>3 DEF SecretsInv, SecretCall
  <2>2. putsMade \in Nat /\ putsMade' \in Nat /\ secretCall[d].row \in Nat
    BY <2>1, SecretsAssumption DEF SecretsInv, SecretsTypeOK, PutIds
  <2> QED
    BY <2>1, <2>2 DEF FoundRow
<1>5. ASSUME NEW k \in Keys \ doubled
      PROVE  KeySingle(k)'
  <2>1. RowsOf(k)' \subseteq RowsOf(k)
    BY DEF RowsOf, SecretsInv, SecretsTypeOK
  <2> QED
    BY <1>3, <2>1 DEF SecretsInv, KeySingle, CallFor
<1> QED
  BY <1>1, <1>2, <1>4, <1>5 DEF SecretsInv

LEMMA PutKeepsSecrets ==
  ASSUME SecretsInv, NEW c \in SecretCalls, PutCommits(c)
  PROVE  SecretsInv'
<1> DEFINE n == putsMade + 1
<1>1. /\ secretCall[c] # NoSecretCall /\ putsMade < MaxPuts /\ putsMade' = n
      /\ secretCall' = [secretCall EXCEPT ![c] = NoSecretCall]
      /\ UNCHANGED <<pushed, vmCache, vmUp, snapshots, doubled>>
  BY DEF PutCommits
<1>2. n \in PutIds /\ n \in 0..MaxPuts /\ putsMade \in Nat /\ putsMade < n
  BY <1>1, SecretsAssumption DEF SecretsInv, SecretsTypeOK, PutIds
<1>3. PICK row \in {0} \cup PutIds, key \in Keys :
        row = secretCall[c].row /\ key = secretCall[c].key
  BY <1>1 DEF SecretsInv, SecretsTypeOK, SecretCall
<1>4. PICK value \in SecretRow : value = [key |-> key, value |-> n]
  BY <1>2 DEF SecretRow
<1>5. value.key = key
  BY <1>4
<1>6. secretRows' = IF row = 0 THEN [secretRows EXCEPT ![n] = value]
                    ELSE IF secretRows[row] # NoSecretRow THEN [secretRows EXCEPT ![row] = value]
                    ELSE secretRows
  BY <1>1, <1>3, <1>4 DEF PutCommits
<1> HIDE DEF n
<1>7. secretRows' \in [PutIds -> SecretRow \cup {NoSecretRow}]
  BY <1>2, <1>6 DEF SecretsInv, SecretsTypeOK
<1>8. CASE row # 0
  <2>1. FoundRow(c) /\ (secretRows[row] # NoSecretRow => secretRows[row].key = key)
    BY <1>1, <1>3, <1>8 DEF SecretsInv, FoundRow
  <2>2. ASSUME NEW i \in PutIds
        PROVE  \/ secretRows'[i] \in {secretRows[i], NoSecretRow}
               \/ secretRows[i] # NoSecretRow /\ secretRows'[i].key = secretRows[i].key
    BY <1>5, <1>6, <1>8, <2>1 DEF SecretsInv, SecretsTypeOK
  <2>3. putsMade' \in 0..MaxPuts /\ putsMade <= putsMade'
    BY <1>1, <1>2
  <2> QED
    BY <1>1, <1>7, <2>2, <2>3, CallEndKeepsSecrets
<1>9. CASE row = 0
  <2>1. secretRows' = [secretRows EXCEPT ![n] = value] /\ secretRows[n] = NoSecretRow
    BY <1>2, <1>6, <1>9 DEF SecretsInv
  <2>2. SecretsTypeOK'
    BY <1>1, <1>2, <1>7 DEF SecretsInv, SecretsTypeOK
  <2>3. ASSUME NEW i \in PutIds, i > putsMade'
        PROVE  secretRows'[i] = NoSecretRow
    <3>1. i # n /\ i > putsMade
      BY <1>1, <1>2, <2>3 DEF PutIds
    <3> QED
      BY <2>1, <3>1 DEF SecretsInv, SecretsTypeOK
  <2>4. ASSUME NEW d \in SecretCalls, secretCall'[d] # NoSecretCall
        PROVE  d # c /\ secretCall'[d] = secretCall[d] /\ secretCall[d] \in SecretCall
    BY <1>1, <2>4 DEF SecretsInv, SecretsTypeOK
  <2>5. ASSUME NEW d \in SecretCalls
        PROVE  FoundRow(d)'
    <3> SUFFICES ASSUME secretCall'[d] # NoSecretCall, secretCall[d].row # 0
                 PROVE  /\ secretCall[d].row <= putsMade'
                        /\ \/ secretRows'[secretCall[d].row] = NoSecretRow
                           \/ secretRows'[secretCall[d].row].key = secretCall[d].key
      BY <2>4 DEF FoundRow
    <3>1. FoundRow(d) /\ secretCall[d].row \in PutIds /\ secretCall[d] # NoSecretCall
      BY <2>4 DEF SecretsInv, SecretCall
    <3>2. secretCall[d].row <= putsMade /\ secretCall[d].row # n /\ secretCall[d].row <= n
      BY <1>2, <3>1 DEF FoundRow, PutIds
    <3> QED
      BY <1>1, <2>1, <3>1, <3>2 DEF FoundRow, SecretsInv, SecretsTypeOK
  <2>6. ASSUME NEW k \in Keys \ doubled
        PROVE  KeySingle(k)'
    <3>1. CASE k = key
      <4>1. CallFor(c, k) /\ KeySingle(k)
        BY <1>1, <1>3, <3>1 DEF CallFor, SecretsInv
      <4>2. RowsOf(k) = {} /\ \A d \in SecretCalls : CallFor(d, k) => d = c
        BY <1>3, <1>9, <4>1 DEF KeySingle
      <4>3. RowsOf(k)' \subseteq {n}
        BY <2>1, <4>2 DEF RowsOf, SecretsInv, SecretsTypeOK
      <4>4. \A d \in SecretCalls : ~CallFor(d, k)'
        BY <2>4, <4>2 DEF CallFor
      <4> QED
        BY <4>3, <4>4 DEF KeySingle
    <3>2. CASE k # key
      <4>1. RowsOf(k)' \subseteq RowsOf(k)
        BY <1>5, <2>1, <3>2 DEF RowsOf, SecretsInv, SecretsTypeOK
      <4> QED
        BY <2>4, <4>1 DEF SecretsInv, KeySingle, CallFor
    <3> QED
      BY <3>1, <3>2
  <2> QED
    BY <1>1, <2>2, <2>3, <2>5, <2>6 DEF SecretsInv
<1> QED
  BY <1>8, <1>9

LEMMA LoadKeepsSecrets ==
  ASSUME SecretsInv, NEW c \in SecretCalls, NEW op \in {"put", "delete"}, NEW k \in Keys,
         SecretCallLoads(c, op, k)
  PROVE  SecretsInv'
<1>1. PICK r \in {0} \cup PutIds :
        /\ r = IF RowsOf(k) = {} THEN 0 ELSE CHOOSE i \in RowsOf(k) : TRUE
        /\ r = 0 => RowsOf(k) = {}
        /\ r # 0 => r \in RowsOf(k)
  <2>1. CASE RowsOf(k) = {}
    BY <2>1
  <2>2. CASE RowsOf(k) # {}
    <3>1. (CHOOSE i \in RowsOf(k) : TRUE) \in RowsOf(k) /\ RowsOf(k) \subseteq PutIds
      BY <2>2 DEF RowsOf
    <3>2. 0 \notin PutIds
      BY DEF PutIds
    <3> QED
      BY <2>2, <3>1, <3>2
  <2> QED
    BY <2>1, <2>2
<1>2. PICK v \in SecretCall : v = [op |-> op, key |-> k, row |-> r] /\ v.key = k /\ v.row = r
  <2>1. [op |-> op, key |-> k, row |-> r] \in SecretCall
    BY DEF SecretCall
  <2> QED
    BY <2>1
<1>3. /\ secretCall[c] = NoSecretCall
      /\ secretCall' = [secretCall EXCEPT ![c] = v]
      /\ doubled' = IF \E d \in SecretCalls : CallFor(d, k) THEN doubled \cup {k} ELSE doubled
      /\ UNCHANGED <<secretRows, putsMade, pushed, vmCache, vmUp, snapshots>>
  BY <1>1, <1>2 DEF SecretCallLoads, CallFor
<1>4. SecretsTypeOK'
  BY <1>3 DEF SecretsInv, SecretsTypeOK
<1>5. secretCall'[c] = v /\ \A d \in SecretCalls \ {c} : secretCall'[d] = secretCall[d]
  BY <1>3 DEF SecretsInv, SecretsTypeOK
<1>6. FoundRow(c)'
  <2>1. r # 0 => r <= putsMade /\ secretRows[r].key = k
    <3>1. r # 0 => r \in PutIds /\ secretRows[r] # NoSecretRow /\ secretRows[r].key = k
      BY <1>1 DEF RowsOf
    <3>2. r # 0 => ~(r > putsMade) /\ r \in Nat /\ putsMade \in Nat
      BY <3>1, SecretsAssumption DEF SecretsInv, PutIds, SecretsTypeOK
    <3> QED
      BY <3>1, <3>2
  <2> QED
    BY <1>2, <1>3, <1>5, <2>1 DEF FoundRow
<1>7. ASSUME NEW d \in SecretCalls \ {c}
      PROVE  FoundRow(d)'
  BY <1>3, <1>5 DEF SecretsInv, FoundRow
<1>8. ASSUME NEW j \in Keys \ doubled'
      PROVE  KeySingle(j)'
  <2>1. KeySingle(j) /\ RowsOf(j)' = RowsOf(j)
    BY <1>3 DEF SecretsInv, RowsOf
  <2>2. CASE j = k
    <3>1. \A d \in SecretCalls : ~CallFor(d, k)
      BY <1>3, <1>8, <2>2
    <3>2. \A d \in SecretCalls : CallFor(d, j)' => d = c
      BY <1>5, <2>2, <3>1 DEF CallFor
    <3> QED
      BY <1>1, <1>2, <1>5, <2>1, <2>2, <3>2 DEF KeySingle
  <2>3. CASE j # k
    <3>1. \A d \in SecretCalls : CallFor(d, j)' => CallFor(d, j) /\ secretCall'[d] = secretCall[d]
      BY <1>2, <1>5, <2>3 DEF CallFor
    <3> QED
      BY <2>1, <3>1 DEF KeySingle
  <2> QED
    BY <2>2, <2>3
<1> QED
  BY <1>3, <1>4, <1>6, <1>7, <1>8 DEF SecretsInv

LEMMA PushKeepsSecrets ==
  ASSUME SecretsInv, PushReads
  PROVE  SecretsInv'
<1>1. PICK legible \in SUBSET PutIds, read \in [Keys -> PutIds] :
        /\ \A k \in Keys : RowsOf(k) \cap legible # {} => read[k] \in RowsOf(k) \cap legible
        /\ pushed' = Payload(read, legible)
  BY DEF PushReads
<1>2. Payload(read, legible) \in Payloads
  <2> DEFINE ks == {j \in Keys : RowsOf(j) \cap legible # {}} \cup EnvKeys
  <2>1. ks \in SUBSET Keys
    BY SecretsAssumption
  <2>2. ASSUME NEW k \in ks, k \notin EnvKeys
        PROVE  secretRows[read[k]].value \in PutIds
    BY <1>1, <2>2 DEF RowsOf, SecretsInv, SecretsTypeOK, SecretRow
  <2>3. Payload(read, legible) \in [ks -> {EnvValue} \cup PutIds]
    BY <2>2 DEF Payload
  <2> HIDE DEF ks
  <2> QED
    BY <2>1, <2>3 DEF Payloads
<1>3. SecretsTypeOK'
  BY <1>1, <1>2 DEF PushReads, SecretsInv, SecretsTypeOK
<1> QED
  BY <1>3 DEF PushReads, SecretsInv, FoundRow, KeySingle, CallFor, RowsOf

\* What a refresh leaves in the cache is the whole payload.
LEMMA RefreshIsPayload ==
  ASSUME SecretsInv, pushed # NoPush, RefreshSecrets(DOMAIN pushed)
  PROVE  vmCache' = pushed /\ pushed \in Payloads
<1>1. pushed \in Payloads
  BY DEF SecretsInv, SecretsTypeOK
<1>2. PICK ks \in SUBSET Keys : pushed \in [ks -> {EnvValue} \cup PutIds]
  BY <1>1 DEF Payloads
<1> QED
  BY <1>1, <1>2 DEF RefreshSecrets

LEMMA EmptyPayload == [k \in {} |-> 0] \in Payloads
<1>1. [k \in {} |-> 0] \in [{} -> {EnvValue} \cup PutIds]
  OBVIOUS
<1> QED
  BY <1>1 DEF Payloads

LEMMA SecretsStep == SecretsInv /\ [SecretsNext]_secretsVars => SecretsInv'
<1> SUFFICES ASSUME SecretsInv, [SecretsNext]_secretsVars PROVE SecretsInv'
  OBVIOUS
<1>1. ASSUME NEW c \in SecretCalls, DeleteSecretCommits(c) \/ SecretCallFails(c)
      PROVE  SecretsInv'
  <2>1. PICK r \in {0} \cup PutIds : r = secretCall[c].row
    BY <1>1 DEF DeleteSecretCommits, SecretCallFails, SecretsInv, SecretsTypeOK, SecretCall
  <2>2. /\ secretCall[c] # NoSecretCall
        /\ secretCall' = [secretCall EXCEPT ![c] = NoSecretCall]
        /\ secretRows' = secretRows \/ (r # 0 /\ secretRows' = [secretRows EXCEPT ![r] = NoSecretRow])
        /\ UNCHANGED <<putsMade, pushed, vmCache, vmUp, snapshots, doubled>>
    BY <1>1, <2>1 DEF DeleteSecretCommits, SecretCallFails
  <2>3. /\ secretRows' \in [PutIds -> SecretRow \cup {NoSecretRow}]
        /\ \A i \in PutIds : secretRows'[i] \in {secretRows[i], NoSecretRow}
    BY <2>2 DEF SecretsInv, SecretsTypeOK
  <2>4. putsMade' \in 0..MaxPuts /\ putsMade <= putsMade'
    BY <2>2, SecretsAssumption DEF SecretsInv, SecretsTypeOK
  <2> QED
    BY <2>2, <2>3, <2>4, CallEndKeepsSecrets
<1>2. ASSUME UNCHANGED <<secretRows, putsMade, secretCall, doubled>>, SecretsTypeOK',
             pushed' # NoPush => pushed' \in snapshots'
      PROVE  SecretsInv'
  BY <1>2 DEF SecretsInv, FoundRow, KeySingle, CallFor, RowsOf
<1>3. CASE PushDone
  <2>1. vmCache' \in Payloads
    BY <1>3, RefreshIsPayload DEF PushDone, SecretsInv, SecretsTypeOK
  <2> QED
    BY <1>2, <1>3, <2>1 DEF PushDone, SecretsInv, SecretsTypeOK
<1>4. CASE VMGoesDown
  <2>1. vmCache' \in Payloads
    BY <1>4, EmptyPayload DEF VMGoesDown, SecretsInv, SecretsTypeOK
  <2> QED
    BY <1>2, <1>4, <2>1 DEF VMGoesDown, SecretsInv, SecretsTypeOK
<1>5. CASE UNCHANGED secretsVars
  BY <1>2, <1>5 DEF secretsVars, SecretsInv, SecretsTypeOK
<1> QED
  BY <1>1, <1>3, <1>4, <1>5, LoadKeepsSecrets, PutKeepsSecrets, PushKeepsSecrets DEF SecretsNext

LEMMA SecretsStart == SecretsInit => SecretsInv
<1> SUFFICES ASSUME SecretsInit PROVE SecretsInv
  OBVIOUS
<1>1. SecretsTypeOK
  <2>1. 0 \in 0..MaxPuts
    BY SecretsAssumption
  <2>2. vmCache \in Payloads
    BY EmptyPayload DEF SecretsInit
  <2> QED
    BY <2>1, <2>2 DEF SecretsInit, SecretsTypeOK
<1>2. \A k \in Keys : RowsOf(k) = {}
  BY DEF SecretsInit, RowsOf
<1>3. \A c \in SecretCalls : secretCall[c] = NoSecretCall
  BY DEF SecretsInit
<1> QED
  BY <1>1, <1>2, <1>3 DEF SecretsInit, SecretsInv, FoundRow, KeySingle, CallFor

LEMMA AtMostOne ==
  ASSUME NEW S, IsFiniteSet(S), \A i, j \in S : i = j
  PROVE  Cardinality(S) <= 1
<1>1. CASE S = {}
  BY <1>1, FS_EmptySet
<1>2. CASE S # {}
  <2>1. PICK x \in S : S = {x}
    BY <1>2
  <2> QED
    BY <2>1, FS_Singleton
<1> QED
  BY <1>1, <1>2

LEMMA SecretsImplies == SecretsInv => OneRowPerKey
<1> SUFFICES ASSUME SecretsInv, NEW k \in Keys \ doubled PROVE Cardinality(RowsOf(k)) <= 1
  BY DEF OneRowPerKey
<1>1. IsFiniteSet(PutIds)
  BY FS_Interval, SecretsAssumption DEF PutIds
<1>2. IsFiniteSet(RowsOf(k))
  BY <1>1, FS_Subset DEF RowsOf
<1> QED
  BY <1>2, AtMostOne DEF SecretsInv, KeySingle

\* The cache only ever changes to one payload as it was read, or is emptied.
LEMMA CacheStep ==
  SecretsInv /\ [SecretsNext]_secretsVars =>
    [vmCache' # vmCache /\ DOMAIN vmCache' # {} => vmCache' \in snapshots]_secretsVars
<1> SUFFICES ASSUME SecretsInv, SecretsNext, vmCache' # vmCache, DOMAIN vmCache' # {}
             PROVE  vmCache' \in snapshots
  BY DEF secretsVars
<1>1. CASE PushDone
  BY <1>1, RefreshIsPayload DEF PushDone, SecretsInv
<1>2. CASE VMGoesDown
  BY <1>2 DEF VMGoesDown
<1>3. CASE PushReads
  BY <1>3 DEF PushReads
<1>4. ASSUME NEW c \in SecretCalls
      PROVE  /\ PutCommits(c) \/ DeleteSecretCommits(c) \/ SecretCallFails(c) => vmCache' = vmCache
             /\ \A op \in {"put", "delete"}, k \in Keys : SecretCallLoads(c, op, k) => vmCache' = vmCache
  BY DEF PutCommits, DeleteSecretCommits, SecretCallFails, SecretCallLoads
<1> QED
  BY <1>1, <1>2, <1>3, <1>4 DEF SecretsNext

\* SecretsSafe: a key keeps one row, and a VM's keys were in the table together.
THEOREM SecretsProved == SecretsSpec => SecretsSafe
<1>1. SecretsSpec => []SecretsInv
  BY SecretsStart, SecretsStep, PTL DEF SecretsSpec
<1>2. SecretsSpec => CacheIsOneSnapshot
  BY <1>1, CacheStep, PTL DEF SecretsSpec, CacheIsOneSnapshot
<1> QED
  BY <1>1, <1>2, SecretsImplies, PTL DEF SecretsSafe

-----------------------------------------------------------------------------
(* The cache of candles (CandleCache)                                      *)

\* A pair no two first fetches of which overlapped has one row, and whoever is about to make
\* it one is alone.
PairSingle(p) ==
  /\ \A i, j \in CandleRowsOf(p) : i = j
  /\ \A c \in CandleCalls : candleCall[c].pair = p /\ candleCall[c].row = 0 =>
       /\ CandleRowsOf(p) = {} /\ job.pair # p
       /\ \A d \in CandleCalls \ {c} : candleCall[d].pair # p
  /\ job.pair = p /\ job.row = 0 => CandleRowsOf(p) = {}

CallSound(c) ==
  /\ candleCall[c].now <= candleClock
  /\ candleCall[c].pair # NoPair /\ candleCall[c].row # 0 =>
       candleRows[candleCall[c].row].pair = candleCall[c].pair

JobSound ==
  /\ job.row # -1 => job.pair # NoPair /\ job.at \in {NoCandles, candleClock}
  /\ job.row \notin {-1, 0} => candleRows[job.row].pair = job.pair

CandleInv ==
  /\ CandleTypeOK /\ FreshMeansRecent /\ JobSound
  /\ \A c \in CandleCalls : CallSound(c)
  /\ \A p \in Pairs \ raced : PairSingle(p)

LEMMA CandleTypes ==
  /\ Waiting \in [pair : Pairs \cup {NoPair}, row : {0} \cup CandleRowIds, now : CandleTime]
  /\ Waiting.pair = NoPair /\ Waiting.now = 0
  /\ NoJob \in [left : SUBSET Pairs, pair : Pairs \cup {NoPair}, since : CandleTime,
                row : {-1, 0} \cup CandleRowIds, at : {NoCandles} \cup CandleTime]
  /\ NoJob.pair = NoPair /\ NoJob.row = -1
  /\ CandleTime \subseteq Nat /\ CandleRowIds \subseteq Nat \ {0} /\ 0 \in CandleTime /\ NoPair \notin Pairs
<1>1. 0 \in CandleTime /\ CandleTime \subseteq Nat /\ CandleRowIds \subseteq Nat \ {0} /\ NoPair \notin Pairs
  BY CandleAssumption DEF CandleTime, CandleRowIds, NoPair
<1> QED
  BY <1>1 DEF Waiting, NoJob

\* The job goes to its next pair, or ends.
LEMMA NextPairType ==
  ASSUME CandleInv
  PROVE  /\ NextPair \in [left : SUBSET Pairs, pair : Pairs \cup {NoPair}, since : CandleTime,
                          row : {-1, 0} \cup CandleRowIds, at : {NoCandles} \cup CandleTime]
         /\ NextPair.pair = NoPair /\ NextPair.row = -1
<1>1. job.left \in SUBSET Pairs
  BY DEF CandleInv, CandleTypeOK
<1> QED
  BY <1>1, CandleTypes DEF NextPair, NoJob

\* Which row Stored writes, and what it leaves alone.
LEMMA StoredRow ==
  ASSUME CandleInv, NEW i \in {0} \cup CandleRowIds, NEW p \in Pairs, NEW at \in {NoCandles} \cup CandleTime,
         NEW stamp \in CandleTime, i # 0 => candleRows[i].pair = p, i = 0 => ~RowsFull,
         candleRows' = Stored(i, p, at, stamp)
  PROVE  \E j \in CandleRowIds :
           /\ candleRows[j].pair \in {p, NoPair} /\ (i # 0 => candleRows[j].pair = p)
           /\ candleRows'[j].pair = p /\ candleRows'[j].at = at /\ candleRows'[j].stamp = stamp
           /\ \A k \in CandleRowIds \ {j} : candleRows'[k] = candleRows[k]
           /\ candleRows' \in [CandleRowIds -> CandleRow]
<1>1. PICK j \in CandleRowIds :
        /\ candleRows[j].pair \in {p, NoPair} /\ (i # 0 => candleRows[j].pair = p)
        /\ candleRows' = [candleRows EXCEPT ![j] = [pair |-> p, at |-> at, stamp |-> stamp]]
  <2>1. CASE i # 0
    BY <2>1 DEF Stored
  <2>2. CASE i = 0
    <3> DEFINE j == CHOOSE k \in CandleRowIds : candleRows[k].pair = NoPair
    <3>1. j \in CandleRowIds /\ candleRows[j].pair = NoPair
      BY <2>2 DEF RowsFull
    <3>2. candleRows' = [candleRows EXCEPT ![j] = [pair |-> p, at |-> at, stamp |-> stamp]]
      BY <2>2 DEF Stored
    <3> HIDE DEF j
    <3> QED
      BY <2>2, <3>1, <3>2
  <2> QED
    BY <2>1, <2>2
<1>2. PICK r \in CandleRow : r = [pair |-> p, at |-> at, stamp |-> stamp]
  BY DEF CandleRow
<1>3. r.pair = p /\ r.at = at /\ r.stamp = stamp
  BY <1>2
<1>4. candleRows' = [candleRows EXCEPT ![j] = r]
  BY <1>1, <1>2
<1>5. candleRows \in [CandleRowIds -> CandleRow]
  BY DEF CandleInv, CandleTypeOK
<1>6. /\ candleRows'[j] = r /\ candleRows' \in [CandleRowIds -> CandleRow]
      /\ \A k \in CandleRowIds \ {j} : candleRows'[k] = candleRows[k]
  BY <1>4, <1>5
<1> QED
  BY <1>1, <1>3, <1>6

\* A fetch or the job's look-up stores what it got and is over.
LEMMA StoreKeepsCandles ==
  ASSUME CandleInv, NEW i \in {0} \cup CandleRowIds, NEW p \in Pairs, NEW at \in {NoCandles, candleClock},
         NEW stamp \in CandleTime, stamp <= candleClock,
         i # 0 => candleRows[i].pair = p, i = 0 => ~RowsFull,
         candleRows' = Stored(i, p, at, stamp), UNCHANGED <<candleClock, tracked, raced>>,
         CandleTypeOK',
         \A c \in CandleCalls : candleCall'[c] = candleCall[c]
                                \/ (candleCall'[c].pair = NoPair /\ candleCall'[c].now = 0),
         job' = job \/ (job'.pair = NoPair /\ job'.row = -1),
         \* in a pair that was never raced, the row is the first and no one else makes one
         p \notin raced /\ i = 0 =>
           /\ CandleRowsOf(p) = {} /\ job'.pair # p
           /\ \A c \in CandleCalls : candleCall'[c].pair = p => candleCall'[c].row # 0
  PROVE  CandleInv'
<1>1. PICK j \in CandleRowIds :
        /\ candleRows[j].pair \in {p, NoPair} /\ (i # 0 => candleRows[j].pair = p)
        /\ candleRows'[j].pair = p /\ candleRows'[j].at = at /\ candleRows'[j].stamp = stamp
        /\ \A k \in CandleRowIds \ {j} : candleRows'[k] = candleRows[k]
  <2>1. at \in {NoCandles} \cup CandleTime
    BY DEF CandleInv, CandleTypeOK
  <2> QED
    BY <2>1, StoredRow
<1>2. candleClock \in Nat /\ stamp \in Nat
  BY CandleTypes DEF CandleInv, CandleTypeOK
<1>3. FreshMeansRecent'
  <2>1. ASSUME NEW k \in CandleRowIds, candleRows'[k].at # NoCandles
        PROVE  candleRows'[k].stamp <= candleRows'[k].at + 1
    <3>1. CASE k = j
      BY <1>1, <1>2, <2>1, <3>1
    <3>2. CASE k # j
      BY <1>1, <2>1, <3>2 DEF CandleInv, FreshMeansRecent
    <3> QED
      BY <3>1, <3>2
  <2> QED
    BY <2>1 DEF FreshMeansRecent
<1>4. \A k \in CandleRowIds, q \in Pairs : candleRows[k].pair = q => candleRows'[k].pair = q
  BY <1>1, CandleTypes
<1>5. ASSUME NEW c \in CandleCalls
      PROVE  CallSound(c)'
  <2>1. CASE candleCall'[c] = candleCall[c]
    <3>1. candleCall[c].pair \in Pairs \cup {NoPair} /\ candleCall[c].row \in {0} \cup CandleRowIds
      BY DEF CandleInv, CandleTypeOK
    <3> QED
      BY <1>4, <2>1, <3>1 DEF CallSound, CandleInv
  <2>2. CASE candleCall'[c].pair = NoPair /\ candleCall'[c].now = 0
    BY <1>2, <2>2 DEF CallSound
  <2> QED
    BY <2>1, <2>2
<1>6. JobSound'
  <2>1. CASE job' = job
    <3>1. job.pair \in Pairs \cup {NoPair} /\ job.row \in {-1, 0} \cup CandleRowIds
      BY DEF CandleInv, CandleTypeOK
    <3>2. job.row # -1 => job.pair \in Pairs
      BY <3>1 DEF CandleInv, JobSound
    <3> QED
      BY <1>4, <2>1, <3>1, <3>2 DEF CandleInv, JobSound
  <2>2. CASE job'.pair = NoPair /\ job'.row = -1
    BY <2>2 DEF JobSound
  <2> QED
    BY <2>1, <2>2
<1>7. ASSUME NEW q \in Pairs \ raced
      PROVE  PairSingle(q)'
  <2>1. PairSingle(q)
    BY DEF CandleInv
  <2>2. ASSUME NEW c \in CandleCalls, candleCall'[c].pair = q
        PROVE  candleCall'[c] = candleCall[c]
    BY <2>2, CandleTypes
  <2>3. job'.pair = q => job' = job
    BY CandleTypes
  <2>4. CASE q = p /\ i = 0
    <3>1. CandleRowsOf(q)' \subseteq {j}
      BY <1>1, <2>4 DEF CandleRowsOf
    <3> QED
      BY <2>4, <3>1 DEF PairSingle
  <2>5. CASE q # p \/ i # 0
    <3>1. CandleRowsOf(q)' \subseteq CandleRowsOf(q)
      BY <1>1, <2>5 DEF CandleRowsOf
    <3> QED
      BY <2>1, <2>2, <2>3, <3>1 DEF PairSingle
  <2> QED
    BY <2>4, <2>5
<1> QED
  BY <1>3, <1>5, <1>6, <1>7 DEF CandleInv

LEMMA AskedKeepsCandles ==
  ASSUME CandleInv, NEW c \in CandleCalls, NEW p \in Pairs, CandlesAsked(c, p)
  PROVE  CandleInv'
<1>1. CASE UNCHANGED <<candleCall, raced>>
  BY <1>1 DEF CandlesAsked, CandleInv, CandleTypeOK, FreshMeansRecent, JobSound, CallSound,
              PairSingle, CandleRowsOf
<1>2. CASE ~UNCHANGED <<candleCall, raced>>
  <2>1. PICK r \in {0} \cup CandleRowIds :
          /\ r = IF CandleRowsOf(p) = {} THEN 0 ELSE CHOOSE i \in CandleRowsOf(p) : TRUE
          /\ r = 0 => CandleRowsOf(p) = {}
          /\ r # 0 => r \in CandleRowsOf(p)
    <3>1. CASE CandleRowsOf(p) = {}
      BY <3>1
    <3>2. CASE CandleRowsOf(p) # {}
      <4>1. (CHOOSE i \in CandleRowsOf(p) : TRUE) \in CandleRowsOf(p) /\ CandleRowsOf(p) \subseteq CandleRowIds
        BY <3>2 DEF CandleRowsOf
      <4> QED
        BY <3>2, <4>1, CandleTypes
    <3> QED
      BY <3>1, <3>2
  <2>2. candleClock \in CandleTime /\ candleClock \in Nat
    BY CandleTypes DEF CandleInv, CandleTypeOK
  <2>3. PICK v \in [pair : Pairs \cup {NoPair}, row : {0} \cup CandleRowIds, now : CandleTime] :
          v = [pair |-> p, row |-> r, now |-> candleClock]
    BY <2>2
  <2>4. v.pair = p /\ v.row = r /\ v.now = candleClock
    BY <2>3
  <2>5. /\ candleCall' = [candleCall EXCEPT ![c] = v]
        /\ raced' = IF r = 0 /\ (job.pair = p \/ \E d \in CandleCalls : candleCall[d].pair = p)
                    THEN raced \cup {p} ELSE raced
        /\ UNCHANGED <<candleClock, candleRows, job>> /\ candleCall[c].pair = NoPair
        /\ tracked' = tracked \cup {p}
    BY <1>2, <2>1, <2>3 DEF CandlesAsked
  <2>6. candleCall'[c] = v /\ \A d \in CandleCalls \ {c} : candleCall'[d] = candleCall[d]
    BY <2>5 DEF CandleInv, CandleTypeOK
  <2>7. CandleTypeOK'
    BY <2>5 DEF CandleInv, CandleTypeOK
  <2>8. FreshMeansRecent' /\ JobSound'
    BY <2>5 DEF CandleInv, FreshMeansRecent, JobSound
  <2>9. ASSUME NEW d \in CandleCalls
        PROVE  CallSound(d)'
    <3>1. CASE d = c
      BY <2>1, <2>2, <2>4, <2>5, <2>6, <3>1 DEF CallSound, CandleRowsOf
    <3>2. CASE d # c
      BY <2>5, <2>6, <3>2 DEF CallSound, CandleInv
    <3> QED
      BY <3>1, <3>2
  <2>10. ASSUME NEW q \in Pairs \ raced'
         PROVE  PairSingle(q)'
    <3>1. PairSingle(q) /\ CandleRowsOf(q)' = CandleRowsOf(q) /\ job' = job
      BY <2>5 DEF CandleInv, CandleRowsOf
    <3>2. CASE q # p
      BY <2>4, <2>6, <3>1, <3>2 DEF PairSingle
    <3>3. CASE q = p /\ r # 0
      BY <2>1, <2>4, <2>6, <3>1, <3>3 DEF PairSingle
    <3>4. CASE q = p /\ r = 0
      <4>1. job.pair # p /\ \A d \in CandleCalls : candleCall[d].pair # p
        BY <2>5, <2>10, <3>4
      <4> QED
        BY <2>1, <2>4, <2>6, <3>1, <3>4, <4>1 DEF PairSingle
    <3> QED
      BY <3>2, <3>3, <3>4
  <2> QED
    BY <2>7, <2>8, <2>9, <2>10 DEF CandleInv
<1> QED
  BY <1>1, <1>2

LEMMA FetchKeepsCandles ==
  ASSUME CandleInv, NEW c \in CandleCalls,
         CandleFetchFails(c) \/ \E at \in {NoCandles} \cup CandleTime : CandlesFetched(c, at)
  PROVE  CandleInv'
<1>1. /\ candleCall' = [candleCall EXCEPT ![c] = Waiting] /\ candleCall[c].pair \in Pairs
      /\ candleCall[c].row \in {0} \cup CandleRowIds /\ candleCall[c].now \in CandleTime
      /\ candleCall[c].now <= candleClock
      /\ UNCHANGED <<candleClock, tracked, job, raced>>
  BY DEF CandleFetchFails, CandlesFetched, CandleInv, CandleTypeOK, CallSound
<1>2. \A d \in CandleCalls : candleCall'[d] = IF d = c THEN Waiting ELSE candleCall[d]
  BY <1>1 DEF CandleInv, CandleTypeOK
<1>3. ASSUME candleRows' \in [CandleRowIds -> CandleRow]
      PROVE  CandleTypeOK'
  BY <1>1, <1>3, CandleTypes DEF CandleInv, CandleTypeOK
<1>4. CASE CandleFetchFails(c)
  <2>1. candleRows' = candleRows /\ CandleTypeOK'
    BY <1>3, <1>4 DEF CandleFetchFails, CandleInv, CandleTypeOK
  <2>2. ASSUME NEW d \in CandleCalls
        PROVE  CallSound(d)'
    <3>1. 0 <= candleClock
      BY CandleTypes DEF CandleInv, CandleTypeOK
    <3> QED
      BY <1>1, <1>2, <2>1, <3>1, CandleTypes DEF CallSound, CandleInv
  <2>3. ASSUME NEW q \in Pairs \ raced
        PROVE  PairSingle(q)'
    BY <1>1, <1>2, <2>1, CandleTypes DEF PairSingle, CandleInv, CandleRowsOf
  <2> QED
    BY <1>1, <2>1, <2>2, <2>3 DEF CandleInv, FreshMeansRecent, JobSound
<1>5. ASSUME NEW at \in {NoCandles} \cup CandleTime, CandlesFetched(c, at)
      PROVE  CandleInv'
  <2>1. PICK i \in {0} \cup CandleRowIds, p \in Pairs, stamp \in CandleTime :
          i = candleCall[c].row /\ p = candleCall[c].pair /\ stamp = candleCall[c].now
    BY <1>1
  <2>2. /\ at \in {NoCandles, candleClock} /\ candleRows' = Stored(i, p, at, stamp)
        /\ i = 0 => ~RowsFull
    BY <1>5, <2>1 DEF CandlesFetched
  <2>3. i # 0 => candleRows[i].pair = p
    BY <2>1, CandleTypes DEF CandleInv, CallSound
  <2>4. CandleTypeOK'
    BY <1>3, <2>2, <2>3, StoredRow
  <2>5. p \notin raced /\ i = 0 =>
          /\ CandleRowsOf(p) = {} /\ job'.pair # p
          /\ \A d \in CandleCalls : candleCall'[d].pair = p => candleCall'[d].row # 0
    <3> SUFFICES ASSUME p \notin raced, i = 0
                 PROVE  /\ CandleRowsOf(p) = {} /\ job'.pair # p
                        /\ \A d \in CandleCalls : candleCall'[d].pair = p => candleCall'[d].row # 0
      OBVIOUS
    <3>1. PairSingle(p)
      BY DEF CandleInv
    <3>2. /\ CandleRowsOf(p) = {} /\ job.pair # p
          /\ \A d \in CandleCalls \ {c} : candleCall[d].pair # p
      BY <2>1, <3>1 DEF PairSingle
    <3>3. \A d \in CandleCalls : candleCall'[d].pair # p
      BY <1>2, <3>2, CandleTypes
    <3> QED
      BY <1>1, <3>2, <3>3
  <2>6. \A d \in CandleCalls : candleCall'[d] = candleCall[d]
                               \/ (candleCall'[d].pair = NoPair /\ candleCall'[d].now = 0)
    BY <1>2, CandleTypes
  <2> QED
    BY <1>1, <2>1, <2>2, <2>3, <2>4, <2>5, <2>6, StoreKeepsCandles
<1> QED
  BY <1>4, <1>5

LEMMA JobTakesKeepsCandles ==
  ASSUME CandleInv, NEW p \in Pairs, JobTakes(p)
  PROVE  CandleInv'
<1>1. /\ job.pair = NoPair /\ job' = [NoJob EXCEPT !.left = job.left \ {p}, !.pair = p, !.since = candleClock]
      /\ raced' = IF CandleRowsOf(p) = {} /\ \E d \in CandleCalls : candleCall[d].pair = p
                  THEN raced \cup {p} ELSE raced
      /\ UNCHANGED <<candleClock, tracked, candleRows, candleCall>>
  BY DEF JobTakes
<1>2. job'.pair = p /\ job'.row = -1
  BY <1>1 DEF NoJob
<1>3. job' \in [left : SUBSET Pairs, pair : Pairs \cup {NoPair}, since : CandleTime,
                row : {-1, 0} \cup CandleRowIds, at : {NoCandles} \cup CandleTime]
  <2>1. job.left \ {p} \in SUBSET Pairs /\ candleClock \in CandleTime
    BY DEF CandleInv, CandleTypeOK
  <2> QED
    BY <1>1, <2>1 DEF NoJob
<1>4. CandleTypeOK'
  BY <1>1, <1>3 DEF CandleInv, CandleTypeOK
<1>5. FreshMeansRecent' /\ JobSound' /\ \A c \in CandleCalls : CallSound(c)'
  BY <1>1, <1>2 DEF CandleInv, FreshMeansRecent, JobSound, CallSound
<1>6. ASSUME NEW q \in Pairs \ raced'
      PROVE  PairSingle(q)'
  <2>1. PairSingle(q) /\ CandleRowsOf(q)' = CandleRowsOf(q) /\ candleCall' = candleCall
    BY <1>1 DEF CandleInv, CandleRowsOf
  <2>2. q = p => CandleRowsOf(p) # {} \/ \A d \in CandleCalls : candleCall[d].pair # p
    BY <1>1, <1>6
  <2> QED
    BY <1>2, <2>1, <2>2 DEF PairSingle
<1> QED
  BY <1>4, <1>5, <1>6 DEF CandleInv

LEMMA JobLooksKeepsCandles ==
  ASSUME CandleInv, NEW at \in {NoCandles} \cup CandleTime, JobLooks(at)
  PROVE  CandleInv'
<1> DEFINE found == CandleRowsOf(job.pair)
<1>1. /\ job.pair \in Pairs /\ at \in {NoCandles, candleClock}
      /\ job \in [left : SUBSET Pairs, pair : Pairs \cup {NoPair}, since : CandleTime,
                  row : {-1, 0} \cup CandleRowIds, at : {NoCandles} \cup CandleTime]
      /\ UNCHANGED <<candleClock, tracked, candleRows, candleCall, raced>>
  BY DEF JobLooks, CandleInv, CandleTypeOK
<1>2. PICK r \in {0} \cup CandleRowIds :
        /\ r = IF found = {} THEN 0 ELSE CHOOSE i \in found : TRUE
        /\ r = 0 => found = {}
        /\ r # 0 => r \in found
  <2>1. CASE found = {}
    BY <2>1
  <2>2. CASE found # {}
    <3>1. (CHOOSE i \in found : TRUE) \in found /\ found \subseteq CandleRowIds
      BY <2>2 DEF CandleRowsOf
    <3> QED
      BY <2>2, <3>1, CandleTypes
  <2> QED
    BY <2>1, <2>2
<1>3. job' = NoJob \/ job' = [job EXCEPT !.at = at, !.row = r]
  BY <1>2 DEF JobLooks
<1>4. /\ job' \in [left : SUBSET Pairs, pair : Pairs \cup {NoPair}, since : CandleTime,
                   row : {-1, 0} \cup CandleRowIds, at : {NoCandles} \cup CandleTime]
      /\ \/ job'.pair = NoPair /\ job'.row = -1
         \/ job'.pair = job.pair /\ job'.row = r /\ job'.at = at
  BY <1>1, <1>3, CandleTypes
<1>5. CandleTypeOK'
  BY <1>1, <1>4 DEF CandleInv, CandleTypeOK
<1>6. JobSound'
  BY <1>1, <1>2, <1>4, CandleTypes DEF JobSound, CandleRowsOf
<1>7. FreshMeansRecent' /\ \A c \in CandleCalls : CallSound(c)'
  BY <1>1 DEF CandleInv, FreshMeansRecent, CallSound
<1>8. ASSUME NEW q \in Pairs \ raced
      PROVE  PairSingle(q)'
  <2>1. PairSingle(q) /\ CandleRowsOf(q)' = CandleRowsOf(q) /\ candleCall' = candleCall
    BY <1>1 DEF CandleInv, CandleRowsOf
  <2>2. job'.pair = q => job.pair = q /\ job'.row = r
    BY <1>4, CandleTypes
  <2> QED
    BY <1>2, <2>1, <2>2 DEF PairSingle
<1> QED
  BY <1>1, <1>5, <1>6, <1>7, <1>8 DEF CandleInv

LEMMA JobCommitsKeepsCandles ==
  ASSUME CandleInv, JobCommits
  PROVE  CandleInv'
<1>1. /\ job.row # -1 /\ job.pair \in Pairs /\ job.row \in {0} \cup CandleRowIds
      /\ job.at \in {NoCandles, candleClock} /\ candleClock \in CandleTime
  BY DEF JobCommits, CandleInv, CandleTypeOK, JobSound
<1>2. PICK i \in {0} \cup CandleRowIds, p \in Pairs, at \in {NoCandles, candleClock}, stamp \in CandleTime :
        i = job.row /\ p = job.pair /\ at = job.at /\ stamp = candleClock
  BY <1>1
<1>3. /\ candleRows' = Stored(i, p, at, stamp) /\ (i = 0 => ~RowsFull) /\ job' = NextPair
      /\ UNCHANGED <<candleClock, tracked, candleCall, raced>>
  BY <1>2 DEF JobCommits
<1>4. i # 0 => candleRows[i].pair = p
  BY <1>1, <1>2 DEF CandleInv, JobSound
<1>5. candleRows' \in [CandleRowIds -> CandleRow]
  <2>1. at \in {NoCandles} \cup CandleTime
    BY <1>1
  <2> QED
    BY <1>3, <1>4, <2>1, StoredRow
<1>6. CandleTypeOK' /\ job'.pair = NoPair /\ job'.row = -1
  BY <1>3, <1>5, NextPairType DEF CandleInv, CandleTypeOK
<1>7. p \notin raced /\ i = 0 =>
        /\ CandleRowsOf(p) = {} /\ job'.pair # p
        /\ \A d \in CandleCalls : candleCall'[d].pair = p => candleCall'[d].row # 0
  BY <1>2, <1>3, <1>6, CandleTypes DEF CandleInv, PairSingle
<1>8. stamp <= candleClock
  BY <1>1, <1>2, CandleTypes
<1> QED
  BY <1>3, <1>2, <1>4, <1>6, <1>7, <1>8, StoreKeepsCandles

LEMMA CandleStep == CandleInv /\ [CandleNext]_candleVars => CandleInv'
<1> SUFFICES ASSUME CandleInv, [CandleNext]_candleVars PROVE CandleInv'
  OBVIOUS
<1>1. ASSUME UNCHANGED <<candleRows, candleCall, raced>>, CandleTypeOK', candleClock <= candleClock',
             \/ job' = job /\ candleClock' = candleClock
             \/ job'.pair = NoPair /\ job'.row = -1
             \/ job' = job /\ job.row = -1
      PROVE  CandleInv'
  <2>1. JobSound' /\ FreshMeansRecent'
    BY <1>1 DEF CandleInv, JobSound, FreshMeansRecent
  <2>2. ASSUME NEW c \in CandleCalls
        PROVE  CallSound(c)'
    <3>1. candleCall[c].now \in Nat /\ candleClock \in Nat /\ candleClock' \in Nat
      BY <1>1, CandleTypes DEF CandleInv, CandleTypeOK
    <3> QED
      BY <1>1, <3>1 DEF CandleInv, CallSound
  <2>3. ASSUME NEW q \in Pairs \ raced
        PROVE  PairSingle(q)'
    <3>1. job'.pair = q => job' = job
      BY <1>1, CandleTypes
    <3> QED
      BY <1>1, <3>1 DEF CandleInv, PairSingle, CandleRowsOf
  <2> QED
    BY <1>1, <2>1, <2>2, <2>3 DEF CandleInv
<1>2. candleClock \in Nat /\ candleClock <= candleClock
  BY CandleTypes DEF CandleInv, CandleTypeOK
<1>3. CASE CandleTick
  <2>1. candleClock' \in CandleTime /\ candleClock <= candleClock'
    BY <1>2, <1>3, CandleAssumption DEF CandleTick, CandleTime
  <2>2. CandleTypeOK'
    BY <1>3, <2>1 DEF CandleTick, CandleInv, CandleTypeOK
  <2>3. job.row = -1
    BY <1>3 DEF CandleTick, FetchOverdue, CandleInv, JobSound
  <2> QED
    BY <1>1, <1>3, <2>1, <2>2, <2>3 DEF CandleTick
<1>4. CASE JobStarts
  <2>1. /\ job' \in [left : SUBSET Pairs, pair : Pairs \cup {NoPair}, since : CandleTime,
                     row : {-1, 0} \cup CandleRowIds, at : {NoCandles} \cup CandleTime]
        /\ job'.pair = NoPair /\ job'.row = -1
    <3>1. job = NoJob /\ job' = [NoJob EXCEPT !.left = tracked] /\ tracked \in SUBSET Pairs
      BY <1>4 DEF JobStarts, CandleInv, CandleTypeOK
    <3> QED
      BY <3>1, CandleTypes DEF NoJob
  <2>2. CandleTypeOK'
    BY <1>4, <2>1 DEF JobStarts, CandleInv, CandleTypeOK
  <2> QED
    BY <1>1, <1>2, <1>4, <2>1, <2>2 DEF JobStarts
<1>5. CASE JobFetchFails
  <2>1. CandleTypeOK'
    BY <1>5, NextPairType DEF JobFetchFails, CandleInv, CandleTypeOK
  <2> QED
    BY <1>1, <1>2, <1>5, <2>1, NextPairType DEF JobFetchFails
<1>6. CASE UNCHANGED candleVars
  BY <1>1, <1>2, <1>6 DEF candleVars, CandleInv, CandleTypeOK
<1> QED
  BY <1>3, <1>4, <1>5, <1>6, AskedKeepsCandles, FetchKeepsCandles, JobTakesKeepsCandles,
     JobLooksKeepsCandles, JobCommitsKeepsCandles
  DEF CandleNext

LEMMA CandleStart == CandleInit => CandleInv
<1> SUFFICES ASSUME CandleInit PROVE CandleInv
  OBVIOUS
<1>1. NoCandleRow \in CandleRow /\ NoCandleRow.pair = NoPair /\ NoCandleRow.at = NoCandles
  BY CandleTypes DEF NoCandleRow, CandleRow
<1>2. CandleTypeOK
  BY <1>1, CandleTypes DEF CandleInit, CandleTypeOK
<1>3. FreshMeansRecent /\ JobSound
  BY <1>1, CandleTypes DEF CandleInit, FreshMeansRecent, JobSound
<1>4. \A c \in CandleCalls : CallSound(c)
  BY CandleTypes DEF CandleInit, CallSound
<1>5. ASSUME NEW p \in Pairs
      PROVE  PairSingle(p)
  <2>1. CandleRowsOf(p) = {}
    BY <1>1, CandleTypes DEF CandleInit, CandleRowsOf
  <2> QED
    BY <2>1, CandleTypes DEF CandleInit, PairSingle
<1> QED
  BY <1>2, <1>3, <1>4, <1>5 DEF CandleInv

LEMMA CandlesImplied == CandleInv => CandlesSound
<1> SUFFICES ASSUME CandleInv PROVE CandlesSound
  OBVIOUS
<1>1. ASSUME NEW p \in Pairs, p \notin raced
      PROVE  ~(Cardinality(CandleRowsOf(p)) > 1)
  <2>1. IsFiniteSet(CandleRowIds)
    BY FS_Interval, CandleAssumption DEF CandleRowIds
  <2>2. IsFiniteSet(CandleRowsOf(p))
    BY <2>1, FS_Subset DEF CandleRowsOf
  <2>3. Cardinality(CandleRowsOf(p)) <= 1 /\ Cardinality(CandleRowsOf(p)) \in Nat
    BY <1>1, <2>2, AtMostOne, FS_CardinalityType DEF CandleInv, PairSingle
  <2> QED
    BY <2>3
<1> QED
  BY <1>1 DEF CandleInv, CandlesSound, DoubleRowOnlyByOverlap

\* CandlesSound: the requests and the refresh job make no old candles look new, and a second
\* row of a pair only when two first fetches overlapped.
THEOREM CandlesProved == CandleSpec => []CandlesSound
BY CandleStart, CandleStep, CandlesImplied, PTL DEF CandleSpec

-----------------------------------------------------------------------------
(* Sign-in and signed requests (SignIn)                                    *)

USE DEF numberHistory

Provisioning(c) == Verifying(c, "user") \/ Verifying(c, "insert") \/ Verifying(c, "provision")

\* A call holds a user row in its transaction just when its wallet has none committed, and
\* no two calls hold one of the same wallet.
UsersInv ==
  /\ OneUserPerWallet
  /\ \A c \in AuthCalls : Verifying(c, "user") \/ Verifying(c, "insert") => ~authCall[c].new
  /\ \A c \in AuthCalls : Verifying(c, "provision") => (authCall[c].new <=> userRows[WalletOf(c)] = 0)
  /\ \A c, d \in AuthCalls : HoldsUser(c) /\ HoldsUser(d) /\ WalletOf(c) = WalletOf(d) => c = d

\* The number stored for a session, and the one that a request has loaded, was accepted
\* before; and as long as no request was overtaken, the stored one is the highest.
RequestSound(c) ==
  Requesting(c) =>
    /\ sessions[authCall[c].session] # NoSession
    /\ authCall[c].last \in accepted[authCall[c].session] \cup {0}
NumberSound(s) ==
  /\ sessions[s] # NoSession => sessions[s].last \in accepted[s] \cup {0}
  /\ s \notin overtaken =>
       /\ s \notin replayed
       /\ sessions[s] # NoSession => \A a \in accepted[s] : a <= sessions[s].last
  /\ sessions[s] = NoSession => accepted[s] = {}
RequestsInv ==
  /\ \A s \in SessionIds : NumberSound(s)
  /\ \A c \in AuthCalls : RequestSound(c)

SignInInv == SignInTypeOK /\ UsersInv /\ NonceNotWasted /\ RequestsInv

\* A session is not the empty slot.
LEMMA SessionMade == ASSUME NEW x \in Session PROVE x # NoSession
BY DEF Session, NoSession

\* The two kinds of a call have different operations.
LEMMA VerifyRecord ==
  ASSUME NEW v \in AuthCall, v.op = "verify"
  PROVE  v \in [op : {"verify"}, at : {"user", "insert", "provision", "session"}, nonce : Nonces, new : BOOLEAN]
BY DEF AuthCall

LEMMA RequestRecord ==
  ASSUME NEW v \in AuthCall, v.op \in {"request", "revoke"}
  PROVE  v \in [op : {"request", "revoke"}, at : {"number", "revoke"}, session : SessionIds,
                no : 1..MaxRequests, last : 0..MaxRequests]
BY DEF AuthCall

LEMMA VerifyMoves ==
  ASSUME NEW v \in AuthCall, v.op = "verify", NEW at \in {"user", "insert", "provision", "session"},
         NEW w, w = [v EXCEPT !.at = at]
  PROVE  w \in AuthCall /\ w.op = "verify" /\ w.at = at /\ w.nonce = v.nonce /\ w.new = v.new
BY VerifyRecord DEF AuthCall

LEMMA CallSet ==
  ASSUME SignInTypeOK, NEW c \in AuthCalls, NEW v \in AuthCall \cup {NoAuthCall},
         authCall' = [authCall EXCEPT ![c] = v]
  PROVE  /\ authCall' \in [AuthCalls -> AuthCall \cup {NoAuthCall}]
         /\ authCall'[c] = v /\ \A d \in AuthCalls \ {c} : authCall'[d] = authCall[d]
BY DEF SignInTypeOK

LEMMA NonceUsed ==
  ASSUME SignInTypeOK, NEW n \in Nonces, NEW st \in {"absent", "issued", "expired", "used"},
         nonceState' = [nonceState EXCEPT ![n].st = st]
  PROVE  /\ nonceState' \in [Nonces -> [st : {"absent", "issued", "expired", "used"}, wallet : Wallets]]
         /\ nonceState'[n].st = st
         /\ \A m \in Nonces : nonceState'[m].wallet = nonceState[m].wallet
         /\ \A m \in Nonces \ {n} : nonceState'[m].st = nonceState[m].st
BY DEF SignInTypeOK

\* No call takes a step of making a user.
LEMMA UsersUndisturbed ==
  ASSUME SignInInv, UNCHANGED <<userRows, vmRows>>,
         \A n \in Nonces : nonceState'[n].wallet = nonceState[n].wallet,
         \A c \in AuthCalls : Provisioning(c)' => authCall'[c] = authCall[c]
  PROVE  UsersInv'
<1>1. ASSUME NEW c \in AuthCalls, Provisioning(c)'
      PROVE  authCall'[c] = authCall[c] /\ WalletOf(c)' = WalletOf(c)
  <2>1. authCall'[c] = authCall[c] /\ authCall[c] \in AuthCall /\ authCall[c].op = "verify"
    BY <1>1 DEF SignInInv, SignInTypeOK, Provisioning, Verifying
  <2>2. authCall[c].nonce \in Nonces
    BY <2>1, VerifyRecord
  <2> QED
    BY <2>1, <2>2 DEF WalletOf
<1>2. ASSUME NEW c \in AuthCalls, Verifying(c, "provision")'
      PROVE  Verifying(c, "provision") /\ (authCall'[c].new <=> userRows'[WalletOf(c)'] = 0)
  BY <1>1, <1>2 DEF SignInInv, UsersInv, Verifying, Provisioning
<1>3. OneUserPerWallet'
  BY DEF SignInInv, UsersInv, OneUserPerWallet
<1>4. \A c \in AuthCalls : Verifying(c, "user")' \/ Verifying(c, "insert")' => ~authCall'[c].new
  BY <1>1 DEF SignInInv, UsersInv, Verifying, Provisioning
<1>5. ASSUME NEW c \in AuthCalls, NEW d \in AuthCalls, HoldsUser(c)', HoldsUser(d)',
             WalletOf(c)' = WalletOf(d)'
      PROVE  c = d
  <2>1. HoldsUser(c) /\ HoldsUser(d) /\ WalletOf(c)' = WalletOf(c) /\ WalletOf(d)' = WalletOf(d)
    BY <1>1, <1>5 DEF HoldsUser, Verifying, Provisioning
  <2> QED
    BY <1>5, <2>1 DEF SignInInv, UsersInv
<1> QED
  BY <1>2, <1>3, <1>4, <1>5 DEF UsersInv

\* A nonce that is used has its session, or the call that is about to make it.
HasSession(n) ==
  \/ \E s \in SessionIds : sessions[s] # NoSession /\ sessions[s].by = n
  \/ \E c \in AuthCalls : Verifying(c, "session") /\ authCall[c].nonce = n

LEMMA NoncesUndisturbed ==
  ASSUME SignInInv, interrupted \subseteq interrupted',
         \A n \in Nonces : nonceState'[n].st = "used" => nonceState[n].st = "used" \/ HasSession(n)',
         \A s \in SessionIds : sessions[s] # NoSession =>
           sessions'[s] # NoSession /\ sessions'[s].by = sessions[s].by,
         \A c \in AuthCalls, n \in Nonces : Verifying(c, "session") /\ authCall[c].nonce = n =>
           HasSession(n)' \/ n \in interrupted'
  PROVE  NonceNotWasted'
<1> SUFFICES ASSUME NEW n \in Nonces, n \notin interrupted', nonceState'[n].st = "used"
             PROVE  HasSession(n)'
  BY DEF NonceNotWasted, HasSession
<1>1. CASE nonceState[n].st = "used"
  <2>1. HasSession(n)
    BY <1>1 DEF SignInInv, NonceNotWasted, HasSession
  <2>2. CASE \E s \in SessionIds : sessions[s] # NoSession /\ sessions[s].by = n
    BY <2>2 DEF HasSession
  <2>3. ASSUME NEW c \in AuthCalls, Verifying(c, "session"), authCall[c].nonce = n
        PROVE  HasSession(n)'
    BY <2>3
  <2> QED
    BY <2>1, <2>2, <2>3 DEF HasSession
<1> QED
  BY <1>1

\* Requests go on or end, and their sessions are as before.
LEMMA RequestsUndisturbed ==
  ASSUME SignInInv, UNCHANGED <<sessions, numberHistory>>,
         \A c \in AuthCalls : Requesting(c)' => authCall'[c] = authCall[c]
  PROVE  RequestsInv'
<1>1. \A s \in SessionIds : NumberSound(s)'
  BY DEF SignInInv, RequestsInv, NumberSound
<1>2. \A c \in AuthCalls : RequestSound(c)'
  BY DEF SignInInv, RequestsInv, RequestSound, Requesting
<1> QED
  BY <1>1, <1>2 DEF RequestsInv

\* A call that is at a step of verify goes to another or ends, and users, sessions stay.
LEMMA VerifyKeepsRequests ==
  ASSUME SignInInv, NEW c \in AuthCalls, NEW v \in AuthCall \cup {NoAuthCall},
         v # NoAuthCall => v.op = "verify",
         authCall' = [authCall EXCEPT ![c] = v], UNCHANGED <<sessions, numberHistory>>
  PROVE  RequestsInv'
<1>1. ASSUME NEW d \in AuthCalls, Requesting(d)'
      PROVE  authCall'[d] = authCall[d]
  BY <1>1, CallSet DEF SignInInv, Requesting
<1> QED
  BY <1>1, RequestsUndisturbed

LEMMA NonceStepKeepsSignIn ==
  ASSUME SignInInv, NEW n \in Nonces, IssueNonce(n) \/ NonceExpires(n)
  PROVE  SignInInv'
<1>1. PICK st \in {"issued", "expired"} : nonceState' = [nonceState EXCEPT ![n].st = st]
  BY DEF IssueNonce, NonceExpires
<1>2. UNCHANGED <<userRows, vmRows, sessions, authCall, interrupted, numberHistory>>
  BY DEF IssueNonce, NonceExpires
<1>3. SignInTypeOK /\ st \in {"absent", "issued", "expired", "used"}
  BY <1>1 DEF SignInInv
<1>4. /\ nonceState' \in [Nonces -> [st : {"absent", "issued", "expired", "used"}, wallet : Wallets]]
      /\ nonceState'[n].st = st
      /\ \A m \in Nonces : nonceState'[m].wallet = nonceState[m].wallet
      /\ \A m \in Nonces \ {n} : nonceState'[m].st = nonceState[m].st
  BY <1>1, <1>3, NonceUsed
<1>5. SignInTypeOK'
  BY <1>2, <1>3, <1>4 DEF SignInTypeOK
<1>6. UsersInv'
  BY <1>2, <1>4, UsersUndisturbed
<1>7. RequestsInv'
  BY <1>2, RequestsUndisturbed
<1>8. \A m \in Nonces : HasSession(m)' <=> HasSession(m)
  BY <1>2 DEF HasSession, Verifying
<1>9. \A m \in Nonces : nonceState'[m].st = "used" => nonceState[m].st = "used"
  BY <1>1, <1>4
<1>10. NonceNotWasted'
  BY <1>2, <1>8, <1>9 DEF SignInInv, NonceNotWasted, HasSession
<1> QED
  BY <1>5, <1>6, <1>7, <1>10 DEF SignInInv

LEMMA ChecksKeepsSignIn ==
  ASSUME SignInInv, NEW c \in AuthCalls, NEW n \in Nonces, VerifyChecksNonce(c, n)
  PROVE  SignInInv'
<1>1. PICK v \in AuthCall : v = [op |-> "verify", at |-> "user", nonce |-> n, new |-> FALSE]
  BY DEF AuthCall
<1>2. v.op = "verify" /\ v.at = "user" /\ v.nonce = n /\ ~v.new
  BY <1>1
<1>3. /\ authCall' = [authCall EXCEPT ![c] = v] /\ authCall[c] = NoAuthCall
      /\ UNCHANGED <<nonceState, userRows, vmRows, sessions, interrupted, numberHistory>>
  BY <1>1 DEF VerifyChecksNonce
<1>4. /\ authCall' \in [AuthCalls -> AuthCall \cup {NoAuthCall}]
      /\ authCall'[c] = v /\ \A d \in AuthCalls \ {c} : authCall'[d] = authCall[d]
  BY <1>3, CallSet DEF SignInInv
<1>5. SignInTypeOK'
  BY <1>3, <1>4 DEF SignInInv, SignInTypeOK
<1>6. UsersInv'
  <2>1. OneUserPerWallet'
    BY <1>3 DEF SignInInv, UsersInv, OneUserPerWallet
  <2>2. ~Verifying(c, "provision")' /\ ~HoldsUser(c)' /\ ~authCall'[c].new
    BY <1>2, <1>4 DEF Verifying, HoldsUser
  <2>3. ASSUME NEW d \in AuthCalls, d # c
        PROVE  /\ Verifying(d, "user")' <=> Verifying(d, "user")
               /\ Verifying(d, "insert")' <=> Verifying(d, "insert")
               /\ Verifying(d, "provision")' <=> Verifying(d, "provision")
               /\ HoldsUser(d)' <=> HoldsUser(d)
               /\ WalletOf(d)' = WalletOf(d) /\ authCall'[d] = authCall[d]
    BY <1>3, <1>4, <2>3 DEF Verifying, HoldsUser, WalletOf
  <2>4. \A d \in AuthCalls : Verifying(d, "user")' \/ Verifying(d, "insert")' => ~authCall'[d].new
    BY <2>2, <2>3 DEF SignInInv, UsersInv
  <2>5. \A d \in AuthCalls : Verifying(d, "provision")' => (authCall'[d].new <=> userRows'[WalletOf(d)'] = 0)
    BY <1>3, <2>2, <2>3 DEF SignInInv, UsersInv
  <2>6. \A d, e \in AuthCalls : HoldsUser(d)' /\ HoldsUser(e)' /\ WalletOf(d)' = WalletOf(e)' => d = e
    BY <2>2, <2>3 DEF SignInInv, UsersInv
  <2> QED
    BY <2>1, <2>4, <2>5, <2>6 DEF UsersInv
<1>7. RequestsInv'
  BY <1>2, <1>3, VerifyKeepsRequests
<1>8. ASSUME NEW d \in AuthCalls, NEW m \in Nonces, Verifying(d, "session"), authCall[d].nonce = m
      PROVE  HasSession(m)'
  BY <1>3, <1>4, <1>8 DEF HasSession, Verifying
<1>9. NonceNotWasted'
  BY <1>3, <1>8, NoncesUndisturbed
<1> QED
  BY <1>5, <1>6, <1>7, <1>9 DEF SignInInv

LEMMA LooksUpKeepsSignIn ==
  ASSUME SignInInv, NEW c \in AuthCalls, VerifyLooksUpUser(c)
  PROVE  SignInInv'
<1> DEFINE w == WalletOf(c)
<1>1. /\ authCall[c] \in AuthCall /\ authCall[c].op = "verify" /\ authCall[c].at = "user"
      /\ ~authCall[c].new
      /\ UNCHANGED <<nonceState, userRows, vmRows, sessions, interrupted, numberHistory>>
  BY DEF VerifyLooksUpUser, Verifying, SignInInv, SignInTypeOK, UsersInv
<1>2. PICK at \in {"insert", "provision"} : at = IF userRows[w] = 0 THEN "insert" ELSE "provision"
  OBVIOUS
<1>3. PICK v : v = [authCall[c] EXCEPT !.at = at]
  OBVIOUS
<1>4. v \in AuthCall /\ v.op = "verify" /\ v.at = at /\ v.nonce = authCall[c].nonce /\ ~v.new
  BY <1>1, <1>3, VerifyMoves
<1>5. authCall' = [authCall EXCEPT ![c] = v]
  BY <1>2, <1>3 DEF VerifyLooksUpUser, AuthGoto
<1>6. /\ authCall' \in [AuthCalls -> AuthCall \cup {NoAuthCall}]
      /\ authCall'[c] = v /\ \A d \in AuthCalls \ {c} : authCall'[d] = authCall[d]
  BY <1>4, <1>5, CallSet DEF SignInInv
<1>7. SignInTypeOK'
  BY <1>1, <1>6 DEF SignInInv, SignInTypeOK
<1>8. UsersInv'
  <2>1. OneUserPerWallet'
    BY <1>1 DEF SignInInv, UsersInv, OneUserPerWallet
  <2>2. WalletOf(c)' = w /\ ~HoldsUser(c)' /\ ~authCall'[c].new
        /\ (Verifying(c, "provision")' => userRows'[WalletOf(c)'] # 0)
    BY <1>1, <1>2, <1>4, <1>6 DEF WalletOf, HoldsUser, Verifying
  <2>3. ASSUME NEW d \in AuthCalls, d # c
        PROVE  /\ Verifying(d, "user")' <=> Verifying(d, "user")
               /\ Verifying(d, "insert")' <=> Verifying(d, "insert")
               /\ Verifying(d, "provision")' <=> Verifying(d, "provision")
               /\ HoldsUser(d)' <=> HoldsUser(d)
               /\ WalletOf(d)' = WalletOf(d) /\ authCall'[d] = authCall[d]
    BY <1>1, <1>6, <2>3 DEF Verifying, HoldsUser, WalletOf
  <2>4. \A d \in AuthCalls : Verifying(d, "user")' \/ Verifying(d, "insert")' => ~authCall'[d].new
    BY <2>2, <2>3 DEF SignInInv, UsersInv
  <2>5. \A d \in AuthCalls : Verifying(d, "provision")' => (authCall'[d].new <=> userRows'[WalletOf(d)'] = 0)
    BY <1>1, <2>2, <2>3 DEF SignInInv, UsersInv
  <2>6. \A d, e \in AuthCalls : HoldsUser(d)' /\ HoldsUser(e)' /\ WalletOf(d)' = WalletOf(e)' => d = e
    BY <2>2, <2>3 DEF SignInInv, UsersInv
  <2> QED
    BY <2>1, <2>4, <2>5, <2>6 DEF UsersInv
<1>9. RequestsInv'
  BY <1>1, <1>4, <1>5, VerifyKeepsRequests
<1>10. ASSUME NEW d \in AuthCalls, NEW m \in Nonces, Verifying(d, "session"), authCall[d].nonce = m
       PROVE  HasSession(m)'
  BY <1>1, <1>6, <1>10 DEF HasSession, Verifying
<1>11. NonceNotWasted'
  BY <1>1, <1>10, NoncesUndisturbed
<1> QED
  BY <1>7, <1>8, <1>9, <1>11 DEF SignInInv

LEMMA InsertsKeepsSignIn ==
  ASSUME SignInInv, NEW c \in AuthCalls, VerifyInsertsUser(c)
  PROVE  SignInInv'
<1> DEFINE w == WalletOf(c)
<1>1. /\ authCall[c] \in AuthCall /\ authCall[c].op = "verify" /\ authCall[c].at = "insert"
      /\ ~\E d \in AuthCalls : HoldsUser(d) /\ WalletOf(d) = w
      /\ UNCHANGED <<nonceState, userRows, vmRows, sessions, interrupted, numberHistory>>
  BY DEF VerifyInsertsUser, Verifying, SignInInv, SignInTypeOK
<1>2. w \in Wallets /\ userRows[w] \in Nat
  BY <1>1, VerifyRecord DEF SignInInv, SignInTypeOK, WalletOf
<1>3. ASSUME NEW d \in AuthCalls, NEW m \in Nonces, Verifying(d, "session"), authCall[d].nonce = m,
             authCall'[d] = authCall[d]
      PROVE  HasSession(m)'
  BY <1>3 DEF HasSession, Verifying
<1>4. CASE userRows[w] > 0
  <2>1. authCall' = [authCall EXCEPT ![c] = NoAuthCall]
    BY <1>4 DEF VerifyInsertsUser, AuthEnds
  <2>2. /\ authCall' \in [AuthCalls -> AuthCall \cup {NoAuthCall}]
        /\ authCall'[c] = NoAuthCall /\ \A d \in AuthCalls \ {c} : authCall'[d] = authCall[d]
    BY <2>1, CallSet DEF SignInInv
  <2>3. SignInTypeOK'
    BY <1>1, <2>2 DEF SignInInv, SignInTypeOK
  <2>4. \A d \in AuthCalls : Provisioning(d)' => authCall'[d] = authCall[d]
    BY <2>2 DEF Provisioning, Verifying
  <2>5. UsersInv'
    BY <1>1, <2>4, UsersUndisturbed
  <2>6. RequestsInv'
    BY <1>1, <2>1, VerifyKeepsRequests
  <2>7. \A d \in AuthCalls : Verifying(d, "session") => d # c
    BY <1>1 DEF Verifying
  <2>8. NonceNotWasted'
    BY <1>1, <1>3, <2>2, <2>7, NoncesUndisturbed
  <2> QED
    BY <2>3, <2>5, <2>6, <2>8 DEF SignInInv
<1>5. CASE ~(userRows[w] > 0)
  <2>1. userRows[w] = 0
    BY <1>2, <1>5
  <2> DEFINE v == [authCall[c] EXCEPT !.at = "provision", !.new = TRUE]
  <2>2. authCall[c] \in [op : {"verify"}, at : {"user", "insert", "provision", "session"},
                         nonce : Nonces, new : BOOLEAN]
    BY <1>1, VerifyRecord
  <2>3. v \in AuthCall /\ v.op = "verify" /\ v.at = "provision" /\ v.nonce = authCall[c].nonce /\ v.new
    BY <2>2 DEF AuthCall
  <2>4. authCall' = [authCall EXCEPT ![c] = v]
    <3>1. authCall' = [authCall EXCEPT ![c].at = "provision", ![c].new = TRUE]
      BY <1>5 DEF VerifyInsertsUser
    <3> QED
      BY <3>1 DEF SignInInv, SignInTypeOK
  <2> HIDE DEF v
  <2>5. /\ authCall' \in [AuthCalls -> AuthCall \cup {NoAuthCall}]
        /\ authCall'[c] = v /\ \A d \in AuthCalls \ {c} : authCall'[d] = authCall[d]
    BY <2>3, <2>4, CallSet DEF SignInInv
  <2>6. SignInTypeOK'
    BY <1>1, <2>5 DEF SignInInv, SignInTypeOK
  <2>7. UsersInv'
    <3>1. OneUserPerWallet'
      BY <1>1 DEF SignInInv, UsersInv, OneUserPerWallet
    <3>2. WalletOf(c)' = w /\ authCall'[c].new /\ ~Verifying(c, "user")' /\ ~Verifying(c, "insert")'
          /\ userRows'[WalletOf(c)'] = 0
      BY <1>1, <2>1, <2>3, <2>5 DEF WalletOf, Verifying
    <3>3. ASSUME NEW d \in AuthCalls, d # c
          PROVE  /\ Verifying(d, "user")' <=> Verifying(d, "user")
                 /\ Verifying(d, "insert")' <=> Verifying(d, "insert")
                 /\ Verifying(d, "provision")' <=> Verifying(d, "provision")
                 /\ HoldsUser(d)' <=> HoldsUser(d)
                 /\ WalletOf(d)' = WalletOf(d) /\ authCall'[d] = authCall[d]
      BY <1>1, <2>5, <3>3 DEF Verifying, HoldsUser, WalletOf
    <3>4. \A d \in AuthCalls : Verifying(d, "user")' \/ Verifying(d, "insert")' => ~authCall'[d].new
      BY <3>2, <3>3 DEF SignInInv, UsersInv
    <3>5. \A d \in AuthCalls : Verifying(d, "provision")' => (authCall'[d].new <=> userRows'[WalletOf(d)'] = 0)
      BY <1>1, <3>2, <3>3 DEF SignInInv, UsersInv
    <3>6. \A d, e \in AuthCalls : HoldsUser(d)' /\ HoldsUser(e)' /\ WalletOf(d)' = WalletOf(e)' => d = e
      BY <1>1, <3>2, <3>3 DEF SignInInv, UsersInv
    <3> QED
      BY <3>1, <3>4, <3>5, <3>6 DEF UsersInv
  <2>8. RequestsInv'
    BY <1>1, <2>3, <2>4, VerifyKeepsRequests
  <2>9. \A d \in AuthCalls : Verifying(d, "session") => d # c
    BY <1>1 DEF Verifying
  <2>10. NonceNotWasted'
    BY <1>1, <1>3, <2>5, <2>9, NoncesUndisturbed
  <2> QED
    BY <2>6, <2>7, <2>8, <2>10 DEF SignInInv
<1> QED
  BY <1>4, <1>5

LEMMA ProvisionsKeepsSignIn ==
  ASSUME SignInInv, NEW c \in AuthCalls, VerifyProvisions(c)
  PROVE  SignInInv'
<1>1. PICK w \in Wallets, n \in Nonces : w = WalletOf(c) /\ n = authCall[c].nonce
  BY VerifyRecord DEF VerifyProvisions, Verifying, SignInInv, SignInTypeOK, WalletOf
<1>2. /\ authCall[c] \in AuthCall /\ authCall[c].op = "verify" /\ authCall[c].at = "provision"
      /\ authCall[c].new \in BOOLEAN /\ w = nonceState[n].wallet
      /\ UNCHANGED <<sessions, interrupted, numberHistory>>
  BY <1>1, VerifyRecord DEF VerifyProvisions, Verifying, SignInInv, SignInTypeOK, WalletOf
<1>3. authCall[c].new <=> userRows[w] = 0
  BY <1>1 DEF VerifyProvisions, SignInInv, UsersInv
<1>4. /\ userRows[w] \in 0..1 /\ (userRows[w] = 1 <=> w \in vmRows)
  BY DEF SignInInv, UsersInv, OneUserPerWallet, SignInTypeOK
<1> DEFINE v == [authCall[c] EXCEPT !.at = "session"]
<1>5. v \in AuthCall /\ v.op = "verify" /\ v.at = "session" /\ v.nonce = n
  BY <1>1, <1>2, VerifyMoves
<1>6. authCall' = [authCall EXCEPT ![c] = v]
  BY <1>2 DEF VerifyProvisions, AuthGoto
<1> HIDE DEF v
<1>7. /\ authCall' \in [AuthCalls -> AuthCall \cup {NoAuthCall}]
      /\ authCall'[c] = v /\ \A d \in AuthCalls \ {c} : authCall'[d] = authCall[d]
  BY <1>5, <1>6, CallSet DEF SignInInv
<1>8. \/ UNCHANGED <<nonceState, userRows, vmRows>> /\ ~authCall[c].new
      \/ /\ authCall[c].new /\ nonceState' = [nonceState EXCEPT ![n].st = "used"]
         /\ vmRows' = vmRows \cup {w} /\ userRows' = [userRows EXCEPT ![w] = userRows[w] + 1]
  BY <1>1, <1>3, <1>4 DEF VerifyProvisions, Use
<1>9. /\ nonceState' \in [Nonces -> [st : {"absent", "issued", "expired", "used"}, wallet : Wallets]]
      /\ \A m \in Nonces : nonceState'[m].wallet = nonceState[m].wallet
      /\ \A m \in Nonces \ {n} : nonceState'[m].st = nonceState[m].st
  BY <1>8, NonceUsed DEF SignInInv, SignInTypeOK
<1>10. /\ userRows' \in [Wallets -> 0..2] /\ vmRows' \subseteq Wallets
       /\ \A x \in Wallets \ {w} : userRows'[x] = userRows[x] /\ (x \in vmRows' <=> x \in vmRows)
       /\ userRows'[w] = 1 /\ w \in vmRows'
  BY <1>3, <1>4, <1>8 DEF SignInInv, SignInTypeOK
<1>11. SignInTypeOK'
  BY <1>2, <1>7, <1>9, <1>10 DEF SignInInv, SignInTypeOK
<1>12. UsersInv'
  <2>1. OneUserPerWallet'
    BY <1>10 DEF SignInInv, UsersInv, OneUserPerWallet
  <2>2. ~Provisioning(c)'
    BY <1>5, <1>7 DEF Provisioning, Verifying
  <2>3. ASSUME NEW d \in AuthCalls, Provisioning(d)'
        PROVE  /\ d # c /\ Provisioning(d) /\ WalletOf(d)' = WalletOf(d) /\ authCall'[d] = authCall[d]
               /\ WalletOf(d) \in Wallets
    <3>1. d # c /\ authCall'[d] = authCall[d] /\ authCall[d] \in AuthCall /\ authCall[d].op = "verify"
      BY <1>7, <2>2, <2>3 DEF SignInInv, SignInTypeOK, Provisioning, Verifying
    <3>2. authCall[d].nonce \in Nonces
      BY <3>1, VerifyRecord
    <3> QED
      BY <1>9, <2>3, <3>1, <3>2 DEF WalletOf, Provisioning, Verifying, SignInInv, SignInTypeOK
  <2>4. \A d \in AuthCalls : Verifying(d, "user")' \/ Verifying(d, "insert")' => ~authCall'[d].new
    BY <2>3 DEF SignInInv, UsersInv, Provisioning, Verifying
  <2>5. ASSUME NEW d \in AuthCalls, Verifying(d, "provision")'
        PROVE  authCall'[d].new <=> userRows'[WalletOf(d)'] = 0
    <3>1. d # c /\ Verifying(d, "provision") /\ WalletOf(d)' = WalletOf(d) /\ authCall'[d] = authCall[d]
          /\ WalletOf(d) \in Wallets
      BY <2>3, <2>5 DEF Provisioning, Verifying
    <3>2. authCall[d].new <=> userRows[WalletOf(d)] = 0
      BY <3>1 DEF SignInInv, UsersInv
    <3>3. CASE WalletOf(d) # w
      BY <1>10, <3>1, <3>2, <3>3
    <3>4. CASE WalletOf(d) = w
      <4>1. authCall[d].new => HoldsUser(d) /\ HoldsUser(c)
        BY <1>2, <1>3, <3>1, <3>2, <3>4 DEF HoldsUser, Verifying, VerifyProvisions
      <4>2. ~authCall[d].new
        BY <1>1, <3>1, <3>4, <4>1 DEF SignInInv, UsersInv
      <4> QED
        BY <1>10, <3>1, <3>4, <4>2
    <3> QED
      BY <3>3, <3>4
  <2>6. \A d, e \in AuthCalls : HoldsUser(d)' /\ HoldsUser(e)' /\ WalletOf(d)' = WalletOf(e)' => d = e
    BY <2>3 DEF SignInInv, UsersInv, HoldsUser, Provisioning, Verifying
  <2> QED
    BY <2>1, <2>4, <2>5, <2>6 DEF UsersInv
<1>13. RequestsInv'
  BY <1>2, <1>5, <1>6, VerifyKeepsRequests
<1>14. HasSession(n)'
  BY <1>5, <1>7, IdleSlotAssumption DEF HasSession, Verifying
<1>15. ASSUME NEW d \in AuthCalls, NEW m \in Nonces, Verifying(d, "session"), authCall[d].nonce = m
       PROVE  HasSession(m)'
  BY <1>2, <1>7, <1>15 DEF HasSession, Verifying
<1>16. NonceNotWasted'
  BY <1>2, <1>9, <1>14, <1>15, NoncesUndisturbed
<1> QED
  BY <1>11, <1>12, <1>13, <1>16 DEF SignInInv

LEMMA SessionKeepsSignIn ==
  ASSUME SignInInv, NEW c \in AuthCalls, VerifyMakesSession(c)
  PROVE  SignInInv'
<1>1. PICK w \in Wallets, n \in Nonces : w = WalletOf(c) /\ n = authCall[c].nonce
  BY VerifyRecord DEF VerifyMakesSession, Verifying, SignInInv, SignInTypeOK, WalletOf
<1>2. PICK s \in SessionIds :
        /\ sessions[s] = NoSession
        /\ sessions' = [sessions EXCEPT ![s] = [by |-> n, wallet |-> w, last |-> 0, revoked |-> FALSE]]
  BY <1>1 DEF VerifyMakesSession
<1>3. PICK x \in Session : x = [by |-> n, wallet |-> w, last |-> 0, revoked |-> FALSE]
  <2>1. 0 \in 0..MaxRequests
    BY SignInAssumption
  <2> QED
    BY <2>1 DEF Session
<1>4. x.by = n /\ x.last = 0 /\ x # NoSession
  BY <1>3, SessionMade
<1>5. /\ sessions' \in [SessionIds -> Session \cup {NoSession}]
      /\ sessions'[s] = x /\ \A t \in SessionIds \ {s} : sessions'[t] = sessions[t]
  BY <1>2, <1>3 DEF SignInInv, SignInTypeOK
<1>6. /\ authCall' = [authCall EXCEPT ![c] = NoAuthCall]
      /\ nonceState' = [nonceState EXCEPT ![n].st = "used"]
      /\ UNCHANGED <<userRows, vmRows, interrupted, numberHistory>>
  BY <1>1 DEF VerifyMakesSession, AuthEnds, Use
<1>7. /\ authCall' \in [AuthCalls -> AuthCall \cup {NoAuthCall}]
      /\ authCall'[c] = NoAuthCall /\ \A d \in AuthCalls \ {c} : authCall'[d] = authCall[d]
  BY <1>6, CallSet DEF SignInInv
<1>8. /\ nonceState' \in [Nonces -> [st : {"absent", "issued", "expired", "used"}, wallet : Wallets]]
      /\ \A m \in Nonces : nonceState'[m].wallet = nonceState[m].wallet
      /\ \A m \in Nonces \ {n} : nonceState'[m].st = nonceState[m].st
  BY <1>6, NonceUsed DEF SignInInv
<1>9. SignInTypeOK'
  BY <1>5, <1>6, <1>7, <1>8 DEF SignInInv, SignInTypeOK
<1>10. \A d \in AuthCalls : Provisioning(d)' => authCall'[d] = authCall[d]
  BY <1>7 DEF Provisioning, Verifying
<1>11. UsersInv'
  BY <1>6, <1>8, <1>10, UsersUndisturbed
<1>12. RequestsInv'
  <2>1. ASSUME NEW t \in SessionIds
        PROVE  NumberSound(t)'
    <3>1. NumberSound(t)
      BY DEF SignInInv, RequestsInv
    <3>2. CASE t = s
      BY <1>2, <1>4, <1>5, <1>6, <3>1, <3>2 DEF NumberSound
    <3>3. CASE t # s
      BY <1>5, <1>6, <3>1, <3>3 DEF NumberSound
    <3> QED
      BY <3>2, <3>3
  <2>2. \A d \in AuthCalls : Requesting(d)' => Requesting(d) /\ authCall'[d] = authCall[d]
                                               /\ authCall[d].session \in SessionIds
    BY <1>7, RequestRecord DEF Requesting, SignInInv, SignInTypeOK
  <2>3. \A t \in SessionIds : sessions[t] # NoSession => sessions'[t] # NoSession
    BY <1>2, <1>5
  <2>4. ASSUME NEW d \in AuthCalls
        PROVE  RequestSound(d)'
    BY <1>6, <2>2, <2>3 DEF RequestSound, SignInInv, RequestsInv
  <2> QED
    BY <2>1, <2>4 DEF RequestsInv
<1>13. HasSession(n)'
  BY <1>4, <1>5 DEF HasSession
<1>14. ASSUME NEW d \in AuthCalls, NEW m \in Nonces, Verifying(d, "session"), authCall[d].nonce = m
       PROVE  HasSession(m)'
  BY <1>1, <1>7, <1>13, <1>14 DEF HasSession, Verifying
<1>15. \A t \in SessionIds : sessions[t] # NoSession =>
         sessions'[t] # NoSession /\ sessions'[t].by = sessions[t].by
  BY <1>2, <1>5
<1>16. NonceNotWasted'
  BY <1>6, <1>8, <1>13, <1>14, <1>15, NoncesUndisturbed
<1> QED
  BY <1>9, <1>11, <1>12, <1>16 DEF SignInInv

\* Only requests and the numbers of their sessions change.
LEMMA RequestStepKeepsSignIn ==
  ASSUME SignInInv, UNCHANGED <<nonceState, userRows, vmRows, interrupted>>,
         authCall' \in [AuthCalls -> AuthCall \cup {NoAuthCall}],
         sessions' \in [SessionIds -> Session \cup {NoSession}],
         accepted' \in [SessionIds -> SUBSET (1..MaxRequests)],
         replayed' \subseteq SessionIds, overtaken' \subseteq SessionIds,
         \A c \in AuthCalls : (\E at \in {"user", "insert", "provision", "session"} :
                                 Verifying(c, at) \/ Verifying(c, at)') => authCall'[c] = authCall[c],
         \A s \in SessionIds : /\ sessions[s] = NoSession => sessions'[s] = NoSession
                               /\ sessions[s] # NoSession =>
                                    sessions'[s] # NoSession /\ sessions'[s].by = sessions[s].by,
         RequestsInv'
  PROVE  SignInInv'
<1>1. SignInTypeOK'
  BY DEF SignInInv, SignInTypeOK
<1>2. \A c \in AuthCalls : Provisioning(c)' => authCall'[c] = authCall[c]
  BY DEF Provisioning
<1>3. UsersInv'
  BY <1>2, UsersUndisturbed
<1>4. ASSUME NEW c \in AuthCalls, NEW n \in Nonces, Verifying(c, "session"), authCall[c].nonce = n
      PROVE  HasSession(n)'
  <2>1. authCall'[c] = authCall[c]
    BY <1>4
  <2> QED
    BY <1>4, <2>1 DEF HasSession, Verifying
<1>5. NonceNotWasted'
  BY <1>4, NoncesUndisturbed
<1> QED
  BY <1>1, <1>3, <1>5 DEF SignInInv

LEMMA LoadsKeepsSignIn ==
  ASSUME SignInInv, NEW c \in AuthCalls, NEW s \in SessionIds, NEW op \in {"request", "revoke"},
         NEW no \in 1..MaxRequests, RequestLoads(c, s, op, no)
  PROVE  SignInInv'
<1> DEFINE v == [op |-> op, at |-> "number", session |-> s, no |-> no, last |-> sessions[s].last]
<1>1. /\ authCall[c] = NoAuthCall /\ sessions[s] # NoSession
      /\ authCall' = [authCall EXCEPT ![c] = v]
      /\ UNCHANGED <<nonceState, userRows, vmRows, sessions, interrupted, numberHistory>>
  BY DEF RequestLoads
<1>2. sessions[s] \in Session /\ sessions[s].last \in 0..MaxRequests
      /\ sessions[s].last \in accepted[s] \cup {0}
  BY <1>1 DEF SignInInv, SignInTypeOK, RequestsInv, NumberSound, Session
<1>3. /\ v \in AuthCall /\ v.op \in {"request", "revoke"} /\ v.at = "number"
      /\ v.session = s /\ v.last = sessions[s].last
  BY <1>2 DEF AuthCall
<1> HIDE DEF v
<1>4. /\ authCall' \in [AuthCalls -> AuthCall \cup {NoAuthCall}]
      /\ authCall'[c] = v /\ \A d \in AuthCalls \ {c} : authCall'[d] = authCall[d]
  BY <1>1, <1>3, CallSet DEF SignInInv
<1>5. UNCHANGED <<accepted, replayed, overtaken>>
  BY <1>1 DEF numberHistory
<1>6. RequestsInv'
  <2>1. RequestSound(c)'
    BY <1>1, <1>2, <1>3, <1>4, <1>5 DEF RequestSound
  <2>2. ASSUME NEW d \in AuthCalls, d # c
        PROVE  RequestSound(d)'
    BY <1>1, <1>4, <1>5, <2>2 DEF RequestSound, Requesting, SignInInv, RequestsInv
  <2>3. \A t \in SessionIds : NumberSound(t)'
    BY <1>1, <1>5 DEF NumberSound, SignInInv, RequestsInv
  <2> QED
    BY <2>1, <2>2, <2>3 DEF RequestsInv
<1>7. \A d \in AuthCalls : (\E at \in {"user", "insert", "provision", "session"} :
                               Verifying(d, at) \/ Verifying(d, at)') => authCall'[d] = authCall[d]
  BY <1>1, <1>3, <1>4 DEF Verifying
<1> QED
  BY <1>1, <1>4, <1>5, <1>6, <1>7, RequestStepKeepsSignIn DEF SignInInv, SignInTypeOK

\* What a request may do to the history: only its session's changes, and soundly.
NumbersMove(s) ==
  /\ accepted' \in [SessionIds -> SUBSET (1..MaxRequests)]
  /\ replayed' \subseteq SessionIds /\ overtaken' \subseteq SessionIds
  /\ \A t \in SessionIds : accepted[t] \subseteq accepted'[t]
  /\ \A t \in SessionIds \ {s} : /\ accepted'[t] = accepted[t]
                                 /\ t \in replayed' => t \in replayed
                                 /\ t \in overtaken => t \in overtaken'
  /\ NumberSound(s)'

\* A request goes on to revoke or ends, and its session's row or numbers change soundly.
LEMMA StoresKeepsSignIn ==
  ASSUME SignInInv, NEW c \in AuthCalls, Requesting(c),
         NEW s \in SessionIds, s = authCall[c].session,
         NEW x \in Session, x.by = sessions[s].by,
         sessions' = [sessions EXCEPT ![s] = x],
         NumbersMove(s),
         NEW v \in AuthCall \cup {NoAuthCall},
         v # NoAuthCall => /\ v.op \in {"request", "revoke"} /\ v.session = s
                           /\ v.last = authCall[c].last,
         authCall' = [authCall EXCEPT ![c] = v],
         UNCHANGED <<nonceState, userRows, vmRows, interrupted>>
  PROVE  SignInInv'
<1>2. sessions[s] # NoSession /\ authCall[c].last \in accepted[s] \cup {0}
  BY DEF SignInInv, RequestsInv, RequestSound
<1>3. /\ sessions' \in [SessionIds -> Session \cup {NoSession}] /\ x # NoSession
      /\ sessions'[s] = x /\ \A t \in SessionIds \ {s} : sessions'[t] = sessions[t]
  BY SessionMade DEF SignInInv, SignInTypeOK
<1>4. /\ authCall' \in [AuthCalls -> AuthCall \cup {NoAuthCall}]
      /\ authCall'[c] = v /\ \A d \in AuthCalls \ {c} : authCall'[d] = authCall[d]
  BY CallSet DEF SignInInv
<1>5. ASSUME NEW t \in SessionIds, t # s
      PROVE  NumberSound(t)'
  <2>1. NumberSound(t) /\ sessions'[t] = sessions[t] /\ accepted'[t] = accepted[t]
    BY <1>3, <1>5 DEF NumbersMove, SignInInv, RequestsInv
  <2> QED
    BY <1>5, <2>1 DEF NumbersMove, NumberSound
<1>6. RequestSound(c)'
  BY <1>2, <1>3, <1>4 DEF RequestSound, Requesting, NumbersMove
<1>7. ASSUME NEW d \in AuthCalls, d # c
      PROVE  RequestSound(d)'
  <2>1. Requesting(d)' => Requesting(d) /\ authCall'[d] = authCall[d] /\ authCall[d].session \in SessionIds
    BY <1>4, <1>7, RequestRecord DEF Requesting, SignInInv, SignInTypeOK
  <2>2. \A t \in SessionIds : sessions[t] # NoSession => sessions'[t] # NoSession
    BY <1>3
  <2> QED
    BY <2>1, <2>2 DEF NumbersMove, RequestSound, SignInInv, RequestsInv
<1>8. RequestsInv'
  BY <1>5, <1>6, <1>7 DEF NumbersMove, RequestsInv
<1>9. \A d \in AuthCalls : (\E at \in {"user", "insert", "provision", "session"} :
                              Verifying(d, at) \/ Verifying(d, at)') => authCall'[d] = authCall[d]
  BY <1>4 DEF Verifying, Requesting
<1>10. \A t \in SessionIds : /\ sessions[t] = NoSession => sessions'[t] = NoSession
                             /\ sessions[t] # NoSession =>
                                  sessions'[t] # NoSession /\ sessions'[t].by = sessions[t].by
  BY <1>2, <1>3
<1> QED
  BY <1>3, <1>4, <1>8, <1>9, <1>10, RequestStepKeepsSignIn DEF NumbersMove

\* A call ends, and where it was a sign-in about to make its session the cut is noted.
LEMMA EndsKeepsSignIn ==
  ASSUME SignInInv, NEW c \in AuthCalls, authCall[c] # NoAuthCall,
         authCall' = [authCall EXCEPT ![c] = NoAuthCall],
         interrupted \subseteq interrupted', interrupted' \subseteq Nonces,
         Verifying(c, "session") => authCall[c].nonce \in interrupted',
         UNCHANGED <<nonceState, userRows, vmRows, sessions, numberHistory>>
  PROVE  SignInInv'
<1>1. /\ authCall' \in [AuthCalls -> AuthCall \cup {NoAuthCall}]
      /\ authCall'[c] = NoAuthCall /\ \A d \in AuthCalls \ {c} : authCall'[d] = authCall[d]
  BY CallSet DEF SignInInv
<1>2. SignInTypeOK'
  BY <1>1 DEF SignInInv, SignInTypeOK
<1>3. \A d \in AuthCalls : Provisioning(d)' => authCall'[d] = authCall[d]
  BY <1>1 DEF Provisioning, Verifying
<1>4. UsersInv'
  BY <1>3, UsersUndisturbed
<1>5. \A d \in AuthCalls : Requesting(d)' => authCall'[d] = authCall[d]
  BY <1>1 DEF Requesting
<1>6. RequestsInv'
  BY <1>5, RequestsUndisturbed
<1>7. ASSUME NEW d \in AuthCalls, NEW m \in Nonces, Verifying(d, "session"), authCall[d].nonce = m
      PROVE  HasSession(m)' \/ m \in interrupted'
  BY <1>1, <1>7 DEF HasSession, Verifying
<1>8. NonceNotWasted'
  BY <1>7, NoncesUndisturbed
<1> QED
  BY <1>2, <1>4, <1>6, <1>8 DEF SignInInv

LEMMA BumpsKeepsSignIn ==
  ASSUME SignInInv, NEW c \in AuthCalls, RequestBumpsNumber(c)
  PROVE  SignInInv'
<1>1. /\ Requesting(c) /\ UNCHANGED <<nonceState, userRows, vmRows, interrupted>>
      /\ authCall[c] \in AuthCall /\ authCall[c] # NoAuthCall /\ ~Verifying(c, "session")
  BY DEF RequestBumpsNumber, Requesting, Verifying, SignInInv, SignInTypeOK
<1>2. authCall[c] \in [op : {"request", "revoke"}, at : {"number", "revoke"}, session : SessionIds,
                       no : 1..MaxRequests, last : 0..MaxRequests]
  BY <1>1, RequestRecord DEF Requesting
<1>3. CASE authCall[c].no <= authCall[c].last
  <2>1. authCall' = [authCall EXCEPT ![c] = NoAuthCall] /\ UNCHANGED <<sessions, numberHistory>>
    BY <1>3 DEF RequestBumpsNumber, AuthEnds
  <2> QED
    BY <1>1, <2>1, EndsKeepsSignIn DEF SignInInv, SignInTypeOK
<1>4. CASE ~(authCall[c].no <= authCall[c].last)
  <2>0. PICK s \in SessionIds, no \in 1..MaxRequests : s = authCall[c].session /\ no = authCall[c].no
    BY <1>2
  <2> DEFINE x == [sessions[s] EXCEPT !.last = no]
             moved == [authCall[c] EXCEPT !.at = "revoke"]
  <2>1. /\ sessions[s] \in Session /\ sessions[s] # NoSession
        /\ authCall[c].last \in 0..MaxRequests /\ sessions[s].last \in 0..MaxRequests
    BY <1>1, <1>2, <2>0 DEF SignInInv, SignInTypeOK, RequestsInv, RequestSound, Session
  <2>2. x \in Session /\ x.by = sessions[s].by /\ x.last = no
    BY <2>1, SignInAssumption DEF Session
  <2>3. sessions' = [sessions EXCEPT ![s] = x] /\ StoresNumber(c)
    BY <1>4, <2>0 DEF RequestBumpsNumber, StoresNumber
  <2>4. /\ moved \in AuthCall /\ moved.op \in {"request", "revoke"}
        /\ moved.session = s /\ moved.last = authCall[c].last
    BY <1>2, <2>0 DEF AuthCall
  <2>5. \/ authCall' = [authCall EXCEPT ![c] = moved]
        \/ authCall' = [authCall EXCEPT ![c] = NoAuthCall]
    BY <1>4 DEF RequestBumpsNumber, AuthGoto, AuthEnds
  <2> HIDE DEF x, moved
  <2>6. /\ accepted' \in [SessionIds -> SUBSET (1..MaxRequests)]
        /\ accepted'[s] = accepted[s] \cup {no} /\ accepted[s] \subseteq 1..MaxRequests
        /\ \A t \in SessionIds \ {s} : accepted'[t] = accepted[t]
    BY <2>0, <2>1, <2>3 DEF StoresNumber, SignInInv, SignInTypeOK
  <2>7. /\ replayed' = IF \E a \in accepted[s] : no <= a THEN replayed \cup {s} ELSE replayed
        /\ overtaken' = IF authCall[c].last # sessions[s].last /\ no <= sessions[s].last
                        THEN overtaken \cup {s} ELSE overtaken
    BY <2>0, <2>3 DEF StoresNumber
  <2>8. replayed' \subseteq SessionIds /\ overtaken' \subseteq SessionIds
    BY <2>1, <2>7 DEF SignInInv, SignInTypeOK
  <2>9. sessions'[s] = x
    BY <2>1, <2>3 DEF SignInInv, SignInTypeOK
  <2>10. ASSUME s \notin overtaken'
         PROVE  /\ s \notin replayed'
                /\ \A a \in accepted'[s] : a <= no
    <3>1. s \notin overtaken /\ no > sessions[s].last
      BY <1>4, <2>0, <2>1, <2>7, <2>10
    <3>2. s \notin replayed /\ \A a \in accepted[s] : a <= sessions[s].last
      BY <2>1, <3>1 DEF SignInInv, RequestsInv, NumberSound
    <3>3. \A a \in accepted[s] : a < no
      BY <2>1, <2>6, <3>1, <3>2, SignInAssumption
    <3>4. \A a \in accepted[s] : ~(no <= a)
      BY <2>1, <2>6, <3>3, SignInAssumption
    <3> QED
      BY <2>1, <2>6, <2>7, <3>2, <3>3, <3>4, SignInAssumption
  <2>11. NumberSound(s)'
    <3>1. sessions'[s] # NoSession /\ sessions'[s].last = no /\ no \in accepted'[s]
      BY <2>2, <2>6, <2>9, SessionMade
    <3> QED
      BY <2>10, <3>1 DEF NumberSound
  <2>12. \A t \in SessionIds : accepted[t] \subseteq accepted'[t]
    BY <2>6
  <2>13. ASSUME NEW t \in SessionIds, t # s
         PROVE  /\ accepted'[t] = accepted[t]
                /\ t \in replayed' => t \in replayed
                /\ t \in overtaken => t \in overtaken'
    BY <2>6, <2>7, <2>13
  <2>14. NumbersMove(s)
    BY <2>6, <2>8, <2>11, <2>12, <2>13 DEF NumbersMove
  <2>15. CASE authCall' = [authCall EXCEPT ![c] = moved]
    BY <1>1, <2>0, <2>2, <2>3, <2>4, <2>14, <2>15, StoresKeepsSignIn
  <2>16. CASE authCall' = [authCall EXCEPT ![c] = NoAuthCall]
    BY <1>1, <2>0, <2>2, <2>3, <2>14, <2>16, StoresKeepsSignIn
  <2> QED
    BY <2>5, <2>15, <2>16
<1> QED
  BY <1>3, <1>4

LEMMA RevokeKeepsSignIn ==
  ASSUME SignInInv, NEW c \in AuthCalls, Revoke(c)
  PROVE  SignInInv'
<1>0. PICK s \in SessionIds : s = authCall[c].session
  BY RequestRecord DEF Revoke, Requesting, SignInInv, SignInTypeOK
<1> DEFINE x == [sessions[s] EXCEPT !.revoked = TRUE]
<1>1. /\ Requesting(c) /\ UNCHANGED <<nonceState, userRows, vmRows, interrupted, numberHistory>>
      /\ authCall' = [authCall EXCEPT ![c] = NoAuthCall]
      /\ sessions' = [sessions EXCEPT ![s] = x]
  BY <1>0 DEF Revoke, AuthEnds
<1>2. sessions[s] \in Session /\ sessions[s] # NoSession
  BY <1>0, <1>1 DEF SignInInv, SignInTypeOK, RequestsInv, RequestSound
<1>3. x \in Session /\ x.by = sessions[s].by /\ x.last = sessions[s].last
  BY <1>2 DEF Session
<1> HIDE DEF x
<1>4. UNCHANGED <<accepted, replayed, overtaken>>
  BY <1>1 DEF numberHistory
<1>5. /\ accepted' \in [SessionIds -> SUBSET (1..MaxRequests)]
      /\ replayed' \subseteq SessionIds /\ overtaken' \subseteq SessionIds
  BY <1>4 DEF SignInInv, SignInTypeOK
<1>6. NumberSound(s)'
  <2>1. sessions'[s] = x /\ NumberSound(s)
    BY <1>1, <1>2 DEF SignInInv, SignInTypeOK, RequestsInv
  <2> QED
    BY <1>2, <1>3, <1>4, <2>1, SessionMade DEF NumberSound
<1>7. NumbersMove(s)
  BY <1>4, <1>5, <1>6 DEF NumbersMove
<1> QED
  BY <1>0, <1>1, <1>2, <1>3, <1>7, StoresKeepsSignIn

LEMMA AbortsKeepsSignIn ==
  ASSUME SignInInv, NEW c \in AuthCalls, AuthAborts(c)
  PROVE  SignInInv'
<1>1. /\ authCall[c] # NoAuthCall /\ authCall' = [authCall EXCEPT ![c] = NoAuthCall]
      /\ UNCHANGED <<nonceState, userRows, vmRows, sessions, numberHistory>>
  BY DEF AuthAborts, AuthEnds
<1>2. interrupted \subseteq interrupted' /\ (Verifying(c, "session") => authCall[c].nonce \in interrupted')
  BY DEF AuthAborts
<1>3. Verifying(c, "session") => authCall[c].nonce \in Nonces
  BY VerifyRecord DEF Verifying, SignInInv, SignInTypeOK
<1>4. interrupted' \subseteq Nonces
  BY <1>3 DEF AuthAborts, SignInInv, SignInTypeOK
<1> QED
  BY <1>1, <1>2, <1>4, EndsKeepsSignIn

LEMMA SignInStep == SignInInv /\ [SignInNext]_signInVars => SignInInv'
<1> SUFFICES ASSUME SignInInv, [SignInNext]_signInVars PROVE SignInInv'
  OBVIOUS
<1>1. CASE UNCHANGED signInVars
  <2>1. UNCHANGED <<nonceState, userRows, vmRows, sessions, authCall, interrupted, numberHistory>>
    BY <1>1 DEF signInVars
  <2>2. SignInTypeOK'
    BY <2>1 DEF SignInInv, SignInTypeOK
  <2>3. UsersInv' /\ RequestsInv'
    BY <2>1, UsersUndisturbed, RequestsUndisturbed
  <2>4. NonceNotWasted'
    BY <2>1 DEF SignInInv, NonceNotWasted, Verifying
  <2> QED
    BY <2>2, <2>3, <2>4 DEF SignInInv
<1> QED
  BY <1>1, NonceStepKeepsSignIn, ChecksKeepsSignIn, LooksUpKeepsSignIn, InsertsKeepsSignIn,
     ProvisionsKeepsSignIn, SessionKeepsSignIn, LoadsKeepsSignIn, BumpsKeepsSignIn,
     RevokeKeepsSignIn, AbortsKeepsSignIn
  DEF SignInNext

LEMMA SignInStart == SignInInit => SignInInv
<1> SUFFICES ASSUME SignInInit PROVE SignInInv
  OBVIOUS
<1>1. 0 \in 0..MaxRequests
  BY SignInAssumption
<1>2. /\ \A n \in Nonces : nonceState[n].st = "absent"
      /\ nonceState \in [Nonces -> [st : {"absent", "issued", "expired", "used"}, wallet : Wallets]]
  BY DEF SignInInit
<1>3. SignInTypeOK
  BY <1>1, <1>2 DEF SignInInit, SignInTypeOK
<1>4. \A c \in AuthCalls : authCall[c] = NoAuthCall
  BY DEF SignInInit
<1>5. UsersInv
  BY <1>4 DEF SignInInit, UsersInv, OneUserPerWallet, HoldsUser, Verifying
<1>6. NonceNotWasted
  BY <1>2 DEF NonceNotWasted
<1>7. RequestsInv
  BY <1>4 DEF SignInInit, RequestsInv, RequestSound, NumberSound, Requesting
<1> QED
  BY <1>3, <1>5, <1>6, <1>7 DEF SignInInv

\* A number above all accepted ones is above the one loaded, which is one of them, or 0.
LEMMA SignInImplied == SignInInv => SignInSafe
<1> SUFFICES ASSUME SignInInv PROVE SignInSafe
  OBVIOUS
<1>1. ASSUME NEW c \in AuthCalls, Requesting(c), authCall[c].at = "number",
             \A a \in accepted[authCall[c].session] : a < authCall[c].no
      PROVE  authCall[c].no > authCall[c].last
  <2>1. authCall[c].last \in accepted[authCall[c].session] \cup {0}
    BY <1>1 DEF SignInInv, RequestsInv, RequestSound
  <2>2. authCall[c].no \in 1..MaxRequests /\ authCall[c].last \in 0..MaxRequests
    BY <1>1, RequestRecord DEF Requesting, SignInInv, SignInTypeOK
  <2> QED
    BY <1>1, <2>1, <2>2, SignInAssumption
<1>2. FreshAccepted
  BY <1>1 DEF FreshAccepted
<1>3. ReplayRefused
  BY DEF ReplayRefused, SignInInv, SignInTypeOK, RequestsInv, NumberSound
<1> QED
  BY <1>2, <1>3 DEF SignInSafe, SignInInv, UsersInv

\* SignInSafe: overlapping first sign-ins leave one user row with its VM row, a failed sign-in
\* leaves its nonce to be used again, a request with a new number is accepted, and an old number
\* is accepted only where another request of its session ran in between.
THEOREM SignInProved == SignInSpec => []SignInSafe
<1>1. SignInInv => SignInSafe
  BY SignInImplied
<1> QED
  BY <1>1, SignInStart, SignInStep, PTL DEF SignInSpec

-----------------------------------------------------------------------------
(* The strategy library and the marketplace (Marketplace)                  *)

DeleteCall ==
  [op : {"delete"}, at : {"row", "commit"}, user : Users, id : RowIds, row : Row, n : Nat]
InstallCall ==
  [op : {"install"}, at : {"check", "commit", "grant"}, user : Users, mp : Listings, seen : Listing]
ReportCall ==
  [op : {"report"}, at : {"count", "commit"}, user : Users, mp : Listings, seen : Nat, n : Nat]
PublishCall ==
  [op : {"publish"}, at : {"backtest", "select", "commit"}, user : Users, row : Row,
   mp : {None} \cup Listings]

\* The row a delete loaded is gone or still the copy it was: ids are not used again.
DeleteSound(c) ==
  call[c] # Idle /\ call[c].op = "delete" =>
    /\ call[c].id <= made
    /\ library[call[c].id] = NoRow \/ library[call[c].id].mp = call[c].row.mp
    /\ call[c].row.mp # None => Listed(call[c].row.mp)

RowsInv ==
  /\ \A i \in RowIds : i > made => library[i] = NoRow
  /\ \A i \in RowIds : library[i] # NoRow /\ library[i].source = "authored" => library[i].mp = None
  /\ \A c \in Calls : DeleteSound(c)

\* A listing that was read is there, its code unchanged.
InstallSound(c) ==
  call[c] # Idle /\ call[c].op = "install" =>
    Listed(call[c].mp) /\ call[c].seen.hash = listings[call[c].mp].hash
ListedAs(l, u, k) == Listed(l) /\ listings[l].author = u /\ listings[l].hash = k
PublishSound(c) ==
  At(c, "publish", "commit") /\ call[c].mp # None =>
    ListedAs(call[c].mp, call[c].user, call[c].row.hash)
\* A code no two publishes of which overlapped has one listing, and no call makes another.
PublishSingle(u, k) ==
  /\ \A l, m \in Listings : ListedAs(l, u, k) /\ ListedAs(m, u, k) => l = m
  /\ \A c, d \in Calls : Publishes(c, u, k) /\ Publishes(d, u, k) => c = d
  /\ \A c \in Calls : Publishes(c, u, k) /\ call[c].at = "commit" /\ call[c].mp = None =>
       \A l \in Listings : ~ListedAs(l, u, k)
\* A publish that has been to the chain.
Attesting(c, k) ==
  call[c] # Idle /\ call[c].op = "publish" /\ call[c].at \in {"select", "commit"} /\ call[c].row.hash = k

AttestInv ==
  /\ ListedCodeAttested
  /\ \A c \in Calls : InstallSound(c) /\ PublishSound(c)
  /\ \A u \in Users, k \in Codes : <<u, k>> \in published => PublishSingle(u, k)
  /\ \A k \in registry \ unlisted :
       \/ \E l \in Listings : Listed(l) /\ listings[l].hash = k
       \/ \E c \in Calls : Attesting(c, k)

\* A count no two changes of which overlapped has one call about to change it, which has
\* read its present value.
CountSound(c, l) ==
  /\ call[c].op = "delete" =>
       library[call[c].id] # NoRow /\ (call[c].at = "commit" => call[c].n = listings[l].installs)
  /\ call[c].op = "install" => call[c].seen.installs = listings[l].installs
CountSingle(l) ==
  /\ Listed(l) => listings[l].installs = Cardinality(Copies(l))
  /\ \A c, d \in Calls : Counts(c) = l /\ Counts(d) = l => c = d
  /\ \A c \in Calls : Counts(c) = l => CountSound(c, l)
CountsInv == \A l \in counted : CountSingle(l)

ReportsOf(l) == {r \in reports : r[1] = l}
ReportSound(c) ==
  call[c] # Idle /\ call[c].op = "report" =>
    LET n == Cardinality(ReportsOf(call[c].mp)) IN
    /\ Listed(call[c].mp) /\ <<call[c].mp, call[c].user>> \notin reports
    /\ call[c].seen <= n
    /\ call[c].at = "commit" => call[c].n <= n + 1
\* Of a listing no two reports of which overlapped, likewise.
FlagSingle(l) ==
  /\ Listed(l) => listings[l].reported = Cardinality(ReportsOf(l))
  /\ \A c, d \in Calls : Reporting(c, l) /\ Reporting(d, l) => c = d
  /\ \A c \in Calls : Reporting(c, l) =>
       /\ call[c].seen = Cardinality(ReportsOf(l))
       /\ call[c].at = "commit" => call[c].n = Cardinality(ReportsOf(l)) + 1
ReportsInv ==
  /\ IsFiniteSet(reports)
  /\ \A r \in reports : Listed(r[1])
  /\ \A l \in Listings : Listed(l) => listings[l].reported <= Cardinality(ReportsOf(l))
  /\ \A c \in Calls : ReportSound(c)
  /\ \A l \in Listings, c, d \in Calls :
       Reporting(c, l) /\ Reporting(d, l) /\ call[c].user = call[d].user => c = d
  /\ \A l \in flagged : FlagSingle(l)

MarketInv == MarketTypeOK /\ RowsInv /\ AttestInv /\ CountsInv /\ ReportsInv

LEMMA CallKinds ==
  ASSUME NEW v \in Call
  PROVE  /\ v # Idle /\ v.op \in {"delete", "install", "report", "publish"}
         /\ v.op = "delete" => v \in DeleteCall
         /\ v.op = "install" => v \in InstallCall
         /\ v.op = "report" => v \in ReportCall
         /\ v.op = "publish" => v \in PublishCall
<1>1. v \in DeleteCall \/ v \in InstallCall \/ v \in ReportCall \/ v \in PublishCall
  BY DEF Call, DeleteCall, InstallCall, ReportCall, PublishCall
<1>2. v \in DeleteCall => v.op = "delete"
  BY DEF DeleteCall
<1>3. v \in InstallCall => v.op = "install"
  BY DEF InstallCall
<1>4. v \in ReportCall => v.op = "report"
  BY DEF ReportCall
<1>5. v \in PublishCall => v.op = "publish"
  BY DEF PublishCall
<1>6. v.op # "idle" => v # Idle
  BY DEF Idle
<1> QED
  BY <1>1, <1>2, <1>3, <1>4, <1>5, <1>6

LEMMA CallOfKind ==
  ASSUME NEW v, v \in DeleteCall \/ v \in InstallCall \/ v \in ReportCall \/ v \in PublishCall
  PROVE  v \in Call
BY DEF Call, DeleteCall, InstallCall, ReportCall, PublishCall

LEMMA RowMade == ASSUME NEW x \in Row PROVE x # NoRow
BY DEF Row, NoRow

LEMMA ListingMade == ASSUME NEW x \in Listing PROVE x # NoListing
<1>1. "hash" \in DOMAIN x
  BY DEF Listing
<1>2. "hash" \notin DOMAIN NoListing
  BY DEF NoListing
<1> QED
  BY <1>1, <1>2

LEMMA NumberTypes ==
  /\ MaxRows \in Nat /\ MaxListings \in Nat /\ MaxTokens \in Nat /\ MaxCalls \in Nat
  /\ RowIds \subseteq Nat \ {0} /\ Listings \subseteq Nat \ {0} /\ None = 0 /\ None \notin Listings
  /\ IsFiniteSet(RowIds) /\ IsFiniteSet(Listings)
<1>1. /\ MaxRows \in Nat /\ MaxListings \in Nat /\ MaxTokens \in Nat /\ MaxCalls \in Nat
  BY MarketAssumption
<1>2. IsFiniteSet(1..MaxRows) /\ IsFiniteSet(1..MaxListings)
  BY <1>1, FS_Interval
<1> QED
  BY <1>1, <1>2 DEF RowIds, Listings, None

LEMMA CallPut ==
  ASSUME MarketTypeOK, NEW c \in Calls, NEW v \in Call \cup {Idle},
         call' = [call EXCEPT ![c] = v]
  PROVE  /\ call' \in [Calls -> Call \cup {Idle}]
         /\ call'[c] = v /\ \A d \in Calls \ {c} : call'[d] = call[d]
BY DEF MarketTypeOK

LEMMA ListingPut ==
  ASSUME MarketTypeOK, NEW l \in Listings, NEW x \in Listing,
         listings' = [listings EXCEPT ![l] = x]
  PROVE  /\ listings' \in [Listings -> Listing \cup {NoListing}]
         /\ listings'[l] = x /\ x # NoListing
         /\ \A m \in Listings \ {l} : listings'[m] = listings[m]
BY ListingMade DEF MarketTypeOK

LEMMA LibraryPut ==
  ASSUME MarketTypeOK, NEW i \in RowIds, NEW x \in Row \cup {NoRow},
         library' = [library EXCEPT ![i] = x]
  PROVE  /\ library' \in [RowIds -> Row \cup {NoRow}]
         /\ library'[i] = x /\ \A j \in RowIds \ {i} : library'[j] = library[j]
BY DEF MarketTypeOK

LEMMA CopiesFinite ==
  ASSUME NEW l
  PROVE  IsFiniteSet(Copies(l)) /\ Cardinality(Copies(l)) \in Nat
<1>1. IsFiniteSet(Copies(l))
  BY NumberTypes, FS_Subset DEF Copies
<1> QED
  BY <1>1, FS_CardinalityType

LEMMA ReportsFinite ==
  ASSUME ReportsInv, NEW l
  PROVE  IsFiniteSet(ReportsOf(l)) /\ Cardinality(ReportsOf(l)) \in Nat
<1>1. IsFiniteSet(ReportsOf(l))
  BY FS_Subset DEF ReportsOf, ReportsInv
<1> QED
  BY <1>1, FS_CardinalityType

\* Rows stay the copies they are, or go.
LEMMA RowsUndisturbed ==
  ASSUME MarketInv, MarketTypeOK', made <= made',
         \A l \in Listings : Listed(l) => Listed(l)',
         \A i \in RowIds : i > made' => library'[i] = NoRow,
         \A i \in RowIds : i <= made => \/ library'[i] = NoRow
                                        \/ library[i] # NoRow /\ library'[i].mp = library[i].mp,
         \A i \in RowIds : library'[i] # NoRow /\ library'[i].source = "authored" => library'[i].mp = None,
         \A d \in Calls : call'[d] # Idle /\ call'[d].op = "delete" =>
           /\ call[d] # Idle /\ call[d].op = "delete"
           /\ call'[d].id = call[d].id /\ call'[d].row = call[d].row
  PROVE  RowsInv'
<1>1. ASSUME NEW d \in Calls
      PROVE  DeleteSound(d)'
  <2> SUFFICES ASSUME call'[d] # Idle, call'[d].op = "delete"
               PROVE  /\ call'[d].id <= made'
                      /\ library'[call'[d].id] = NoRow \/ library'[call'[d].id].mp = call'[d].row.mp
                      /\ call'[d].row.mp # None => listings'[call'[d].row.mp] # NoListing
    BY DEF DeleteSound, Listed
  <2>1. DeleteSound(d) /\ call[d] # Idle /\ call[d].op = "delete" /\ call[d] \in Call
        /\ call'[d].id = call[d].id /\ call'[d].row = call[d].row
    BY DEF MarketInv, RowsInv, MarketTypeOK
  <2>2. call[d].id \in RowIds /\ call[d].row.mp \in {None} \cup Listings
    BY <2>1, CallKinds DEF DeleteCall, Row
  <2>3. made \in Nat /\ made' \in Nat /\ call[d].id \in Nat
    <3>1. made \in 0..MaxRows /\ made' \in 0..MaxRows
      BY DEF MarketInv, MarketTypeOK
    <3> QED
      BY <2>2, <3>1, NumberTypes DEF RowIds
  <2>4. call[d].row.mp # None => listings'[call[d].row.mp] # NoListing
    BY <2>1, <2>2 DEF DeleteSound, Listed
  <2> QED
    BY <2>1, <2>2, <2>3, <2>4 DEF DeleteSound
<1> QED
  BY <1>1 DEF RowsInv

\* Listings keep their author and code, and no call goes on to attest or to copy one.
LEMMA AttestUndisturbed ==
  ASSUME MarketInv, UNCHANGED <<registry, published>>, unlisted \subseteq unlisted',
         \A l \in Listings : Listed(l)' <=> Listed(l),
         \A l \in Listings : Listed(l) =>
           /\ listings'[l].author = listings[l].author /\ listings'[l].hash = listings[l].hash
           /\ listings'[l].blob = listings[l].blob,
         \A i \in RowIds : library'[i] # NoRow /\ library'[i].mp # None => library'[i] = library[i],
         MarketTypeOK',
         \A d \in Calls : call'[d] # Idle =>
           \/ call'[d].op \in {"delete", "report"}
           \/ call'[d] = call[d]
           \/ /\ call'[d].op = "install" /\ call[d] # Idle /\ call[d].op = "install"
              /\ call'[d].mp = call[d].mp /\ call'[d].seen = call[d].seen,
         \A d \in Calls, k \in Codes : Attesting(d, k) => call'[d] = call[d] \/ k \in unlisted'
  PROVE  AttestInv'
<1>1. ListedCodeAttested'
  <2>1. ASSUME NEW l \in Listings, Listed(l)'
        PROVE  listings'[l].blob = listings'[l].hash
    BY <2>1 DEF MarketInv, AttestInv, ListedCodeAttested
  <2>2. ASSUME NEW l \in Listings, NEW i \in Copies(l)'
        PROVE  Listed(l)' /\ library'[i].hash = listings'[l].hash
    <3>1. i \in Copies(l) /\ library'[i] = library[i]
      BY <2>2, NumberTypes DEF Copies
    <3> QED
      BY <3>1 DEF MarketInv, AttestInv, ListedCodeAttested
  <2> QED
    BY <2>1, <2>2 DEF ListedCodeAttested
<1>2. ASSUME NEW d \in Calls
      PROVE  InstallSound(d)'
  <2> SUFFICES ASSUME call'[d] # Idle, call'[d].op = "install"
               PROVE  /\ listings'[call'[d].mp] # NoListing
                      /\ call'[d].seen.hash = listings'[call'[d].mp].hash
    BY DEF InstallSound, Listed
  <2>1. /\ call[d] # Idle /\ call[d].op = "install" /\ call[d] \in Call /\ InstallSound(d)
        /\ call'[d].mp = call[d].mp /\ call'[d].seen = call[d].seen
    BY DEF MarketInv, MarketTypeOK, AttestInv
  <2>2. PICK l \in Listings : l = call[d].mp
    BY <2>1, CallKinds DEF InstallCall
  <2>3. Listed(l) /\ call[d].seen.hash = listings[l].hash
    BY <2>1, <2>2 DEF InstallSound
  <2>4. Listed(l)' /\ listings'[l].hash = listings[l].hash
    BY <2>3
  <2> QED
    BY <2>1, <2>2, <2>3, <2>4 DEF Listed
<1>3. \A l \in Listings : \A u, k : ListedAs(l, u, k)' <=> ListedAs(l, u, k)
  BY DEF ListedAs
<1>4. \A d \in Calls : call'[d] # Idle /\ call'[d].op = "publish" => call'[d] = call[d]
  OBVIOUS
<1>5. ASSUME NEW d \in Calls
      PROVE  PublishSound(d)'
  <2> SUFFICES ASSUME At(d, "publish", "commit")', call'[d].mp # None
               PROVE  ListedAs(call[d].mp, call[d].user, call[d].row.hash)' /\ call'[d] = call[d]
    BY DEF PublishSound, ListedAs, Listed
  <2>1. call'[d] = call[d] /\ call[d] \in Call /\ At(d, "publish", "commit") /\ PublishSound(d)
    BY <1>4 DEF At, MarketInv, MarketTypeOK, AttestInv
  <2>2. call[d] \in PublishCall
    BY <2>1, CallKinds DEF At
  <2>3. PICK l \in Listings : l = call[d].mp
    BY <2>1, <2>2 DEF PublishCall
  <2>4. ListedAs(l, call[d].user, call[d].row.hash)
    BY <2>1, <2>3 DEF PublishSound
  <2> QED
    BY <1>3, <2>1, <2>3, <2>4 DEF ListedAs, Listed
<1>6. ASSUME NEW u \in Users, NEW k \in Codes, <<u, k>> \in published'
      PROVE  PublishSingle(u, k)'
  <2>1. PublishSingle(u, k)
    BY <1>6 DEF MarketInv, AttestInv
  <2>2. \A d \in Calls : Publishes(d, u, k)' => Publishes(d, u, k) /\ call'[d] = call[d]
    BY <1>4 DEF Publishes
  <2> QED
    BY <1>3, <2>1, <2>2 DEF PublishSingle
<1>7. ASSUME NEW k \in registry' \ unlisted'
      PROVE  \/ \E l \in Listings : Listed(l)' /\ listings'[l].hash = k
             \/ \E c \in Calls : Attesting(c, k)'
  <2>1. k \in registry \ unlisted /\ k \in Codes
    BY DEF MarketInv, MarketTypeOK
  <2>2. \/ \E l \in Listings : Listed(l) /\ listings[l].hash = k
        \/ \E c \in Calls : Attesting(c, k)
    BY <2>1 DEF MarketInv, AttestInv
  <2> QED
    BY <1>7, <2>1, <2>2 DEF Attesting
<1> QED
  BY <1>1, <1>2, <1>5, <1>6, <1>7 DEF AttestInv

\* A call of a counted listing has read it.
LEMMA CountsListed ==
  ASSUME MarketInv, NEW c \in Calls, NEW l \in Listings, Counts(c) = l
  PROVE  /\ call[c] \in Call /\ call[c] # Idle
         /\ \/ call[c].op = "delete" /\ call[c] \in DeleteCall /\ call[c].row.mp = l
            \/ /\ call[c].op = "install" /\ call[c] \in InstallCall
               /\ call[c].at \in {"check", "commit"} /\ call[c].mp = l /\ Listed(l)
<1>1. call[c] # Idle /\ call[c] \in Call
  BY NumberTypes DEF MarketInv, MarketTypeOK, Counts
<1>2. call[c].op \in {"delete", "install"}
  BY <1>1, CallKinds, NumberTypes DEF Counts
<1>3. CASE call[c].op = "delete"
  BY <1>1, <1>3, CallKinds DEF Counts
<1>4. CASE call[c].op = "install"
  <2>1. call[c] \in InstallCall /\ call[c].at # "grant" /\ call[c].mp = l
    BY <1>1, <1>4, CallKinds, NumberTypes DEF Counts
  <2>2. InstallSound(c)
    BY DEF MarketInv, AttestInv
  <2> QED
    BY <1>1, <1>4, <2>1, <2>2 DEF InstallSound, InstallCall
<1> QED
  BY <1>2, <1>3, <1>4

\* Copies, counts and the calls about to change a count are as before; a new listing has none.
LEMMA CountsUndisturbed ==
  ASSUME MarketInv, counted' \subseteq counted,
         \A i \in RowIds : /\ library[i] = NoRow <=> library'[i] = NoRow
                           /\ library[i] # NoRow => library'[i].mp = library[i].mp,
         \A l \in Listings :
           /\ Listed(l) => Listed(l)' /\ listings'[l].installs = listings[l].installs
           /\ ~Listed(l) /\ Listed(l)' => listings'[l].installs = 0,
         \A d \in Calls, l \in Listings : Counts(d)' = l =>
           /\ Counts(d) = l
           /\ \/ call'[d] = call[d]
              \/ call'[d].op = "install" /\ call[d].op = "install" /\ call'[d].seen = call[d].seen
  PROVE  CountsInv'
<1> SUFFICES ASSUME NEW l \in counted'
             PROVE  CountSingle(l)'
  BY DEF CountsInv
<1>1. l \in Listings /\ l \in counted /\ CountSingle(l)
  BY DEF MarketInv, MarketTypeOK, CountsInv
<1>2. Copies(l)' = Copies(l)
  BY DEF Copies
<1>3. Listed(l)' => listings'[l].installs = Cardinality(Copies(l)')
  <2>1. CASE Listed(l)
    BY <1>1, <1>2, <2>1 DEF CountSingle
  <2>2. CASE ~Listed(l)
    <3>1. Copies(l) = {}
      BY <1>1, <2>2 DEF MarketInv, AttestInv, ListedCodeAttested
    <3> QED
      BY <1>1, <1>2, <2>2, <3>1, FS_EmptySet
  <2> QED
    BY <2>1, <2>2
<1>4. ASSUME NEW d \in Calls, Counts(d)' = l
      PROVE  CountSound(d, l)'
  <2>1. Counts(d) = l /\ CountSound(d, l)
    BY <1>1, <1>4 DEF CountSingle
  <2>2. CASE call[d].op = "delete"
    <3>1. call'[d] = call[d]
      BY <1>1, <1>4, <2>2
    <3>2. call[d].id \in RowIds /\ call[d].row.mp = l /\ call[d] # Idle
      BY <1>1, <2>1, <2>2, CountsListed DEF DeleteCall
    <3>3. library[call[d].id] # NoRow
      BY <2>1, <2>2 DEF CountSound
    <3>4. DeleteSound(d)
      BY DEF MarketInv, RowsInv
    <3>5. call[d].id \in Copies(l)
      BY <2>2, <3>2, <3>3, <3>4 DEF DeleteSound, Copies
    <3>6. Listed(l)
      BY <1>1, <3>5 DEF MarketInv, AttestInv, ListedCodeAttested
    <3> QED
      BY <1>1, <2>1, <2>2, <3>1, <3>2, <3>3, <3>6 DEF CountSound
  <2>3. CASE call[d].op = "install"
    <3>1. Listed(l)
      BY <1>1, <2>1, <2>3, CountsListed
    <3> QED
      BY <1>1, <1>4, <2>1, <2>3, <3>1 DEF CountSound
  <2> QED
    BY <1>1, <2>1, <2>2, <2>3, CountsListed
<1>5. \A c, d \in Calls : Counts(c)' = l /\ Counts(d)' = l => c = d
  BY <1>1 DEF CountSingle
<1> QED
  BY <1>3, <1>4, <1>5 DEF CountSingle

\* No report is made or counted; a new listing has none.
LEMMA ReportsUndisturbed ==
  ASSUME MarketInv, UNCHANGED reports, flagged' \subseteq flagged,
         \A l \in Listings :
           /\ Listed(l) => Listed(l)' /\ listings'[l].reported = listings[l].reported
           /\ ~Listed(l) /\ Listed(l)' => listings'[l].reported = 0,
         \A d \in Calls : call'[d] # Idle /\ call'[d].op = "report" => call'[d] = call[d]
  PROVE  ReportsInv'
<1>1. \A l : ReportsOf(l)' = ReportsOf(l)
  BY DEF ReportsOf
<1>2. ASSUME NEW l \in Listings, ~Listed(l), Listed(l)'
      PROVE  listings'[l].reported = 0 /\ Cardinality(ReportsOf(l)) = 0
  <2>1. ReportsOf(l) = {}
    BY <1>2 DEF ReportsOf, MarketInv, ReportsInv
  <2> QED
    BY <1>2, <2>1, FS_EmptySet
<1>3. \A r \in reports' : Listed(r[1])'
  <2>1. \A r \in reports : r[1] \in Listings
    BY DEF MarketInv, MarketTypeOK
  <2> QED
    BY <2>1 DEF MarketInv, ReportsInv, Listed
<1>4. \A l \in Listings : Listed(l)' => listings'[l].reported <= Cardinality(ReportsOf(l)')
  BY <1>1, <1>2 DEF MarketInv, ReportsInv
<1>5. ASSUME NEW d \in Calls, call'[d] # Idle, call'[d].op = "report"
      PROVE  /\ call'[d] = call[d] /\ call[d] # Idle /\ call[d].op = "report" /\ call[d].mp \in Listings
             /\ ReportSound(d)
  <2>1. call'[d] = call[d] /\ call[d] \in Call /\ ReportSound(d)
    BY <1>5 DEF MarketInv, MarketTypeOK, ReportsInv
  <2> QED
    BY <1>5, <2>1, CallKinds DEF ReportCall
<1>6. ASSUME NEW d \in Calls
      PROVE  ReportSound(d)'
  BY <1>1, <1>5 DEF ReportSound, Listed
<1>7. \A l \in Listings, d \in Calls : Reporting(d, l)' => Reporting(d, l) /\ call'[d] = call[d]
  BY DEF Reporting
<1>8. \A l \in Listings, c, d \in Calls :
        Reporting(c, l)' /\ Reporting(d, l)' /\ call'[c].user = call'[d].user => c = d
  BY <1>7 DEF MarketInv, ReportsInv
<1>9. ASSUME NEW l \in flagged'
      PROVE  FlagSingle(l)'
  <2>1. l \in Listings /\ FlagSingle(l)
    BY DEF MarketInv, MarketTypeOK, ReportsInv
  <2>2. Listed(l)' => listings'[l].reported = Cardinality(ReportsOf(l)')
    BY <1>1, <1>2, <2>1 DEF FlagSingle
  <2>3. \A d \in Calls : Reporting(d, l)' =>
          /\ call'[d].seen = Cardinality(ReportsOf(l)')
          /\ call'[d].at = "commit" => call'[d].n = Cardinality(ReportsOf(l)') + 1
    BY <1>1, <1>7, <2>1 DEF FlagSingle
  <2>4. \A c, d \in Calls : Reporting(c, l)' /\ Reporting(d, l)' => c = d
    BY <1>7, <2>1 DEF FlagSingle
  <2> QED
    BY <2>2, <2>3, <2>4 DEF FlagSingle
<1>10. IsFiniteSet(reports')
  BY DEF MarketInv, ReportsInv
<1> QED
  BY <1>3, <1>4, <1>6, <1>8, <1>9, <1>10 DEF ReportsInv

LEMMA RowAdded ==
  ASSUME MarketInv, NEW x \in Row, Insert(x)
  PROVE  /\ made \in Nat /\ made' = made + 1 /\ made' \in RowIds /\ made' \in 0..MaxRows
         /\ library' \in [RowIds -> Row \cup {NoRow}] /\ library[made'] = NoRow
         /\ library'[made'] = x /\ \A i \in RowIds \ {made'} : library'[i] = library[i]
<1>1. made \in 0..MaxRows /\ MaxRows \in Nat /\ made < MaxRows /\ made' = made + 1
  BY NumberTypes DEF MarketInv, MarketTypeOK, Insert
<1>2. made \in Nat /\ made' \in RowIds /\ made' \in 0..MaxRows /\ made' > made
  BY <1>1 DEF RowIds
<1>3. library' = [library EXCEPT ![made'] = x]
  BY DEF Insert
<1>4. MarketTypeOK
  BY DEF MarketInv
<1>5. library[made'] = NoRow
  BY <1>2 DEF MarketInv, RowsInv
<1> HIDE DEF MarketTypeOK
<1>6. /\ library' \in [RowIds -> Row \cup {NoRow}]
      /\ library'[made'] = x /\ \A j \in RowIds \ {made'} : library'[j] = library[j]
  BY <1>2, <1>3, <1>4 DEF MarketTypeOK
<1> QED
  BY <1>1, <1>2, <1>5, <1>6

LEMMA CreateKeepsMarket ==
  ASSUME MarketInv, NEW u \in Users, NEW n \in Names, NEW k \in Codes, Create(u, n, k)
  PROVE  MarketInv'
<1>1. PICK x \in Row : x = [source |-> "authored", user |-> u, name |-> n, hash |-> k, mp |-> None]
  BY DEF Row
<1>2. x.mp = None /\ Insert(x)
  BY <1>1 DEF Create
<1>3. /\ made \in Nat /\ made' = made + 1 /\ made' \in RowIds /\ made' \in 0..MaxRows
      /\ library' \in [RowIds -> Row \cup {NoRow}] /\ library[made'] = NoRow
      /\ library'[made'] = x /\ \A i \in RowIds \ {made'} : library'[i] = library[i]
  BY <1>2, RowAdded
<1>4. /\ started' \in 0..MaxCalls
      /\ UNCHANGED <<listings, reports, call, registry, tokens, grants, counted, flagged, published, unlisted>>
  BY NumberTypes DEF Create, chainVars, histories, MarketInv, MarketTypeOK
<1>5. MarketTypeOK'
  BY <1>3, <1>4 DEF MarketInv, MarketTypeOK
<1>6. \A i \in RowIds : i \in Nat
  BY NumberTypes
<1>7. RowsInv'
  <2>1. \A i \in RowIds : i > made' => library'[i] = NoRow
    BY <1>3, <1>6 DEF MarketInv, RowsInv
  <2>2. \A i \in RowIds : i <= made => library'[i] = library[i]
    BY <1>3, <1>6
  <2>3. \A i \in RowIds : library'[i] # NoRow /\ library'[i].source = "authored" => library'[i].mp = None
    BY <1>2, <1>3 DEF MarketInv, RowsInv
  <2> QED
    BY <1>3, <1>4, <1>5, <2>1, <2>2, <2>3, RowsUndisturbed DEF Listed
<1>8. AttestInv'
  <2>1. \A i \in RowIds : library'[i] # NoRow /\ library'[i].mp # None => library'[i] = library[i]
    BY <1>2, <1>3
  <2> QED
    BY <1>4, <1>5, <2>1, AttestUndisturbed DEF Listed
<1>9. CountsInv'
  <2> SUFFICES ASSUME NEW l \in counted'
               PROVE  CountSingle(l)'
    BY DEF CountsInv
  <2>1. CountSingle(l) /\ l \in Listings
    BY <1>4 DEF MarketInv, MarketTypeOK, CountsInv
  <2>2. Copies(l)' = Copies(l)
    BY <1>2, <1>3, <2>1, NumberTypes DEF Copies
  <2>3. ASSUME NEW d \in Calls, Counts(d) = l
        PROVE  CountSound(d, l)'
    <3>1. CountSound(d, l)
      BY <2>1, <2>3 DEF CountSingle
    <3>2. call[d].op = "delete" => call[d].id \in RowIds
      BY <2>1, <2>3, CountsListed DEF DeleteCall
    <3> QED
      BY <1>3, <1>4, <3>1, <3>2 DEF CountSound
  <2> QED
    BY <1>4, <2>1, <2>2, <2>3 DEF CountSingle, Counts, Listed
<1>10. ReportsInv'
  BY <1>4, ReportsUndisturbed DEF Listed
<1> QED
  BY <1>5, <1>7, <1>8, <1>9, <1>10 DEF MarketInv

LEMMA PatchKeepsMarket ==
  ASSUME MarketInv, NEW u \in Users, NEW i \in RowIds, NEW n \in Names, NEW k \in Codes, Patch(u, i, n, k)
  PROVE  MarketInv'
<1> DEFINE x == [library[i] EXCEPT !.name = n, !.hash = k]
<1>1. library[i] \in Row /\ library[i] # NoRow /\ library[i].source = "authored" /\ library[i].mp = None
  BY DEF Patch, Owned, MarketInv, MarketTypeOK, RowsInv
<1>2. x \in Row /\ x.mp = None /\ library' = [library EXCEPT ![i] = x]
  <2>1. x \in Row /\ x.mp = None
    BY <1>1 DEF Row
  <2>2. library' = [library EXCEPT ![i].name = n, ![i].hash = k]
    BY DEF Patch
  <2> QED
    BY <2>1, <2>2 DEF MarketInv, MarketTypeOK
<1>3. x # NoRow
  BY <1>2, RowMade
<1> HIDE DEF x
<1>4. /\ library' \in [RowIds -> Row \cup {NoRow}]
      /\ library'[i] = x /\ \A j \in RowIds \ {i} : library'[j] = library[j]
  BY <1>2, LibraryPut DEF MarketInv
<1>5. /\ started' \in 0..MaxCalls
      /\ UNCHANGED <<made, listings, reports, call, registry, tokens, grants, counted, flagged, published, unlisted>>
  BY NumberTypes DEF Patch, chainVars, histories, MarketInv, MarketTypeOK
<1>6. MarketTypeOK'
  BY <1>4, <1>5 DEF MarketInv, MarketTypeOK
<1>7. RowsInv'
  <2>1. made <= made' /\ \A j \in RowIds : j > made' => library'[j] = NoRow
    <3>1. made \in Nat
      BY NumberTypes DEF MarketInv, MarketTypeOK
    <3> QED
      BY <1>1, <1>4, <1>5, <3>1 DEF MarketInv, RowsInv
  <2>2. \A j \in RowIds : library'[j] = NoRow \/ (library[j] # NoRow /\ library'[j].mp = library[j].mp)
    BY <1>1, <1>2, <1>4
  <2>3. \A j \in RowIds : library'[j] # NoRow /\ library'[j].source = "authored" => library'[j].mp = None
    BY <1>2, <1>4 DEF MarketInv, RowsInv
  <2> QED
    BY <1>5, <1>6, <2>1, <2>2, <2>3, RowsUndisturbed DEF Listed
<1>8. AttestInv'
  <2>1. \A j \in RowIds : library'[j] # NoRow /\ library'[j].mp # None => library'[j] = library[j]
    BY <1>2, <1>4
  <2> QED
    BY <1>5, <1>6, <2>1, AttestUndisturbed DEF Listed
<1>9. CountsInv'
  <2>1. \A j \in RowIds : /\ library[j] = NoRow <=> library'[j] = NoRow
                          /\ library[j] # NoRow => library'[j].mp = library[j].mp
    BY <1>1, <1>2, <1>3, <1>4
  <2> QED
    BY <1>5, <2>1, CountsUndisturbed DEF Listed, Counts
<1>10. ReportsInv'
  BY <1>5, ReportsUndisturbed DEF Listed
<1> QED
  BY <1>6, <1>7, <1>8, <1>9, <1>10 DEF MarketInv

LEMMA DeleteLoadsKeepsMarket ==
  ASSUME MarketInv, NEW c \in Calls, NEW u \in Users, NEW i \in RowIds, DeleteLoadsRow(c, u, i)
  PROVE  MarketInv'
<1> DEFINE v == [op |-> "delete", at |-> "row", user |-> u, id |-> i, row |-> library[i], n |-> 0]
<1>1. /\ library[i] \in Row /\ library[i] # NoRow /\ call[c] = Idle /\ started' \in 0..MaxCalls
      /\ call' = [call EXCEPT ![c] = v]
      /\ UNCHANGED <<library, made, listings, reports, registry, tokens, grants, flagged, published, unlisted>>
  BY NumberTypes DEF DeleteLoadsRow, Begin, Owned, chainVars, MarketInv, MarketTypeOK
<1>2. PICK l \in {None} \cup Listings : l = library[i].mp
  BY <1>1 DEF Row
<1>3. v \in DeleteCall /\ v.op = "delete" /\ v.at = "row" /\ v.id = i /\ v.row = library[i]
  BY <1>1 DEF DeleteCall
<1> HIDE DEF v
<1>4. v \in Call /\ v # Idle
  BY <1>3, CallOfKind, CallKinds
<1>5. /\ call' \in [Calls -> Call \cup {Idle}]
      /\ call'[c] = v /\ \A d \in Calls \ {c} : call'[d] = call[d]
  BY <1>1, <1>4, CallPut DEF MarketInv
<1>6. /\ counted' = IF Overlapped(c, l) THEN counted \ {l} ELSE counted
  BY <1>2 DEF DeleteLoadsRow
<1>7. MarketTypeOK'
  BY <1>1, <1>5, <1>6 DEF MarketInv, MarketTypeOK
<1>8. RowsInv'
  <2>1. i <= made
    <3>1. i \in Nat /\ made \in Nat
      BY NumberTypes DEF MarketInv, MarketTypeOK
    <3> QED
      BY <1>1, <3>1 DEF MarketInv, RowsInv
  <2>2. l # None => Listed(l)
    BY <1>1, <1>2 DEF MarketInv, AttestInv, ListedCodeAttested, Copies
  <2>3. DeleteSound(c)'
    BY <1>1, <1>2, <1>3, <1>5, <2>1, <2>2 DEF DeleteSound, Listed
  <2>4. \A d \in Calls \ {c} : DeleteSound(d)'
    BY <1>1, <1>5 DEF DeleteSound, Listed, MarketInv, RowsInv
  <2> QED
    BY <1>1, <2>3, <2>4 DEF RowsInv, MarketInv
<1>9. AttestInv'
  <2>1. \A d \in Calls, k \in Codes : Attesting(d, k) => call'[d] = call[d]
    BY <1>1, <1>5 DEF Attesting
  <2> QED
    BY <1>1, <1>3, <1>5, <1>7, <2>1, AttestUndisturbed DEF Listed
<1>10. CountsInv'
  <2> SUFFICES ASSUME NEW m \in counted'
               PROVE  CountSingle(m)'
    BY DEF CountsInv
  <2>1. m \in Listings /\ CountSingle(m)
    BY <1>6 DEF MarketInv, MarketTypeOK, CountsInv
  <2>2. Counts(c)' = l
    BY <1>2, <1>3, <1>4, <1>5 DEF Counts
  <2>3. \A d \in Calls \ {c} : Counts(d)' = Counts(d)
    BY <1>5 DEF Counts
  <2>4. Copies(m)' = Copies(m)
    BY <1>1 DEF Copies
  <2>5. CountSound(c, m)'
    BY <1>1, <1>3, <1>5 DEF CountSound
  <2>6. \A d \in Calls \ {c} : Counts(d) = m => CountSound(d, m)'
    BY <1>1, <1>5, <2>1 DEF CountSingle, CountSound
  <2>7. m = l => \A d \in Calls \ {c} : Counts(d) # m
    BY <1>6 DEF Overlapped
  <2> QED
    BY <1>1, <2>1, <2>2, <2>3, <2>4, <2>5, <2>6, <2>7 DEF CountSingle, Listed
<1>11. ReportsInv'
  BY <1>1, <1>3, <1>5, ReportsUndisturbed DEF Listed
<1> QED
  BY <1>7, <1>8, <1>9, <1>10, <1>11 DEF MarketInv

LEMMA DeleteReadsKeepsMarket ==
  ASSUME MarketInv, NEW c \in Calls, DeleteLoadsListing(c)
  PROVE  MarketInv'
<1>1. /\ call[c] \in DeleteCall /\ call[c] # Idle /\ call[c].op = "delete" /\ DeleteSound(c)
      /\ UNCHANGED <<library, made, listings, reports, registry, tokens, grants, started,
                     counted, flagged, published, unlisted>>
  BY CallKinds DEF DeleteLoadsListing, At, chainVars, histories, MarketInv, MarketTypeOK, RowsInv
<1>2. PICK l \in {None} \cup Listings : l = call[c].row.mp
  BY <1>1 DEF DeleteCall, Row
<1>3. PICK n \in Nat : n = IF l = None THEN 0 ELSE listings[l].installs
  <2>1. l # None => listings[l] \in Listing
    BY <1>1, <1>2 DEF DeleteSound, Listed, MarketInv, MarketTypeOK
  <2> QED
    BY <2>1 DEF Listing
<1> DEFINE v == [call[c] EXCEPT !.at = "commit", !.n = n]
<1>4. /\ v \in DeleteCall /\ v.op = "delete" /\ v.at = "commit" /\ v.n = n
      /\ v.id = call[c].id /\ v.row = call[c].row
  BY <1>1 DEF DeleteCall
<1>5. call' = [call EXCEPT ![c] = v]
  <2>1. call' = [call EXCEPT ![c].at = "commit", ![c].n = n]
    BY <1>2, <1>3 DEF DeleteLoadsListing
  <2> QED
    BY <2>1 DEF MarketInv, MarketTypeOK
<1> HIDE DEF v
<1>6. v \in Call /\ v # Idle
  BY <1>4, CallOfKind, CallKinds
<1>7. /\ call' \in [Calls -> Call \cup {Idle}]
      /\ call'[c] = v /\ \A d \in Calls \ {c} : call'[d] = call[d]
  BY <1>5, <1>6, CallPut DEF MarketInv
<1>8. MarketTypeOK'
  BY <1>1, <1>7 DEF MarketInv, MarketTypeOK
<1>9. RowsInv'
  <2>1. DeleteSound(c)'
    BY <1>1, <1>4, <1>7 DEF DeleteSound, Listed
  <2>2. \A d \in Calls \ {c} : DeleteSound(d)'
    BY <1>1, <1>7 DEF DeleteSound, Listed, MarketInv, RowsInv
  <2> QED
    BY <1>1, <2>1, <2>2 DEF RowsInv, MarketInv
<1>10. AttestInv'
  <2>1. \A d \in Calls, k \in Codes : Attesting(d, k) => call'[d] = call[d]
    BY <1>1, <1>7 DEF Attesting
  <2> QED
    BY <1>1, <1>4, <1>7, <1>8, <2>1, AttestUndisturbed DEF Listed
<1>11. CountsInv'
  <2> SUFFICES ASSUME NEW m \in counted'
               PROVE  CountSingle(m)'
    BY DEF CountsInv
  <2>1. m \in Listings /\ m # None /\ CountSingle(m)
    BY <1>1, NumberTypes DEF MarketInv, MarketTypeOK, CountsInv
  <2>2. Counts(c) = l /\ Counts(c)' = l
    BY <1>1, <1>2, <1>4, <1>6, <1>7 DEF Counts
  <2>3. \A d \in Calls \ {c} : Counts(d)' = Counts(d)
    BY <1>7 DEF Counts
  <2>4. Copies(m)' = Copies(m)
    BY <1>1 DEF Copies
  <2>5. m = l => CountSound(c, m)'
    BY <1>1, <1>3, <1>4, <1>7, <2>1, <2>2 DEF CountSound, CountSingle
  <2>6. \A d \in Calls \ {c} : Counts(d) = m => CountSound(d, m)'
    BY <1>1, <1>7, <2>1 DEF CountSingle, CountSound
  <2> QED
    BY <1>1, <2>1, <2>2, <2>3, <2>4, <2>5, <2>6 DEF CountSingle, Listed
<1>12. ReportsInv'
  BY <1>1, <1>4, <1>7, ReportsUndisturbed DEF Listed
<1> QED
  BY <1>8, <1>9, <1>10, <1>11, <1>12 DEF MarketInv

LEMMA DeleteCommitsKeepsMarket ==
  ASSUME MarketInv, NEW c \in Calls, DeleteCommits(c)
  PROVE  MarketInv'
<1>1. /\ call[c] \in DeleteCall /\ call[c] # Idle /\ call[c].op = "delete" /\ call[c].at = "commit"
      /\ call' = [call EXCEPT ![c] = Idle] /\ DeleteSound(c)
      /\ UNCHANGED <<made, reports, registry, tokens, grants, started, counted, flagged, published, unlisted>>
  BY CallKinds DEF DeleteCommits, At, Finish, chainVars, histories, MarketInv, MarketTypeOK, RowsInv
<1>2. PICK i \in RowIds, l \in {None} \cup Listings, n \in Nat :
        i = call[c].id /\ l = call[c].row.mp /\ n = call[c].n
  BY <1>1 DEF DeleteCall, Row
<1>3. /\ library' = [library EXCEPT ![i] = NoRow]
      /\ listings' = IF l # None /\ n > 0 THEN [listings EXCEPT ![l].installs = n - 1] ELSE listings
  BY <1>2 DEF DeleteCommits
<1>4. /\ library' \in [RowIds -> Row \cup {NoRow}]
      /\ library'[i] = NoRow /\ \A j \in RowIds \ {i} : library'[j] = library[j]
  BY <1>3, LibraryPut DEF MarketInv
<1>5. /\ call' \in [Calls -> Call \cup {Idle}]
      /\ call'[c] = Idle /\ \A d \in Calls \ {c} : call'[d] = call[d]
  BY <1>1, CallPut DEF MarketInv
<1>6. /\ listings' \in [Listings -> Listing \cup {NoListing}]
      /\ \A m \in Listings : Listed(m)' <=> Listed(m)
      /\ \A m \in Listings : Listed(m) =>
           /\ listings'[m].author = listings[m].author /\ listings'[m].hash = listings[m].hash
           /\ listings'[m].blob = listings[m].blob /\ listings'[m].reported = listings[m].reported
      /\ \A m \in Listings : listings'[m].installs =
           IF m = l /\ n > 0 THEN n - 1 ELSE listings[m].installs
  <2>1. CASE ~(l # None /\ n > 0)
    BY <1>3, <2>1, NumberTypes DEF Listed, MarketInv, MarketTypeOK
  <2>2. CASE l # None /\ n > 0
    <3> DEFINE x == [listings[l] EXCEPT !.installs = n - 1]
    <3>1. listings[l] \in Listing /\ listings[l] # NoListing
      BY <1>1, <1>2, <2>2 DEF DeleteSound, Listed, MarketInv, MarketTypeOK
    <3>2. n - 1 \in Nat
      BY <2>2
    <3>3. /\ x \in Listing /\ x.author = listings[l].author /\ x.hash = listings[l].hash
          /\ x.blob = listings[l].blob /\ x.reported = listings[l].reported /\ x.installs = n - 1
      BY <3>1, <3>2 DEF Listing
    <3>4. listings' = [listings EXCEPT ![l] = x]
      BY <1>3, <2>2
    <3> HIDE DEF x
    <3>5. /\ listings' \in [Listings -> Listing \cup {NoListing}] /\ listings'[l] = x /\ x # NoListing
          /\ \A m \in Listings \ {l} : listings'[m] = listings[m]
      BY <2>2, <3>3, <3>4, ListingPut DEF MarketInv
    <3> QED
      BY <2>2, <3>1, <3>3, <3>5 DEF Listed
  <2> QED
    BY <2>1, <2>2
<1>7. MarketTypeOK'
  BY <1>1, <1>4, <1>5, <1>6 DEF MarketInv, MarketTypeOK
<1>8. \A d \in Calls : call'[d] # Idle => d # c /\ call'[d] = call[d]
  BY <1>5
<1>9. RowsInv'
  <2>1. made <= made'
    BY <1>1, NumberTypes DEF MarketInv, MarketTypeOK
  <2>2. \A j \in RowIds : j > made' => library'[j] = NoRow
    BY <1>1, <1>4 DEF MarketInv, RowsInv
  <2>3. \A j \in RowIds : library'[j] = NoRow \/ library'[j] = library[j]
    BY <1>4
  <2> QED
    BY <1>6, <1>7, <1>8, <2>1, <2>2, <2>3, RowsUndisturbed DEF MarketInv, RowsInv
<1>10. AttestInv'
  <2>1. \A j \in RowIds : library'[j] # NoRow => library'[j] = library[j]
    BY <1>4
  <2>2. \A d \in Calls, k \in Codes : Attesting(d, k) => call'[d] = call[d]
    BY <1>1, <1>5 DEF Attesting
  <2> QED
    BY <1>1, <1>6, <1>7, <1>8, <2>1, <2>2, AttestUndisturbed
<1>11. CountsInv'
  <2> SUFFICES ASSUME NEW m \in counted'
               PROVE  CountSingle(m)'
    BY DEF CountsInv
  <2>1. m \in Listings /\ m # None /\ CountSingle(m)
    BY <1>1, NumberTypes DEF MarketInv, MarketTypeOK, CountsInv
  <2>2. Counts(c) = l /\ Counts(c)' = None
    BY <1>1, <1>2, <1>5 DEF Counts
  <2>3. \A d \in Calls \ {c} : Counts(d)' = Counts(d)
    BY <1>5 DEF Counts
  <2>4. \A d, e \in Calls : Counts(d)' = m /\ Counts(e)' = m => d = e
    BY <2>1, <2>2, <2>3 DEF CountSingle
  <2>5. CASE m = l
    <3>1. \A d \in Calls : Counts(d)' # m
      BY <2>1, <2>2, <2>3, <2>5 DEF CountSingle
    <3>2. CountSound(c, m)
      BY <2>1, <2>2, <2>5 DEF CountSingle
    <3>3. library[i] # NoRow /\ n = listings[m].installs
      BY <1>1, <1>2, <3>2 DEF CountSound
    <3>4. i \in Copies(m) /\ Listed(m)
      BY <1>1, <1>2, <2>1, <2>5, <3>3 DEF DeleteSound, Copies
    <3>5. Copies(m)' = Copies(m) \ {i}
      BY <1>4, <3>4 DEF Copies
    <3>6. Cardinality(Copies(m) \ {i}) = Cardinality(Copies(m)) - 1
          /\ Cardinality(Copies(m)) \in Nat /\ Cardinality(Copies(m) \ {i}) \in Nat
      BY <3>4, <3>5, CopiesFinite, FS_RemoveElement, FS_CardinalityType
    <3>7. n = Cardinality(Copies(m)) /\ n > 0
      BY <2>1, <3>3, <3>4, <3>6 DEF CountSingle
    <3>8. Listed(m)' => listings'[m].installs = Cardinality(Copies(m)')
      BY <1>6, <2>1, <2>5, <3>5, <3>6, <3>7
    <3> QED
      BY <2>4, <3>1, <3>8 DEF CountSingle
  <2>6. CASE m # l
    <3>1. library[i] # NoRow => library[i].mp # m
      BY <1>1, <1>2, <2>6 DEF DeleteSound
    <3>2. Copies(m)' = Copies(m)
      BY <1>4, <3>1 DEF Copies
    <3>3. listings'[m].installs = listings[m].installs
      BY <1>6, <2>1, <2>6
    <3>4. ASSUME NEW d \in Calls, Counts(d)' = m
          PROVE  CountSound(d, m)'
      <4>1. d # c /\ Counts(d) = m /\ call'[d] = call[d] /\ CountSound(d, m)
        BY <1>5, <2>1, <2>2, <2>3, <3>4 DEF CountSingle
      <4>2. ASSUME call[d].op = "delete"
            PROVE  call[d].id \in RowIds /\ call[d].id # i
        <5>1. call[d].id \in RowIds /\ call[d].row.mp = m /\ call[d] # Idle
          BY <2>1, <4>1, <4>2, CountsListed DEF DeleteCall
        <5>2. DeleteSound(d) /\ library[call[d].id] # NoRow
          BY <4>1, <4>2 DEF MarketInv, RowsInv, CountSound
        <5>3. library[call[d].id].mp = m
          BY <4>2, <5>1, <5>2 DEF DeleteSound
        <5> QED
          BY <3>1, <5>1, <5>2, <5>3
      <4> QED
        BY <1>4, <3>3, <4>1, <4>2 DEF CountSound
    <3> QED
      BY <1>6, <2>1, <2>4, <3>2, <3>3, <3>4 DEF CountSingle
  <2> QED
    BY <2>5, <2>6
<1>12. ReportsInv'
  BY <1>1, <1>6, <1>8, ReportsUndisturbed
<1> QED
  BY <1>7, <1>9, <1>10, <1>11, <1>12 DEF MarketInv

\* A call ends with no row written; codes whose publish it was may be left unlisted.
LEMMA CallEndKeepsMarket ==
  ASSUME MarketInv, NEW c \in Calls, call' = [call EXCEPT ![c] = Idle],
         unlisted \subseteq unlisted', unlisted' \subseteq Codes,
         \A k \in Codes : Attesting(c, k) => k \in unlisted',
         grants' \subseteq (0..MaxTokens) \X Users,
         UNCHANGED <<library, made, listings, reports, registry, tokens, started,
                     counted, flagged, published>>
  PROVE  MarketInv'
<1>1. /\ call' \in [Calls -> Call \cup {Idle}]
      /\ call'[c] = Idle /\ \A d \in Calls \ {c} : call'[d] = call[d]
  BY CallPut DEF MarketInv
<1>2. MarketTypeOK'
  BY <1>1 DEF MarketInv, MarketTypeOK
<1>3. \A d \in Calls : call'[d] # Idle => d # c /\ call'[d] = call[d]
  BY <1>1
<1>4. RowsInv'
  BY <1>3 DEF MarketInv, RowsInv, DeleteSound, Listed
<1>5. AttestInv'
  BY <1>1, <1>2, <1>3, AttestUndisturbed DEF Listed
<1>6. CountsInv'
  <2>1. Counts(c)' = None
    BY <1>1 DEF Counts
  <2>2. \A d \in Calls \ {c} : Counts(d)' = Counts(d)
    BY <1>1 DEF Counts
  <2> QED
    BY <1>1, <2>1, <2>2, NumberTypes, CountsUndisturbed DEF Listed
<1>7. ReportsInv'
  BY <1>3, ReportsUndisturbed DEF Listed
<1> QED
  BY <1>2, <1>4, <1>5, <1>6, <1>7 DEF MarketInv

LEMMA InstallLoadsKeepsMarket ==
  ASSUME MarketInv, NEW c \in Calls, NEW u \in Users, NEW l \in Listings, InstallLoadsListing(c, u, l)
  PROVE  MarketInv'
<1> DEFINE v == [op |-> "install", at |-> "check", user |-> u, mp |-> l, seen |-> listings[l]]
<1>1. /\ listings[l] \in Listing /\ Listed(l) /\ call[c] = Idle /\ started' \in 0..MaxCalls
      /\ call' = [call EXCEPT ![c] = v]
      /\ counted' = IF Overlapped(c, l) THEN counted \ {l} ELSE counted
      /\ UNCHANGED <<library, made, listings, reports, registry, tokens, grants, flagged, published, unlisted>>
  BY NumberTypes DEF InstallLoadsListing, Begin, Listed, chainVars, MarketInv, MarketTypeOK
<1>2. v \in InstallCall /\ v.op = "install" /\ v.at = "check" /\ v.mp = l /\ v.seen = listings[l]
  BY <1>1 DEF InstallCall
<1> HIDE DEF v
<1>3. v \in Call /\ v # Idle
  BY <1>2, CallOfKind, CallKinds
<1>4. /\ call' \in [Calls -> Call \cup {Idle}]
      /\ call'[c] = v /\ \A d \in Calls \ {c} : call'[d] = call[d]
  BY <1>1, <1>3, CallPut DEF MarketInv
<1>5. MarketTypeOK'
  BY <1>1, <1>4 DEF MarketInv, MarketTypeOK
<1>6. RowsInv'
  <2>1. \A d \in Calls : DeleteSound(d)'
    BY <1>1, <1>2, <1>4 DEF DeleteSound, Listed, MarketInv, RowsInv
  <2> QED
    BY <1>1, <2>1 DEF RowsInv, MarketInv
<1>7. AttestInv'
  <2>1. ListedCodeAttested'
    BY <1>1 DEF MarketInv, AttestInv, ListedCodeAttested, Listed, Copies
  <2>2. InstallSound(c)' /\ PublishSound(c)'
    BY <1>1, <1>2, <1>4 DEF InstallSound, PublishSound, Listed, At
  <2>3. \A d \in Calls \ {c} : InstallSound(d)' /\ PublishSound(d)'
    BY <1>1, <1>4 DEF MarketInv, AttestInv, InstallSound, PublishSound, ListedAs, Listed, At
  <2>4. \A d \in Calls : \A x, k : Publishes(d, x, k)' => d # c /\ Publishes(d, x, k) /\ call'[d] = call[d]
    BY <1>2, <1>4 DEF Publishes
  <2>5. ASSUME NEW x \in Users, NEW k \in Codes, <<x, k>> \in published'
        PROVE  PublishSingle(x, k)'
    <3>1. PublishSingle(x, k)
      BY <1>1, <2>5 DEF MarketInv, AttestInv
    <3> QED
      BY <1>1, <2>4, <3>1 DEF PublishSingle, ListedAs, Listed
  <2>6. \A d \in Calls : \A k : Attesting(d, k) => Attesting(d, k)'
    BY <1>1, <1>4 DEF Attesting
  <2>7. \A k \in registry' \ unlisted' :
          \/ \E m \in Listings : Listed(m)' /\ listings'[m].hash = k
          \/ \E d \in Calls : Attesting(d, k)'
    BY <1>1, <2>6 DEF MarketInv, AttestInv, Listed
  <2> QED
    BY <2>1, <2>2, <2>3, <2>5, <2>7 DEF AttestInv
<1>8. CountsInv'
  <2> SUFFICES ASSUME NEW m \in counted'
               PROVE  CountSingle(m)'
    BY DEF CountsInv
  <2>1. m \in Listings /\ CountSingle(m)
    BY <1>1 DEF MarketInv, MarketTypeOK, CountsInv
  <2>2. Counts(c)' = l
    BY <1>2, <1>3, <1>4 DEF Counts
  <2>3. \A d \in Calls \ {c} : Counts(d)' = Counts(d)
    BY <1>4 DEF Counts
  <2>4. Copies(m)' = Copies(m)
    BY <1>1 DEF Copies
  <2>5. m = l => CountSound(c, m)'
    BY <1>1, <1>2, <1>4 DEF CountSound
  <2>6. \A d \in Calls \ {c} : Counts(d) = m => CountSound(d, m)'
    BY <1>1, <1>4, <2>1 DEF CountSingle, CountSound
  <2>7. m = l => \A d \in Calls \ {c} : Counts(d) # m
    BY <1>1 DEF Overlapped
  <2> QED
    BY <1>1, <2>1, <2>2, <2>3, <2>4, <2>5, <2>6, <2>7 DEF CountSingle, Listed
<1>9. ReportsInv'
  BY <1>1, <1>2, <1>4, ReportsUndisturbed DEF Listed
<1> QED
  BY <1>5, <1>6, <1>7, <1>8, <1>9 DEF MarketInv

LEMMA InstallChecksKeepsMarket ==
  ASSUME MarketInv, NEW c \in Calls, InstallChecks(c)
  PROVE  MarketInv'
<1>1. /\ call[c] \in InstallCall /\ call[c] # Idle /\ call[c].op = "install" /\ call[c].at = "check"
      /\ UNCHANGED <<library, made, listings, reports, registry, tokens, grants, started,
                     counted, flagged, published, unlisted>>
  BY CallKinds DEF InstallChecks, At, chainVars, histories, MarketInv, MarketTypeOK
<1>2. CASE call' = [call EXCEPT ![c] = Idle]
  BY <1>1, <1>2, CallEndKeepsMarket DEF Attesting, MarketInv, MarketTypeOK
<1> DEFINE v == [call[c] EXCEPT !.at = "commit"]
<1>3. CASE call' = [call EXCEPT ![c] = v]
  <2>1. /\ v \in InstallCall /\ v.op = "install" /\ v.at = "commit" /\ v.mp = call[c].mp
        /\ v.seen = call[c].seen
    BY <1>1 DEF InstallCall
  <2> HIDE DEF v
  <2>2. v \in Call /\ v # Idle
    BY <2>1, CallOfKind, CallKinds
  <2>3. /\ call' \in [Calls -> Call \cup {Idle}]
        /\ call'[c] = v /\ \A d \in Calls \ {c} : call'[d] = call[d]
    BY <1>3, <2>2, CallPut DEF MarketInv
  <2>4. MarketTypeOK'
    BY <1>1, <2>3 DEF MarketInv, MarketTypeOK
  <2>5. RowsInv'
    <3>1. \A d \in Calls : DeleteSound(d)'
      BY <1>1, <2>1, <2>3 DEF DeleteSound, Listed, MarketInv, RowsInv
    <3> QED
      BY <1>1, <3>1 DEF RowsInv, MarketInv
  <2>6. AttestInv'
    <3>1. \A d \in Calls, k \in Codes : Attesting(d, k) => call'[d] = call[d]
      BY <1>1, <2>3 DEF Attesting
    <3> QED
      BY <1>1, <2>1, <2>3, <2>4, <3>1, AttestUndisturbed DEF Listed
  <2>7. CountsInv'
    <3>1. Counts(c)' = Counts(c)
      BY <1>1, <2>1, <2>2, <2>3 DEF Counts
    <3>2. \A d \in Calls \ {c} : Counts(d)' = Counts(d)
      BY <2>3 DEF Counts
    <3> QED
      BY <1>1, <2>1, <2>3, <3>1, <3>2, CountsUndisturbed DEF Listed
  <2>8. ReportsInv'
    BY <1>1, <2>1, <2>3, ReportsUndisturbed DEF Listed
  <2> QED
    BY <2>4, <2>5, <2>6, <2>7, <2>8 DEF MarketInv
<1> QED
  BY <1>2, <1>3 DEF InstallChecks, Finish, Goto

LEMMA InstallGrantsKeepsMarket ==
  ASSUME MarketInv, NEW c \in Calls, InstallGrants(c)
  PROVE  MarketInv'
<1>1. /\ call[c] \in InstallCall /\ call[c] # Idle /\ call[c].op = "install"
      /\ call' = [call EXCEPT ![c] = Idle]
      /\ UNCHANGED <<library, made, listings, reports, registry, tokens, started,
                     counted, flagged, published, unlisted>>
  BY CallKinds DEF InstallGrants, At, Finish, histories, MarketInv, MarketTypeOK
<1>2. call[c].seen.token \in 0..MaxTokens /\ call[c].user \in Users
  BY <1>1 DEF InstallCall, Listing
<1>3. grants' \subseteq (0..MaxTokens) \X Users
  BY <1>2 DEF InstallGrants, AuthorizeUsage, MarketInv, MarketTypeOK
<1> QED
  BY <1>1, <1>3, CallEndKeepsMarket DEF Attesting, MarketInv, MarketTypeOK

LEMMA InstallCommitsKeepsMarket ==
  ASSUME MarketInv, NEW c \in Calls, InstallCommits(c)
  PROVE  MarketInv'
<1>1. /\ call[c] \in InstallCall /\ call[c] # Idle /\ call[c].op = "install" /\ call[c].at = "commit"
      /\ InstallSound(c)
      /\ UNCHANGED <<reports, registry, tokens, grants, started, counted, flagged, published, unlisted>>
  BY CallKinds DEF InstallCommits, At, chainVars, histories, MarketInv, MarketTypeOK, AttestInv
<1>2. PICK u \in Users, l \in Listings, seen \in Listing :
        u = call[c].user /\ l = call[c].mp /\ seen = call[c].seen
  BY <1>1 DEF InstallCall
<1>3. Listed(l) /\ listings[l] \in Listing /\ seen.hash = listings[l].hash /\ l # None /\ Counts(c) = l
  BY <1>1, <1>2, NumberTypes DEF InstallSound, Listed, Counts, MarketInv, MarketTypeOK
<1>4. CASE NameTaken(u, seen.name, None)
  <2>1. call' = [call EXCEPT ![c] = Idle] /\ UNCHANGED <<library, made, listings>>
    BY <1>2, <1>4 DEF InstallCommits, Finish
  <2> QED
    BY <1>1, <2>1, CallEndKeepsMarket DEF Attesting, MarketInv, MarketTypeOK
<1>5. CASE ~NameTaken(u, seen.name, None)
  <2> DEFINE v == [call[c] EXCEPT !.at = "grant"]
             y == [listings[l] EXCEPT !.installs = seen.installs + 1]
  <2>1. PICK x \in Row : x = [source |-> "marketplace", user |-> u, name |-> seen.name,
                              hash |-> seen.hash, mp |-> l]
    BY DEF Row, Listing
  <2>2. x.mp = l /\ x.hash = seen.hash /\ x.source = "marketplace" /\ x # NoRow
    BY <2>1, RowMade
  <2>3. Insert(x) /\ listings' = [listings EXCEPT ![l] = y] /\ call' = [call EXCEPT ![c] = v]
    BY <1>2, <1>5, <2>1 DEF InstallCommits, Goto
  <2>4. /\ made \in Nat /\ made' = made + 1 /\ made' \in RowIds /\ made' \in 0..MaxRows
        /\ library' \in [RowIds -> Row \cup {NoRow}] /\ library[made'] = NoRow
        /\ library'[made'] = x /\ \A i \in RowIds \ {made'} : library'[i] = library[i]
    BY <2>3, RowAdded
  <2>5. /\ y \in Listing /\ y.author = listings[l].author /\ y.hash = listings[l].hash
        /\ y.blob = listings[l].blob /\ y.reported = listings[l].reported /\ y.installs = seen.installs + 1
    BY <1>3 DEF Listing
  <2>6. v \in InstallCall /\ v.op = "install" /\ v.at = "grant" /\ v.mp = l /\ v.seen = seen
    BY <1>1, <1>2 DEF InstallCall
  <2> HIDE DEF v, y
  <2>7. v \in Call /\ v # Idle
    BY <2>6, CallOfKind, CallKinds
  <2>8. /\ call' \in [Calls -> Call \cup {Idle}]
        /\ call'[c] = v /\ \A d \in Calls \ {c} : call'[d] = call[d]
    BY <2>3, <2>7, CallPut DEF MarketInv
  <2>9. /\ listings' \in [Listings -> Listing \cup {NoListing}] /\ listings'[l] = y /\ y # NoListing
        /\ \A m \in Listings \ {l} : listings'[m] = listings[m]
    BY <2>3, <2>5, ListingPut DEF MarketInv
  <2>10. /\ \A m \in Listings : Listed(m)' <=> Listed(m)
         /\ \A m \in Listings : Listed(m) =>
              /\ listings'[m].author = listings[m].author /\ listings'[m].hash = listings[m].hash
              /\ listings'[m].blob = listings[m].blob /\ listings'[m].reported = listings[m].reported
    BY <1>3, <2>5, <2>9 DEF Listed
  <2>11. MarketTypeOK'
    BY <1>1, <2>4, <2>8, <2>9 DEF MarketInv, MarketTypeOK
  <2>12. RowsInv'
    <3>0. \A i \in RowIds : i \in Nat
      BY NumberTypes
    <3>1. \A i \in RowIds : i > made' => library'[i] = NoRow
      BY <2>4, <3>0 DEF MarketInv, RowsInv
    <3>2. \A i \in RowIds : i <= made => library'[i] = library[i]
      BY <2>4, <3>0
    <3>3. \A i \in RowIds : library'[i] # NoRow /\ library'[i].source = "authored" => library'[i].mp = None
      BY <2>2, <2>4 DEF MarketInv, RowsInv
    <3>4. \A d \in Calls : call'[d] # Idle /\ call'[d].op = "delete" => call'[d] = call[d]
      BY <2>6, <2>8
    <3> QED
      BY <2>4, <2>10, <2>11, <3>1, <3>2, <3>3, <3>4, RowsUndisturbed
  <2>13. AttestInv'
    <3>1. ListedCodeAttested'
      <4>1. \A m \in Listings : Listed(m)' => listings'[m].blob = listings'[m].hash
        BY <2>10 DEF MarketInv, AttestInv, ListedCodeAttested
      <4>2. ASSUME NEW m \in Listings, NEW i \in Copies(m)'
            PROVE  Listed(m)' /\ library'[i].hash = listings'[m].hash
        <5>1. CASE i = made'
          BY <1>3, <2>2, <2>4, <2>10, <4>2, <5>1 DEF Copies
        <5>2. CASE i # made'
          <6>1. i \in Copies(m) /\ library'[i] = library[i]
            BY <2>4, <4>2, <5>2 DEF Copies
          <6> QED
            BY <2>10, <6>1 DEF MarketInv, AttestInv, ListedCodeAttested
        <5> QED
          BY <5>1, <5>2
      <4> QED
        BY <4>1, <4>2 DEF ListedCodeAttested
    <3>2. InstallSound(c)' /\ PublishSound(c)'
      BY <1>3, <2>6, <2>8, <2>10 DEF InstallSound, PublishSound, Listed, At
    <3>3. \A m \in Listings : \A w, k : ListedAs(m, w, k)' <=> ListedAs(m, w, k)
      BY <2>10 DEF ListedAs
    <3>4. ASSUME NEW d \in Calls \ {c}
          PROVE  InstallSound(d)' /\ PublishSound(d)'
      <4>1. call'[d] = call[d] /\ call[d] \in Call \cup {Idle} /\ InstallSound(d) /\ PublishSound(d)
        BY <2>8 DEF MarketInv, MarketTypeOK, AttestInv
      <4>2. call[d] # Idle /\ call[d].op = "install" => call[d].mp \in Listings
        BY <4>1, CallKinds DEF InstallCall
      <4>3. call[d] # Idle /\ call[d].op = "publish" => call[d].mp \in {None} \cup Listings
        BY <4>1, CallKinds DEF PublishCall
      <4> QED
        BY <2>10, <4>1, <4>2, <4>3 DEF InstallSound, PublishSound, ListedAs, Listed, At
    <3>5. \A d \in Calls : \A w, k : Publishes(d, w, k)' => d # c /\ Publishes(d, w, k) /\ call'[d] = call[d]
      BY <2>6, <2>8 DEF Publishes
    <3>6. ASSUME NEW w \in Users, NEW k \in Codes, <<w, k>> \in published'
          PROVE  PublishSingle(w, k)'
      <4>1. PublishSingle(w, k)
        BY <1>1, <3>6 DEF MarketInv, AttestInv
      <4> QED
        BY <3>3, <3>5, <4>1 DEF PublishSingle
    <3>7. \A d \in Calls : \A k : Attesting(d, k) => Attesting(d, k)'
      BY <1>1, <2>8 DEF Attesting
    <3>8. \A k \in registry' \ unlisted' :
            \/ \E m \in Listings : Listed(m)' /\ listings'[m].hash = k
            \/ \E d \in Calls : Attesting(d, k)'
      BY <1>1, <2>10, <3>7 DEF MarketInv, AttestInv
    <3> QED
      BY <3>1, <3>2, <3>4, <3>6, <3>8 DEF AttestInv
  <2>14. CountsInv'
    <3> SUFFICES ASSUME NEW m \in counted'
                 PROVE  CountSingle(m)'
      BY DEF CountsInv
    <3>1. m \in Listings /\ m # None /\ CountSingle(m)
      BY <1>1, NumberTypes DEF MarketInv, MarketTypeOK, CountsInv
    <3>2. Counts(c)' = None
      BY <2>6, <2>8 DEF Counts
    <3>3. \A d \in Calls \ {c} : Counts(d)' = Counts(d)
      BY <2>8 DEF Counts
    <3>4. \A d, e \in Calls : Counts(d)' = m /\ Counts(e)' = m => d = e
      BY <3>1, <3>2, <3>3 DEF CountSingle
    <3>5. CASE m = l
      <4>1. \A d \in Calls : Counts(d)' # m
        BY <1>3, <3>1, <3>2, <3>3, <3>5 DEF CountSingle
      <4>2. seen.installs = listings[m].installs
        BY <1>1, <1>2, <1>3, <3>1, <3>5 DEF CountSingle, CountSound
      <4>3. Copies(m)' = Copies(m) \cup {made'} /\ made' \notin Copies(m)
        BY <2>2, <2>4, <3>5 DEF Copies
      <4>4. Cardinality(Copies(m) \cup {made'}) = Cardinality(Copies(m)) + 1
        BY <4>3, CopiesFinite, FS_AddElement
      <4>5. listings'[m].installs = Cardinality(Copies(m)')
        BY <1>3, <2>5, <2>9, <3>1, <3>5, <4>2, <4>3, <4>4 DEF CountSingle
      <4> QED
        BY <3>4, <4>1, <4>5 DEF CountSingle
    <3>6. CASE m # l
      <4>1. Copies(m)' = Copies(m)
        BY <2>2, <2>4, <3>6 DEF Copies
      <4>2. listings'[m] = listings[m]
        BY <2>9, <3>1, <3>6
      <4>3. ASSUME NEW d \in Calls, Counts(d)' = m
            PROVE  CountSound(d, m)'
        <5>1. d # c /\ Counts(d) = m /\ call'[d] = call[d] /\ CountSound(d, m)
          BY <2>8, <3>1, <3>2, <3>3, <4>3 DEF CountSingle
        <5>2. call[d].op = "delete" => call[d].id \in RowIds
          BY <3>1, <5>1, CountsListed DEF DeleteCall
        <5> QED
          BY <2>4, <4>2, <5>1, <5>2 DEF CountSound
      <4> QED
        BY <3>1, <3>4, <4>1, <4>2, <4>3 DEF CountSingle, Listed
    <3> QED
      BY <3>5, <3>6
  <2>15. ReportsInv'
    BY <1>1, <2>6, <2>8, <2>10, ReportsUndisturbed
  <2> QED
    BY <2>11, <2>12, <2>13, <2>14, <2>15 DEF MarketInv
<1> QED
  BY <1>4, <1>5

\* A step of a publish that writes no row.
LEMMA PublishStepKeepsMarket ==
  ASSUME MarketInv, NEW c \in Calls, NEW v \in Call, v.op = "publish", Counts(c) = None,
         ~(call[c] # Idle /\ call[c].op = "report"),
         call' = [call EXCEPT ![c] = v],
         UNCHANGED <<library, made, listings, reports, tokens, grants, counted, flagged>>,
         started' \in 0..MaxCalls, registry' \subseteq Codes, unlisted' \subseteq Codes,
         published' \subseteq Users \X Codes,
         AttestInv'
  PROVE  MarketInv'
<1>1. /\ call' \in [Calls -> Call \cup {Idle}]
      /\ call'[c] = v /\ \A d \in Calls \ {c} : call'[d] = call[d]
  BY CallPut DEF MarketInv
<1>2. MarketTypeOK'
  BY <1>1 DEF MarketInv, MarketTypeOK
<1>3. \A d \in Calls : DeleteSound(d)'
  BY <1>1 DEF DeleteSound, Listed, MarketInv, RowsInv
<1>4. RowsInv'
  BY <1>3 DEF RowsInv, MarketInv
<1>5. CountsInv'
  <2>1. Counts(c)' = None
    BY <1>1, CallKinds DEF Counts
  <2>2. \A d \in Calls \ {c} : Counts(d)' = Counts(d)
    BY <1>1 DEF Counts
  <2> QED
    BY <1>1, <2>1, <2>2, NumberTypes, CountsUndisturbed DEF Listed
<1>6. ReportsInv'
  BY <1>1, ReportsUndisturbed DEF Listed
<1> QED
  BY <1>2, <1>4, <1>5, <1>6 DEF MarketInv

\* A publish goes on: what there is to prove of the codes it may be of.
LEMMA PublishAttests ==
  ASSUME MarketInv, NEW c \in Calls, NEW v \in Call, v.op = "publish",
         ~(call[c] # Idle /\ call[c].op = "publish" /\ call[c].row.hash # v.row.hash),
         call' = [call EXCEPT ![c] = v], UNCHANGED <<library, listings>>,
         v.at = "commit" /\ v.mp # None => ListedAs(v.mp, v.user, v.row.hash),
         published' \subseteq published,
         <<v.user, v.row.hash>> \in published' =>
           /\ \A d \in Calls \ {c} : ~Publishes(d, v.user, v.row.hash)
           /\ v.at = "commit" /\ v.mp = None => \A l \in Listings : ~ListedAs(l, v.user, v.row.hash),
         unlisted \subseteq unlisted',
         \A k \in registry' \ unlisted' :
           k \in registry \ unlisted \/ (v.at \in {"select", "commit"} /\ v.row.hash = k),
         call[c] # Idle /\ call[c].op = "publish" /\ call[c].at \in {"select", "commit"} =>
           v.at \in {"select", "commit"}
  PROVE  AttestInv'
<1>1. /\ call'[c] = v /\ \A d \in Calls \ {c} : call'[d] = call[d]
  BY CallPut DEF MarketInv
<1>2. v # Idle
  BY CallKinds
<1>3. ListedCodeAttested'
  BY DEF MarketInv, AttestInv, ListedCodeAttested, Listed, Copies
<1>4. InstallSound(c)'
  BY <1>1 DEF InstallSound
<1>5. PublishSound(c)'
  BY <1>1 DEF PublishSound, ListedAs, Listed, At
<1>6. \A d \in Calls \ {c} : InstallSound(d)' /\ PublishSound(d)'
  BY <1>1 DEF MarketInv, AttestInv, InstallSound, PublishSound, ListedAs, Listed, At
<1>7. \A l, u, k : ListedAs(l, u, k)' <=> ListedAs(l, u, k)
  BY DEF ListedAs, Listed
<1>8. ASSUME NEW u \in Users, NEW k \in Codes, <<u, k>> \in published'
      PROVE  PublishSingle(u, k)'
  <2>1. PublishSingle(u, k)
    BY <1>8 DEF MarketInv, AttestInv
  <2>2. \A d \in Calls \ {c} : Publishes(d, u, k)' => Publishes(d, u, k) /\ call'[d] = call[d]
    BY <1>1 DEF Publishes
  <2>3. Publishes(c, u, k)' => v.user = u /\ v.row.hash = k
    BY <1>1 DEF Publishes
  <2>4. CASE Publishes(c, u, k)'
    BY <1>1, <1>7, <1>8, <2>1, <2>2, <2>3, <2>4 DEF PublishSingle
  <2>5. CASE ~Publishes(c, u, k)'
    BY <1>7, <2>1, <2>2, <2>5 DEF PublishSingle
  <2> QED
    BY <2>4, <2>5
<1>9. ASSUME NEW k \in registry' \ unlisted'
      PROVE  \/ \E m \in Listings : Listed(m)' /\ listings'[m].hash = k
             \/ \E d \in Calls : Attesting(d, k)'
  <2>1. CASE v.at \in {"select", "commit"} /\ v.row.hash = k
    BY <1>1, <1>2, <2>1 DEF Attesting
  <2>2. CASE k \in registry \ unlisted
    <3>1. \/ \E m \in Listings : Listed(m) /\ listings[m].hash = k
          \/ \E d \in Calls : Attesting(d, k)
      BY <2>2 DEF MarketInv, AttestInv
    <3>2. ASSUME NEW d \in Calls, Attesting(d, k)
          PROVE  Attesting(d, k)'
      BY <1>1, <1>2, <3>2 DEF Attesting
    <3> QED
      BY <3>1, <3>2 DEF Listed
  <2> QED
    BY <2>1, <2>2
<1> QED
  BY <1>3, <1>4, <1>5, <1>6, <1>8, <1>9 DEF AttestInv

LEMMA PublishLoadsKeepsMarket ==
  ASSUME MarketInv, NEW c \in Calls, NEW u \in Users, NEW i \in RowIds, PublishLoads(c, u, i)
  PROVE  MarketInv'
<1> DEFINE v == [op |-> "publish", at |-> "backtest", user |-> u, row |-> library[i], mp |-> None]
<1>1. /\ library[i] \in Row /\ call[c] = Idle /\ started' \in 0..MaxCalls
      /\ call' = [call EXCEPT ![c] = v]
      /\ UNCHANGED <<library, made, listings, reports, registry, tokens, grants, counted, flagged, unlisted>>
  BY NumberTypes DEF PublishLoads, Begin, Owned, chainVars, MarketInv, MarketTypeOK
<1>2. v \in PublishCall /\ v.op = "publish" /\ v.at = "backtest" /\ v.user = u /\ v.row = library[i]
  BY <1>1 DEF PublishCall
<1>3. PICK k \in Codes : k = library[i].hash
  BY <1>1 DEF Row
<1>4. published' = IF \E d \in Calls : Publishes(d, u, k) THEN published \ {<<u, k>>} ELSE published
  BY <1>3 DEF PublishLoads
<1> HIDE DEF v
<1>5. v \in Call
  BY <1>2, CallOfKind
<1>6. published' \subseteq published
      /\ (<<u, k>> \in published' => \A d \in Calls : ~Publishes(d, u, k))
  BY <1>4
<1>7. AttestInv'
  BY <1>1, <1>2, <1>3, <1>5, <1>6, PublishAttests
<1>8. Counts(c) = None
  BY <1>1 DEF Counts
<1> QED
  BY <1>1, <1>2, <1>5, <1>6, <1>7, <1>8, PublishStepKeepsMarket DEF MarketInv, MarketTypeOK

LEMMA PublishOnChainKeepsMarket ==
  ASSUME MarketInv, NEW c \in Calls, PublishOnChain(c)
  PROVE  MarketInv'
<1> DEFINE v == [call[c] EXCEPT !.at = "select"]
<1>1. /\ call[c] \in PublishCall /\ call[c] # Idle /\ call[c].op = "publish" /\ call[c].at = "backtest"
      /\ call' = [call EXCEPT ![c] = v]
      /\ UNCHANGED <<library, made, listings, reports, tokens, grants, started,
                     counted, flagged, published, unlisted>>
  BY CallKinds DEF PublishOnChain, Goto, At, histories, MarketInv, MarketTypeOK
<1>2. PICK u \in Users, k \in Codes : u = call[c].user /\ k = call[c].row.hash
  BY <1>1 DEF PublishCall, Row
<1>3. /\ v \in PublishCall /\ v.op = "publish" /\ v.at = "select" /\ v.user = u /\ v.row.hash = k
  BY <1>1, <1>2 DEF PublishCall
<1>4. registry' \in {registry, registry \cup {k}} /\ registry' \subseteq Codes
  BY <1>2 DEF PublishOnChain, Register, MarketInv, MarketTypeOK
<1> HIDE DEF v
<1>5. v \in Call
  BY <1>3, CallOfKind
<1>6. <<u, k>> \in published => \A d \in Calls \ {c} : ~Publishes(d, u, k)
  <2>1. Publishes(c, u, k)
    BY <1>1, <1>2 DEF Publishes
  <2> QED
    BY <2>1 DEF MarketInv, AttestInv, PublishSingle
<1>7. \A j \in registry' \ unlisted' :
        j \in registry \ unlisted \/ (v.at \in {"select", "commit"} /\ v.row.hash = j)
  BY <1>1, <1>3, <1>4
<1>8. ~(call[c] # Idle /\ call[c].op = "publish" /\ call[c].row.hash # v.row.hash)
  BY <1>2, <1>3
<1>9. AttestInv'
  BY <1>1, <1>3, <1>5, <1>6, <1>7, <1>8, PublishAttests
<1>10. Counts(c) = None
  BY <1>1 DEF Counts
<1> QED
  BY <1>1, <1>3, <1>4, <1>5, <1>9, <1>10, PublishStepKeepsMarket DEF MarketInv, MarketTypeOK

LEMMA PublishSelectsKeepsMarket ==
  ASSUME MarketInv, NEW c \in Calls, PublishSelects(c)
  PROVE  MarketInv'
<1>1. /\ call[c] \in PublishCall /\ call[c] # Idle /\ call[c].op = "publish" /\ call[c].at = "select"
      /\ UNCHANGED <<library, made, listings, reports, registry, tokens, grants, started,
                     counted, flagged, published>>
  BY CallKinds DEF PublishSelects, At, chainVars, MarketInv, MarketTypeOK
<1>2. PICK u \in Users, k \in Codes : u = call[c].user /\ k = call[c].row.hash
  BY <1>1 DEF PublishCall, Row
<1> DEFINE found == {l \in Listings : Listed(l) /\ listings[l].author = u /\ listings[l].hash = k}
<1>3. CASE Cardinality(found) > 1
  <2>1. call' = [call EXCEPT ![c] = Idle] /\ unlisted' = unlisted \cup {k}
    BY <1>2, <1>3 DEF PublishSelects, Finish
  <2> QED
    BY <1>1, <1>2, <2>1, CallEndKeepsMarket DEF Attesting, MarketInv, MarketTypeOK
<1>4. CASE ~(Cardinality(found) > 1)
  <2>1. PICK mp \in {None} \cup Listings :
          /\ mp = IF found = {} THEN None ELSE CHOOSE l \in found : TRUE
          /\ mp # None => ListedAs(mp, u, k)
          /\ mp = None => found = {}
    <3>1. CASE found = {}
      BY <3>1
    <3>2. CASE found # {}
      <4>1. (CHOOSE l \in found : TRUE) \in found
        BY <3>2
      <4> QED
        BY <3>2, <4>1, NumberTypes DEF ListedAs
    <3> QED
      BY <3>1, <3>2
  <2> DEFINE v == [call[c] EXCEPT !.at = "commit", !.mp = mp]
  <2>2. call' = [call EXCEPT ![c] = v] /\ UNCHANGED unlisted
    <3>1. call' = [call EXCEPT ![c].at = "commit", ![c].mp = mp] /\ UNCHANGED unlisted
      BY <1>2, <1>4, <2>1 DEF PublishSelects
    <3> QED
      BY <3>1 DEF MarketInv, MarketTypeOK
  <2>3. /\ v \in PublishCall /\ v.op = "publish" /\ v.at = "commit" /\ v.user = u
        /\ v.row.hash = k /\ v.mp = mp
    BY <1>1, <1>2 DEF PublishCall
  <2> HIDE DEF v
  <2>4. v \in Call
    BY <2>3, CallOfKind
  <2>5. <<u, k>> \in published => \A d \in Calls \ {c} : ~Publishes(d, u, k)
    <3>1. Publishes(c, u, k)
      BY <1>1, <1>2 DEF Publishes
    <3> QED
      BY <3>1 DEF MarketInv, AttestInv, PublishSingle
  <2>6. mp = None => \A l \in Listings : ~ListedAs(l, u, k)
    BY <2>1 DEF ListedAs
  <2>7. AttestInv'
    BY <1>1, <1>2, <2>1, <2>2, <2>3, <2>4, <2>5, <2>6, PublishAttests
  <2>8. Counts(c) = None
    BY <1>1 DEF Counts
  <2> QED
    BY <1>1, <2>2, <2>3, <2>4, <2>7, <2>8, PublishStepKeepsMarket DEF MarketInv, MarketTypeOK
<1> QED
  BY <1>3, <1>4

LEMMA PublishCommitsKeepsMarket ==
  ASSUME MarketInv, NEW c \in Calls, PublishCommits(c)
  PROVE  MarketInv'
<1>1. /\ call[c] \in PublishCall /\ call[c] # Idle /\ call[c].op = "publish" /\ call[c].at = "commit"
      /\ call' = [call EXCEPT ![c] = Idle] /\ PublishSound(c)
      /\ UNCHANGED <<library, made, reports, registry, grants, started,
                     counted, flagged, published, unlisted>>
  BY CallKinds DEF PublishCommits, At, Finish, MarketInv, MarketTypeOK, AttestInv
<1>2. PICK u \in Users, row \in Row, found \in {None} \cup Listings :
        u = call[c].user /\ row = call[c].row /\ found = call[c].mp
  BY <1>1 DEF PublishCall
<1>3. PICK k \in Codes, name \in Names : k = row.hash /\ name = row.name
  BY DEF Row
<1>4. tokens' \in 0..MaxTokens
  <2>1. tokens \in Nat /\ tokens \in 0..MaxTokens
    BY NumberTypes DEF MarketInv, MarketTypeOK
  <2> QED
    BY <1>1, <2>1, NumberTypes DEF PublishCommits, Mint
<1>5. PICK l \in Listings, x \in Listing :
        /\ listings' = [listings EXCEPT ![l] = x]
        /\ x.author = u /\ x.hash = k /\ x.blob = k
        /\ \/ /\ found = l /\ Listed(l) /\ ListedAs(l, u, k)
              /\ x.installs = listings[l].installs /\ x.reported = listings[l].reported
           \/ found = None /\ ~Listed(l) /\ x.installs = 0 /\ x.reported = 0
  <2>1. CASE found # None
    <3>1. ListedAs(found, u, k) /\ found \in Listings
      BY <1>1, <1>2, <1>3, <2>1 DEF PublishSound, At
    <3>2. listings[found] \in Listing
      BY <3>1 DEF ListedAs, Listed, MarketInv, MarketTypeOK
    <3>3. PICK token \in 0..MaxTokens : token = IF tokens' = tokens THEN listings[found].token ELSE tokens'
      BY <1>4, <3>2 DEF Listing
    <3> DEFINE x == [listings[found] EXCEPT !.name = name, !.blob = k, !.token = token]
    <3>4. /\ x \in Listing /\ x.author = u /\ x.hash = k /\ x.blob = k
          /\ x.installs = listings[found].installs /\ x.reported = listings[found].reported
      BY <3>1, <3>2 DEF Listing, ListedAs
    <3>5. listings' = [listings EXCEPT ![found] = x]
      BY <1>2, <1>3, <2>1, <3>3 DEF PublishCommits
    <3> HIDE DEF x
    <3> QED
      BY <3>1, <3>4, <3>5 DEF ListedAs
  <2>2. CASE found = None
    <3>1. PICK token \in 0..MaxTokens : token = IF tokens' = tokens THEN None ELSE tokens'
      BY <1>4, NumberTypes
    <3>2. PICK x \in Listing : x = [author |-> u, name |-> name, hash |-> k, blob |-> k,
                                    installs |-> 0, reported |-> 0, token |-> token]
      BY DEF Listing
    <3>3. PICK l \in Listings : ~Listed(l) /\ listings' = [listings EXCEPT ![l] = x]
      BY <1>2, <1>3, <2>2, <3>1, <3>2 DEF PublishCommits
    <3>4. x.author = u /\ x.hash = k /\ x.blob = k /\ x.installs = 0 /\ x.reported = 0
      BY <3>2
    <3> QED
      BY <2>2, <3>3, <3>4
  <2> QED
    BY <2>1, <2>2
<1>6. /\ listings' \in [Listings -> Listing \cup {NoListing}] /\ listings'[l] = x /\ x # NoListing
      /\ \A m \in Listings \ {l} : listings'[m] = listings[m]
  BY <1>5, ListingPut DEF MarketInv
<1>7. /\ call' \in [Calls -> Call \cup {Idle}]
      /\ call'[c] = Idle /\ \A d \in Calls \ {c} : call'[d] = call[d]
  BY <1>1, CallPut DEF MarketInv
<1>8. MarketTypeOK'
  BY <1>1, <1>4, <1>6, <1>7 DEF MarketInv, MarketTypeOK
<1>9. /\ \A m \in Listings : Listed(m) =>
           /\ Listed(m)' /\ listings'[m].author = listings[m].author /\ listings'[m].hash = listings[m].hash
           /\ listings'[m].installs = listings[m].installs /\ listings'[m].reported = listings[m].reported
      /\ Listed(l)' /\ listings'[l].hash = k
  BY <1>5, <1>6 DEF Listed, ListedAs
<1>10. \A m \in Listings : ~Listed(m) /\ Listed(m)' => m = l /\ found = None
  BY <1>5, <1>6 DEF Listed
<1>11. \A d \in Calls : call'[d] # Idle => d # c /\ call'[d] = call[d] /\ call[d] \in Call
  BY <1>7 DEF MarketInv, MarketTypeOK
<1>12. RowsInv'
  <2>1. made <= made'
    BY <1>1, NumberTypes DEF MarketInv, MarketTypeOK
  <2>2. /\ \A i \in RowIds : i > made' => library'[i] = NoRow
        /\ \A i \in RowIds : library'[i] = NoRow \/ library'[i] = library[i]
        /\ \A i \in RowIds : library'[i] # NoRow /\ library'[i].source = "authored" => library'[i].mp = None
    BY <1>1 DEF MarketInv, RowsInv
  <2> QED
    BY <1>8, <1>9, <1>11, <2>1, <2>2, RowsUndisturbed
<1>13. AttestInv'
  <2>1. ListedCodeAttested'
    <3>1. \A m \in Listings : Listed(m)' => listings'[m].blob = listings'[m].hash
      BY <1>5, <1>6 DEF MarketInv, AttestInv, ListedCodeAttested, Listed
    <3>2. ASSUME NEW m \in Listings, NEW i \in Copies(m)'
          PROVE  Listed(m)' /\ library'[i].hash = listings'[m].hash
      <4>1. i \in Copies(m) /\ library'[i] = library[i]
        BY <1>1, <3>2 DEF Copies
      <4> QED
        BY <1>9, <4>1 DEF MarketInv, AttestInv, ListedCodeAttested
    <3> QED
      BY <3>1, <3>2 DEF ListedCodeAttested
  <2>2. \A m \in Listings : \A w, h : ListedAs(m, w, h) => ListedAs(m, w, h)'
    BY <1>9 DEF ListedAs
  <2>3. \A m \in Listings : \A w, h : ListedAs(m, w, h)' =>
          ListedAs(m, w, h) \/ (m = l /\ found = None /\ w = u /\ h = k)
    BY <1>5, <1>6 DEF ListedAs, Listed
  <2>4. ASSUME NEW d \in Calls, call'[d] # Idle
        PROVE  InstallSound(d)' /\ PublishSound(d)'
    <3>1. call'[d] = call[d] /\ call[d] \in Call /\ call[d] # Idle /\ InstallSound(d) /\ PublishSound(d)
      BY <1>11, <2>4 DEF MarketInv, AttestInv
    <3>2. InstallSound(d)'
      <4>1. call[d].op = "install" => call[d].mp \in Listings
        BY <3>1, CallKinds DEF InstallCall
      <4> QED
        BY <1>9, <3>1, <4>1 DEF InstallSound, Listed
    <3>3. PublishSound(d)'
      <4>1. call[d].op = "publish" => call[d].mp \in {None} \cup Listings
        BY <3>1, CallKinds DEF PublishCall
      <4> QED
        BY <1>9, <3>1, <4>1 DEF PublishSound, ListedAs, Listed, At
    <3> QED
      BY <3>2, <3>3
  <2>5. ASSUME NEW d \in Calls, call'[d] = Idle
        PROVE  InstallSound(d)' /\ PublishSound(d)'
    BY <2>5 DEF InstallSound, PublishSound, At
  <2>6. \A d \in Calls : \A w, h : Publishes(d, w, h)' => d # c /\ Publishes(d, w, h) /\ call'[d] = call[d]
    BY <1>11 DEF Publishes
  <2>7. ASSUME NEW w \in Users, NEW h \in Codes, <<w, h>> \in published'
        PROVE  PublishSingle(w, h)'
    <3>1. PublishSingle(w, h)
      BY <1>1, <2>7 DEF MarketInv, AttestInv
    <3>2. CASE found = None /\ w = u /\ h = k
      <4>1. Publishes(c, u, k) /\ call[c].at = "commit" /\ call[c].mp = None
        BY <1>1, <1>2, <1>3, <3>2 DEF Publishes
      <4>2. \A m \in Listings : ~ListedAs(m, u, k)
        BY <3>1, <3>2, <4>1 DEF PublishSingle
      <4>3. \A d \in Calls : ~Publishes(d, u, k)'
        BY <2>6, <3>1, <3>2, <4>1 DEF PublishSingle
      <4>4. \A m, n \in Listings : ListedAs(m, u, k)' /\ ListedAs(n, u, k)' => m = n
        BY <2>3, <4>2
      <4> QED
        BY <3>2, <4>3, <4>4 DEF PublishSingle
    <3>3. CASE ~(found = None /\ w = u /\ h = k)
      <4>1. \A m \in Listings : ListedAs(m, w, h)' => ListedAs(m, w, h)
        BY <2>3, <3>3
      <4> QED
        BY <2>6, <3>1, <4>1 DEF PublishSingle
    <3> QED
      BY <3>2, <3>3
  <2>8. ASSUME NEW h \in registry' \ unlisted'
        PROVE  \/ \E m \in Listings : Listed(m)' /\ listings'[m].hash = h
               \/ \E d \in Calls : Attesting(d, h)'
    <3>1. \/ \E m \in Listings : Listed(m) /\ listings[m].hash = h
          \/ \E d \in Calls : Attesting(d, h)
      BY <1>1, <2>8 DEF MarketInv, AttestInv
    <3>2. ASSUME NEW d \in Calls, Attesting(d, h)
          PROVE  Attesting(d, h)' \/ h = k
      BY <1>2, <1>3, <1>7, <3>2 DEF Attesting
    <3> QED
      BY <1>9, <3>1, <3>2
  <2> QED
    BY <2>1, <2>4, <2>5, <2>7, <2>8 DEF AttestInv
<1>14. CountsInv'
  <2>1. Counts(c)' = None
    BY <1>7 DEF Counts
  <2>2. \A d \in Calls \ {c} : Counts(d)' = Counts(d)
    BY <1>7 DEF Counts
  <2>3. \A m \in Listings : ~Listed(m) /\ Listed(m)' => listings'[m].installs = 0
    BY <1>5, <1>6, <1>10
  <2> QED
    BY <1>1, <1>7, <1>9, <2>1, <2>2, <2>3, NumberTypes, CountsUndisturbed
<1>15. ReportsInv'
  <2>1. \A m \in Listings : ~Listed(m) /\ Listed(m)' => listings'[m].reported = 0
    BY <1>5, <1>6, <1>10
  <2> QED
    BY <1>1, <1>9, <1>11, <2>1, ReportsUndisturbed
<1> QED
  BY <1>8, <1>12, <1>13, <1>14, <1>15 DEF MarketInv

\* A step of a report changes nothing that rows, codes and copies are about.
LEMMA ReportStepKeepsMarket ==
  ASSUME MarketInv, NEW c \in Calls, NEW v \in Call \cup {Idle}, v # Idle => v.op = "report",
         call[c] # Idle => call[c].op = "report",
         call' = [call EXCEPT ![c] = v],
         UNCHANGED <<library, made, registry, tokens, grants, counted, published, unlisted>>,
         started' \in 0..MaxCalls, listings' \in [Listings -> Listing \cup {NoListing}],
         reports' \subseteq Listings \X Users, flagged' \subseteq flagged,
         \A m \in Listings : Listed(m)' <=> Listed(m),
         \A m \in Listings : Listed(m) =>
           /\ listings'[m].author = listings[m].author /\ listings'[m].hash = listings[m].hash
           /\ listings'[m].blob = listings[m].blob /\ listings'[m].installs = listings[m].installs,
         ReportsInv'
  PROVE  MarketInv'
<1>1. /\ call' \in [Calls -> Call \cup {Idle}]
      /\ call'[c] = v /\ \A d \in Calls \ {c} : call'[d] = call[d]
  BY CallPut DEF MarketInv
<1>2. MarketTypeOK'
  BY <1>1 DEF MarketInv, MarketTypeOK
<1>3. RowsInv'
  <2>1. made <= made'
    BY NumberTypes DEF MarketInv, MarketTypeOK
  <2>2. /\ \A i \in RowIds : i > made' => library'[i] = NoRow
        /\ \A i \in RowIds : library'[i] = NoRow \/ library'[i] = library[i]
        /\ \A i \in RowIds : library'[i] # NoRow /\ library'[i].source = "authored" => library'[i].mp = None
    BY DEF MarketInv, RowsInv
  <2>3. \A d \in Calls : call'[d] # Idle /\ call'[d].op = "delete" => call'[d] = call[d]
    BY <1>1
  <2> QED
    BY <1>2, <2>1, <2>2, <2>3, RowsUndisturbed
<1>4. AttestInv'
  <2>1. \A d \in Calls, k \in Codes : Attesting(d, k) => call'[d] = call[d]
    BY <1>1 DEF Attesting
  <2> QED
    BY <1>1, <1>2, <2>1, AttestUndisturbed
<1>5. CountsInv'
  <2>1. Counts(c)' = None
    BY <1>1 DEF Counts
  <2>2. \A d \in Calls \ {c} : Counts(d)' = Counts(d)
    BY <1>1 DEF Counts
  <2> QED
    BY <1>1, <2>1, <2>2, NumberTypes, CountsUndisturbed
<1> QED
  BY <1>2, <1>3, <1>4, <1>5 DEF MarketInv

LEMMA ReportLoadsKeepsMarket ==
  ASSUME MarketInv, NEW c \in Calls, NEW u \in Users, NEW l \in Listings, ReportLoads(c, u, l)
  PROVE  MarketInv'
<1>1. PICK seen \in Nat : seen = listings[l].reported
  BY DEF ReportLoads, Listed, MarketInv, MarketTypeOK, Listing
<1> DEFINE v == [op |-> "report", at |-> "count", user |-> u, mp |-> l, seen |-> seen, n |-> 0]
<1>2. /\ Listed(l) /\ call[c] = Idle /\ started' \in 0..MaxCalls /\ <<l, u>> \notin reports
      /\ ~\E d \in Calls : Reporting(d, l) /\ call[d].user = u
      /\ call' = [call EXCEPT ![c] = v]
      /\ flagged' = IF \E d \in Calls : Reporting(d, l) THEN flagged \ {l} ELSE flagged
      /\ UNCHANGED <<library, made, listings, reports, registry, tokens, grants, counted, published, unlisted>>
  BY <1>1, NumberTypes DEF ReportLoads, Begin, chainVars, MarketInv, MarketTypeOK
<1>3. v \in ReportCall /\ v.op = "report" /\ v.at = "count" /\ v.user = u /\ v.mp = l /\ v.seen = seen
  BY DEF ReportCall
<1> HIDE DEF v
<1>4. v \in Call /\ v # Idle
  BY <1>3, CallOfKind, CallKinds
<1>5. call'[c] = v /\ \A d \in Calls \ {c} : call'[d] = call[d]
  BY <1>2, <1>4, CallPut DEF MarketInv
<1>6. ReportsInv'
  <2>1. \A m : ReportsOf(m)' = ReportsOf(m)
    BY <1>2 DEF ReportsOf
  <2>2. seen <= Cardinality(ReportsOf(l))
    BY <1>1, <1>2 DEF MarketInv, ReportsInv
  <2>3. ReportSound(c)'
    BY <1>2, <1>3, <1>5, <2>1, <2>2 DEF ReportSound, Listed
  <2>4. ASSUME NEW d \in Calls \ {c}
        PROVE  ReportSound(d)'
    BY <1>2, <1>5, <2>1 DEF ReportSound, Listed, MarketInv, ReportsInv
  <2>6. \A m \in Listings : (Reporting(c, m)' <=> m = l)
        /\ \A d \in Calls \ {c} : Reporting(d, m)' <=> Reporting(d, m)
    BY <1>3, <1>4, <1>5 DEF Reporting
  <2>7. \A m \in Listings, d, e \in Calls :
          Reporting(d, m)' /\ Reporting(e, m)' /\ call'[d].user = call'[e].user => d = e
    BY <1>2, <1>3, <1>5, <2>6 DEF MarketInv, ReportsInv
  <2>8. ASSUME NEW m \in flagged'
        PROVE  FlagSingle(m)'
    <3>1. m \in Listings /\ FlagSingle(m)
      BY <1>2 DEF MarketInv, MarketTypeOK, ReportsInv
    <3>2. m = l => \A d \in Calls : ~Reporting(d, l)
      BY <1>2
    <3>3. m = l => seen = Cardinality(ReportsOf(l))
      BY <1>1, <1>2, <3>1 DEF FlagSingle
    <3>4. Listed(m)' => listings'[m].reported = Cardinality(ReportsOf(m)')
      BY <1>2, <2>1, <3>1 DEF FlagSingle, Listed
    <3>5. \A d, e \in Calls : Reporting(d, m)' /\ Reporting(e, m)' => d = e
      BY <2>6, <3>1, <3>2 DEF FlagSingle
    <3>6. ASSUME NEW d \in Calls, Reporting(d, m)'
          PROVE  /\ call'[d].seen = Cardinality(ReportsOf(m)')
                 /\ call'[d].at = "commit" => call'[d].n = Cardinality(ReportsOf(m)') + 1
      BY <1>3, <1>5, <2>1, <2>6, <3>1, <3>2, <3>3, <3>6 DEF FlagSingle
    <3> QED
      BY <3>4, <3>5, <3>6 DEF FlagSingle
  <2>9. /\ IsFiniteSet(reports')
        /\ \A r \in reports' : Listed(r[1])'
        /\ \A m \in Listings : Listed(m)' => listings'[m].reported <= Cardinality(ReportsOf(m)')
    BY <1>2, <2>1 DEF MarketInv, ReportsInv, Listed
  <2> QED
    BY <2>3, <2>4, <2>7, <2>8, <2>9 DEF ReportsInv
<1> QED
  BY <1>2, <1>3, <1>4, <1>6, ReportStepKeepsMarket DEF Listed, MarketInv, MarketTypeOK

LEMMA ReportCountsKeepsMarket ==
  ASSUME MarketInv, NEW c \in Calls, ReportCounts(c)
  PROVE  MarketInv'
<1>1. /\ call[c] \in ReportCall /\ call[c] # Idle /\ call[c].op = "report" /\ ReportSound(c)
      /\ UNCHANGED <<library, made, listings, reports, registry, tokens, grants, started,
                     counted, flagged, published, unlisted>>
  BY CallKinds DEF ReportCounts, At, chainVars, histories, MarketInv, MarketTypeOK, ReportsInv
<1>2. PICK l \in Listings : l = call[c].mp
  BY <1>1 DEF ReportCall
<1>3. PICK n \in Nat : n = Cardinality(ReportsOf(l)) + 1
  BY ReportsFinite DEF MarketInv
<1> DEFINE v == [call[c] EXCEPT !.at = "commit", !.n = n]
<1>4. call' = [call EXCEPT ![c] = v]
  <2>1. call' = [call EXCEPT ![c].at = "commit", ![c].n = n]
    BY <1>2, <1>3 DEF ReportCounts, ReportsOf
  <2> QED
    BY <2>1 DEF MarketInv, MarketTypeOK
<1>5. /\ v \in ReportCall /\ v.op = "report" /\ v.at = "commit" /\ v.user = call[c].user /\ v.mp = l
      /\ v.seen = call[c].seen /\ v.n = n
  BY <1>1, <1>2 DEF ReportCall
<1> HIDE DEF v
<1>6. v \in Call /\ v # Idle
  BY <1>5, CallOfKind, CallKinds
<1>7. call'[c] = v /\ \A d \in Calls \ {c} : call'[d] = call[d]
  BY <1>4, <1>6, CallPut DEF MarketInv
<1>8. ReportsInv'
  <2>1. \A m : ReportsOf(m)' = ReportsOf(m)
    BY <1>1 DEF ReportsOf
  <2>2. ReportSound(c)'
    <3>1. Cardinality(ReportsOf(l)) \in Nat
      BY ReportsFinite DEF MarketInv
    <3> QED
      BY <1>1, <1>2, <1>3, <1>5, <1>7, <2>1, <3>1 DEF ReportSound, Listed
  <2>3. ASSUME NEW d \in Calls \ {c}
        PROVE  ReportSound(d)'
    BY <1>1, <1>7, <2>1 DEF ReportSound, Listed, MarketInv, ReportsInv
  <2>4. \A m \in Listings, d \in Calls :
          /\ Reporting(d, m)' <=> Reporting(d, m)
          /\ Reporting(d, m) => call'[d].user = call[d].user /\ call'[d].seen = call[d].seen
    BY <1>1, <1>2, <1>5, <1>6, <1>7 DEF Reporting
  <2>5. \A m \in Listings, d, e \in Calls :
          Reporting(d, m)' /\ Reporting(e, m)' /\ call'[d].user = call'[e].user => d = e
    BY <2>4 DEF MarketInv, ReportsInv
  <2>6. ASSUME NEW m \in flagged'
        PROVE  FlagSingle(m)'
    <3>1. m \in Listings /\ FlagSingle(m)
      BY <1>1 DEF MarketInv, MarketTypeOK, ReportsInv
    <3>2. Listed(m)' => listings'[m].reported = Cardinality(ReportsOf(m)')
      BY <1>1, <2>1, <3>1 DEF FlagSingle, Listed
    <3>3. ASSUME NEW d \in Calls, Reporting(d, m)'
          PROVE  /\ call'[d].seen = Cardinality(ReportsOf(m)')
                 /\ call'[d].at = "commit" => call'[d].n = Cardinality(ReportsOf(m)') + 1
      <4>1. d = c => m = l
        BY <1>2, <2>4, <3>1, <3>3 DEF Reporting
      <4> QED
        BY <1>3, <1>5, <1>7, <2>1, <2>4, <3>1, <3>3, <4>1 DEF FlagSingle
    <3> QED
      BY <2>4, <3>1, <3>2, <3>3 DEF FlagSingle
  <2>7. /\ IsFiniteSet(reports')
        /\ \A r \in reports' : Listed(r[1])'
        /\ \A m \in Listings : Listed(m)' => listings'[m].reported <= Cardinality(ReportsOf(m)')
    BY <1>1, <2>1 DEF MarketInv, ReportsInv, Listed
  <2> QED
    BY <2>2, <2>3, <2>5, <2>6, <2>7 DEF ReportsInv
<1> QED
  BY <1>1, <1>4, <1>5, <1>6, <1>8, ReportStepKeepsMarket DEF Listed, MarketInv, MarketTypeOK

LEMMA ReportCommitsKeepsMarket ==
  ASSUME MarketInv, NEW c \in Calls, ReportCommits(c)
  PROVE  MarketInv'
<1>1. /\ call[c] \in ReportCall /\ call[c] # Idle /\ call[c].op = "report" /\ call[c].at = "commit"
      /\ ReportSound(c) /\ call' = [call EXCEPT ![c] = Idle]
      /\ UNCHANGED <<library, made, registry, tokens, grants, started,
                     counted, flagged, published, unlisted>>
  BY CallKinds DEF ReportCommits, At, Finish, chainVars, histories, MarketInv, MarketTypeOK, ReportsInv
<1>2. PICK l \in Listings, u \in Users, n \in Nat, seen \in Nat :
        l = call[c].mp /\ u = call[c].user /\ n = call[c].n /\ seen = call[c].seen
  BY <1>1 DEF ReportCall
<1>3. /\ reports' = reports \cup {<<l, u>>} /\ reports' \subseteq Listings \X Users
      /\ listings' = IF n = seen THEN listings ELSE [listings EXCEPT ![l].reported = n]
  BY <1>2 DEF ReportCommits, MarketInv, MarketTypeOK
<1>4. /\ Listed(l) /\ <<l, u>> \notin reports /\ Reporting(c, l)
      /\ seen <= Cardinality(ReportsOf(l)) /\ n <= Cardinality(ReportsOf(l)) + 1
  BY <1>1, <1>2 DEF ReportSound, Reporting
<1>5. /\ call'[c] = Idle /\ \A d \in Calls \ {c} : call'[d] = call[d]
  BY <1>1, CallPut DEF MarketInv
<1>6. /\ listings' \in [Listings -> Listing \cup {NoListing}]
      /\ \A m \in Listings : Listed(m)' <=> Listed(m)
      /\ \A m \in Listings : Listed(m) =>
           /\ listings'[m].author = listings[m].author /\ listings'[m].hash = listings[m].hash
           /\ listings'[m].blob = listings[m].blob /\ listings'[m].installs = listings[m].installs
      /\ \A m \in Listings : Listed(m) =>
           listings'[m].reported = IF m = l /\ n # seen THEN n ELSE listings[m].reported
  <2>1. CASE n = seen
    BY <1>3, <2>1 DEF Listed, MarketInv, MarketTypeOK
  <2>2. CASE n # seen
    <3> DEFINE x == [listings[l] EXCEPT !.reported = n]
    <3>1. listings[l] \in Listing
      BY <1>4 DEF Listed, MarketInv, MarketTypeOK
    <3>2. /\ x \in Listing /\ x.author = listings[l].author /\ x.hash = listings[l].hash
          /\ x.blob = listings[l].blob /\ x.installs = listings[l].installs /\ x.reported = n
      BY <3>1 DEF Listing
    <3>3. listings' = [listings EXCEPT ![l] = x]
      BY <1>3, <2>2
    <3> HIDE DEF x
    <3>4. /\ listings' \in [Listings -> Listing \cup {NoListing}] /\ listings'[l] = x /\ x # NoListing
          /\ \A m \in Listings \ {l} : listings'[m] = listings[m]
      BY <3>2, <3>3, ListingPut DEF MarketInv
    <3> QED
      BY <1>4, <2>2, <3>2, <3>4 DEF Listed
  <2> QED
    BY <2>1, <2>2
<1>7. /\ ReportsOf(l)' = ReportsOf(l) \cup {<<l, u>>}
      /\ \A m \in Listings \ {l} : ReportsOf(m)' = ReportsOf(m)
  BY <1>3 DEF ReportsOf
<1>8. Cardinality(ReportsOf(l)') = Cardinality(ReportsOf(l)) + 1 /\ Cardinality(ReportsOf(l)) \in Nat
  <2>1. <<l, u>> \notin ReportsOf(l)
    BY <1>4 DEF ReportsOf
  <2>2. IsFiniteSet(ReportsOf(l)) /\ Cardinality(ReportsOf(l)) \in Nat
    BY ReportsFinite DEF MarketInv
  <2>3. Cardinality(ReportsOf(l) \cup {<<l, u>>}) = Cardinality(ReportsOf(l)) + 1
    BY <2>1, <2>2, FS_AddElement
  <2> QED
    BY <1>7, <2>2, <2>3
<1>9. ReportsInv'
  <2>1. IsFiniteSet(reports')
    BY <1>3, FS_AddElement DEF MarketInv, ReportsInv
  <2>2. \A r \in reports' : Listed(r[1])'
    <3>1. \A r \in reports' : r[1] \in Listings /\ Listed(r[1])
      BY <1>3, <1>4 DEF MarketInv, ReportsInv
    <3>2. \A m \in Listings : listings[m] # NoListing => listings'[m] # NoListing
      BY <1>6 DEF Listed
    <3> QED
      BY <3>1, <3>2 DEF Listed
  <2>3. ASSUME NEW m \in Listings, Listed(m)'
        PROVE  listings'[m].reported <= Cardinality(ReportsOf(m)')
    <3>1. listings[m].reported <= Cardinality(ReportsOf(m)) /\ listings[m].reported \in Nat
      BY <1>6, <2>3 DEF MarketInv, ReportsInv, MarketTypeOK, Listed, Listing
    <3>2. CASE m = l
      BY <1>4, <1>6, <1>8, <2>3, <3>1, <3>2
    <3>3. CASE m # l
      BY <1>6, <1>7, <2>3, <3>1, <3>3
    <3> QED
      BY <3>2, <3>3
  <2>4. \A m \in Listings, d \in Calls : Reporting(d, m)' => d # c /\ Reporting(d, m) /\ call'[d] = call[d]
    BY <1>5 DEF Reporting
  <2>5. \A m \in Listings, d, e \in Calls :
          Reporting(d, m)' /\ Reporting(e, m)' /\ call'[d].user = call'[e].user => d = e
    BY <2>4 DEF MarketInv, ReportsInv
  <2>6. ASSUME NEW d \in Calls
        PROVE  ReportSound(d)'
    <3> SUFFICES ASSUME call'[d] # Idle, call'[d].op = "report"
                 PROVE  ReportSound(d)'
      BY DEF ReportSound
    <3>1. /\ call[d] # Idle /\ call[d] \in ReportCall /\ d # c /\ ReportSound(d) /\ call[d].op = "report"
          /\ call'[d] = call[d]
      BY <1>5, CallKinds DEF MarketInv, MarketTypeOK, ReportsInv
    <3>2. PICK m \in Listings, w \in Users : m = call[d].mp /\ w = call[d].user
      BY <3>1 DEF ReportCall
    <3>3. /\ Listed(m) /\ <<m, w>> \notin reports /\ call[d].seen <= Cardinality(ReportsOf(m))
          /\ call[d].at = "commit" => call[d].n <= Cardinality(ReportsOf(m)) + 1
      BY <3>1, <3>2 DEF ReportSound
    <3>4. Reporting(d, m)
      BY <3>1, <3>2 DEF Reporting
    <3>5. m = l => w # u
      BY <1>2, <1>4, <3>1, <3>2, <3>4 DEF MarketInv, ReportsInv
    <3>6. <<m, w>> \notin reports'
      BY <1>3, <3>3, <3>5
    <3>7. /\ Cardinality(ReportsOf(m)) \in Nat
          /\ Cardinality(ReportsOf(m)') \in {Cardinality(ReportsOf(m)), Cardinality(ReportsOf(m)) + 1}
      BY <1>7, <1>8, ReportsFinite DEF MarketInv
    <3>8. call[d].seen \in Nat /\ call[d].n \in Nat /\ listings'[m] # NoListing
      BY <1>6, <3>1, <3>3 DEF ReportCall, Listed
    <3>9. /\ call[d].seen <= Cardinality(ReportsOf(m)')
          /\ call[d].at = "commit" => call[d].n <= Cardinality(ReportsOf(m)') + 1
      BY <3>3, <3>7, <3>8
    <3> QED
      BY <3>1, <3>2, <3>6, <3>8, <3>9 DEF ReportSound, Listed
  <2>7. ASSUME NEW m \in flagged'
        PROVE  FlagSingle(m)'
    <3>1. m \in Listings /\ FlagSingle(m)
      BY <1>1 DEF MarketInv, MarketTypeOK, ReportsInv
    <3>2. \A d, e \in Calls : Reporting(d, m)' /\ Reporting(e, m)' => d = e
      BY <2>4, <3>1 DEF FlagSingle
    <3>3. CASE m = l
      <4>1. \A d \in Calls : ~Reporting(d, m)'
        BY <1>4, <2>4, <3>1, <3>3 DEF FlagSingle
      <4>2. n = Cardinality(ReportsOf(l)) + 1 /\ seen = Cardinality(ReportsOf(l))
        BY <1>1, <1>2, <1>4, <3>1, <3>3 DEF FlagSingle
      <4>3. listings'[m].reported = Cardinality(ReportsOf(m)')
        BY <1>4, <1>6, <1>8, <3>3, <4>2
      <4> QED
        BY <3>2, <4>1, <4>3 DEF FlagSingle
    <3>4. CASE m # l
      BY <1>6, <1>7, <2>4, <3>1, <3>2, <3>4 DEF FlagSingle
    <3> QED
      BY <3>3, <3>4
  <2> QED
    BY <2>1, <2>2, <2>3, <2>5, <2>6, <2>7 DEF ReportsInv
<1> QED
  BY <1>1, <1>3, <1>6, <1>9, ReportStepKeepsMarket DEF MarketInv, MarketTypeOK

LEMMA PublishRefusedKeepsMarket ==
  ASSUME MarketInv, NEW c \in Calls, PublishRefused(c)
  PROVE  MarketInv'
<1>1. /\ call[c].at = "backtest" /\ call' = [call EXCEPT ![c] = Idle]
      /\ UNCHANGED <<library, made, listings, reports, registry, tokens, grants, started,
                     counted, flagged, published, unlisted>>
  BY DEF PublishRefused, At, Finish, chainVars, histories
<1> QED
  BY <1>1, CallEndKeepsMarket DEF Attesting, MarketInv, MarketTypeOK

LEMMA AbortKeepsMarket ==
  ASSUME MarketInv, NEW c \in Calls, Abort(c)
  PROVE  MarketInv'
<1>1. /\ call[c] # Idle /\ call[c] \in Call /\ call' = [call EXCEPT ![c] = Idle]
      /\ UNCHANGED <<library, made, listings, reports, registry, tokens, grants, started,
                     counted, flagged, published>>
  BY DEF Abort, Finish, chainVars, MarketInv, MarketTypeOK
<1>2. call[c].op = "publish" => call[c].row.hash \in Codes
  BY <1>1, CallKinds DEF PublishCall, Row
<1>3. unlisted \subseteq unlisted' /\ unlisted' \subseteq Codes
  BY <1>2 DEF Abort, At, MarketInv, MarketTypeOK
<1>4. \A k \in Codes : Attesting(c, k) => k \in unlisted'
  BY DEF Abort, At, Attesting
<1> QED
  BY <1>1, <1>3, <1>4, CallEndKeepsMarket DEF MarketInv, MarketTypeOK

LEMMA MarketStep == MarketInv /\ [MarketNext]_marketVars => MarketInv'
<1> SUFFICES ASSUME MarketInv, [MarketNext]_marketVars PROVE MarketInv'
  OBVIOUS
<1>1. CASE UNCHANGED marketVars
  <2>1. UNCHANGED <<library, made, listings, reports, call, registry, tokens, grants,
                    started, counted, flagged, published, unlisted>>
    BY <1>1 DEF marketVars
  <2>2. MarketTypeOK'
    BY <2>1 DEF MarketInv, MarketTypeOK
  <2>3. RowsInv'
    BY <2>1 DEF MarketInv, RowsInv, DeleteSound, Listed
  <2>4. AttestInv'
    BY <2>1, <2>2, AttestUndisturbed DEF Listed
  <2>5. CountsInv' /\ ReportsInv'
    BY <2>1, CountsUndisturbed, ReportsUndisturbed DEF Listed, Counts
  <2> QED
    BY <2>2, <2>3, <2>4, <2>5 DEF MarketInv
<1>2. CASE \E u \in Users, n \in Names, k \in Codes :
             Create(u, n, k) \/ \E i \in RowIds : Patch(u, i, n, k)
  BY <1>2, CreateKeepsMarket, PatchKeepsMarket
<1>3. CASE \E c \in Calls, u \in Users :
             \/ \E i \in RowIds : DeleteLoadsRow(c, u, i) \/ PublishLoads(c, u, i)
             \/ \E l \in Listings : InstallLoadsListing(c, u, l) \/ ReportLoads(c, u, l)
  BY <1>3, DeleteLoadsKeepsMarket, PublishLoadsKeepsMarket, InstallLoadsKeepsMarket, ReportLoadsKeepsMarket
<1>4. ASSUME NEW c \in Calls,
             \/ DeleteLoadsListing(c) \/ DeleteCommits(c)
             \/ InstallChecks(c) \/ InstallCommits(c) \/ InstallGrants(c)
             \/ PublishRefused(c) \/ PublishOnChain(c) \/ PublishSelects(c) \/ PublishCommits(c)
             \/ ReportCounts(c) \/ ReportCommits(c)
             \/ Abort(c)
      PROVE  MarketInv'
  BY <1>4, DeleteReadsKeepsMarket, DeleteCommitsKeepsMarket, InstallChecksKeepsMarket,
     InstallCommitsKeepsMarket, InstallGrantsKeepsMarket, PublishRefusedKeepsMarket,
     PublishOnChainKeepsMarket, PublishSelectsKeepsMarket, PublishCommitsKeepsMarket,
     ReportCountsKeepsMarket, ReportCommitsKeepsMarket, AbortKeepsMarket
<1> QED
  BY <1>1, <1>2, <1>3, <1>4 DEF MarketNext

LEMMA MarketStart == MarketInit => MarketInv
<1> SUFFICES ASSUME MarketInit PROVE MarketInv
  OBVIOUS
<1>1. 0 \in 0..MaxRows /\ 0 \in 0..MaxTokens /\ 0 \in 0..MaxCalls
  BY NumberTypes
<1>2. MarketTypeOK
  BY <1>1 DEF MarketInit, MarketTypeOK
<1>3. /\ \A c \in Calls : call[c] = Idle
      /\ \A i \in RowIds : library[i] = NoRow
      /\ \A l \in Listings : listings[l] = NoListing
  BY DEF MarketInit
<1>4. \A l : Copies(l) = {} /\ ReportsOf(l) = {}
  BY <1>3 DEF Copies, ReportsOf, MarketInit
<1>5. RowsInv
  BY <1>3 DEF RowsInv, DeleteSound
<1>6. AttestInv
  <2>1. ListedCodeAttested
    BY <1>3, <1>4 DEF ListedCodeAttested, Listed
  <2>2. \A c \in Calls : InstallSound(c) /\ PublishSound(c)
    BY <1>3 DEF InstallSound, PublishSound, At
  <2>3. \A u \in Users, k \in Codes : PublishSingle(u, k)
    BY <1>3 DEF PublishSingle, ListedAs, Listed, Publishes
  <2> QED
    BY <2>1, <2>2, <2>3 DEF AttestInv, MarketInit
<1>7. CountsInv
  <2>1. \A c \in Calls, l \in Listings : Counts(c) # l
    BY <1>3, NumberTypes DEF Counts
  <2> QED
    BY <1>3, <2>1 DEF CountsInv, CountSingle, Listed, MarketInit
<1>8. ReportsInv
  <2>1. IsFiniteSet(reports) /\ reports = {}
    BY FS_EmptySet DEF MarketInit
  <2> QED
    BY <1>3, <2>1 DEF ReportsInv, ReportSound, FlagSingle, Reporting, Listed, MarketInit
<1> QED
  BY <1>2, <1>5, <1>6, <1>7, <1>8 DEF MarketInv

LEMMA MarketImplied == MarketInv => CountersKept /\ ListingsAttested
<1> SUFFICES ASSUME MarketInv PROVE CountersKept /\ ListingsAttested
  OBVIOUS
<1>1. InstallsCounted
  BY DEF MarketInv, CountsInv, CountSingle, InstallsCounted
<1>2. ReportsCounted
  BY DEF MarketInv, ReportsInv, FlagSingle, ReportsOf, ReportsCounted
<1>3. ListedCodeAttested
  BY DEF MarketInv, AttestInv
<1>4. OneListingPerCode
  <2> SUFFICES ASSUME NEW l \in Listings, NEW m \in Listings, Listed(l), Listed(m),
                      listings[l].author = listings[m].author, listings[l].hash = listings[m].hash,
                      <<listings[l].author, listings[l].hash>> \in published
               PROVE  l = m
    BY DEF OneListingPerCode
  <2>1. listings[l].author \in Users /\ listings[l].hash \in Codes
    BY DEF MarketInv, MarketTypeOK, Listed, Listing
  <2>2. PublishSingle(listings[l].author, listings[l].hash)
    BY <2>1 DEF MarketInv, AttestInv
  <2> QED
    BY <2>2 DEF PublishSingle, ListedAs
<1>5. RegisteredIsListed
  <2> SUFFICES ASSUME NEW k \in registry \ unlisted
               PROVE  \/ \E l \in Listings : Listed(l) /\ listings[l].hash = k
                      \/ \E c \in Calls, u \in Users : Publishes(c, u, k)
    BY DEF RegisteredIsListed
  <2>1. ASSUME NEW c \in Calls, Attesting(c, k)
        PROVE  \E u \in Users : Publishes(c, u, k)
    <3>1. call[c] \in PublishCall
      BY <2>1, CallKinds DEF Attesting, MarketInv, MarketTypeOK
    <3>2. call[c].user \in Users /\ Publishes(c, call[c].user, k)
      BY <2>1, <3>1 DEF Attesting, Publishes, PublishCall
    <3> QED
      BY <3>2
  <2> QED
    BY <2>1 DEF MarketInv, AttestInv
<1> QED
  BY <1>1, <1>2, <1>3, <1>4, <1>5 DEF CountersKept, ListingsAttested

\* CountersKept: however deletes, installs and reports overlap, fail and are repeated, the two
\* counters are the copies and the reports, unless two changes of one overlapped.
THEOREM CountersProved == MarketSpec => []CountersKept
BY MarketStart, MarketStep, MarketImplied, PTL DEF MarketSpec

\* ListingsAttested: what is listed is what was backtested and put on the chain, once, and
\* nothing is left on the chain alone unless a publish failed after it.
THEOREM ListingsProved == MarketSpec => []ListingsAttested
BY MarketStart, MarketStep, MarketImplied, PTL DEF MarketSpec

-----------------------------------------------------------------------------
(* The hub's prices and the listener of an agent (PriceFeed)               *)

\* A message is on the way only to a listener that reads, and about a symbol of the cache.
WireSound ==
  /\ \A l \in wire : listener[l].task = "read"
  /\ wire # {} => AgentSymbol \in cached

NoneAlive == \A l \in Listeners : ~ListenerAlive(l)

\* What the engine's own flags say of its listeners while no two calls overlap.
EngineAlone ==
  /\ \A l \in Listeners : ListenerAlive(l) => engine.held = l
  /\ engine.running => engine.starts = 0 /\ engine.stop = "no"
  /\ engine.starts > 0 => engine.starts = 1 /\ engine.stop = "no"
  /\ ~engine.running /\ engine.stop # "loop" => NoneAlive

FeedInv == FeedTypeOK /\ WireSound /\ (~overlapped => EngineAlone)

Listener ==
  [running : BOOLEAN, connected : BOOLEAN, price : BOOLEAN, fresh : BOOLEAN,
   task : {"none", "connect", "read", "backoff", "done"}]
Engine ==
  [running : BOOLEAN, starts : 0..2, held : Listeners \cup {NoListener},
   stop : {"no", "loop", "listener"}]

\* A listener whose task ends, goes on or was never begun leaves the engine's flags true.
LEMMA SameAlive ==
  ASSUME FeedInv, UNCHANGED engine, overlapped => overlapped',
         \A l \in Listeners : ListenerAlive(l)' => ListenerAlive(l)
  PROVE  ~overlapped' => EngineAlone'
BY DEF FeedInv, EngineAlone, NoneAlive

\* The poll, the broadcast, the watch list and a restart of the hub.
LEMMA HubKeepsFeed ==
  ASSUME FeedInv,
         \/ \E s \in Symbols : TrackSymbol(s)
         \/ PollStarts \/ PollFails \/ HubRestarts
         \/ \E some \in OnePerFeed(poll.names) : PollAnswered(some)
         \/ \E l \in Listeners : EndpointEnds(l)
  PROVE  FeedInv'
<1> USE DEF FeedInv
<1>1. UNCHANGED <<listener, engine, overlapped>>
  BY DEF TrackSymbol, PollStarts, PollFails, HubRestarts, PollAnswered, EndpointEnds, hubVars
<1>2. ~overlapped' => EngineAlone'
  BY <1>1, SameAlive DEF ListenerAlive
<1>3. ASSUME NEW s \in Symbols, TrackSymbol(s)
      PROVE  FeedTypeOK' /\ WireSound'
  BY <1>3, FeedAssumption DEF TrackSymbol, FeedTypeOK, WireSound
<1>4. CASE PollStarts
  <2>1. poll' \in [at : {"sleep", "fetch"}, names : SUBSET Symbols]
    BY <1>4 DEF PollStarts, FeedTypeOK
  <2> QED
    BY <1>2, <1>4, <2>1 DEF PollStarts, FeedTypeOK, WireSound
<1>5. CASE PollFails
  <2>1. poll' \in [at : {"sleep", "fetch"}, names : SUBSET Symbols]
    BY <1>5 DEF PollFails, Sleeping
  <2> QED
    BY <1>2, <1>5, <2>1 DEF PollFails, FeedTypeOK, WireSound
<1>6. CASE HubRestarts
  <2>1. poll' \in [at : {"sleep", "fetch"}, names : SUBSET Symbols]
    BY <1>6 DEF HubRestarts, Sleeping
  <2>2. restarts' \in 0..MaxRestarts
    BY <1>6, FeedAssumption DEF HubRestarts, FeedTypeOK
  <2> QED
    BY <1>2, <1>6, <2>1, <2>2 DEF HubRestarts, FeedTypeOK, WireSound
<1>7. ASSUME NEW some \in OnePerFeed(poll.names), PollAnswered(some)
      PROVE  FeedTypeOK' /\ WireSound'
  <2> DEFINE reached == {l \in subs : listener[l].task = "read"}
  <2>1. /\ cached' = cached \cup some /\ poll' = Sleeping /\ subs' = reached
        /\ wire' = IF AgentSymbol \in cached' THEN reached ELSE wire
        /\ UNCHANGED <<watch, restarts, listener, engine, overlapped>>
    BY <1>7 DEF PollAnswered
  <2>2. some \subseteq Symbols
    BY DEF OnePerFeed, FeedTypeOK
  <2>3. AgentSymbol \notin cached' => wire = {}
    BY <2>1 DEF WireSound
  <2>4. wire' \subseteq reached /\ WireSound'
    BY <2>1, <2>3 DEF WireSound
  <2> QED
    BY <2>1, <2>2, <2>4 DEF FeedTypeOK, Sleeping
<1>8. ASSUME NEW l \in Listeners, EndpointEnds(l)
      PROVE  FeedTypeOK' /\ WireSound'
  BY <1>8 DEF EndpointEnds, hubVars, FeedTypeOK, WireSound
<1> QED
  BY <1>2, <1>3, <1>4, <1>5, <1>6, <1>7, <1>8

\* One listener changes, is not begun, and reads on if a message is on the way to it.
LEMMA ListenerChanges ==
  ASSUME FeedInv, NEW l \in Listeners, NEW x \in Listener,
         listener' = [listener EXCEPT ![l] = x],
         x.task \in {"connect", "read", "backoff"} => ListenerAlive(l),
         wire' \subseteq wire, l \in wire' => x.task = "read",
         subs' \in {subs, subs \cup {l}},
         UNCHANGED <<hubVars, engine, overlapped>>
  PROVE  FeedInv'
<1> USE DEF FeedInv, hubVars
<1>1. listener'[l] = x /\ \A m \in Listeners \ {l} : listener'[m] = listener[m]
  BY DEF FeedTypeOK
<1>2. FeedTypeOK'
  BY DEF FeedTypeOK, Listener
<1>3. WireSound'
  BY <1>1 DEF WireSound, FeedTypeOK
<1>4. \A m \in Listeners : ListenerAlive(m)' => ListenerAlive(m)
  BY <1>1 DEF ListenerAlive
<1> QED
  BY <1>2, <1>3, <1>4, SameAlive

\* The connection, the messages and the age of the price.
LEMMA ListenerKeepsFeed ==
  ASSUME FeedInv, NEW l \in Listeners,
         \/ Connects(l) \/ ConnectionFails(l) \/ ClosedInOrder(l)
         \/ Receives(l) \/ PriceAges(l) \/ BackoffEnds(l)
  PROVE  FeedInv'
<1>1. listener[l] \in Listener
  BY DEF FeedInv, FeedTypeOK, Listener
<1>2. CASE Connects(l)
  <2> DEFINE x == [listener[l] EXCEPT !.task = "read", !.connected = TRUE]
  <2>1. x \in Listener /\ listener' = [listener EXCEPT ![l] = x]
    BY <1>1, <1>2 DEF Connects, Listener
  <2>2. ListenerAlive(l) /\ wire' = wire \ {l} /\ subs' = subs \cup {l}
        /\ UNCHANGED <<hubVars, engine, overlapped>>
    BY <1>2 DEF Connects, ListenerAlive
  <2> HIDE DEF x
  <2> QED
    BY <2>1, <2>2, ListenerChanges
<1>3. CASE ConnectionFails(l)
  <2> DEFINE x == [listener[l] EXCEPT !.task = "backoff", !.connected = FALSE]
  <2>1. x \in Listener /\ listener' = [listener EXCEPT ![l] = x]
    BY <1>1, <1>3 DEF ConnectionFails, Listener
  <2>2. ListenerAlive(l) /\ l \notin wire /\ UNCHANGED <<hubVars, subs, wire, engine, overlapped>>
    BY <1>3 DEF ConnectionFails, ListenerAlive, FeedInv, WireSound
  <2> HIDE DEF x
  <2> QED
    BY <2>1, <2>2, ListenerChanges
<1>4. CASE ClosedInOrder(l) \/ BackoffEnds(l)
  <2> DEFINE x == [listener[l] EXCEPT !.task = IF listener[l].running THEN "connect" ELSE "done"]
  <2>1. x \in Listener /\ listener' = [listener EXCEPT ![l] = x]
    BY <1>1, <1>4 DEF ClosedInOrder, BackoffEnds, Listener
  <2>2. ListenerAlive(l) /\ l \notin wire /\ UNCHANGED <<hubVars, subs, wire, engine, overlapped>>
    BY <1>4 DEF ClosedInOrder, BackoffEnds, ListenerAlive, FeedInv, WireSound
  <2> HIDE DEF x
  <2> QED
    BY <2>1, <2>2, ListenerChanges
<1>5. CASE Receives(l)
  <2> DEFINE x == [listener[l] EXCEPT !.price = TRUE, !.fresh = TRUE]
  <2>1. x \in Listener /\ listener' = [listener EXCEPT ![l] = x]
    BY <1>1, <1>5 DEF Receives, Listener
  <2>2. ListenerAlive(l) /\ wire' = wire \ {l} /\ UNCHANGED <<hubVars, subs, engine, overlapped>>
    BY <1>5 DEF Receives, ListenerAlive
  <2> HIDE DEF x
  <2> QED
    BY <2>1, <2>2, ListenerChanges
<1>6. CASE PriceAges(l)
  <2> DEFINE x == [listener[l] EXCEPT !.fresh = FALSE]
  <2>1. x \in Listener /\ listener' = [listener EXCEPT ![l] = x] /\ x.task = listener[l].task
    BY <1>1, <1>6 DEF PriceAges, Listener
  <2>2. /\ UNCHANGED <<hubVars, subs, wire, engine, overlapped>>
        /\ l \in wire => listener[l].task = "read"
    BY <1>6 DEF PriceAges, FeedInv, WireSound
  <2> HIDE DEF x
  <2> QED
    BY <2>1, <2>2, ListenerChanges DEF ListenerAlive
<1> QED
  BY <1>2, <1>3, <1>4, <1>5, <1>6

\* start() and stop(): a call that overlaps none finds and leaves one listener at most.
LEMMA EngineKeepsFeed ==
  ASSUME FeedInv,
         \/ StartAsked \/ StopAsked \/ StopCancels \/ StopForgets
         \/ \E l \in Listeners : StartCreates(l)
  PROVE  FeedInv'
<1> USE FeedAssumption DEF FeedInv, hubVars
<1>1. engine \in Engine /\ engine.starts \in 0..2
  BY DEF FeedTypeOK, Engine
<1>2. CASE StartAsked
  <2> DEFINE x == [engine EXCEPT !.starts = @ + 1]
  <2>1. engine' = x /\ x \in Engine /\ x.starts = engine.starts + 1 /\ x.running = engine.running
        /\ x.stop = engine.stop /\ x.held = engine.held
    BY <1>1, <1>2 DEF StartAsked, Engine
  <2> HIDE DEF x
  <2>2. FeedTypeOK' /\ WireSound'
    BY <1>2, <2>1 DEF StartAsked, FeedTypeOK, WireSound, Engine
  <2>3. ASSUME ~overlapped' PROVE EngineAlone'
    <3>1. ~overlapped /\ ~(engine.starts > 0) /\ engine.stop = "no" /\ ~engine.running
      BY <1>2, <2>3 DEF StartAsked
    <3>2. engine.starts = 0
      BY <1>1, <3>1
    <3> QED
      BY <1>2, <2>1, <3>1, <3>2 DEF StartAsked, EngineAlone, NoneAlive, ListenerAlive
  <2> QED
    BY <2>2, <2>3
<1>3. CASE StopAsked
  <2> DEFINE x == [engine EXCEPT !.running = FALSE, !.stop = "loop"]
  <2>1. engine' = x /\ x \in Engine /\ x.starts = engine.starts /\ x.running = FALSE
        /\ x.stop = "loop" /\ x.held = engine.held
    BY <1>1, <1>3 DEF StopAsked, Engine
  <2> HIDE DEF x
  <2>2. FeedTypeOK' /\ WireSound'
    BY <1>3, <2>1 DEF StopAsked, FeedTypeOK, WireSound, Engine
  <2>3. ASSUME ~overlapped' PROVE EngineAlone'
    <3>1. ~overlapped /\ ~(engine.starts > 0)
      BY <1>3, <2>3 DEF StopAsked
    <3> QED
      BY <1>3, <2>1, <3>1 DEF StopAsked, EngineAlone, NoneAlive, ListenerAlive
  <2> QED
    BY <2>2, <2>3
<1>4. CASE StopCancels
  <2> DEFINE l == engine.held
             x == [engine EXCEPT !.stop = IF l = NoListener THEN "no" ELSE "listener"]
  <2>1. /\ engine' = x /\ x \in Engine /\ x.starts = engine.starts /\ x.running = engine.running
        /\ x.stop = (IF l = NoListener THEN "no" ELSE "listener") /\ x.held = l
        /\ wire' = wire \ {l} /\ UNCHANGED <<hubVars, subs, overlapped>> /\ engine.stop = "loop"
    BY <1>1, <1>4 DEF StopCancels, Engine
  <2> HIDE DEF x
  <2>2. CASE l = NoListener
    <3>1. UNCHANGED listener
      BY <1>4, <2>2 DEF StopCancels
    <3>2. FeedTypeOK' /\ WireSound'
      BY <2>1, <3>1 DEF FeedTypeOK, WireSound, Engine
    <3>3. ASSUME ~overlapped' PROVE EngineAlone'
      <4>1. EngineAlone /\ NoneAlive /\ NoneAlive'
        BY <2>1, <2>2, <3>1, <3>3 DEF EngineAlone, NoneAlive, ListenerAlive
      <4> QED
        BY <2>1, <4>1 DEF EngineAlone, NoneAlive
    <3> QED
      BY <3>2, <3>3
  <2>3. CASE l \in Listeners
    <3> DEFINE y == [listener[l] EXCEPT !.running = FALSE, !.task = "done"]
    <3>1. listener' = [listener EXCEPT ![l] = y]
      BY <1>4, <2>3 DEF StopCancels
    <3>2. y \in Listener /\ y.task = "done"
      <4>1. listener[l] \in Listener
        BY <2>3 DEF FeedTypeOK, Listener
      <4> QED
        BY <4>1 DEF Listener
    <3> HIDE DEF y, l
    <3>3. listener'[l] = y /\ \A m \in Listeners \ {l} : listener'[m] = listener[m]
      BY <2>3, <3>1 DEF FeedTypeOK
    <3>4. FeedTypeOK' /\ WireSound'
      BY <2>1, <3>1, <3>2, <3>3 DEF FeedTypeOK, WireSound, Engine, Listener
    <3>5. ASSUME ~overlapped' PROVE EngineAlone'
      <4>1. EngineAlone /\ \A m \in Listeners : ListenerAlive(m) => m = l
        BY <2>1, <3>5 DEF EngineAlone, l
      <4>2. NoneAlive'
        BY <3>2, <3>3, <4>1 DEF NoneAlive, ListenerAlive
      <4> QED
        BY <2>1, <4>1, <4>2 DEF EngineAlone, NoneAlive
    <3> QED
      BY <3>4, <3>5
  <2> QED
    BY <1>1, <2>2, <2>3 DEF Engine
<1>5. CASE StopForgets
  <2> DEFINE x == [engine EXCEPT !.stop = "no", !.held = NoListener]
  <2>1. engine' = x /\ x \in Engine /\ x.starts = engine.starts /\ x.running = engine.running
        /\ x.stop = "no" /\ engine.stop = "listener"
    BY <1>1, <1>5 DEF StopForgets, Engine
  <2> HIDE DEF x
  <2>2. /\ listener' = [l \in Listeners |-> IF listener[l].task = "done" THEN Gone ELSE listener[l]]
        /\ UNCHANGED <<hubVars, subs, wire, overlapped>>
    BY <1>5 DEF StopForgets
  <2>3. Gone \in Listener /\ Gone.task = "done"
    BY DEF Gone, NewListener, Listener
  <2>4. FeedTypeOK'
    BY <2>1, <2>2, <2>3 DEF FeedTypeOK, Engine, Listener
  <2>5. \A l \in Listeners : listener'[l].task = listener[l].task
    BY <2>2, <2>3
  <2>6. WireSound'
    BY <2>2, <2>5 DEF WireSound, FeedTypeOK
  <2>7. ASSUME ~overlapped' PROVE EngineAlone'
    <3>1. EngineAlone /\ NoneAlive
      BY <2>1, <2>2, <2>7 DEF EngineAlone
    <3>2. NoneAlive'
      BY <2>5, <3>1 DEF NoneAlive, ListenerAlive
    <3> QED
      BY <2>1, <3>1, <3>2 DEF EngineAlone, NoneAlive
  <2> QED
    BY <2>4, <2>6, <2>7
<1>6. ASSUME NEW l \in Listeners, StartCreates(l)
      PROVE  FeedInv'
  <2> DEFINE x == [engine EXCEPT !.starts = @ - 1, !.running = TRUE, !.held = l]
             y == [NewListener EXCEPT !.running = TRUE, !.task = "connect"]
  <2>1. engine.starts \in 1..2 /\ listener[l].task = "none"
    <3>1. engine.starts > 0 /\ listener[l].task = "none"
      BY <1>6 DEF StartCreates
    <3> QED
      BY <1>1, <3>1
  <2>2. engine' = x /\ x \in Engine /\ x.starts = engine.starts - 1 /\ x.running
        /\ x.stop = engine.stop /\ x.held = l
    <3>1. engine' = x
      BY <1>6 DEF StartCreates
    <3>2. engine.starts - 1 \in 0..2
      BY <2>1
    <3> QED
      BY <1>1, <3>1, <3>2 DEF Engine
  <2>3. /\ listener' = [listener EXCEPT ![l] = y] /\ y \in Listener
        /\ UNCHANGED <<hubVars, subs, wire, overlapped>>
    BY <1>6 DEF StartCreates, NewListener, Listener
  <2> HIDE DEF x, y
  <2>4. \A m \in Listeners \ {l} : listener'[m] = listener[m]
    BY <2>3 DEF FeedTypeOK
  <2>5. FeedTypeOK'
    BY <2>2, <2>3 DEF FeedTypeOK, Engine, Listener
  <2>6. WireSound'
    BY <2>1, <2>3, <2>4 DEF WireSound, FeedTypeOK
  <2>7. ASSUME ~overlapped' PROVE EngineAlone'
    <3>1. EngineAlone /\ engine.starts = 1 /\ engine.stop = "no" /\ ~engine.running /\ NoneAlive
      BY <2>1, <2>3, <2>7 DEF EngineAlone
    <3>2. \A m \in Listeners : ListenerAlive(m)' => m = l
      BY <2>4, <3>1 DEF NoneAlive, ListenerAlive
    <3> QED
      BY <2>2, <3>1, <3>2 DEF EngineAlone
  <2> QED
    BY <2>5, <2>6, <2>7
<1> QED
  BY <1>2, <1>3, <1>4, <1>5, <1>6

LEMMA FeedStarts == FeedInit => FeedInv
<1> SUFFICES ASSUME FeedInit PROVE FeedInv
  OBVIOUS
<1>1. FeedTypeOK
  <2>1. poll \in [at : {"sleep", "fetch"}, names : SUBSET Symbols]
    BY DEF FeedInit, Sleeping
  <2>2. NewListener \in Listener /\ listener \in [Listeners -> Listener]
    BY DEF FeedInit, NewListener, Listener
  <2>3. engine \in Engine
    BY DEF FeedInit, Engine
  <2>4. restarts \in 0..MaxRestarts
    BY FeedAssumption DEF FeedInit
  <2> QED
    BY <2>1, <2>2, <2>3, <2>4 DEF FeedInit, FeedTypeOK, Listener, Engine
<1>2. NoneAlive
  BY DEF FeedInit, NoneAlive, ListenerAlive, NewListener
<1> QED
  BY <1>1, <1>2 DEF FeedInit, FeedInv, WireSound, EngineAlone, NoneAlive

LEMMA FeedStep == FeedInv /\ [FeedNext]_feedVars => FeedInv'
<1> SUFFICES ASSUME FeedInv, [FeedNext]_feedVars PROVE FeedInv'
  OBVIOUS
<1>1. CASE FeedNext
  BY <1>1, HubKeepsFeed, ListenerKeepsFeed, EngineKeepsFeed DEF FeedNext
<1>2. CASE UNCHANGED feedVars
  BY <1>2 DEF feedVars, FeedInv, FeedTypeOK, WireSound, EngineAlone, NoneAlive, ListenerAlive
<1> QED
  BY <1>1, <1>2

\* What the engine's flags say of its listeners, and the wire of the messages on it, through
\* every start, stop, lost connection and restart (app/engine.py, market/price_listener.py).
THEOREM FeedInvariant == FeedSpec => []FeedInv
BY FeedStarts, FeedStep, PTL DEF FeedSpec

\* FeedSafe: a listener whose task runs is the one the engine holds, unless a start overlapped
\* another start or a stop (app/engine.py:241, 289).
THEOREM ListenerKept == FeedSpec => []FeedSafe
<1>1. FeedInv => FeedSafe
  BY DEF FeedInv, FeedSafe, ListenerLostOnlyByOverlap, EngineAlone
<1> QED
  BY <1>1, FeedInvariant, PTL

-----------------------------------------------------------------------------
(* The services of a hub together (MCHub)                                  *)

HubInv == MarketInv /\ SignInInv /\ WalletInv /\ SecretsInv /\ CandleInv

LEMMA HubStep == HubInv /\ [Next]_vars => HubInv'
<1> SUFFICES ASSUME HubInv, [Next]_vars PROVE HubInv'
  OBVIOUS
<1>1. [MarketNext]_marketVars /\ [SignInNext]_signInVars /\ [WalletNext]_walletVars
      /\ [SecretsNext]_secretsVars /\ [CandleNext]_candleVars
  BY DEF Next, vars
<1> QED
  BY <1>1, MarketStep, SignInStep, WalletStep, SecretsStep, CandleStep DEF HubInv

\* HubTypesOK: each variable of the five services keeps its type, and the counts of a listing,
\* which overlapping deletes take down, stay natural numbers.
THEOREM HubTypesProved == Spec => []HubTypesOK
<1>1. Init => HubInv
  BY MarketStart, SignInStart, WalletStart, SecretsStart, CandleStart DEF Init, HubInv
<1>2. HubInv => HubTypesOK
  BY DEF HubInv, HubTypesOK, MarketInv, SignInInv, WalletInv, SecretsInv, CandleInv
<1> QED
  BY <1>1, <1>2, HubStep, PTL DEF Spec
=============================================================================
