----------------------------- MODULE HubWallet -----------------------------
(***************************************************************************)
(* The chain wallet of a user (hub/wallet).  ensure_wallet makes one on    *)
(* the first of four uses: to show it, before an agent is started, when    *)
(* the VM is woken, which gets the private key, and to withdraw.  A key    *)
(* and its address are a number.  Withdrawals block the hub's event loop,  *)
(* so no other handler runs between their calls of the node; the agents'   *)
(* own transactions are mined at any time.                                 *)
(***************************************************************************)
EXTENDS Naturals

CONSTANTS
  WalletCalls,  \* request slots of the hub
  NoUse,
  MaxKeys,      \* bound on the keys generated
  MaxBalance,   \* bound on the balance, in units of the fee of a transfer
  MaxChainTxs   \* bound on the transactions of the wallet that are mined

ASSUME WalletAssumption == {MaxKeys, MaxBalance, MaxChainTxs} \subseteq Nat

VARIABLES
  walletKey,   \* users.chain_address and chain_privkey, 0 for none
  keysMade,    \* Account.create() calls so far
  walletUse,   \* the requests under way
  shownKeys,   \* addresses a user has been shown
  vmKey,       \* ZERO_G_PRIVATE_KEY of the running VM, 0 for none
  balance,     \* of the address last shown
  minedTxs,    \* the wallet's nonce
  withdrawal,  \* the transaction of the wallet the node holds
  usesOverlap  \* history: two uses that found no wallet overlapped

walletVars == <<walletKey, keysMade, walletUse, shownKeys, vmKey, balance, minedTxs, withdrawal, usesOverlap>>
chainState == <<balance, minedTxs, withdrawal>>

NoKey == 0
Fee == 1
NoTransfer == [nonce |-> 0, amount |-> 0]
Purposes == {"show", "gate", "launch", "withdraw"}
WalletUse == [for : Purposes, at : {"ensure", "refresh"}, seen : 0..MaxKeys]

WalletTypeOK ==
  /\ walletKey \in 0..MaxKeys /\ keysMade \in 0..MaxKeys /\ vmKey \in 0..MaxKeys
  /\ walletUse \in [WalletCalls -> WalletUse \cup {NoUse}]
  /\ shownKeys \subseteq 1..MaxKeys
  /\ balance \in 0..MaxBalance
  /\ minedTxs \in 0..MaxChainTxs
  /\ withdrawal \in [nonce : 0..MaxChainTxs, amount : 0..MaxBalance]
  /\ usesOverlap \in BOOLEAN

WalletInit ==
  /\ walletKey = NoKey /\ keysMade = 0 /\ vmKey = NoKey
  /\ walletUse = [c \in WalletCalls |-> NoUse]
  /\ shownKeys = {}
  /\ balance = 0 /\ minedTxs = 0 /\ withdrawal = NoTransfer
  /\ usesOverlap = FALSE

\* The user row is read (get_current_user, the proxy's gate, or start of a VM).
UseLoadsUser(c, purpose) ==
  /\ walletUse[c] = NoUse
  /\ walletUse' = [walletUse EXCEPT ![c] = [for |-> purpose, at |-> "ensure", seen |-> walletKey]]
  /\ usesOverlap' = (usesOverlap \/ \E d \in WalletCalls : walletUse[d] # NoUse /\ walletKey = NoKey)
  /\ UNCHANGED <<walletKey, keysMade, shownKeys, vmKey, chainState>>

\* get_wallet shows the address; the gate shows it if its balance is too low.
Shows(key) == shownKeys' = shownKeys \cup {key} /\ UNCHANGED vmKey

\* withdraw: the nonce is the number of mined transactions, so a transfer that is
\* still pending is replaced (at a higher gas price) or the new one is refused; nobody
\* has paid to an address that was never shown.
Withdraw(key) ==
  \/ UNCHANGED withdrawal
  \/ \E amount \in 1..MaxBalance :
       /\ key \in shownKeys /\ amount + Fee <= balance
       /\ withdrawal' = [nonce |-> minedTxs, amount |-> amount]

\* What a use does with its key; start passes it to launch_user_server.
Gets(c, key) ==
  /\ \/ /\ walletUse[c].for \in {"show", "gate"} /\ Shows(key)
        /\ UNCHANGED withdrawal
     \/ /\ walletUse[c].for = "launch" /\ vmKey' = key
        /\ UNCHANGED <<shownKeys, withdrawal>>
     \/ /\ walletUse[c].for = "withdraw" /\ Withdraw(key)
        /\ UNCHANGED <<shownKeys, vmKey>>
  /\ walletUse' = [walletUse EXCEPT ![c] = NoUse]
  /\ UNCHANGED <<balance, minedTxs>>

MutEnsureEachTime(c) ==
  /\ walletUse[c] # NoUse /\ walletUse[c].at = "ensure"
  /\ keysMade < MaxKeys
  /\ keysMade' = keysMade + 1
  /\ walletKey' = keysMade'
  /\ walletUse' = [walletUse EXCEPT ![c].at = "refresh"]
  /\ UNCHANGED <<shownKeys, vmKey, chainState, usesOverlap>>
\* ensure_wallet: of the row that was read; a commit overwrites what another use
\* has written since.
EnsureWallet(c) ==
  /\ walletUse[c] # NoUse /\ walletUse[c].at = "ensure"
  /\ IF walletUse[c].seen # NoKey
     THEN Gets(c, walletUse[c].seen) /\ UNCHANGED <<walletKey, keysMade>>
     ELSE /\ keysMade < MaxKeys
          /\ keysMade' = keysMade + 1
          /\ walletKey' = keysMade'
          /\ walletUse' = [walletUse EXCEPT ![c].at = "refresh"]
          /\ UNCHANGED <<shownKeys, vmKey, chainState>>
  /\ UNCHANGED usesOverlap

\* db.refresh reads the row again.
RefreshUser(c) ==
  /\ walletUse[c] # NoUse /\ walletUse[c].at = "refresh"
  /\ Gets(c, walletKey)
  /\ UNCHANGED <<walletKey, keysMade, usesOverlap>>

WalletCallFails(c) ==
  /\ walletUse[c] # NoUse
  /\ walletUse' = [walletUse EXCEPT ![c] = NoUse]
  /\ UNCHANGED <<walletKey, keysMade, shownKeys, vmKey, chainState, usesOverlap>>

VMStops ==
  /\ vmKey # NoKey
  /\ vmKey' = NoKey
  /\ UNCHANGED <<walletKey, keysMade, walletUse, shownKeys, chainState, usesOverlap>>

Deposit ==
  /\ shownKeys # {} /\ balance < MaxBalance
  /\ balance' = balance + 1
  /\ UNCHANGED <<walletKey, keysMade, walletUse, shownKeys, vmKey, minedTxs, withdrawal, usesOverlap>>

\* The chain: a pending transfer is mined, if its nonce is still the next.
MineWithdrawal ==
  /\ withdrawal # NoTransfer /\ withdrawal.nonce = minedTxs /\ minedTxs < MaxChainTxs
  /\ withdrawal.amount + Fee <= balance
  /\ balance' = balance - withdrawal.amount - Fee
  /\ minedTxs' = minedTxs + 1
  /\ withdrawal' = NoTransfer
  /\ UNCHANGED <<walletKey, keysMade, walletUse, shownKeys, vmKey, usesOverlap>>

\* A log transaction of an agent of the VM, from the same wallet, is mined instead.
AgentTxMined ==
  /\ vmKey # NoKey /\ vmKey = walletKey
  /\ balance >= Fee /\ minedTxs < MaxChainTxs
  /\ balance' = balance - Fee
  /\ minedTxs' = minedTxs + 1
  /\ UNCHANGED <<walletKey, keysMade, walletUse, shownKeys, vmKey, withdrawal, usesOverlap>>

WalletNext ==
  \/ \E c \in WalletCalls :
       \/ \E purpose \in Purposes : UseLoadsUser(c, purpose)
       \/ EnsureWallet(c) \/ RefreshUser(c) \/ WalletCallFails(c)
  \/ VMStops \/ Deposit \/ MineWithdrawal \/ AgentTxMined

WalletSpec == WalletInit /\ [][WalletNext]_walletVars

-----------------------------------------------------------------------------
(* Properties                                                              *)

\* The address a user was shown, and may have paid to, is the wallet for good, and
\* the VM signs with its key, whatever fails: unless two first uses overlapped.
WalletKept ==
  ~usesOverlap => /\ shownKeys \subseteq {walletKey}
                  /\ vmKey \in {NoKey, walletKey}

\* A transfer the node accepted can still be paid, fee included, as long as no
\* transaction of an agent has taken its nonce.
WithdrawalCovered ==
  withdrawal # NoTransfer /\ withdrawal.nonce = minedTxs => withdrawal.amount + Fee <= balance

\* The wallet a user pays into (wallet/service.py:33) and what can be taken out of it
\* (wallet/service.py:110) beside the agents that sign with its key.
WalletSafe == WalletKept /\ WithdrawalCovered
=============================================================================
