------------------------------- MODULE SignIn -------------------------------
(***************************************************************************)
(* Sign-in of a wallet and the signed requests of a session (hub/auth).    *)
(* /auth/verify checks a nonce, makes the user if the wallet is new,       *)
(* provisions its VM row (a commit of its own) and commits the session.    *)
(* A signed request loads its session, and commits its number before the   *)
(* handler runs.  Signatures are taken to be good; bearer tokens and API   *)
(* keys, which only name a user, are left out.                             *)
(***************************************************************************)
EXTENDS Naturals

CONSTANTS
  Wallets, Nonces,
  AuthCalls,     \* request slots of the hub
  NoAuthCall,
  MaxSessions,   \* bound on the sessions made
  MaxRequests    \* bound on the numbers that signed requests carry

ASSUME SignInAssumption == MaxSessions \in Nat /\ MaxRequests \in Nat

VARIABLES
  nonceState,  \* auth_nonce: state and address of each nonce
  userRows,    \* users: the number of rows of each wallet
  vmRows,      \* user_vms: the wallets whose user has a row
  sessions,    \* auth_session_keys, in the order they are made
  authCall,    \* the requests under way
  interrupted, \* history: nonces whose verify was cut off after a commit
  accepted,    \* history: the numbers that have been accepted in a session
  replayed,    \* history: sessions that accepted a number again, or after a higher one
  overtaken    \* history: sessions that accepted a number which another request had
               \* reached or passed since this one was loaded

numberHistory == <<accepted, replayed, overtaken>>
signInVars == <<nonceState, userRows, vmRows, sessions, authCall, interrupted, numberHistory>>

SessionIds == 1..MaxSessions
NoSession == [by |-> "none"]
Session == [by : Nonces, wallet : Wallets, last : 0..MaxRequests, revoked : BOOLEAN]
AuthCall ==
  [op : {"verify"}, at : {"user", "insert", "provision", "session"}, nonce : Nonces, new : BOOLEAN]
  \cup [op : {"request", "revoke"}, at : {"number", "revoke"}, session : SessionIds,
        no : 1..MaxRequests, last : 0..MaxRequests]

ASSUME IdleSlotAssumption == NoAuthCall \notin AuthCall

SignInTypeOK ==
  /\ nonceState \in [Nonces -> [st : {"absent", "issued", "expired", "used"}, wallet : Wallets]]
  /\ userRows \in [Wallets -> 0..2]
  /\ vmRows \subseteq Wallets
  /\ sessions \in [SessionIds -> Session \cup {NoSession}]
  /\ authCall \in [AuthCalls -> AuthCall \cup {NoAuthCall}]
  /\ interrupted \subseteq Nonces
  /\ accepted \in [SessionIds -> SUBSET (1..MaxRequests)]
  /\ replayed \subseteq SessionIds /\ overtaken \subseteq SessionIds

SignInInit ==
  /\ nonceState \in [Nonces -> [st : {"absent"}, wallet : Wallets]]
  /\ userRows = [w \in Wallets |-> 0]
  /\ vmRows = {}
  /\ sessions = [s \in SessionIds |-> NoSession]
  /\ authCall = [c \in AuthCalls |-> NoAuthCall]
  /\ interrupted = {}
  /\ accepted = [s \in SessionIds |-> {}] /\ replayed = {} /\ overtaken = {}

-----------------------------------------------------------------------------
Verifying(c, at) == authCall[c] # NoAuthCall /\ authCall[c].op = "verify" /\ authCall[c].at = at
AuthGoto(c, at) == authCall' = [authCall EXCEPT ![c].at = at]
AuthEnds(c) == authCall' = [authCall EXCEPT ![c] = NoAuthCall]
WalletOf(c) == nonceState[authCall[c].nonce].wallet
Use(n) == nonceState' = [nonceState EXCEPT ![n].st = "used"]

\* A transaction that has inserted a user row and not yet committed it.
HoldsUser(c) == /\ Verifying(c, "provision") /\ authCall[c].new

IssueNonce(n) ==
  /\ nonceState[n].st = "absent"
  /\ nonceState' = [nonceState EXCEPT ![n].st = "issued"]
  /\ UNCHANGED <<userRows, vmRows, sessions, authCall, interrupted, numberHistory>>

NonceExpires(n) ==
  /\ nonceState[n].st = "issued"
  /\ nonceState' = [nonceState EXCEPT ![n].st = "expired"]
  /\ UNCHANGED <<userRows, vmRows, sessions, authCall, interrupted, numberHistory>>

\* The nonce is read, unused; used_at is set in memory and written with the next
\* flush.
VerifyChecksNonce(c, n) ==
  /\ authCall[c] = NoAuthCall
  /\ nonceState[n].st = "issued"
  /\ authCall' = [authCall EXCEPT ![c] = [op |-> "verify", at |-> "user", nonce |-> n, new |-> FALSE]]
  /\ UNCHANGED <<nonceState, userRows, vmRows, sessions, interrupted, numberHistory>>

VerifyLooksUpUser(c) ==
  /\ Verifying(c, "user")
  /\ AuthGoto(c, IF userRows[WalletOf(c)] = 0 THEN "insert" ELSE "provision")
  /\ UNCHANGED <<nonceState, userRows, vmRows, sessions, interrupted, numberHistory>>

\* The insert waits for another transaction's row of the same wallet (uq_users_wallet);
\* once that is committed the call fails and its nonce is as before.
VerifyInsertsUser(c) ==
  /\ Verifying(c, "insert")
  /\ ~\E d \in AuthCalls : HoldsUser(d) /\ WalletOf(d) = WalletOf(c)
  /\ IF userRows[WalletOf(c)] > 0 THEN AuthEnds(c)
     ELSE authCall' = [authCall EXCEPT ![c].at = "provision", ![c].new = TRUE]
  /\ UNCHANGED <<nonceState, userRows, vmRows, sessions, interrupted, numberHistory>>

\* provision_for_user returns the row it finds, or inserts one and commits, and with
\* it the user and the nonce.
VerifyProvisions(c) ==
  LET w == WalletOf(c) IN
  /\ Verifying(c, "provision")
  /\ AuthGoto(c, "session")
  /\ IF w \in vmRows /\ ~authCall[c].new
     THEN UNCHANGED <<nonceState, userRows, vmRows>>
     ELSE /\ vmRows' = vmRows \cup {w}
          /\ userRows' = IF authCall[c].new THEN [userRows EXCEPT ![w] = @ + 1] ELSE userRows
          /\ Use(authCall[c].nonce)
  /\ UNCHANGED <<sessions, interrupted, numberHistory>>

VerifyMakesSession(c) ==
  LET new == {s \in SessionIds : sessions[s] = NoSession /\ \A r \in 1..(s - 1) : sessions[r] # NoSession} IN
  /\ Verifying(c, "session")
  /\ \E s \in new : sessions' = [sessions EXCEPT ![s] = [by |-> authCall[c].nonce, wallet |-> WalletOf(c),
                                                         last |-> 0, revoked |-> FALSE]]
  /\ Use(authCall[c].nonce)
  /\ AuthEnds(c)
  /\ UNCHANGED <<userRows, vmRows, interrupted, numberHistory>>

-----------------------------------------------------------------------------
(* require_session_key, revoke_current_session                             *)

Requesting(c) == authCall[c] # NoAuthCall /\ authCall[c].op \in {"request", "revoke"}

\* load_active_session finds it, neither revoked nor expired.  The request may be the
\* client's next, or one that was delayed, overtook others or comes again.
RequestLoads(c, s, op, no) ==
  /\ authCall[c] = NoAuthCall
  /\ sessions[s] # NoSession /\ ~sessions[s].revoked
  /\ authCall' = [authCall EXCEPT ![c] = [op |-> op, at |-> "number", session |-> s, no |-> no,
                                          last |-> sessions[s].last]]
  /\ UNCHANGED <<nonceState, userRows, vmRows, sessions, interrupted, numberHistory>>

\* The number is stored, whatever is stored there by now.
StoresNumber(c) ==
  LET s == authCall[c].session  no == authCall[c].no IN
  /\ sessions' = [sessions EXCEPT ![s].last = no]
  /\ accepted' = [accepted EXCEPT ![s] = @ \cup {no}]
  /\ replayed' = IF \E a \in accepted[s] : no <= a THEN replayed \cup {s} ELSE replayed
  /\ overtaken' = IF authCall[c].last # sessions[s].last /\ no <= sessions[s].last
                  THEN overtaken \cup {s} ELSE overtaken

MutEqualAccepted(c) ==
  /\ Requesting(c) /\ authCall[c].at = "number"
  /\ IF authCall[c].no < authCall[c].last
     THEN AuthEnds(c) /\ UNCHANGED <<sessions, numberHistory>>
     ELSE /\ StoresNumber(c)
          /\ IF authCall[c].op = "revoke" THEN AuthGoto(c, "revoke") ELSE AuthEnds(c)
  /\ UNCHANGED <<nonceState, userRows, vmRows, interrupted>>
\* bump_nonce_atomic: the number is compared with the one that was loaded.
RequestBumpsNumber(c) ==
  /\ Requesting(c) /\ authCall[c].at = "number"
  /\ IF authCall[c].no <= authCall[c].last
     THEN AuthEnds(c) /\ UNCHANGED <<sessions, numberHistory>>
     ELSE /\ StoresNumber(c)
          /\ IF authCall[c].op = "revoke" THEN AuthGoto(c, "revoke") ELSE AuthEnds(c)
  /\ UNCHANGED <<nonceState, userRows, vmRows, interrupted>>

Revoke(c) ==
  /\ Requesting(c) /\ authCall[c].at = "revoke"
  /\ sessions' = [sessions EXCEPT ![authCall[c].session].revoked = TRUE]
  /\ AuthEnds(c)
  /\ UNCHANGED <<nonceState, userRows, vmRows, interrupted, numberHistory>>

\* The hub restarts or the database fails.
AuthAborts(c) ==
  /\ authCall[c] # NoAuthCall
  /\ interrupted' = IF Verifying(c, "session") THEN interrupted \cup {authCall[c].nonce} ELSE interrupted
  /\ AuthEnds(c)
  /\ UNCHANGED <<nonceState, userRows, vmRows, sessions, numberHistory>>

-----------------------------------------------------------------------------
SignInNext ==
  \/ \E n \in Nonces : IssueNonce(n) \/ NonceExpires(n)
  \/ \E c \in AuthCalls :
       \/ \E n \in Nonces : VerifyChecksNonce(c, n)
       \/ VerifyLooksUpUser(c) \/ VerifyInsertsUser(c) \/ VerifyProvisions(c) \/ VerifyMakesSession(c)
       \/ \E s \in SessionIds, op \in {"request", "revoke"}, no \in 1..MaxRequests :
            RequestLoads(c, s, op, no)
       \/ RequestBumpsNumber(c) \/ Revoke(c) \/ AuthAborts(c)

SignInSpec == SignInInit /\ [][SignInNext]_signInVars

-----------------------------------------------------------------------------
(* Properties                                                              *)

\* However first sign-ins of a wallet overlap, fail and are repeated, it has one
\* user row, and a user row never goes without its VM row.
OneUserPerWallet ==
  \A w \in Wallets : userRows[w] <= 1 /\ (userRows[w] = 1 <=> w \in vmRows)

\* A sign-in that fails leaves its nonce to be used again: a used nonce has made a
\* session, or is about to, unless the hub went down after the user was committed.
NonceNotWasted ==
  \A n \in Nonces \ interrupted : nonceState[n].st = "used" =>
    \/ \E s \in SessionIds : sessions[s] # NoSession /\ sessions[s].by = n
    \/ \E c \in AuthCalls : Verifying(c, "session") /\ authCall[c].nonce = n

\* A request whose number is above all that were accepted before is accepted: a
\* client that numbers upwards and waits for each answer is never refused.
FreshAccepted ==
  \A c \in AuthCalls : Requesting(c) /\ authCall[c].at = "number" =>
    LET s == authCall[c].session IN
    (\A a \in accepted[s] : a < authCall[c].no) => authCall[c].no > authCall[c].last

\* A request that comes again, or after a later one, is refused: the first old number
\* that a session accepts is one that another request reached or passed after it was
\* loaded.  (From then on the stored number may have gone back, and nothing is
\* promised.)
ReplayRefused == replayed \subseteq overtaken

\* Sign-in (auth/router.py:119) and signed requests (auth/deps.py:41), each of
\* several commits, however they overlap and wherever they are cut off.
SignInSafe == OneUserPerWallet /\ NonceNotWasted /\ FreshAccepted /\ ReplayRefused
=============================================================================
