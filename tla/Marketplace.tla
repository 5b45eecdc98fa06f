---------------------------- MODULE Marketplace ----------------------------
(***************************************************************************)
(* The strategy library and the marketplace of the hub                     *)
(* (hub/strategies/router.py, hub/marketplace/router.py).  A call is one   *)
(* request: it reads rows, awaits, and commits what it computed from them, *)
(* each statement in its own READ COMMITTED snapshot.  Publishing          *)
(* backtests the code, writes to the chain and mints a token before its    *)
(* row is committed.                                                       *)
(*                                                                         *)
(* A hash is the code it is the hash of.  Builtin rows, which nothing in   *)
(* the hub creates, params_schema, metrics and times are left out.         *)
(***************************************************************************)
EXTENDS Naturals, FiniteSets

CONSTANTS
  Users, Codes, Names,
  ChainUsers,   \* the users whose wallet_chain starts with "0g"
  Calls,        \* request slots of the hub
  MaxRows,      \* bound on the library rows ever made
  MaxListings,  \* bound on the marketplace rows ever made
  MaxTokens,    \* bound on the tokens ever minted
  MaxCalls      \* bound on the calls started

ASSUME MarketAssumption ==
  /\ ChainUsers \subseteq Users
  /\ {MaxRows, MaxListings, MaxTokens, MaxCalls} \subseteq Nat

VARIABLES
  library,   \* user_strategies, by row number
  made,      \* rows ever made: an id, a fresh UUID, is not used again
  listings,  \* marketplace_strategies, by row number
  reports,   \* marketplace_reports: <<listing, user>>
  call,      \* the requests under way
  registry,  \* StrategyRegistry: the hashes published on chain
  tokens,    \* tokens of StrategyINFT minted so far
  grants,    \* usage rights: <<token, user>>
  started,   \* calls started so far
  counted,   \* history: listings of which no two count changes overlapped
  flagged,   \* history: listings of which no two reports overlapped
  published, \* history: <<user, code>> of which no two publishes overlapped
  unlisted   \* history: codes a publish of which failed after the chain

marketVars == <<library, made, listings, reports, call, registry, tokens, grants,
                started, counted, flagged, published, unlisted>>

RowIds == 1..MaxRows
Listings == 1..MaxListings
None == 0
AutohideThreshold == 3

NoRow == [source |-> "none"]
Row == [source : {"authored", "marketplace"}, user : Users, name : Names, hash : Codes,
        mp : {None} \cup Listings]
NoListing == [author |-> "none"]
Listing == [author : Users, name : Names, hash : Codes, blob : Codes,
            installs : Nat, reported : Nat, token : 0..MaxTokens]
Idle == [op |-> "idle"]
Call ==
  [op : {"delete"}, at : {"row", "commit"}, user : Users, id : RowIds, row : Row, n : Nat]
  \cup [op : {"install"}, at : {"check", "commit", "grant"}, user : Users, mp : Listings, seen : Listing]
  \cup [op : {"report"}, at : {"count", "commit"}, user : Users, mp : Listings, seen : Nat, n : Nat]
  \cup [op : {"publish"}, at : {"backtest", "select", "commit"}, user : Users, row : Row,
        mp : {None} \cup Listings]

MarketTypeOK ==
  /\ library \in [RowIds -> Row \cup {NoRow}]
  /\ made \in 0..MaxRows
  /\ listings \in [Listings -> Listing \cup {NoListing}]
  /\ reports \subseteq Listings \X Users
  /\ call \in [Calls -> Call \cup {Idle}]
  /\ registry \subseteq Codes
  /\ tokens \in 0..MaxTokens
  /\ grants \subseteq (0..MaxTokens) \X Users
  /\ started \in 0..MaxCalls
  /\ counted \subseteq Listings /\ flagged \subseteq Listings
  /\ published \subseteq Users \X Codes
  /\ unlisted \subseteq Codes

MarketInit ==
  /\ library = [i \in RowIds |-> NoRow] /\ made = 0
  /\ listings = [l \in Listings |-> NoListing]
  /\ reports = {}
  /\ call = [c \in Calls |-> Idle]
  /\ registry = {} /\ tokens = 0 /\ grants = {}
  /\ started = 0
  /\ counted = Listings /\ flagged = Listings /\ published = Users \X Codes
  /\ unlisted = {}

-----------------------------------------------------------------------------
Listed(l) == listings[l] # NoListing
Owned(i, u) == library[i] # NoRow /\ library[i].user = u
Copies(l) == {i \in RowIds : library[i] # NoRow /\ library[i].mp = l}
Insert(row) ==
  /\ made < MaxRows
  /\ made' = made + 1
  /\ library' = [library EXCEPT ![made'] = row]

\* uq_user_strategies_name; a patch may keep its own name.
NameTaken(u, n, i) == \E j \in RowIds \ {i} : Owned(j, u) /\ library[j].name = n

\* list_marketplace, get_marketplace_strategy: nothing sets delisted.
Hidden(l) == listings[l].reported >= AutohideThreshold

Begin(c) == call[c] = Idle /\ started < MaxCalls /\ started' = started + 1
At(c, op, at) == call[c] # Idle /\ call[c].op = op /\ call[c].at = at
Goto(c, at) == call' = [call EXCEPT ![c].at = at]
Finish(c) == call' = [call EXCEPT ![c] = Idle]

\* The listing whose installs_count a call is about to change.
Counts(c) ==
  IF call[c] = Idle THEN None
  ELSE CASE call[c].op = "delete" -> call[c].row.mp
         [] call[c].op = "install" /\ call[c].at # "grant" -> call[c].mp
         [] OTHER -> None
Overlapped(c, l) == \E d \in Calls \ {c} : Counts(d) = l

chainVars == <<registry, tokens, grants>>
histories == <<counted, flagged, published, unlisted>>

-----------------------------------------------------------------------------
(* create_authored, patch_strategy: one commit each                        *)

Create(u, n, k) ==
  /\ started < MaxCalls /\ started' = started + 1
  /\ ~NameTaken(u, n, None)
  /\ Insert([source |-> "authored", user |-> u, name |-> n, hash |-> k, mp |-> None])
  /\ UNCHANGED <<listings, reports, call, chainVars, histories>>

Patch(u, i, n, k) ==
  /\ started < MaxCalls /\ started' = started + 1
  /\ Owned(i, u) /\ library[i].source = "authored"
  /\ ~NameTaken(u, n, i)
  /\ library' = [library EXCEPT ![i].name = n, ![i].hash = k]
  /\ UNCHANGED <<made, listings, reports, call, chainVars, histories>>

-----------------------------------------------------------------------------
(* delete_strategy                                                         *)

DeleteLoadsRow(c, u, i) ==
  /\ Begin(c) /\ Owned(i, u)
  /\ call' = [call EXCEPT ![c] = [op |-> "delete", at |-> "row", user |-> u, id |-> i,
                                  row |-> library[i], n |-> 0]]
  /\ counted' = IF Overlapped(c, library[i].mp) THEN counted \ {library[i].mp} ELSE counted
  /\ UNCHANGED <<library, made, listings, reports, chainVars, flagged, published, unlisted>>

DeleteLoadsListing(c) ==
  /\ At(c, "delete", "row")
  /\ call' = [call EXCEPT ![c].at = "commit",
                          ![c].n = IF call[c].row.mp = None THEN 0
                                   ELSE listings[call[c].row.mp].installs]
  /\ UNCHANGED <<library, made, listings, reports, chainVars, started, histories>>

MutDeleteBelowZero(c) ==
  LET l == call[c].row.mp IN
  /\ At(c, "delete", "commit")
  /\ library' = [library EXCEPT ![call[c].id] = NoRow]
  /\ listings' = IF l # None THEN [listings EXCEPT ![l].installs = call[c].n - 1] ELSE listings
  /\ Finish(c)
  /\ UNCHANGED <<made, reports, chainVars, started, histories>>
\* The count is written as the number read less one.  A row that another delete
\* has removed since makes no difference to the commit.
DeleteCommits(c) ==
  LET l == call[c].row.mp IN
  /\ At(c, "delete", "commit")
  /\ library' = [library EXCEPT ![call[c].id] = NoRow]
  /\ listings' = IF l # None /\ call[c].n > 0
                 THEN [listings EXCEPT ![l].installs = call[c].n - 1] ELSE listings
  /\ Finish(c)
  /\ UNCHANGED <<made, reports, chainVars, started, histories>>

-----------------------------------------------------------------------------
(* install_marketplace                                                     *)

InstallLoadsListing(c, u, l) ==
  /\ Begin(c) /\ Listed(l)
  /\ call' = [call EXCEPT ![c] = [op |-> "install", at |-> "check", user |-> u, mp |-> l,
                                  seen |-> listings[l]]]
  /\ counted' = IF Overlapped(c, l) THEN counted \ {l} ELSE counted
  /\ UNCHANGED <<library, made, listings, reports, chainVars, flagged, published, unlisted>>

\* A copy is found and returned; of two copies none can be told to be the one,
\* and the call fails.
InstallChecks(c) ==
  /\ At(c, "install", "check")
  /\ IF \E i \in Copies(call[c].mp) : library[i].user = call[c].user
     THEN Finish(c) ELSE Goto(c, "commit")
  /\ UNCHANGED <<library, made, listings, reports, chainVars, started, histories>>

\* The name is already used: rolled back, 409.  Else row and count, the number
\* read plus one, are committed.
InstallCommits(c) ==
  /\ At(c, "install", "commit")
  /\ IF NameTaken(call[c].user, call[c].seen.name, None)
     THEN Finish(c) /\ UNCHANGED <<library, made, listings>>
     ELSE
       /\ Insert([source |-> "marketplace", user |-> call[c].user, name |-> call[c].seen.name,
                  hash |-> call[c].seen.hash, mp |-> call[c].mp])
       /\ listings' = [listings EXCEPT ![call[c].mp].installs = call[c].seen.installs + 1]
       /\ Goto(c, "grant")
  /\ UNCHANGED <<reports, chainVars, started, histories>>

\* authorize_usage; a failure is only logged.
AuthorizeUsage(token, u) == grants' \in {grants, grants \cup {<<token, u>>}}

\* The right to the token of the listing that was read, if it has one.  db.refresh
\* re-reads the copy, not the listing.
InstallGrants(c) ==
  /\ At(c, "install", "grant")
  /\ IF call[c].seen.token # None /\ call[c].user \in ChainUsers
     THEN AuthorizeUsage(call[c].seen.token, call[c].user) ELSE UNCHANGED grants
  /\ Finish(c)
  /\ UNCHANGED <<library, made, listings, reports, registry, tokens, started, histories>>

-----------------------------------------------------------------------------
(* publish_strategy                                                        *)

Publishes(c, u, k) == call[c] # Idle /\ call[c].op = "publish" /\ call[c].user = u /\ call[c].row.hash = k

PublishLoads(c, u, i) ==
  /\ Begin(c) /\ Owned(i, u) /\ library[i].source = "authored"
  /\ call' = [call EXCEPT ![c] = [op |-> "publish", at |-> "backtest", user |-> u,
                                  row |-> library[i], mp |-> None]]
  /\ published' = IF \E d \in Calls : Publishes(d, u, library[i].hash)
                  THEN published \ {<<u, library[i].hash>>} ELSE published
  /\ UNCHANGED <<library, made, listings, reports, chainVars, counted, flagged, unlisted>>

\* validate_and_backtest refuses the code, or the user-server is not reached.
PublishRefused(c) ==
  /\ At(c, "publish", "backtest")
  /\ Finish(c)
  /\ UNCHANGED <<library, made, listings, reports, chainVars, started, histories>>

\* publish_strategy of the chain client: the node refuses it, or it is sent and reverts
\* for a hash that is registered, or is mined.
Register(k) == registry' \in {registry, registry \cup {k}}
PublishOnChain(c) ==
  /\ At(c, "publish", "backtest")
  /\ Register(call[c].row.hash)
  /\ Goto(c, "select")
  /\ UNCHANGED <<library, made, listings, reports, tokens, grants, started, histories>>

MutSelectByName(c) ==
  LET found == {l \in Listings : Listed(l) /\ listings[l].author = call[c].user
                                           /\ listings[l].name = call[c].row.name} IN
  /\ At(c, "publish", "select")
  /\ IF Cardinality(found) > 1
     THEN Finish(c) /\ unlisted' = unlisted \cup {call[c].row.hash}
     ELSE /\ call' = [call EXCEPT ![c].at = "commit",
                                  ![c].mp = IF found = {} THEN None ELSE CHOOSE l \in found : TRUE]
          /\ UNCHANGED unlisted
  /\ UNCHANGED <<library, made, listings, reports, chainVars, started, counted, flagged, published>>
\* The author's listing of this hash is looked up; two of them are an error.
PublishSelects(c) ==
  LET found == {l \in Listings : Listed(l) /\ listings[l].author = call[c].user
                                           /\ listings[l].hash = call[c].row.hash} IN
  /\ At(c, "publish", "select")
  /\ IF Cardinality(found) > 1
     THEN Finish(c) /\ unlisted' = unlisted \cup {call[c].row.hash}
     ELSE /\ call' = [call EXCEPT ![c].at = "commit",
                                  ![c].mp = IF found = {} THEN None ELSE CHOOSE l \in found : TRUE]
          /\ UNCHANGED unlisted
  /\ UNCHANGED <<library, made, listings, reports, chainVars, started, counted, flagged, published>>

\* A token is minted, each time anew, for an author with a 0G wallet; it may fail.
Mint(u) == tokens' \in {tokens} \cup {n \in {tokens + 1} : u \in ChainUsers /\ n <= MaxTokens}

\* Then the row is inserted, or the one found is updated.
PublishCommits(c) ==
  LET row == call[c].row
      found == call[c].mp
      target == IF found # None THEN {found}
                ELSE {l \in Listings : ~Listed(l) /\ \A m \in 1..(l - 1) : Listed(m)} IN
  /\ At(c, "publish", "commit")
  /\ Mint(call[c].user)
  /\ \E l \in target :
       /\ listings' = [listings EXCEPT ![l] =
            IF found # None
            THEN [listings[l] EXCEPT !.name = row.name, !.blob = row.hash,
                    !.token = IF tokens' = tokens THEN listings[l].token ELSE tokens']
            ELSE [author |-> call[c].user, name |-> row.name, hash |-> row.hash,
                  blob |-> row.hash, installs |-> 0, reported |-> 0,
                  token |-> IF tokens' = tokens THEN None ELSE tokens']]
  /\ Finish(c)
  /\ UNCHANGED <<library, made, reports, registry, grants, started, counted, flagged, published, unlisted>>

-----------------------------------------------------------------------------
(* report_marketplace_strategy                                             *)

Reporting(c, l) == call[c] # Idle /\ call[c].op = "report" /\ call[c].mp = l

\* The report is flushed, unseen by others until the commit.  A second one by the
\* same user waits for the first's transaction and is refused (409).
ReportLoads(c, u, l) ==
  /\ Begin(c) /\ Listed(l)
  /\ <<l, u>> \notin reports
  /\ ~\E d \in Calls : Reporting(d, l) /\ call[d].user = u
  /\ call' = [call EXCEPT ![c] = [op |-> "report", at |-> "count", user |-> u, mp |-> l,
                                  seen |-> listings[l].reported, n |-> 0]]
  /\ flagged' = IF \E d \in Calls : Reporting(d, l) THEN flagged \ {l} ELSE flagged
  /\ UNCHANGED <<library, made, listings, reports, chainVars, counted, published, unlisted>>

MutCountsBeforeFlush(c) ==
  /\ At(c, "report", "count")
  /\ call' = [call EXCEPT ![c].at = "commit", ![c].n = Cardinality({r \in reports : r[1] = call[c].mp})]
  /\ UNCHANGED <<library, made, listings, reports, chainVars, started, histories>>
\* The committed reports and one's own.
ReportCounts(c) ==
  /\ At(c, "report", "count")
  /\ call' = [call EXCEPT ![c].at = "commit",
                          ![c].n = Cardinality({r \in reports : r[1] = call[c].mp}) + 1]
  /\ UNCHANGED <<library, made, listings, reports, chainVars, started, histories>>

\* The row is only written if the count differs from the number that was loaded.
ReportCommits(c) ==
  /\ At(c, "report", "commit")
  /\ reports' = reports \cup {<<call[c].mp, call[c].user>>}
  /\ listings' = IF call[c].n = call[c].seen THEN listings
                 ELSE [listings EXCEPT ![call[c].mp].reported = call[c].n]
  /\ Finish(c)
  /\ UNCHANGED <<library, made, chainVars, started, histories>>

\* The hub restarts or the database fails: a call ends before its commit.
Abort(c) ==
  /\ call[c] # Idle
  /\ unlisted' = IF At(c, "publish", "select") \/ At(c, "publish", "commit")
                 THEN unlisted \cup {call[c].row.hash} ELSE unlisted
  /\ Finish(c)
  /\ UNCHANGED <<library, made, listings, reports, chainVars, started, counted, flagged, published>>

-----------------------------------------------------------------------------
MarketNext ==
  \/ \E u \in Users, n \in Names, k \in Codes :
       Create(u, n, k) \/ \E i \in RowIds : Patch(u, i, n, k)
  \/ \E c \in Calls, u \in Users :
       \/ \E i \in RowIds : DeleteLoadsRow(c, u, i) \/ PublishLoads(c, u, i)
       \/ \E l \in Listings : InstallLoadsListing(c, u, l) \/ ReportLoads(c, u, l)
  \/ \E c \in Calls :
       \/ DeleteLoadsListing(c) \/ DeleteCommits(c)
       \/ InstallChecks(c) \/ InstallCommits(c) \/ InstallGrants(c)
       \/ PublishRefused(c) \/ PublishOnChain(c) \/ PublishSelects(c) \/ PublishCommits(c)
       \/ ReportCounts(c) \/ ReportCommits(c)
       \/ Abort(c)

MarketSpec == MarketInit /\ [][MarketNext]_marketVars

-----------------------------------------------------------------------------
(* Properties                                                              *)

\* installs_count is the number of copies of a listing, unless two calls that
\* change it overlapped: deleting, reinstalling, a refused install and aborted
\* calls do not move it.
InstallsCounted ==
  \A l \in counted : Listed(l) => listings[l].installs = Cardinality(Copies(l))

\* The code installers get is the code that was backtested and attested, even when
\* the author patches the row while it is being published, or publishes again.
ListedCodeAttested ==
  /\ \A l \in Listings : Listed(l) => listings[l].blob = listings[l].hash
  /\ \A l \in Listings : \A i \in Copies(l) : Listed(l) /\ library[i].hash = listings[l].hash

\* One listing of a code by an author, unless two publishes of it overlapped.
OneListingPerCode ==
  \A l, m \in Listings :
    /\ Listed(l) /\ Listed(m) /\ listings[l].author = listings[m].author
    /\ listings[l].hash = listings[m].hash
    /\ <<listings[l].author, listings[l].hash>> \in published
    => l = m

\* A hash on the chain has a listing, or its publish is still under way, or one
\* failed after the chain was written.
RegisteredIsListed ==
  \A k \in registry \ unlisted :
    \/ \E l \in Listings : Listed(l) /\ listings[l].hash = k
    \/ \E c \in Calls, u \in Users : Publishes(c, u, k)

\* reports_count is at most the number of reports, and is that number unless two
\* reports overlapped; a user is counted once.
ReportsCounted ==
  \A l \in Listings : Listed(l) =>
    LET n == Cardinality({r \in reports : r[1] = l}) IN
    /\ listings[l].reported <= n
    /\ l \in flagged => listings[l].reported = n

\* The two counters a listing shows and is hidden by, written as a number read
\* earlier plus or less one (strategies/router.py:225 and :268) or as a count taken
\* before the commit (marketplace/router.py:131).
CountersKept == InstallsCounted /\ ReportsCounted

\* What is listed against what was backtested and put on the chain, three writes that
\* are not one (strategies/router.py:323): the code, one listing of it, and none
\* on the chain alone.
ListingsAttested == ListedCodeAttested /\ OneListingPerCode /\ RegisteredIsListed
=============================================================================
