---------------------------- MODULE TokenCache ----------------------------
(***************************************************************************)
(* The documents an agent keeps in MongoDB when MONGODB_URI is set         *)
(* (app/db.py): details of tokens, and charts.  The endpoints of           *)
(* app/main.py read through them, one request at a time, for a handler     *)
(* never awaits; the startup thread and the two jobs of the scheduler      *)
(* (market/cache_refresh.py) write them from threads of their own.  Of the *)
(* data the model keeps the range a chart is of.                           *)
(***************************************************************************)
EXTENDS Sequences

CONSTANTS
  Names,            \* symbols as requests spell them
  Tracked,          \* TRACKED_SYMBOLS
  DbName, CmcName,  \* what app/db.py and CoinMarketCap's client make of a name
  Ranges,           \* RANGE_CONFIG
  KeptRanges,       \* HISTORICAL_RANGES
  DefaultRange, OtherRange

ASSUME TokenAssumption ==
  /\ Tracked \subseteq Names
  /\ KeptRanges \subseteq Ranges /\ DefaultRange \in Ranges /\ OtherRange \notin Ranges
  /\ {"", "none"} \cap (Ranges \cup {OtherRange}) = {}  \* no range, no document

VARIABLES
  docs,       \* the collections, by the key of their unique index
  request,    \* the request under way: what is asked for, then what is to be written
  refresh,    \* of each thread: phases to do, charts to fetch, documents to write
  scheduled,  \* the agent found MongoDB when it came up
  replaced    \* history: keys whose document a request wrote over, uncrossed

cacheVars == <<docs, request, refresh, scheduled, replaced>>

Threads == {"startup", "quotes", "historical"}
AskedRanges == Ranges \cup {OtherRange}

DetailKey(s) == <<"token_detail", s>>
ChartKey(s, r) == <<"token_historical", s, r>>
CacheNames == {DbName[n] : n \in Names} \cup {CmcName[n] : n \in Names} \cup Tracked
ChartKeys == {ChartKey(s, r) : s \in CacheNames, r \in AskedRanges}
CacheKeys == {DetailKey(s) : s \in CacheNames} \cup ChartKeys

\* A document is the range its data is of.
NoDoc == "none"
Doc == Ranges \cup {""}
Quote(k) == [key |-> k, doc |-> ""]
Writes == [key : CacheKeys, doc : Doc]

\* "crossed" are keys a thread has written since the request's look, for the history.
NoRequest == [names |-> {}, range |-> "", writes |-> {}, crossed |-> {}]  \* range "": details
NoRefresh == [todo |-> <<>>, charts |-> {}, writes |-> {}]

TokenTypeOK ==
  /\ docs \in [CacheKeys -> Doc \cup {NoDoc}]
  /\ request \in [names : SUBSET Names, range : AskedRanges \cup {""}, writes : SUBSET Writes,
                  crossed : SUBSET CacheKeys]
  /\ refresh \in [Threads -> [todo : Seq({"details", "charts", "prices"}),
                             charts : SUBSET (Tracked \X KeptRanges), writes : SUBSET Writes]]
  /\ scheduled \in BOOLEAN
  /\ replaced \subseteq CacheKeys

\* The collections have their indexes: an agent that found MongoDB has come up before.
TokenInit ==
  /\ docs = [k \in CacheKeys |-> NoDoc]
  /\ request = NoRequest
  /\ refresh = [t \in Threads |-> NoRefresh]
  /\ scheduled = FALSE
  /\ replaced = {}

-----------------------------------------------------------------------------
(* Writing a document                                                      *)

\* A fetch that fails is a chart without data, and a document like any other.
Chart(s, r) == [key |-> ChartKey(s, r), doc |-> IF r \in Ranges THEN r ELSE DefaultRange]

\* An upsert looks for the range that was asked for and sets the range of the data:
\* of a range the code does not know, the document is that of the default range.
Label(w) == IF w.doc = "" THEN w.key ELSE ChartKey(w.key[2], w.doc)

\* The unique index keeps a second document of a key out.
DuplicateKey(w) == Label(w) # w.key /\ docs[Label(w)] # NoDoc

Upsert(w) ==
  /\ ~DuplicateKey(w)
  /\ docs' = [docs EXCEPT ![Label(w)] = w.doc]

-----------------------------------------------------------------------------
(* The endpoints                                                           *)

MutDetailsAsked(asked) ==
  /\ request = NoRequest
  /\ \E n \in asked : docs[DetailKey(DbName[n])] = NoDoc
  /\ request' = [NoRequest EXCEPT !.names = asked]
  /\ UNCHANGED <<docs, refresh, scheduled, replaced>>
\* /token, /token/analysis and /tokens: what is found, if anything, is the whole answer.
DetailsAsked(asked) ==
  /\ request = NoRequest
  /\ \A n \in asked : docs[DetailKey(DbName[n])] = NoDoc
  /\ request' = [NoRequest EXCEPT !.names = asked]
  /\ UNCHANGED <<docs, refresh, scheduled, replaced>>

\* CoinMarketCap knows some of the symbols, or does not answer.
DetailsAnswered(got) ==
  /\ request.names # {} /\ request.range = ""
  /\ got \subseteq {CmcName[n] : n \in request.names}
  /\ request' = IF got = {} THEN NoRequest
                ELSE [request EXCEPT !.names = {}, !.writes = {Quote(DetailKey(s)) : s \in got}]
  /\ UNCHANGED <<docs, refresh, scheduled, replaced>>

\* /token/historical
ChartAsked(n, r) ==
  /\ request = NoRequest
  /\ docs[ChartKey(DbName[n], r)] = NoDoc
  /\ request' = [NoRequest EXCEPT !.names = {n}, !.range = r]
  /\ UNCHANGED <<docs, refresh, scheduled, replaced>>

ChartAnswered ==
  /\ request.range # ""
  /\ request' = [request EXCEPT !.names = {}, !.range = "",
                                !.writes = {Chart(DbName[n], request.range) : n \in request.names}]
  /\ UNCHANGED <<docs, refresh, scheduled, replaced>>

Written(w) ==
  request' = IF request.writes = {w} THEN NoRequest ELSE [request EXCEPT !.writes = @ \ {w}]

RequestWrites(w) ==
  /\ w \in request.writes
  /\ Upsert(w)
  /\ replaced' = IF docs[Label(w)] = NoDoc THEN replaced ELSE replaced \cup ({Label(w)} \ request.crossed)
  /\ Written(w)
  /\ UNCHANGED <<refresh, scheduled>>

\* A write that is refused or fails is logged, and the answer sent all the same.
RequestWriteFails(w) ==
  /\ w \in request.writes
  /\ Written(w)
  /\ UNCHANGED <<docs, refresh, scheduled, replaced>>

-----------------------------------------------------------------------------
(* The threads                                                             *)

Phases == [startup |-> <<"details", "charts", "prices">>,
           quotes |-> <<"details", "prices">>, historical |-> <<"charts">>]

\* The scheduler and the startup thread are started only if MongoDB answers when the
\* agent comes up; requests try again.  What the agent was doing ended with it.
AgentComesUp(found) ==
  /\ scheduled' = found
  /\ request' = NoRequest
  /\ refresh' = [t \in Threads |-> IF t = "startup" /\ found
                                   THEN [NoRefresh EXCEPT !.todo = Phases[t]] ELSE NoRefresh]
  /\ UNCHANGED <<docs, replaced>>

\* The scheduler runs one instance of a job at a time, beside the startup thread.
JobStarts(t) ==
  /\ scheduled /\ t # "startup" /\ refresh[t] = NoRefresh
  /\ refresh' = [refresh EXCEPT ![t].todo = Phases[t]]
  /\ UNCHANGED <<docs, request, scheduled, replaced>>

AtPhase(t, phase) ==
  /\ refresh[t].todo # <<>> /\ Head(refresh[t].todo) = phase
  /\ refresh[t].charts = {} /\ refresh[t].writes = {}

RefreshDetails(t, got) ==
  /\ AtPhase(t, "details")
  /\ got \subseteq {CmcName[n] : n \in Tracked}
  /\ refresh' = [refresh EXCEPT ![t].todo = Tail(@),
                                ![t].writes = {Quote(DetailKey(s)) : s \in got}]
  /\ UNCHANGED <<docs, request, scheduled, replaced>>

RefreshCharts(t) ==
  /\ AtPhase(t, "charts")
  /\ refresh' = [refresh EXCEPT ![t].todo = Tail(@), ![t].charts = Tracked \X KeptRanges]
  /\ UNCHANGED <<docs, request, scheduled, replaced>>

\* The chart is stored under the name as TRACKED_SYMBOLS spells it.
RefreshChart(t, c) ==
  /\ c \in refresh[t].charts /\ refresh[t].writes = {}
  /\ refresh' = [refresh EXCEPT ![t].charts = @ \ {c}, ![t].writes = {Chart(c[1], c[2])}]
  /\ UNCHANGED <<docs, request, scheduled, replaced>>

\* The ids in the answer lack the prefix of PYTH_FEED_IDS: no price is stored.
RefreshPrices(t) ==
  /\ AtPhase(t, "prices")
  /\ refresh' = [refresh EXCEPT ![t].todo = Tail(@)]
  /\ UNCHANGED <<docs, request, scheduled, replaced>>

\* What the request under way is going to write, before its answer and after.
RequestKeys ==
  IF request.writes # {} THEN {Label(w) : w \in request.writes}
  ELSE IF request.range = "" THEN {DetailKey(CmcName[n]) : n \in request.names}
  ELSE {Label(Chart(DbName[n], request.range)) : n \in request.names}

ThreadWrites(t, w) ==
  /\ w \in refresh[t].writes
  /\ Upsert(w)
  /\ refresh' = [refresh EXCEPT ![t].writes = @ \ {w}]
  /\ request' = [request EXCEPT !.crossed = @ \cup ({Label(w)} \cap RequestKeys)]
  /\ UNCHANGED <<scheduled, replaced>>

\* Only the write of a chart is caught: any other ends the run, what is left of it undone.
ThreadWriteFails(t, w) ==
  /\ w \in refresh[t].writes
  /\ refresh' = [refresh EXCEPT ![t] =
                   IF w.key \in ChartKeys
                   THEN [refresh[t] EXCEPT !.writes = refresh[t].writes \ {w}] ELSE NoRefresh]
  /\ UNCHANGED <<docs, request, scheduled, replaced>>

TokenNext ==
  \/ \E found \in BOOLEAN : AgentComesUp(found)
  \/ \E asked \in (SUBSET Names) \ {{}} : DetailsAsked(asked)
  \/ \E got \in SUBSET CacheNames : DetailsAnswered(got)
  \/ \E n \in Names, r \in AskedRanges : ChartAsked(n, r)
  \/ ChartAnswered
  \/ \E w \in request.writes : RequestWrites(w) \/ RequestWriteFails(w)
  \/ \E t \in Threads :
       \/ JobStarts(t) \/ RefreshCharts(t) \/ RefreshPrices(t)
       \/ \E got \in SUBSET CacheNames : RefreshDetails(t, got)
       \/ \E c \in Tracked \X KeptRanges : RefreshChart(t, c)
       \/ \E w \in refresh[t].writes : ThreadWrites(t, w) \/ ThreadWriteFails(t, w)

TokenSpec == TokenInit /\ [][TokenNext]_cacheVars

-----------------------------------------------------------------------------
(* Properties                                                              *)

\* A chart is served under the range its data is of, although a range the code does
\* not know is looked for under its own name and fetched as the default one.
ChartsOfTheirRange == \A k \in ChartKeys : docs[k] # NoDoc => docs[k] = k[3]

\* A request writes only where nothing was, so that what the threads have refreshed
\* stays, unless a thread came between its look and its write; or unless the name it
\* looks for is not the one CoinMarketCap's client makes of the same symbol.
ReadersOnlyFill ==
  replaced \subseteq {DetailKey(CmcName[n]) : n \in {m \in Names : DbName[m] # CmcName[m]}}

\* What the reading through of main.py (app/main.py:679, app/main.py:828) and the threads
\* of cache_refresh.py (app/market/cache_refresh.py:207) may make of each other's documents.
TokenCacheSafe == TokenTypeOK /\ ChartsOfTheirRange /\ ReadersOnlyFill
=============================================================================
