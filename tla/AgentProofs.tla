---------------------------- MODULE AgentProofs ----------------------------
(***************************************************************************)
(* Proofs about what an agent keeps beside its position: TokenCache for    *)
(* any names, tracked tokens, normalisations and ranges, DecisionLog for   *)
(* any providers and calls, SessionData for any symbols and lengths.       *)
(***************************************************************************)
EXTENDS TokenCache, DecisionLog, SessionData, TLAPS

-----------------------------------------------------------------------------
(* The documents of an agent (TokenCache)                                  *)

DetailKeys == {DetailKey(s) : s \in CacheNames}
\* The details that are written under a name they were not looked for under.
Misnamed == {DetailKey(CmcName[n]) : n \in {m \in Names : DbName[m] # CmcName[m]}}

\* A detail for the details, a chart of a known range for the charts.
GoodWrite(w) ==
  \/ w.doc = "" /\ w.key \in DetailKeys
  \/ w.doc \in Ranges /\ w.key \in ChartKeys

\* A document that the request under way may write.
Free(k) == docs[k] = NoDoc \/ k \in request.crossed \/ k \in Misnamed

\* A request has names and a range, or writes; what it looked for is still free.
AskedIsFree ==
  /\ request.writes # {} => request.names = {} /\ request.range = ""
  /\ request.range # "" => \E n \in Names : request.names = {n}
  /\ request.range = "" => \A n \in request.names : Free(DetailKey(CmcName[n]))
  /\ request.range \in Ranges => \A n \in request.names : Free(ChartKey(DbName[n], request.range))

\* What a request is about to write is still free, or else under another range.
AnswerIsFree ==
  /\ (\A w \in request.writes : w.doc = "") \/ \E w \in Writes : request.writes = {w}
  /\ \A w \in request.writes : GoodWrite(w) /\ (Label(w) = w.key => Free(Label(w)))

Requests == [names : SUBSET Names, range : AskedRanges \cup {""}, writes : SUBSET Writes,
             crossed : SUBSET CacheKeys]
Runs == [todo : Seq({"details", "charts", "prices"}), charts : SUBSET (Tracked \X KeptRanges),
         writes : SUBSET Writes]

ThreadsWriteGood == \A t \in Threads : \A w \in refresh[t].writes : GoodWrite(w)

CacheInv ==
  /\ TokenTypeOK /\ ChartsOfTheirRange /\ replaced \subseteq Misnamed
  /\ AskedIsFree /\ AnswerIsFree /\ ThreadsWriteGood

-----------------------------------------------------------------------------
(* Lemmas.                                                                 *)

\* A request that asks for nothing or has only just asked.
LEMMA FreshRequest ==
  ASSUME NEW asked \in SUBSET Names, NEW r \in AskedRanges \cup {""}
  PROVE  [names |-> asked, range |-> r, writes |-> {}, crossed |-> {}] \in Requests
  BY DEF Requests

\* A run that does nothing, or has only just started.
LEMMA FreshRun ==
  /\ NoRefresh \in Runs
  /\ \A t \in Threads : [NoRefresh EXCEPT !.todo = Phases[t]] \in Runs
<1> DEFINE P == {"details", "charts", "prices"}
<1>1. <<>> \in Seq(P) /\ <<"details", "charts", "prices">> \in Seq(P)
      /\ <<"details", "prices">> \in Seq(P) /\ <<"charts">> \in Seq(P)
  OBVIOUS
<1>2. \A t \in Threads : Phases[t] \in Seq(P)
  <2>1. /\ Phases["startup"] = <<"details", "charts", "prices">>
        /\ Phases["quotes"] = <<"details", "prices">> /\ Phases["historical"] = <<"charts">>
    BY DEF Phases
  <2> QED BY <1>1, <2>1 DEF Threads
<1>3. NoRefresh \in Runs
  BY <1>1 DEF NoRefresh, Runs
<1>4. \A x \in Seq(P) : [NoRefresh EXCEPT !.todo = x] \in Runs
  BY <1>3 DEF Runs
<1> QED BY <1>2, <1>3, <1>4

\* The types, part by part.
LEMMA TypesAre ==
  TokenTypeOK <=> /\ docs \in [CacheKeys -> Doc \cup {NoDoc}]
                  /\ request \in Requests
                  /\ refresh \in [Threads -> Runs]
                  /\ scheduled \in BOOLEAN
                  /\ replaced \subseteq CacheKeys
  BY DEF TokenTypeOK, Requests, Runs

\* A step of the request that writes nothing.
LEMMA OnlyRequestMoves ==
  ASSUME CacheInv, request' \in Requests, UNCHANGED <<docs, refresh, scheduled, replaced>>,
         AskedIsFree', AnswerIsFree'
  PROVE  CacheInv'
  BY DEF CacheInv, TokenTypeOK, Requests, ChartsOfTheirRange, ThreadsWriteGood

\* An idle request is about to write nothing.
LEMMA IdleIsFree ==
  ASSUME request' = NoRequest
  PROVE  request' \in Requests /\ AskedIsFree' /\ AnswerIsFree'
<1>1. /\ request'.names = {} /\ request'.range = "" /\ request'.writes = {}
      /\ request' = [names |-> {}, range |-> "", writes |-> {}, crossed |-> {}]
  BY DEF NoRequest
<1>2. {} \in SUBSET Names /\ "" \in AskedRanges \cup {""}
  OBVIOUS
<1>3. request' \in Requests
  BY <1>1, <1>2, FreshRequest
<1>4. AskedIsFree'
  BY <1>1, TokenAssumption DEF AskedIsFree
<1>5. AnswerIsFree'
  BY <1>1 DEF AnswerIsFree
<1> QED BY <1>3, <1>4, <1>5

\* Keys are told apart by what they are made of.
LEMMA KeysApart ==
  /\ \A s, q : DetailKey(s) = DetailKey(q) => s = q
  /\ \A s, r : ChartKey(s, r)[2] = s /\ ChartKey(s, r)[3] = r
  /\ \A k \in DetailKeys : k \notin ChartKeys
<1>1. \A s, q : DetailKey(s) = DetailKey(q) => s = q
  BY DEF DetailKey
<1>2. \A s, r : ChartKey(s, r)[1] = "token_historical" /\ ChartKey(s, r)[2] = s /\ ChartKey(s, r)[3] = r
  BY DEF ChartKey
<1>3. \A s : DetailKey(s)[1] = "token_detail"
  BY DEF DetailKey
<1>4. \A k \in DetailKeys : k[1] = "token_detail"
  BY <1>3 DEF DetailKeys
<1>5. \A k \in ChartKeys : k[1] = "token_historical"
  BY <1>2 DEF ChartKeys
<1> QED BY <1>1, <1>2, <1>4, <1>5

\* No range is the mark of a detail or of an absent document.
LEMMA MarksApart ==
  /\ "" \notin AskedRanges /\ "none" \notin AskedRanges /\ "" # "none"
  /\ Ranges \subseteq AskedRanges /\ OtherRange \in AskedRanges /\ OtherRange \notin Ranges
  BY TokenAssumption DEF AskedRanges

\* A good write goes to a key of its kind, a chart to the range its data is of.
LEMMA LabelOfGood ==
  ASSUME NEW w \in Writes, GoodWrite(w)
  PROVE  /\ Label(w) \in CacheKeys
         /\ w.doc = "" => Label(w) = w.key /\ Label(w) \notin ChartKeys
         /\ w.doc # "" => w.doc \in Ranges /\ Label(w) \in ChartKeys /\ Label(w)[3] = w.doc
<1>1. CASE w.doc = ""
  <2>1. w.key \in DetailKeys
    BY <1>1, MarksApart DEF GoodWrite
  <2> QED BY <2>1, <1>1, KeysApart DEF Label, Writes
<1>2. CASE w.doc # ""
  <2>1. w.doc \in Ranges /\ w.key \in ChartKeys
    BY <1>2 DEF GoodWrite
  <2>2. PICK s \in CacheNames, r \in AskedRanges : w.key = ChartKey(s, r)
    BY <2>1 DEF ChartKeys
  <2>3. Label(w) = ChartKey(s, w.doc)
    BY <1>2, <2>2, KeysApart DEF Label
  <2>4. w.doc \in AskedRanges
    BY <2>1, MarksApart
  <2>5. ChartKey(s, w.doc) \in ChartKeys
    BY <2>4 DEF ChartKeys
  <2>6. ChartKey(s, w.doc)[3] = w.doc
    BY KeysApart
  <2> QED BY <1>2, <2>1, <2>3, <2>5, <2>6 DEF CacheKeys
<1> QED BY <1>1, <1>2

\* A quote is a good write.
LEMMA QuoteGood ==
  ASSUME NEW s \in CacheNames
  PROVE  Quote(DetailKey(s)) \in Writes /\ GoodWrite(Quote(DetailKey(s)))
  BY DEF Quote, Writes, GoodWrite, DetailKeys, CacheKeys, Doc

\* So is a chart, which is stored under its own key if its range is known.
LEMMA ChartGood ==
  ASSUME NEW s \in CacheNames, NEW r \in AskedRanges
  PROVE  /\ Chart(s, r) \in Writes /\ GoodWrite(Chart(s, r))
         /\ Label(Chart(s, r)) = Chart(s, r).key => r \in Ranges
         /\ r \in Ranges => Label(Chart(s, r)) = ChartKey(s, r)
<1>1. Chart(s, r).doc \in Ranges /\ Chart(s, r).doc # "" /\ Chart(s, r).key = ChartKey(s, r)
  BY TokenAssumption, MarksApart DEF Chart
<1>2. ChartKey(s, r) \in ChartKeys /\ ChartKey(s, r) \in CacheKeys
  BY DEF ChartKeys, CacheKeys
<1>3. Chart(s, r) \in Writes
  BY <1>1, <1>2 DEF Chart, Writes, Doc
<1>4. Label(Chart(s, r)) = ChartKey(s, Chart(s, r).doc)
  BY <1>1, KeysApart DEF Label
<1>5. r \in Ranges => Chart(s, r).doc = r
  BY DEF Chart
<1>6. ASSUME Label(Chart(s, r)) = Chart(s, r).key PROVE Chart(s, r).doc = r
  <2>1. ChartKey(s, Chart(s, r).doc) = ChartKey(s, r)
    BY <1>1, <1>4, <1>6
  <2>2. ChartKey(s, Chart(s, r).doc)[3] = Chart(s, r).doc /\ ChartKey(s, r)[3] = r
    BY KeysApart
  <2> QED BY <2>1, <2>2
<1> QED BY <1>1, <1>2, <1>3, <1>4, <1>5, <1>6 DEF GoodWrite

\* A good write leaves the types and the ranges of the charts in order.
LEMMA UpsertKeeps ==
  ASSUME TokenTypeOK, ChartsOfTheirRange, NEW w \in Writes, GoodWrite(w), Upsert(w)
  PROVE  /\ docs' \in [CacheKeys -> Doc \cup {NoDoc}]
         /\ ChartsOfTheirRange'
         /\ \A k \in CacheKeys : k # Label(w) => docs'[k] = docs[k]
<1>1. docs' = [docs EXCEPT ![Label(w)] = w.doc] /\ docs \in [CacheKeys -> Doc \cup {NoDoc}]
  BY DEF Upsert, TokenTypeOK
<1>2. w.doc \in Doc
  BY DEF Writes
<1>3. \A k \in CacheKeys : docs'[k] = IF k = Label(w) THEN w.doc ELSE docs[k]
  BY <1>1
<1>4. ChartKeys \subseteq CacheKeys
  BY DEF CacheKeys
<1>5. \A k \in ChartKeys : docs'[k] # NoDoc => docs'[k] = k[3]
  BY <1>3, <1>4, LabelOfGood DEF ChartsOfTheirRange
<1> QED BY <1>1, <1>2, <1>3, <1>5 DEF ChartsOfTheirRange

-----------------------------------------------------------------------------
(* The invariant is preserved.                                             *)

\* Nothing is stored and nothing under way.
LEMMA CacheInitially == TokenInit => CacheInv
<1> SUFFICES ASSUME TokenInit PROVE CacheInv
  OBVIOUS
<1> USE DEF TokenInit
<1>1. request \in Requests /\ refresh \in [Threads -> Runs]
  BY FreshRequest, FreshRun DEF NoRequest
<1>2. TokenTypeOK
  BY <1>1, TypesAre
<1>3. ChartsOfTheirRange
  BY DEF ChartsOfTheirRange, CacheKeys
<1>4. AskedIsFree /\ AnswerIsFree
  BY MarksApart DEF AskedIsFree, AnswerIsFree, NoRequest
<1>5. ThreadsWriteGood
  BY DEF ThreadsWriteGood, NoRefresh
<1> QED BY <1>2, <1>3, <1>4, <1>5 DEF CacheInv

\* What a request asks for it has looked for: details under MongoDB's name, which is
\* CoinMarketCap's unless the detail is misnamed.
LEMMA DetailsAskedKeep ==
  ASSUME CacheInv, NEW asked \in SUBSET Names, DetailsAsked(asked)
  PROVE  CacheInv'
<1> USE DEF DetailsAsked, NoRequest
<1>1. request' = [names |-> asked, range |-> "", writes |-> {}, crossed |-> {}]
  OBVIOUS
<1>2. request' \in Requests
  BY <1>1, FreshRequest
<1>3. \A n \in asked : DbName[n] = CmcName[n] => docs[DetailKey(CmcName[n])] = NoDoc
  OBVIOUS
<1>4. \A n \in asked : DbName[n] # CmcName[n] => DetailKey(CmcName[n]) \in Misnamed
  BY DEF Misnamed
<1>5. AskedIsFree'
  BY <1>1, <1>3, <1>4, MarksApart DEF AskedIsFree, Free
<1>6. AnswerIsFree'
  BY <1>1 DEF AnswerIsFree
<1> QED BY <1>2, <1>5, <1>6, OnlyRequestMoves

\* CoinMarketCap's answers are about the details that were asked for.
LEMMA DetailsAnsweredKeep ==
  ASSUME CacheInv, NEW got \in SUBSET CacheNames, DetailsAnswered(got)
  PROVE  CacheInv'
<1> USE DEF DetailsAnswered
<1> DEFINE written == {Quote(DetailKey(s)) : s \in got}
<1>1. request \in Requests
  BY TypesAre DEF CacheInv
<1>2. \A s \in CacheNames : Quote(DetailKey(s)).doc = "" /\ Quote(DetailKey(s)).key = DetailKey(s)
  BY DEF Quote
<1>3. written \subseteq Writes /\ \A w \in written : GoodWrite(w) /\ w.doc = ""
  BY <1>2, QuoteGood
<1>4. CASE got = {}
  <2>1. request' = NoRequest
    BY <1>4
  <2> QED BY <2>1, IdleIsFree, OnlyRequestMoves
<1>5. CASE got # {}
  <2>1. /\ request'.names = {} /\ request'.range = "" /\ request'.writes = written
        /\ request'.crossed = request.crossed
    BY <1>5, <1>1 DEF Requests
  <2>2. request' \in Requests
    BY <1>1, <1>3, <1>5 DEF Requests
  <2>3. AskedIsFree'
    BY <2>1, MarksApart DEF AskedIsFree
  <2>4. ASSUME NEW s \in got PROVE Free(DetailKey(s))'
    <3>1. PICK n \in request.names : s = CmcName[n]
      BY <2>4
    <3>2. Free(DetailKey(CmcName[n]))
      BY DEF AskedIsFree, CacheInv
    <3> QED BY <2>1, <3>1, <3>2 DEF Free
  <2>5. \A w \in written : Label(w) = w.key /\ \E s \in got : w.key = DetailKey(s)
    BY <1>2, <1>3 DEF Label
  <2>6. AnswerIsFree'
    BY <1>3, <2>1, <2>4, <2>5 DEF AnswerIsFree
  <2> QED BY <2>2, <2>3, <2>6, OnlyRequestMoves
<1> QED BY <1>4, <1>5

\* A chart that is asked for was not found.
LEMMA ChartAskedKeep ==
  ASSUME CacheInv, NEW n \in Names, NEW r \in AskedRanges, ChartAsked(n, r)
  PROVE  CacheInv'
<1> USE DEF ChartAsked, NoRequest
<1>1. request' = [names |-> {n}, range |-> r, writes |-> {}, crossed |-> {}]
  OBVIOUS
<1>2. request' \in Requests
  <2>1. {n} \in SUBSET Names /\ r \in AskedRanges \cup {""}
    OBVIOUS
  <2> QED BY ZenonT(30), <1>1, <2>1, FreshRequest
<1>3. r # "" /\ docs'[ChartKey(DbName[n], r)] = NoDoc
  BY MarksApart
<1>4. AskedIsFree'
  BY ZenonT(30), <1>1, <1>3 DEF AskedIsFree, Free
<1>5. AnswerIsFree'
  BY <1>1 DEF AnswerIsFree
<1> QED BY <1>2, <1>4, <1>5, OnlyRequestMoves

\* A chart of a range the code knows goes where it was looked for.
LEMMA ChartAnsweredKeep ==
  ASSUME CacheInv, ChartAnswered
  PROVE  CacheInv'
<1> USE DEF ChartAnswered
<1>1. request \in Requests
  BY TypesAre DEF CacheInv
<1>2. PICK n \in Names : request.names = {n}
  BY DEF AskedIsFree, CacheInv
<1>3. PICK r \in AskedRanges : request.range = r
  BY <1>1 DEF Requests
<1>4. DbName[n] \in CacheNames
  BY DEF CacheNames
<1> DEFINE w == Chart(DbName[n], r)
<1>5. /\ request'.names = {} /\ request'.range = "" /\ request'.writes = {w}
      /\ request'.crossed = request.crossed
  BY <1>1, <1>2, <1>3 DEF Requests
<1>6. w \in Writes /\ GoodWrite(w)
  BY <1>4, ChartGood
<1>7. request' \in Requests
  BY <1>1, <1>2, <1>3, <1>6 DEF Requests
<1>8. AskedIsFree'
  BY <1>5, MarksApart DEF AskedIsFree
<1>9. ASSUME Label(w) = w.key PROVE Free(Label(w))'
  <2>1. r \in Ranges /\ Label(w) = ChartKey(DbName[n], r)
    BY <1>4, <1>9, ChartGood
  <2>2. Free(ChartKey(DbName[n], r))
    BY <1>2, <1>3, <2>1 DEF AskedIsFree, CacheInv
  <2>3. Free(ChartKey(DbName[n], r))'
    BY <1>5, <2>2 DEF Free
  <2> QED BY <2>1, <2>3
<1>10. AnswerIsFree'
  BY <1>5, <1>6, <1>9 DEF AnswerIsFree
<1> QED BY <1>7, <1>8, <1>10, OnlyRequestMoves

\* What is still to be written goes elsewhere than what has just been written.
LEMMA RestKeeps ==
  ASSUME CacheInv, NEW w \in request.writes, Written(w),
         \A k \in CacheKeys : k # Label(w) => docs'[k] = docs[k]
  PROVE  request' \in Requests /\ AskedIsFree' /\ AnswerIsFree'
<1>1. request \in Requests
  BY TypesAre DEF CacheInv
<1>2. CASE request.writes = {w}
  <2>1. request' = NoRequest
    BY <1>2 DEF Written
  <2> QED BY <2>1, IdleIsFree
<1>3. CASE request.writes # {w}
  <2>1. /\ request'.names = request.names /\ request'.range = request.range
        /\ request'.writes = request.writes \ {w} /\ request'.crossed = request.crossed
        /\ request' \in Requests
    BY <1>1, <1>3 DEF Written, Requests
  <2>2. request.names = {} /\ request.range = ""
    BY DEF CacheInv, AskedIsFree
  <2>3. AskedIsFree'
    BY <2>1, <2>2, MarksApart DEF AskedIsFree
  <2>4. \A v \in request.writes : v.doc = ""
    BY <1>3 DEF CacheInv, AnswerIsFree
  <2>5. ASSUME NEW v \in request.writes \ {w}
        PROVE  GoodWrite(v) /\ (Label(v) = v.key => Free(Label(v))')
    <3>1. v \in Writes /\ w \in Writes /\ GoodWrite(v) /\ GoodWrite(w)
      BY <1>1 DEF CacheInv, AnswerIsFree, Requests
    <3>2. Label(v) = v.key /\ Label(w) = w.key /\ Label(v) \in CacheKeys
      BY <2>4, <3>1, LabelOfGood
    <3>3. v.key # w.key
      <4>1. \A x \in Writes : x = [key |-> x.key, doc |-> x.doc]
        BY DEF Writes
      <4>2. v = [key |-> v.key, doc |-> ""] /\ w = [key |-> w.key, doc |-> ""]
        BY <2>4, <3>1, <4>1
      <4> QED BY <4>2
    <3>4. Free(Label(v))
      BY <3>2 DEF CacheInv, AnswerIsFree
    <3> QED BY <2>1, <3>1, <3>2, <3>3, <3>4 DEF Free
  <2>6. AnswerIsFree'
    BY <2>1, <2>4, <2>5 DEF AnswerIsFree
  <2> QED BY <2>1, <2>3, <2>6
<1> QED BY <1>2, <1>3

\* A write of a request replaces nothing that was not crossed or misnamed: under the
\* key that was looked for nothing was found, and under another the index refuses it.
LEMMA RequestWritesKeep ==
  ASSUME CacheInv, NEW w \in request.writes, RequestWrites(w)
  PROVE  CacheInv'
<1>1. request \in Requests /\ TokenTypeOK /\ ChartsOfTheirRange
  BY TypesAre DEF CacheInv
<1>2. w \in Writes /\ GoodWrite(w) /\ (Label(w) = w.key => Free(Label(w)))
  BY <1>1 DEF CacheInv, AnswerIsFree, Requests
<1>3. Upsert(w) /\ Written(w) /\ UNCHANGED <<refresh, scheduled>>
  BY DEF RequestWrites
<1>4. /\ docs' \in [CacheKeys -> Doc \cup {NoDoc}] /\ ChartsOfTheirRange'
      /\ \A k \in CacheKeys : k # Label(w) => docs'[k] = docs[k]
  BY <1>1, <1>2, <1>3, UpsertKeeps
<1>5. request' \in Requests /\ AskedIsFree' /\ AnswerIsFree'
  BY <1>3, <1>4, RestKeeps
<1>6. docs[Label(w)] # NoDoc => Label(w) \in request.crossed \/ Label(w) \in Misnamed
  <2>1. Label(w) # w.key => docs[Label(w)] = NoDoc
    BY <1>3 DEF Upsert, DuplicateKey
  <2> QED BY <1>2, <2>1 DEF Free
<1>7. replaced' \subseteq Misnamed /\ replaced' \subseteq CacheKeys
  <2>1. Label(w) \in CacheKeys
    BY <1>2, LabelOfGood
  <2>2. replaced \subseteq Misnamed /\ replaced \subseteq CacheKeys
    BY TypesAre DEF CacheInv
  <2> QED BY <1>6, <2>1, <2>2 DEF RequestWrites
<1>8. TokenTypeOK'
  BY <1>1, <1>3, <1>4, <1>5, <1>7 DEF TokenTypeOK, Requests
<1> QED BY <1>3, <1>4, <1>5, <1>7, <1>8 DEF CacheInv, ThreadsWriteGood

\* A write that fails is one write less.
LEMMA RequestWriteFailsKeeps ==
  ASSUME CacheInv, NEW w \in request.writes, RequestWriteFails(w)
  PROVE  CacheInv'
<1>1. Written(w) /\ UNCHANGED <<docs, refresh, scheduled, replaced>>
  BY DEF RequestWriteFails
<1>2. request' \in Requests /\ AskedIsFree' /\ AnswerIsFree'
  BY <1>1, RestKeeps
<1> QED BY <1>1, <1>2, OnlyRequestMoves

\* A step of a thread that writes nothing.
LEMMA OnlyThreadMoves ==
  ASSUME CacheInv, UNCHANGED <<docs, request, scheduled, replaced>>,
         NEW t \in Threads, NEW run \in Runs, refresh' = [refresh EXCEPT ![t] = run],
         \A w \in run.writes : GoodWrite(w)
  PROVE  CacheInv'
<1>1. refresh \in [Threads -> Runs]
  BY TypesAre DEF CacheInv
<1>2. refresh' \in [Threads -> Runs] /\ \A u \in Threads : refresh'[u] = IF u = t THEN run ELSE refresh[u]
  BY <1>1
<1>3. TokenTypeOK'
  BY <1>2 DEF CacheInv, TokenTypeOK, Runs
<1>4. ThreadsWriteGood'
  BY <1>2 DEF CacheInv, ThreadsWriteGood
<1> QED BY <1>3, <1>4 DEF CacheInv, ChartsOfTheirRange, AskedIsFree, AnswerIsFree, Free

\* The phases of a thread, which begin with nothing to write.
LEMMA PhasesKeep ==
  ASSUME CacheInv, NEW t \in Threads, JobStarts(t) \/ RefreshCharts(t) \/ RefreshPrices(t)
  PROVE  CacheInv'
<1>1. refresh \in [Threads -> Runs] /\ refresh[t] \in Runs
  BY TypesAre DEF CacheInv
<1>2. \A w \in refresh[t].writes : GoodWrite(w)
  BY DEF CacheInv, ThreadsWriteGood
<1>3. ASSUME JobStarts(t) PROVE CacheInv'
  <2>1. refresh' = [refresh EXCEPT ![t] = [NoRefresh EXCEPT !.todo = Phases[t]]]
    BY <1>1, <1>3 DEF JobStarts
  <2>2. [NoRefresh EXCEPT !.todo = Phases[t]].writes = {}
    BY DEF NoRefresh
  <2>3. UNCHANGED <<docs, request, scheduled, replaced>>
    BY <1>3 DEF JobStarts
  <2> QED BY <2>1, <2>2, <2>3, FreshRun, OnlyThreadMoves
<1>4. refresh[t].todo # <<>> => Tail(refresh[t].todo) \in Seq({"details", "charts", "prices"})
  BY <1>1 DEF Runs
<1>5. ASSUME RefreshCharts(t) PROVE CacheInv'
  <2> DEFINE run == [refresh[t] EXCEPT !.todo = Tail(@), !.charts = Tracked \X KeptRanges]
  <2>1. refresh' = [refresh EXCEPT ![t] = run] /\ UNCHANGED <<docs, request, scheduled, replaced>>
    BY <1>5 DEF RefreshCharts
  <2>2. run \in Runs /\ run.writes = refresh[t].writes
    BY <1>1, <1>4, <1>5 DEF RefreshCharts, AtPhase, Runs
  <2> HIDE DEF run
  <2> QED BY <1>2, <2>1, <2>2, OnlyThreadMoves
<1>6. ASSUME RefreshPrices(t) PROVE CacheInv'
  <2> DEFINE run == [refresh[t] EXCEPT !.todo = Tail(@)]
  <2>1. refresh' = [refresh EXCEPT ![t] = run] /\ UNCHANGED <<docs, request, scheduled, replaced>>
    BY <1>6 DEF RefreshPrices
  <2>2. run \in Runs /\ run.writes = refresh[t].writes
    BY <1>1, <1>4, <1>6 DEF RefreshPrices, AtPhase, Runs
  <2> HIDE DEF run
  <2> QED BY <1>2, <2>1, <2>2, OnlyThreadMoves
<1> QED BY <1>3, <1>5, <1>6

\* The quotes a thread has fetched.
LEMMA RefreshDetailsKeep ==
  ASSUME CacheInv, NEW t \in Threads, NEW got \in SUBSET CacheNames, RefreshDetails(t, got)
  PROVE  CacheInv'
<1> DEFINE written == {Quote(DetailKey(s)) : s \in got}
           run == [refresh[t] EXCEPT !.todo = Tail(@), !.writes = written]
<1>1. refresh[t] \in Runs
  BY TypesAre DEF CacheInv
<1>2. written \subseteq Writes /\ \A w \in written : GoodWrite(w)
  BY QuoteGood
<1>3. refresh' = [refresh EXCEPT ![t] = run] /\ UNCHANGED <<docs, request, scheduled, replaced>>
  BY DEF RefreshDetails
<1> HIDE DEF written
<1>4. Tail(refresh[t].todo) \in Seq({"details", "charts", "prices"})
  BY <1>1 DEF RefreshDetails, AtPhase, Runs
<1>5. run \in Runs /\ run.writes = written
  BY <1>1, <1>2, <1>4 DEF Runs
<1> HIDE DEF run
<1> QED BY <1>2, <1>3, <1>5, OnlyThreadMoves

\* The chart a thread has fetched.
LEMMA RefreshChartKeeps ==
  ASSUME CacheInv, NEW t \in Threads, NEW c \in Tracked \X KeptRanges, RefreshChart(t, c)
  PROVE  CacheInv'
<1> DEFINE w == Chart(c[1], c[2])
           run == [refresh[t] EXCEPT !.charts = @ \ {c}, !.writes = {w}]
<1>1. refresh[t] \in Runs
  BY TypesAre DEF CacheInv
<1>2. c[1] \in CacheNames /\ c[2] \in AskedRanges
  BY TokenAssumption DEF CacheNames, AskedRanges
<1>3. w \in Writes /\ GoodWrite(w)
  BY <1>2, ChartGood
<1>4. refresh' = [refresh EXCEPT ![t] = run] /\ UNCHANGED <<docs, request, scheduled, replaced>>
  BY DEF RefreshChart
<1> HIDE DEF w
<1>5. run \in Runs /\ run.writes = {w}
  BY <1>1, <1>3 DEF Runs
<1> HIDE DEF run
<1> QED BY <1>3, <1>4, <1>5, OnlyThreadMoves

\* A run that is left with a write less, or ends.
LEMMA ThreadWriteFailsKeeps ==
  ASSUME CacheInv, NEW t \in Threads, NEW w \in refresh[t].writes, ThreadWriteFails(t, w)
  PROVE  CacheInv'
<1> DEFINE run == IF w.key \in ChartKeys THEN [refresh[t] EXCEPT !.writes = @ \ {w}] ELSE NoRefresh
<1>1. refresh[t] \in Runs
  BY TypesAre DEF CacheInv
<1>2. \A v \in refresh[t].writes : GoodWrite(v)
  BY DEF CacheInv, ThreadsWriteGood
<1>3. refresh' = [refresh EXCEPT ![t] = run] /\ UNCHANGED <<docs, request, scheduled, replaced>>
  <2>1. CASE w.key \in ChartKeys
    BY <2>1 DEF ThreadWriteFails
  <2>2. CASE w.key \notin ChartKeys
    BY <2>2 DEF ThreadWriteFails
  <2> QED BY <2>1, <2>2
<1>4. NoRefresh.writes = {}
  BY DEF NoRefresh
<1>5. run \in Runs /\ run.writes \subseteq refresh[t].writes
  BY <1>1, <1>4, FreshRun DEF Runs
<1> HIDE DEF run
<1> QED BY <1>2, <1>3, <1>5, OnlyThreadMoves

\* What a thread writes where the request was going to write, the request has had crossed.
LEMMA ThreadWritesKeep ==
  ASSUME CacheInv, NEW t \in Threads, NEW w \in refresh[t].writes, ThreadWrites(t, w)
  PROVE  CacheInv'
<1>1. /\ request \in Requests /\ refresh \in [Threads -> Runs] /\ refresh[t] \in Runs
      /\ TokenTypeOK /\ ChartsOfTheirRange
  BY TypesAre DEF CacheInv
<1>2. w \in Writes /\ GoodWrite(w)
  BY <1>1 DEF CacheInv, ThreadsWriteGood, Runs
<1>3. /\ docs' \in [CacheKeys -> Doc \cup {NoDoc}] /\ ChartsOfTheirRange'
      /\ \A k \in CacheKeys : k # Label(w) => docs'[k] = docs[k]
  BY <1>1, <1>2, UpsertKeeps DEF ThreadWrites
<1>4. Label(w) \in CacheKeys
  BY <1>2, LabelOfGood
<1> DEFINE hit == request.crossed \cup ({Label(w)} \cap RequestKeys)
<1>5. /\ request'.names = request.names /\ request'.range = request.range
      /\ request'.writes = request.writes /\ request'.crossed = hit
      /\ request' \in Requests
  BY <1>1, <1>4 DEF ThreadWrites, Requests
<1> HIDE DEF hit
<1>6. ASSUME NEW k \in CacheKeys, k \in RequestKeys, Free(k) PROVE Free(k)'
  <2>1. CASE k = Label(w)
    BY <1>5, <1>6, <2>1 DEF Free, hit
  <2>2. CASE k # Label(w)
    BY <1>3, <1>5, <1>6, <2>2 DEF Free, hit
  <2> QED BY <2>1, <2>2
<1>7. AskedIsFree'
  <2>1. /\ request.writes # {} => request.names = {} /\ request.range = ""
        /\ request.range # "" => \E n \in Names : request.names = {n}
    BY DEF CacheInv, AskedIsFree
  <2>2. ASSUME request.range = "", NEW n \in request.names PROVE Free(DetailKey(CmcName[n]))'
    <3>1. DetailKey(CmcName[n]) \in RequestKeys
      BY <2>1, <2>2 DEF RequestKeys
    <3>2. DetailKey(CmcName[n]) \in CacheKeys
      BY <1>1 DEF Requests, CacheKeys, CacheNames
    <3> QED BY <2>2, <3>1, <3>2, <1>6 DEF CacheInv, AskedIsFree
  <2>3. ASSUME NEW r \in Ranges, request.range = r, NEW n \in request.names
        PROVE  Free(ChartKey(DbName[n], r))'
    <3>1. n \in Names /\ DbName[n] \in CacheNames /\ r \in AskedRanges /\ r # ""
      BY <1>1, <2>3, MarksApart DEF Requests, CacheNames
    <3>2. Label(Chart(DbName[n], r)) = ChartKey(DbName[n], r)
      BY <2>3, <3>1, ChartGood
    <3>3. ChartKey(DbName[n], r) \in RequestKeys
      BY <2>1, <2>3, <3>1, <3>2 DEF RequestKeys
    <3>4. \A s \in CacheNames, q \in AskedRanges : ChartKey(s, q) \in CacheKeys
      BY DEF CacheKeys, ChartKeys
    <3>5. Free(ChartKey(DbName[n], r))
      BY <2>3 DEF CacheInv, AskedIsFree
    <3> QED BY <3>1, <3>3, <3>4, <3>5, <1>6
  <2> QED BY <1>5, <2>1, <2>2, <2>3 DEF AskedIsFree
<1>8. AnswerIsFree'
  <2>1. (\A v \in request.writes : v.doc = "") \/ \E v \in Writes : request.writes = {v}
    BY DEF CacheInv, AnswerIsFree
  <2>2. ASSUME NEW v \in request.writes
        PROVE  GoodWrite(v) /\ (Label(v) = v.key => Free(Label(v))')
    <3>1. v \in Writes /\ GoodWrite(v) /\ (Label(v) = v.key => Free(Label(v)))
      BY <1>1 DEF CacheInv, AnswerIsFree, Requests
    <3>2. Label(v) \in CacheKeys
      BY <3>1, LabelOfGood
    <3>3. Label(v) \in RequestKeys
      BY <2>2 DEF RequestKeys
    <3> QED BY <1>6, <3>1, <3>2, <3>3
  <2> QED BY <1>5, <2>1, <2>2 DEF AnswerIsFree
<1>9. refresh' \in [Threads -> Runs] /\ ThreadsWriteGood'
  <2> DEFINE run == [refresh[t] EXCEPT !.writes = @ \ {w}]
  <2>1. run \in Runs /\ run.writes \subseteq refresh[t].writes
    BY <1>1 DEF Runs
  <2>2. refresh' = [refresh EXCEPT ![t] = run]
    BY DEF ThreadWrites
  <2> HIDE DEF run
  <2>3. refresh' \in [Threads -> Runs] /\ \A u \in Threads : refresh'[u] = IF u = t THEN run ELSE refresh[u]
    BY <1>1, <2>1, <2>2
  <2> QED BY <2>1, <2>3 DEF CacheInv, ThreadsWriteGood
<1>10. UNCHANGED <<scheduled, replaced>>
  BY DEF ThreadWrites
<1>11. TokenTypeOK'
  BY <1>1, <1>3, <1>5, <1>9, <1>10 DEF TokenTypeOK, Requests, Runs
<1> QED BY <1>3, <1>7, <1>8, <1>9, <1>10, <1>11 DEF CacheInv

\* An agent that comes up has nothing under way.
LEMMA AgentComesUpKeeps ==
  ASSUME CacheInv, NEW found \in BOOLEAN, AgentComesUp(found)
  PROVE  CacheInv'
<1>1. request' = NoRequest /\ scheduled' \in BOOLEAN /\ UNCHANGED <<docs, replaced>>
  BY DEF AgentComesUp
<1>2. \A t \in Threads : refresh'[t] \in Runs /\ refresh'[t].writes = {}
  <2>1. \A t \in Threads : refresh'[t] = [NoRefresh EXCEPT !.todo = Phases[t]] \/ refresh'[t] = NoRefresh
    BY DEF AgentComesUp
  <2>2. NoRefresh.writes = {} /\ \A x : [NoRefresh EXCEPT !.todo = x].writes = {}
    BY DEF NoRefresh
  <2> QED BY <2>1, <2>2, FreshRun
<1>3. refresh' \in [Threads -> Runs]
  <2>1. refresh' = [t \in Threads |-> refresh'[t]]
    BY DEF AgentComesUp
  <2> QED BY <1>2, <2>1
<1>4. request' \in Requests /\ AskedIsFree' /\ AnswerIsFree'
  BY <1>1, IdleIsFree
<1>5. TokenTypeOK'
  BY <1>1, <1>3, <1>4 DEF CacheInv, TokenTypeOK, Requests, Runs
<1>6. ThreadsWriteGood'
  BY <1>2 DEF ThreadsWriteGood
<1> QED BY <1>1, <1>4, <1>5, <1>6 DEF CacheInv, ChartsOfTheirRange

\* Every step of a request and of a thread preserves the invariant.
LEMMA CacheInvStep == CacheInv /\ [TokenNext]_cacheVars => CacheInv'
<1> SUFFICES ASSUME CacheInv, [TokenNext]_cacheVars PROVE CacheInv'
  OBVIOUS
<1>1. ASSUME NEW found \in BOOLEAN, AgentComesUp(found) PROVE CacheInv'
  BY <1>1, AgentComesUpKeeps
<1>2. ASSUME NEW asked \in (SUBSET Names) \ {{}}, DetailsAsked(asked) PROVE CacheInv'
  BY <1>2, DetailsAskedKeep
<1>3. ASSUME NEW got \in SUBSET CacheNames, DetailsAnswered(got) PROVE CacheInv'
  BY <1>3, DetailsAnsweredKeep
<1>4. ASSUME NEW n \in Names, NEW r \in AskedRanges, ChartAsked(n, r) PROVE CacheInv'
  BY <1>4, ChartAskedKeep
<1>5. ASSUME ChartAnswered PROVE CacheInv'
  BY <1>5, ChartAnsweredKeep
<1>6. ASSUME NEW w \in request.writes, RequestWrites(w) \/ RequestWriteFails(w) PROVE CacheInv'
  BY <1>6, RequestWritesKeep, RequestWriteFailsKeeps
<1>7. ASSUME NEW t \in Threads, JobStarts(t) \/ RefreshCharts(t) \/ RefreshPrices(t) PROVE CacheInv'
  BY <1>7, PhasesKeep
<1>8. ASSUME NEW t \in Threads, NEW got \in SUBSET CacheNames, RefreshDetails(t, got) PROVE CacheInv'
  BY <1>8, RefreshDetailsKeep
<1>9. ASSUME NEW t \in Threads, NEW c \in Tracked \X KeptRanges, RefreshChart(t, c) PROVE CacheInv'
  BY <1>9, RefreshChartKeeps
<1>10. ASSUME NEW t \in Threads, NEW w \in refresh[t].writes, ThreadWrites(t, w) \/ ThreadWriteFails(t, w)
       PROVE  CacheInv'
  BY <1>10, ThreadWritesKeep, ThreadWriteFailsKeeps
<1>11. CASE UNCHANGED cacheVars
  BY <1>11 DEF cacheVars, CacheInv, TokenTypeOK, ChartsOfTheirRange, AskedIsFree, AnswerIsFree,
     ThreadsWriteGood, Free, Misnamed
<1> QED BY <1>1, <1>2, <1>3, <1>4, <1>5, <1>6, <1>7, <1>8, <1>9, <1>10, <1>11 DEF TokenNext

\* Types, the charts' ranges and the requests' writes, with the state of what is under
\* way that makes them inductive.
THEOREM CacheInvariant == TokenSpec => []CacheInv
<1> QED BY CacheInitially, CacheInvStep, PTL DEF TokenSpec

\* What the endpoints of app/main.py and the threads of cache_refresh.py write leaves every
\* chart under its range, and a request replaces a document only where a thread crossed it
\* or the two names of a symbol differ.
THEOREM CacheSafe == TokenSpec => []TokenCacheSafe
<1>1. CacheInv => TokenCacheSafe
  BY DEF CacheInv, TokenCacheSafe, ReadersOnlyFill, Misnamed
<1> QED BY <1>1, CacheInvariant, PTL
-----------------------------------------------------------------------------
(* The decision log (DecisionLog)                                          *)

\* Until its hash a decision has, in the globals, its own reasoning and signature, none, or
\* those of planning threads that wrote since its answer; after it, it was hashed with such
\* a pair, and the pointer is still the last one unless another call ran.
OwnOrMixed(d) == {0, d.call} \cup d.mixed
Between == {"answered", "stashed"}
Hashed == {"sending", "reporting"}
Own(d, sig, cid) ==
  /\ d.at \in Between /\ d.call # 0 => sig \in OwnOrMixed(d)
  /\ d.at = "stashed" /\ d.call # 0 => cid \in OwnOrMixed(d)
  /\ d.at \in Hashed /\ d.call # 0 => d.cid \in OwnOrMixed(d) /\ d.sig \in OwnOrMixed(d)
  /\ d.at \in Hashed /\ ~d.crossed => d.cid = cid
DecisionOwn == \A s \in Sessions : Own(decision[s], lastSig, lastCid)

\* supervisor_check holds the event loop: one decision at a time is between answer and hash.
OneBetween ==
  \A s, t \in Sessions : decision[s].at \in Between /\ decision[t].at \in Between => s = t
CallsMade == \A s \in Sessions : planCall[s] <= llmCalls /\ decision[s].call <= llmCalls

DecisionInv == DecisionTypeOK /\ CallsMade /\ OneBetween /\ DecisionOwn /\ HashedAsDecided

\* What the globals may be after a call, for the decisions that are between answer and hash.
GlobalsMove ==
  /\ llmCalls' \in CallIds /\ llmCalls <= llmCalls'
  /\ lastSig' \in CallIds /\ lastSig' <= llmCalls'
  /\ lastCid' \in CallIds /\ lastCid' <= llmCalls'
WrittenBy(calls) ==
  LoopBlocked => lastSig' \in {0, lastSig} \cup calls /\ lastCid' \in {0, lastCid} \cup calls

\* What any other call of a model than a supervisor's may do to the globals.
AnotherCall(calls) ==
  /\ calls \in SUBSET CallIds /\ GlobalsMove /\ WrittenBy(calls) /\ GlobalsWritten(calls)
  /\ session' \in [Sessions -> PlanSteps] /\ planCall' \in [Sessions -> CallIds]
  /\ \A s \in Sessions : planCall'[s] <= llmCalls'
  /\ logged' = logged

LEMMA SignatureOf ==
  ASSUME NEW p, NEW sig
  PROVE  Signature(p, sig) \in {0, sig} /\ SignatureAfterFailure(p) \in {0, lastSig}
BY DEF Signature, SignatureAfterFailure

LEMMA DecisionNumbers ==
  ASSUME DecisionInv
  PROVE  /\ llmCalls \in Nat /\ lastSig \in Nat /\ lastCid \in Nat /\ MaxLlmCalls \in Nat
         /\ llmCalls <= MaxLlmCalls /\ lastSig <= llmCalls /\ lastCid <= llmCalls
         /\ session \in [Sessions -> PlanSteps] /\ planCall \in [Sessions -> CallIds]
         /\ decision \in [Sessions -> Decisions]
         /\ \A s \in Sessions : /\ planCall[s] \in Nat /\ planCall[s] <= llmCalls
                                /\ decision[s].call \in Nat /\ decision[s].call <= llmCalls
BY DecisionAssumption DEF DecisionInv, DecisionTypeOK, CallsMade, CallIds, Decisions

\* A write to the globals tells on a decision by what it makes of its history only.
LEMMA TouchedIs ==
  ASSUME NEW d \in Decisions, NEW calls \in SUBSET CallIds
  PROVE  /\ Touched(d, calls) \in Decisions
         /\ Touched(d, calls).at = d.at /\ Touched(d, calls).call = d.call
         /\ Touched(d, calls).cid = d.cid /\ Touched(d, calls).sig = d.sig
         /\ Touched(d, calls).mixed = IF d.at \in Between THEN d.mixed \cup calls ELSE d.mixed
         /\ d.at \in Hashed => Touched(d, calls).crossed
<1>1. CASE d.at \in Between
  <2>1. Touched(d, calls) = [d EXCEPT !.mixed = @ \cup calls]
    BY <1>1 DEF Touched, Between
  <2>2. d.mixed \cup calls \in SUBSET CallIds
    BY DEF Decisions
  <2> QED
    BY <1>1, <2>1, <2>2 DEF Decisions, Between, Hashed
<1>2. CASE d.at \in Hashed
  <2>1. Touched(d, calls) = [d EXCEPT !.crossed = TRUE]
    BY <1>2 DEF Touched, Hashed
  <2> QED
    BY <1>2, <2>1 DEF Decisions, Between, Hashed
<1>3. CASE d.at \notin Between /\ d.at \notin Hashed
  <2>1. Touched(d, calls) = d
    BY <1>3 DEF Touched, Between, Hashed
  <2> QED
    BY <1>3, <2>1
<1> QED
  BY <1>1, <1>2, <1>3

LEMMA OwnTouched ==
  ASSUME NEW d \in Decisions, NEW calls \in SUBSET CallIds,
         NEW sig, NEW cid, NEW sig2, NEW cid2, Own(d, sig, cid),
         d.at \in Between => sig2 \in {0, sig} \cup calls /\ cid2 \in {0, cid} \cup calls
  PROVE  Own(Touched(d, calls), sig2, cid2)
<1> DEFINE e == Touched(d, calls)
<1>1. /\ e.at = d.at /\ e.call = d.call /\ e.cid = d.cid /\ e.sig = d.sig
      /\ e.mixed = (IF d.at \in Between THEN d.mixed \cup calls ELSE d.mixed)
      /\ d.at \in Hashed => e.crossed
  BY TouchedIs
<1> HIDE DEF e
<1>2. Own(e, sig2, cid2)
  BY <1>1 DEF Own, OwnOrMixed, Between, Hashed
<1> QED
  BY <1>2 DEF e

\* Whatever it leaves in the globals, a decision that was hashed before has crossed it, and
\* one that is not yet has it among those it is mixed with.
LEMMA AnotherCallKeeps ==
  ASSUME DecisionInv, NEW calls, AnotherCall(calls)
  PROVE  DecisionInv'
<1>1. /\ calls \in SUBSET CallIds /\ GlobalsMove /\ WrittenBy(calls) /\ logged' = logged
      /\ decision' = [s \in Sessions |-> Touched(decision[s], calls)]
      /\ session' \in [Sessions -> PlanSteps] /\ planCall' \in [Sessions -> CallIds]
      /\ \A s \in Sessions : planCall'[s] <= llmCalls'
  BY DEF AnotherCall, GlobalsWritten
<1>2. ASSUME NEW s \in Sessions
      PROVE  /\ decision[s] \in Decisions /\ decision'[s] = Touched(decision[s], calls)
             /\ decision'[s] \in Decisions
             /\ decision'[s].at = decision[s].at /\ decision'[s].call = decision[s].call
  BY <1>1, DecisionNumbers, TouchedIs
<1>3. decision' \in [Sessions -> Decisions]
  BY <1>1, <1>2
<1>4. DecisionTypeOK'
  BY <1>1, <1>3 DEF DecisionInv, DecisionTypeOK, GlobalsMove
<1>5. OneBetween'
  BY <1>2 DEF DecisionInv, OneBetween
<1>6. CallsMade'
  <2>1. llmCalls \in Nat /\ llmCalls' \in Nat /\ llmCalls <= llmCalls'
    BY <1>1, DecisionNumbers DEF GlobalsMove, CallIds
  <2>2. ASSUME NEW s \in Sessions PROVE decision'[s].call <= llmCalls'
    BY <1>2, <2>1, <2>2, DecisionNumbers
  <2> QED
    BY <1>1, <2>2 DEF CallsMade
<1>7. ASSUME NEW s \in Sessions PROVE Own(decision'[s], lastSig', lastCid')
  <2>1. Own(decision[s], lastSig, lastCid)
    BY <1>7 DEF DecisionInv, DecisionOwn
  <2>2. decision[s].at \in Between
        => lastSig' \in {0, lastSig} \cup calls /\ lastCid' \in {0, lastCid} \cup calls
    BY <1>1, <1>7 DEF WrittenBy, LoopBlocked, Between
  <2> QED
    BY <1>1, <1>2, <1>7, <2>1, <2>2, OwnTouched
<1>8. HashedAsDecided'
  BY <1>1 DEF DecisionInv, HashedAsDecided, OwnReasoningHashed, ReportedAsHashed
<1> QED
  BY <1>4, <1>5, <1>6, <1>7, <1>8 DEF DecisionInv, DecisionOwn

\* A request for a plan runs when no decision is between answer and hash.
LEMMA RequestIsAnotherCall ==
  ASSUME DecisionInv, NEW p \in Askable, NEW e \in BOOLEAN,
         PlanRequested(p, e) \/ PlanRequestFails(p, e)
  PROVE  AnotherCall({})
<1>1. ~LoopBlocked /\ GlobalsWritten({}) /\ UNCHANGED <<session, planCall, logged>>
  BY DEF PlanRequested, PlanRequestFails
<1>2. GlobalsMove
  <2>1. CASE PlanRequested(p, e)
    <3>1. /\ llmCalls' \in {llmCalls + 1, llmCalls + 2} /\ llmCalls' <= MaxLlmCalls
          /\ lastSig' \in {0, llmCalls'} /\ lastCid' \in {0, llmCalls + 1}
      BY <2>1, SignatureOf, DecisionNumbers DEF PlanRequested, NextCall, Uploads
    <3> QED
      BY <3>1, DecisionNumbers DEF GlobalsMove, CallIds
  <2>2. CASE PlanRequestFails(p, e)
    <3>1. lastCid' = lastCid
      BY <2>2 DEF PlanRequestFails
    <3>2. llmCalls' \in {llmCalls, llmCalls + 1} /\ llmCalls' <= MaxLlmCalls
      BY <2>2, DecisionNumbers DEF PlanRequestFails, NextCall, CallPossible
    <3>3. lastSig' \in {0, lastSig, llmCalls'}
      <4>1. CASE e
        BY <2>2, <4>1, SignatureOf DEF PlanRequestFails
      <4>2. CASE ~e
        BY <2>2, <4>2, SignatureOf DEF PlanRequestFails
      <4> QED
        BY <4>1, <4>2
    <3>4. llmCalls <= llmCalls' /\ llmCalls' \in Nat /\ lastSig <= llmCalls' /\ lastCid <= llmCalls'
      BY <3>1, <3>2, <3>3, DecisionNumbers
    <3>5. llmCalls' \in CallIds /\ lastSig \in CallIds /\ lastCid \in CallIds /\ 0 \in CallIds
      BY <3>2, <3>4, DecisionNumbers DEF CallIds
    <3>6. lastSig' \in CallIds /\ lastSig' <= llmCalls'
      BY <3>3, <3>4, <3>5
    <3> QED
      BY <3>1, <3>4, <3>5, <3>6 DEF GlobalsMove
  <2> QED
    BY <2>1, <2>2
<1>3. \A s \in Sessions : planCall'[s] <= llmCalls'
  BY <1>1, <1>2, DecisionNumbers DEF GlobalsMove, CallIds
<1> QED
  BY <1>1, <1>2, <1>3, DecisionNumbers DEF AnotherCall, WrittenBy

\* A planning thread writes the globals beside any other step.
LEMMA PlanningIsAnotherCall ==
  ASSUME DecisionInv, NEW s \in Sessions,
         \/ StartCalls(s) \/ StartCallFails(s) \/ StartClears(s) \/ StartStashes(s)
         \/ StartExplains(s)
  PROVE  \E calls : AnotherCall(calls)
<1> USE DecisionNumbers
<1>1. CASE StartCalls(s)
  <2>1. /\ llmCalls' = llmCalls + 1 /\ llmCalls' <= MaxLlmCalls /\ lastCid' = lastCid
        /\ lastSig' \in {0, llmCalls'} /\ GlobalsWritten({llmCalls'}) /\ logged' = logged
        /\ planCall' = [planCall EXCEPT ![s] = llmCalls']
        /\ session' = [session EXCEPT ![s] = "clear"]
    BY <1>1, SignatureOf DEF StartCalls, NextCall, CallPossible
  <2>2. GlobalsMove /\ llmCalls' \in CallIds
    BY <2>1 DEF GlobalsMove, CallIds
  <2>3. planCall' \in [Sessions -> CallIds] /\ session' \in [Sessions -> PlanSteps]
    BY <2>1, <2>2 DEF PlanSteps
  <2>4. \A t \in Sessions : planCall'[t] <= llmCalls'
    BY <2>1, <2>2 DEF CallIds
  <2>5. AnotherCall({llmCalls'})
    BY <2>1, <2>2, <2>3, <2>4 DEF AnotherCall, WrittenBy
  <2> QED
    BY <2>5
<1>2. CASE StartCallFails(s) \/ StartClears(s)
  <2>1. /\ llmCalls' = llmCalls /\ planCall' = planCall /\ lastCid' \in {0, lastCid}
        /\ lastSig' \in {0, lastSig} /\ GlobalsWritten({}) /\ logged' = logged
        /\ session' \in [Sessions -> PlanSteps]
    BY <1>2, SignatureOf DEF StartCallFails, StartClears, PlanSteps
  <2>2. GlobalsMove
    BY <2>1 DEF GlobalsMove, CallIds
  <2>3. AnotherCall({})
    BY <2>1, <2>2 DEF AnotherCall, WrittenBy
  <2> QED
    BY <2>3
<1>3. CASE StartStashes(s)
  <2>1. /\ llmCalls' = llmCalls /\ lastSig' = lastSig /\ lastCid' \in {0, planCall[s]}
        /\ planCall' = [planCall EXCEPT ![s] = 0]
        /\ GlobalsWritten({planCall[s]}) /\ logged' = logged
        /\ session' = [session EXCEPT ![s] = "explain"]
    BY <1>3 DEF StartStashes, Uploads
  <2>2. GlobalsMove /\ planCall[s] \in CallIds /\ 0 \in CallIds
    BY <2>1 DEF GlobalsMove, CallIds
  <2>3. planCall' \in [Sessions -> CallIds] /\ session' \in [Sessions -> PlanSteps]
    BY <2>1, <2>2 DEF PlanSteps
  <2>4. \A t \in Sessions : planCall'[t] <= llmCalls'
    BY <2>1
  <2>5. AnotherCall({planCall[s]})
    BY <2>1, <2>2, <2>3, <2>4 DEF AnotherCall, WrittenBy
  <2> QED
    BY <2>5
<1>4. CASE StartExplains(s)
  <2>1. /\ llmCalls' = llmCalls + 1 /\ llmCalls' <= MaxLlmCalls /\ lastCid' = lastCid
        /\ lastSig' \in {0, llmCalls'} /\ GlobalsWritten({llmCalls'}) /\ logged' = logged
        /\ planCall' = planCall /\ session' = [session EXCEPT ![s] = "running"]
    BY <1>4, SignatureOf DEF StartExplains, NextCall, CallPossible
  <2>2. GlobalsMove /\ llmCalls' \in CallIds /\ session' \in [Sessions -> PlanSteps]
    BY <2>1 DEF GlobalsMove, CallIds, PlanSteps
  <2>3. \A t \in Sessions : planCall'[t] <= llmCalls'
    BY <2>1, <2>2 DEF CallIds
  <2>4. AnotherCall({llmCalls'})
    BY <2>1, <2>2, <2>3 DEF AnotherCall, WrittenBy
  <2> QED
    BY <2>4
<1> QED
  BY <1>1, <1>2, <1>3, <1>4

\* The supervisor's own writes: no other decision is between answer and hash.
LEMMA BecomesKeeps ==
  ASSUME DecisionInv, NEW s \in Sessions, NEW d \in Decisions, Becomes(s, d), GlobalsMove,
         UNCHANGED <<session, planCall, logged>>,
         d.call <= llmCalls', Own(d, lastSig', lastCid'),
         \A t \in Sessions : t # s => decision[t].at \notin Between
  PROVE  DecisionInv'
<1>1. decision' = [t \in Sessions |-> IF t = s THEN d ELSE Touched(decision[t], {})]
  BY DEF Becomes
<1>2. decision'[s] = d
  BY <1>1
<1>3. ASSUME NEW t \in Sessions, t # s
      PROVE  /\ decision[t] \in Decisions /\ decision'[t] = Touched(decision[t], {})
             /\ decision'[t] \in Decisions
             /\ decision'[t].at = decision[t].at /\ decision'[t].call = decision[t].call
  <2>1. decision'[t] = Touched(decision[t], {})
    BY <1>1, <1>3
  <2>2. decision[t] \in Decisions
    BY DecisionNumbers
  <2>3. {} \in SUBSET CallIds
    OBVIOUS
  <2>4. /\ Touched(decision[t], {}) \in Decisions
        /\ Touched(decision[t], {}).at = decision[t].at
        /\ Touched(decision[t], {}).call = decision[t].call
    BY <2>2, <2>3, TouchedIs, Zenon
  <2> QED
    BY <2>1, <2>2, <2>4, Zenon
<1>4. decision' \in [Sessions -> Decisions]
  <2>1. \A t \in Sessions : decision'[t] \in Decisions
    BY <1>2, <1>3
  <2> QED
    BY <1>1, <2>1
<1>5. DecisionTypeOK'
  BY <1>4 DEF DecisionInv, DecisionTypeOK, GlobalsMove
<1>6. CallsMade'
  <2>1. llmCalls \in Nat /\ llmCalls' \in Nat /\ llmCalls <= llmCalls'
    BY DecisionNumbers DEF GlobalsMove, CallIds
  <2>2. ASSUME NEW t \in Sessions PROVE planCall'[t] <= llmCalls' /\ decision'[t].call <= llmCalls'
    BY <1>2, <1>3, <2>1, <2>2, DecisionNumbers
  <2> QED
    BY <2>2 DEF CallsMade
<1>7. OneBetween'
  BY <1>2, <1>3 DEF OneBetween
<1>8. ASSUME NEW t \in Sessions PROVE Own(decision'[t], lastSig', lastCid')
  <2>1. CASE t = s
    BY <1>2, <2>1
  <2>2. CASE t # s
    <3>1. Own(decision[t], lastSig, lastCid)
      BY <1>8 DEF DecisionInv, DecisionOwn
    <3>2. decision[t] \in Decisions /\ decision[t].at \notin Between
      BY <1>3, <1>8, <2>2
    <3>3. Own(Touched(decision[t], {}), lastSig', lastCid')
      BY <3>1, <3>2, OwnTouched
    <3> QED
      BY <1>3, <1>8, <2>2, <3>3
  <2> QED
    BY <2>1, <2>2
<1>9. HashedAsDecided'
  BY DEF DecisionInv, HashedAsDecided, OwnReasoningHashed, ReportedAsHashed
<1> QED
  BY <1>5, <1>6, <1>7, <1>8, <1>9 DEF DecisionInv, DecisionOwn

\* A step of one decision alone that leaves the globals as they are.
LEMMA OneDecisionKeeps ==
  ASSUME DecisionInv, NEW s \in Sessions, NEW d \in Decisions,
         decision' = [decision EXCEPT ![s] = d],
         UNCHANGED <<llmCalls, lastSig, lastCid, session, planCall>>,
         d.call <= llmCalls, d.at \notin Between, Own(d, lastSig, lastCid),
         logged' \in [call : CallIds, cid : CallIds, sig : CallIds, reported : CallIds,
                      mixed : SUBSET CallIds, crossed : BOOLEAN],
         HashedAsDecided'
  PROVE  DecisionInv'
<1>1. decision'[s] = d /\ \A t \in Sessions : t # s => decision'[t] = decision[t]
  BY DecisionNumbers
<1>2. decision' \in [Sessions -> Decisions]
  BY DecisionNumbers
<1>3. DecisionTypeOK'
  BY <1>2 DEF DecisionInv, DecisionTypeOK
<1>4. CallsMade'
  BY <1>1 DEF DecisionInv, CallsMade
<1>5. OneBetween'
  BY <1>1 DEF DecisionInv, OneBetween
<1>6. DecisionOwn'
  BY <1>1 DEF DecisionInv, DecisionOwn
<1> QED
  BY <1>3, <1>4, <1>5, <1>6 DEF DecisionInv

LEMMA DecidedIs ==
  ASSUME NEW call \in CallIds, NEW at \in {"answered", "stashed"}
  PROVE  /\ Decided(call, at) \in Decisions
         /\ Decided(call, at).at = at /\ Decided(call, at).call = call
         /\ Decided(call, at).mixed = {}
<1>1. 0 \in CallIds
  BY DecisionAssumption DEF CallIds
<1> QED
  BY <1>1 DEF Decided, NoDecision, Decisions

\* From the answer to the hash a decision has its own pair in the globals, or one a planning
\* thread mixed in; its row has what it was hashed with.
LEMMA SupervisorKeepsLog ==
  ASSUME DecisionInv, NEW s \in Sessions, SessionDecides(s)
  PROVE  DecisionInv'
<1> USE DecisionNumbers
<1>0. ASSUME ~LoopBlocked PROVE \A t \in Sessions : decision[t].at \notin Between
  BY <1>0 DEF LoopBlocked, Between
<1>1. CASE SupervisorDecides(s)
  <2>1. /\ llmCalls' = llmCalls + 1 /\ llmCalls' <= MaxLlmCalls /\ ~LoopBlocked
        /\ lastSig' \in {0, llmCalls'} /\ lastCid' = lastCid
        /\ Becomes(s, Decided(llmCalls', "answered"))
        /\ UNCHANGED <<session, planCall, logged>>
    BY <1>1, SignatureOf DEF SupervisorDecides, NextCall, CallPossible
  <2>2. GlobalsMove /\ llmCalls' \in CallIds
    BY <2>1 DEF GlobalsMove, CallIds
  <2>3. PICK d \in Decisions : d = Decided(llmCalls', "answered")
    BY <2>2, DecidedIs
  <2>4. d.at = "answered" /\ d.call = llmCalls' /\ d.call <= llmCalls'
    BY <2>2, <2>3, DecidedIs DEF CallIds
  <2>5. Own(d, lastSig', lastCid')
    BY <2>1, <2>4 DEF Own, OwnOrMixed, Hashed
  <2> QED
    BY <1>0, <2>1, <2>2, <2>3, <2>4, <2>5, BecomesKeeps
<1>2. CASE SupervisorKeeps(s)
  <2>1. /\ llmCalls' = llmCalls /\ ~LoopBlocked
        /\ lastSig' \in {0, lastSig} /\ lastCid' = lastCid
        /\ Becomes(s, Decided(0, "stashed"))
        /\ UNCHANGED <<session, planCall, logged>>
    BY <1>2, SignatureOf DEF SupervisorKeeps
  <2>2. GlobalsMove /\ 0 \in CallIds
    BY <2>1 DEF GlobalsMove, CallIds
  <2>3. PICK d \in Decisions : d = Decided(0, "stashed")
    BY <2>2, DecidedIs
  <2>4. d.at = "stashed" /\ d.call = 0 /\ d.call <= llmCalls'
    BY <2>1, <2>2, <2>3, DecidedIs
  <2>5. Own(d, lastSig', lastCid')
    BY <2>4 DEF Own, Hashed
  <2> QED
    BY <1>0, <2>1, <2>2, <2>3, <2>4, <2>5, BecomesKeeps
<1>3. CASE SupervisorStashes(s)
  <2>1. /\ decision[s].at = "answered" /\ lastCid' \in {0, decision[s].call}
        /\ Becomes(s, [decision[s] EXCEPT !.at = "stashed"])
        /\ UNCHANGED <<llmCalls, lastSig, session, planCall, logged>>
    BY <1>3 DEF SupervisorStashes, Uploads
  <2>2. GlobalsMove
    BY <2>1 DEF GlobalsMove, CallIds
  <2>3. PICK d \in Decisions : d = [decision[s] EXCEPT !.at = "stashed"]
    BY DEF Decisions
  <2>4. /\ d.at = "stashed" /\ d.call = decision[s].call /\ d.mixed = decision[s].mixed
        /\ d.call <= llmCalls'
    BY <2>1, <2>3 DEF Decisions
  <2>5. decision[s].call # 0 => lastSig \in OwnOrMixed(decision[s])
    BY <2>1 DEF DecisionInv, DecisionOwn, Own, Between
  <2>6. Own(d, lastSig', lastCid')
    BY <2>1, <2>4, <2>5 DEF Own, OwnOrMixed, Hashed
  <2>7. \A t \in Sessions : t # s => decision[t].at \notin Between
    BY <2>1 DEF DecisionInv, OneBetween, Between
  <2> QED
    BY <2>1, <2>2, <2>3, <2>4, <2>6, <2>7, BecomesKeeps
<1>4. CASE DecisionHashed(s)
  <2>1. /\ decision[s].at = "stashed"
        /\ decision' = [decision EXCEPT ![s] = [decision[s] EXCEPT !.cid = lastCid,
                                                !.sig = lastSig, !.at = "sending"]]
        /\ UNCHANGED <<llmCalls, lastSig, lastCid, session, planCall, logged>>
    BY <1>4 DEF DecisionHashed
  <2>2. lastCid \in CallIds /\ lastSig \in CallIds
    BY DEF DecisionInv, DecisionTypeOK
  <2>3. PICK d \in Decisions : d = [decision[s] EXCEPT !.cid = lastCid, !.sig = lastSig,
                                                       !.at = "sending"]
    BY <2>2 DEF Decisions
  <2>4. /\ d.at = "sending" /\ d.call = decision[s].call /\ d.mixed = decision[s].mixed
        /\ d.cid = lastCid /\ d.sig = lastSig
    BY <2>3 DEF Decisions
  <2>5. decision[s].call # 0
        => lastSig \in OwnOrMixed(decision[s]) /\ lastCid \in OwnOrMixed(decision[s])
    BY <2>1 DEF DecisionInv, DecisionOwn, Own, Between
  <2>6. Own(d, lastSig, lastCid) /\ d.at \notin Between
    BY <2>4, <2>5 DEF Own, OwnOrMixed, Between
  <2>7. logged' = logged /\ HashedAsDecided'
    BY <2>1 DEF DecisionInv, HashedAsDecided, OwnReasoningHashed, ReportedAsHashed
  <2> QED
    BY <2>1, <2>3, <2>4, <2>6, <2>7, OneDecisionKeeps DEF DecisionInv, DecisionTypeOK
<1>5. CASE DecisionSent(s)
  <2>1. /\ decision[s].at = "sending"
        /\ decision' = [decision EXCEPT ![s] = [decision[s] EXCEPT !.at = "reporting"]]
        /\ UNCHANGED <<llmCalls, lastSig, lastCid, session, planCall, logged>>
    BY <1>5 DEF DecisionSent
  <2>2. PICK d \in Decisions : d = [decision[s] EXCEPT !.at = "reporting"]
    BY DEF Decisions
  <2>3. /\ d.at = "reporting" /\ d.call = decision[s].call /\ d.mixed = decision[s].mixed
        /\ d.cid = decision[s].cid /\ d.sig = decision[s].sig /\ d.crossed = decision[s].crossed
    BY <2>2 DEF Decisions
  <2>4. Own(decision[s], lastSig, lastCid)
    BY DEF DecisionInv, DecisionOwn
  <2>5. Own(d, lastSig, lastCid) /\ d.at \notin Between
    BY <2>1, <2>3, <2>4 DEF Own, OwnOrMixed, Hashed, Between
  <2>6. logged' = logged /\ HashedAsDecided'
    BY <2>1 DEF DecisionInv, HashedAsDecided, OwnReasoningHashed, ReportedAsHashed
  <2> QED
    BY <2>1, <2>2, <2>3, <2>5, <2>6, OneDecisionKeeps DEF DecisionInv, DecisionTypeOK
<1>6. CASE DecisionReported(s)
  <2>1. /\ decision[s].at = "reporting" /\ logged' = DecisionRow(decision[s], lastCid)
        /\ decision' = [decision EXCEPT ![s] = NoDecision]
        /\ UNCHANGED <<llmCalls, lastSig, lastCid, session, planCall>>
    BY <1>6 DEF DecisionReported
  <2>2. decision[s] \in Decisions /\ lastCid \in CallIds /\ 0 \in CallIds
    BY DEF DecisionInv, DecisionTypeOK, CallIds
  <2>3. /\ logged' \in [call : CallIds, cid : CallIds, sig : CallIds, reported : CallIds,
                        mixed : SUBSET CallIds, crossed : BOOLEAN]
        /\ logged'.call = decision[s].call /\ logged'.cid = decision[s].cid
        /\ logged'.sig = decision[s].sig /\ logged'.reported = lastCid
        /\ logged'.mixed = decision[s].mixed /\ logged'.crossed = decision[s].crossed
    BY <2>1, <2>2 DEF DecisionRow, Decisions
  <2>4. PICK d \in Decisions : d = NoDecision
    BY <2>2 DEF NoDecision, Decisions
  <2>5. d.at = "none" /\ d.call <= llmCalls
    BY <2>2, <2>4 DEF NoDecision, CallIds
  <2>6. Own(d, lastSig, lastCid) /\ d.at \notin Between
    BY <2>5 DEF Own, Hashed, Between
  <2>7. Own(decision[s], lastSig, lastCid)
    BY DEF DecisionInv, DecisionOwn
  <2>8. HashedAsDecided'
    BY <2>1, <2>3, <2>7 DEF Own, OwnOrMixed, Hashed, HashedAsDecided, OwnReasoningHashed,
                            ReportedAsHashed
  <2> QED
    BY <2>1, <2>3, <2>4, <2>5, <2>6, <2>8, OneDecisionKeeps
<1> QED
  BY <1>1, <1>2, <1>3, <1>4, <1>5, <1>6 DEF SessionDecides

LEMMA DecisionStarts == DecisionInit => DecisionInv
<1> SUFFICES ASSUME DecisionInit PROVE DecisionInv
  OBVIOUS
<1>1. 0 \in CallIds /\ 0 <= 0
  BY DecisionAssumption DEF CallIds
<1>2. NoDecision \in Decisions /\ NoDecision.at = "none" /\ NoDecision.call = 0
  BY <1>1 DEF NoDecision, Decisions
<1>3. /\ NothingLogged \in [call : CallIds, cid : CallIds, sig : CallIds, reported : CallIds,
                            mixed : SUBSET CallIds, crossed : BOOLEAN]
      /\ NothingLogged.call = 0 /\ NothingLogged.reported = NothingLogged.cid
  BY <1>1 DEF NothingLogged
<1>4. /\ llmCalls = 0 /\ lastSig = 0 /\ lastCid = 0 /\ logged = NothingLogged
      /\ session = [s \in Sessions |-> "idle"] /\ planCall = [s \in Sessions |-> 0]
      /\ decision = [s \in Sessions |-> NoDecision]
  BY DEF DecisionInit
<1>5. DecisionTypeOK
  BY <1>1, <1>2, <1>3, <1>4 DEF DecisionTypeOK, PlanSteps
<1>6. CallsMade
  BY <1>1, <1>2, <1>4 DEF CallsMade
<1>7. OneBetween /\ DecisionOwn
  BY <1>2, <1>4 DEF OneBetween, DecisionOwn, Own, Between, Hashed
<1>8. HashedAsDecided
  BY <1>3, <1>4 DEF HashedAsDecided, OwnReasoningHashed, ReportedAsHashed
<1> QED
  BY <1>5, <1>6, <1>7, <1>8 DEF DecisionInv

LEMMA DecisionStep == DecisionInv /\ [DecisionNext]_decisionVars => DecisionInv'
<1> SUFFICES ASSUME DecisionInv, [DecisionNext]_decisionVars PROVE DecisionInv'
  OBVIOUS
<1>1. ASSUME NEW s \in Sessions, StartPlans(s) \/ SessionStops(s) PROVE DecisionInv'
  <2>1. /\ session' \in [Sessions -> PlanSteps]
        /\ UNCHANGED <<llmCalls, lastSig, lastCid, planCall, decision, logged>>
    BY <1>1, DecisionNumbers DEF StartPlans, SessionStops, PlanSteps
  <2>2. DecisionTypeOK'
    BY <2>1 DEF DecisionInv, DecisionTypeOK
  <2> QED
    BY <2>1, <2>2 DEF DecisionInv, CallsMade, OneBetween, DecisionOwn, HashedAsDecided,
                      OwnReasoningHashed, ReportedAsHashed
<1>2. CASE UNCHANGED decisionVars
  BY <1>2 DEF decisionVars, DecisionInv, DecisionTypeOK, CallsMade, OneBetween, DecisionOwn,
              HashedAsDecided, OwnReasoningHashed, ReportedAsHashed
<1>3. ASSUME NEW p \in Askable, NEW e \in BOOLEAN, PlanRequested(p, e) \/ PlanRequestFails(p, e)
      PROVE  DecisionInv'
  BY <1>3, RequestIsAnotherCall, AnotherCallKeeps
<1>4. ASSUME NEW s \in Sessions, SessionPlans(s) PROVE DecisionInv'
  BY <1>1, <1>4, PlanningIsAnotherCall, AnotherCallKeeps DEF SessionPlans
<1> QED
  BY <1>2, <1>3, <1>4, SupervisorKeepsLog DEF DecisionNext

\* What a decision has until its hash and after it, whatever requests, loops and planning
\* threads write the two globals of app/llm/llm_planner.py meanwhile.
THEOREM DecisionInvariant == DecisionSpec => []DecisionInv
BY DecisionStarts, DecisionStep, PTL DEF DecisionSpec

\* HashedAsDecided: a decision is hashed with its own reasoning and signature, with none, or
\* with those of a planning thread that wrote in between, and the pointer reported later is
\* the one hashed unless another call ran (onchain_logger.py:65).
THEOREM DecisionsOwnHash == DecisionSpec => []HashedAsDecided
<1>1. DecisionInv => HashedAsDecided
  BY DEF DecisionInv
<1> QED
  BY <1>1, DecisionInvariant, PTL
-----------------------------------------------------------------------------
(* The data a trading engine keeps between sessions (SessionData)          *)

\* Before a first session nothing was kept.
NoSessionYet ==
  sessions = 0 =>
    /\ ~trades /\ past = <<>> /\ candlesOf = NoToken /\ held = NoToken
    /\ tick = 0 /\ refreshedAt = 0 /\ due = 0

\* In the first session the ticks are counted from the refresh on, so that those that reached
\* the refresh since are fewer than would make it due.
FirstSessionTimed ==
  sessions = 1 =>
    /\ refreshedAt <= tick /\ due <= tick - refreshedAt /\ tick - refreshedAt >= 0
    /\ due < RefreshTicks

SessionInv ==
  /\ SessionTypeOK /\ sessions \in Nat /\ due <= tick
  /\ trades => token \in Tokens
  /\ ~trades /\ held # NoToken => kept
  /\ NoSessionYet /\ FirstSessionTimed
  /\ SessionSafe

LEMMA SessionNumbers ==
  ASSUME SessionInv
  PROVE  /\ tick \in Nat /\ due \in Nat /\ refreshedAt \in Nat /\ sessions \in Nat
         /\ MaxTick \in Nat /\ RefreshTicks \in Nat /\ RefreshTicks >= 1 /\ due <= tick
         /\ tick <= MaxTick /\ refreshedAt <= MaxTick
         /\ NoToken \notin Tokens
BY SessionAssumption DEF SessionInv, SessionTypeOK

\* The history stays within its length, and gains no entry but the new one.
LEMMA PushedKeeps ==
  ASSUME NEW s \in Seq(Tokens), Len(s) <= HistoryLen, NEW x \in Tokens
  PROVE  /\ Pushed(s, x) \in Seq(Tokens) /\ Len(Pushed(s, x)) <= HistoryLen
         /\ (\A i \in DOMAIN s : s[i] = x) =>
              \A i \in DOMAIN Pushed(s, x) : Pushed(s, x)[i] = x
<1>1. HistoryLen \in Nat \ {0}
  BY SessionAssumption
<1>2. CASE Len(s) < HistoryLen
  <2>1. Pushed(s, x) = Append(s, x)
    BY <1>2 DEF Pushed
  <2>2. /\ Append(s, x) \in Seq(Tokens) /\ Len(Append(s, x)) = Len(s) + 1
        /\ \A i \in DOMAIN Append(s, x) : i = Len(s) + 1 \/ i \in DOMAIN s
        /\ \A i \in DOMAIN s : Append(s, x)[i] = s[i]
        /\ Append(s, x)[Len(s) + 1] = x
    OBVIOUS
  <2> QED
    BY <1>1, <1>2, <2>1, <2>2
<1>3. CASE ~(Len(s) < HistoryLen)
  <2>1. Pushed(s, x) = Append(Tail(s), x) /\ Len(s) = HistoryLen /\ s # <<>>
    BY <1>1, <1>3 DEF Pushed
  <2>2. /\ Tail(s) \in Seq(Tokens) /\ Len(Tail(s)) = HistoryLen - 1
        /\ \A i \in DOMAIN Tail(s) : i + 1 \in DOMAIN s /\ Tail(s)[i] = s[i + 1]
    BY <1>1, <2>1
  <2> DEFINE u == Tail(s)
  <2>3. /\ Append(u, x) \in Seq(Tokens) /\ Len(Append(u, x)) = HistoryLen
        /\ \A i \in DOMAIN Append(u, x) : i = Len(u) + 1 \/ i \in DOMAIN u
        /\ \A i \in DOMAIN u : Append(u, x)[i] = u[i]
        /\ Append(u, x)[Len(u) + 1] = x
    BY <1>1, <2>2
  <2> QED
    BY <1>1, <2>1, <2>2, <2>3
<1> QED
  BY <1>2, <1>3

\* A start pushes one price of its symbol and tries to fetch its candles.
LEMMA StartKeepsSession ==
  ASSUME SessionInv, NEW t \in Tokens, SessionFails(t) \/ SessionStarts(t)
  PROVE  SessionInv'
<1> USE SessionNumbers
<1>1. /\ past \in Seq(Tokens) /\ Len(past) <= HistoryLen
      /\ candlesOf \in Tokens \cup {NoToken} /\ held \in Tokens \cup {NoToken}
      /\ kept \in BOOLEAN /\ ~trades /\ sessions' = sessions + 1 /\ token' = t
      /\ (held # NoToken => kept)
  BY DEF SessionInv, SessionTypeOK, SessionFails, SessionStarts
<1>2. sessions' \in Nat /\ sessions' # 0 /\ (sessions' = 1 => sessions = 0)
  BY <1>1
<1>3. CASE SessionFails(t)
  <2>1. UNCHANGED <<trades, past, candlesOf, tick, refreshedAt, held, due, kept>>
    BY <1>3 DEF SessionFails
  <2>2. SessionTypeOK'
    BY <1>1, <2>1 DEF SessionInv, SessionTypeOK
  <2>3. FirstSessionTimed' /\ NoSessionYet'
    BY <1>2, <2>1 DEF SessionInv, NoSessionYet, FirstSessionTimed
  <2>4. SessionSafe'
    BY <1>1, <1>2, <2>1 DEF SessionInv, NoSessionYet, SessionSafe, ForeignPositionWasKept,
                            FirstSessionClean
  <2> QED
    BY <1>1, <1>2, <2>1, <2>2, <2>3, <2>4 DEF SessionInv
<1>4. CASE SessionStarts(t)
  <2>1. /\ trades' = TRUE /\ tick' = 0 /\ due' = 0 /\ past' = Pushed(past, t)
        /\ candlesOf' \in {t, candlesOf}
        /\ UNCHANGED <<refreshedAt, held, kept>>
    BY <1>1, <1>4 DEF SessionStarts, RefreshCandles
  <2>2. SessionTypeOK'
    BY <1>1, <2>1, PushedKeeps DEF SessionInv, SessionTypeOK
  <2>3. FirstSessionTimed' /\ NoSessionYet'
    BY <1>2, <2>1 DEF SessionInv, NoSessionYet, FirstSessionTimed
  <2>4. ASSUME sessions' = 1
        PROVE  /\ candlesOf' \in {NoToken, token'}
               /\ \A i \in DOMAIN past' : past'[i] = token'
    <3>1. past = <<>> /\ candlesOf = NoToken
      BY <1>2, <2>4 DEF SessionInv, NoSessionYet
    <3>2. \A i \in DOMAIN past : past[i] = t
      BY <3>1
    <3> QED
      BY <1>1, <2>1, <3>1, <3>2, PushedKeeps
  <2>5. SessionSafe'
    BY <1>1, <2>1, <2>4 DEF SessionSafe, ForeignPositionWasKept, FirstSessionClean
  <2> QED
    BY <1>1, <1>2, <2>1, <2>2, <2>3, <2>5 DEF SessionInv
<1> QED
  BY <1>3, <1>4

\* A tick pushes a price of the session's symbol, or none; only one that reaches the refresh
\* counts towards it.
LEMMA TickKeepsSession ==
  ASSUME SessionInv, SessionPriceless \/ SessionTickCloses \/ SessionTick
  PROVE  SessionInv'
<1> USE SessionNumbers
<1>1. /\ past \in Seq(Tokens) /\ Len(past) <= HistoryLen /\ token \in Tokens
      /\ candlesOf \in Tokens \cup {NoToken} /\ held \in Tokens \cup {NoToken}
      /\ kept \in BOOLEAN /\ trades /\ trades' /\ trades' \in BOOLEAN
      /\ tick < MaxTick /\ tick' = tick + 1
      /\ token' = token /\ sessions' = sessions /\ sessions # 0
  BY DEF SessionInv, SessionTypeOK, NoSessionYet, SessionPriceless, SessionTickCloses, SessionTick
<1>2. /\ past' \in Seq(Tokens) /\ Len(past') <= HistoryLen
      /\ (\A i \in DOMAIN past : past[i] = token) => \A i \in DOMAIN past' : past'[i] = token
  BY <1>1, PushedKeeps DEF SessionPriceless, SessionTickCloses, SessionTick
<1>3. \/ UNCHANGED <<candlesOf, refreshedAt>> /\ due' = due
      \/ /\ UNCHANGED <<candlesOf, refreshedAt>> /\ due' = due + 1
         /\ tick' - refreshedAt < RefreshTicks
      \/ candlesOf' \in {token, candlesOf} /\ refreshedAt' = tick' /\ due' = 0
  BY <1>1 DEF SessionPriceless, SessionTickCloses, SessionTick, RefreshIfDue, RefreshCandles
<1>4. /\ candlesOf' \in {token, candlesOf} /\ refreshedAt' \in 0 .. MaxTick
      /\ due' \in 0 .. MaxTick /\ due' <= tick' /\ tick' \in 0 .. MaxTick
  BY <1>1, <1>3
<1>5. \/ held' = held /\ kept' = kept
      \/ held' = NoToken /\ kept' \in BOOLEAN
      \/ held' = token /\ kept' = kept
  BY <1>1 DEF SessionPriceless, SessionTickCloses, SessionTick
<1>6. SessionTypeOK'
  BY <1>1, <1>2, <1>4, <1>5 DEF SessionTypeOK
<1>7. FirstSessionTimed'
  BY <1>1, <1>3 DEF SessionInv, FirstSessionTimed
<1>8. FirstSessionClean'
  <2> SUFFICES ASSUME sessions = 1
               PROVE  /\ due' < RefreshTicks /\ candlesOf' \in {NoToken, token'}
                      /\ \A i \in DOMAIN past' : past'[i] = token'
    BY <1>1 DEF FirstSessionClean
  <2>1. candlesOf \in {NoToken, token} /\ \A i \in DOMAIN past : past[i] = token
    BY DEF SessionInv, SessionSafe, FirstSessionClean
  <2>2. due' < RefreshTicks
    BY <1>1, <1>7 DEF FirstSessionTimed
  <2> QED
    BY <1>1, <1>2, <1>4, <2>1, <2>2
<1>9. ForeignPositionWasKept'
  BY <1>1, <1>5 DEF SessionInv, SessionSafe, ForeignPositionWasKept
<1> QED
  BY <1>1, <1>4, <1>6, <1>7, <1>8, <1>9 DEF SessionInv, NoSessionYet, SessionSafe

\* A stop either leaves no position or marks the one it leaves.
LEMMA EndKeepsSession ==
  ASSUME SessionInv, NEW close \in BOOLEAN, SessionEnds(close) PROVE SessionInv'
<1>1. /\ trades' = FALSE /\ kept' \in BOOLEAN /\ held' \in {NoToken, held}
      /\ (held' # NoToken => kept')
      /\ UNCHANGED <<token, past, candlesOf, tick, refreshedAt, sessions, due>>
  BY DEF SessionEnds
<1>2. SessionTypeOK'
  BY <1>1 DEF SessionInv, SessionTypeOK
<1>3. NoSessionYet' /\ FirstSessionTimed'
  BY <1>1 DEF SessionInv, NoSessionYet, FirstSessionTimed
<1>4. SessionSafe'
  BY <1>1 DEF SessionInv, SessionSafe, ForeignPositionWasKept, FirstSessionClean
<1> QED
  BY <1>1, <1>2, <1>3, <1>4 DEF SessionInv

LEMMA SessionStep == SessionInv /\ [SessionNext]_sessionVars => SessionInv'
<1> SUFFICES ASSUME SessionInv, [SessionNext]_sessionVars PROVE SessionInv'
  OBVIOUS
<1>1. CASE UNCHANGED sessionVars
  BY <1>1 DEF sessionVars, SessionInv, SessionTypeOK, NoSessionYet, FirstSessionTimed, SessionSafe,
              ForeignPositionWasKept, FirstSessionClean
<1> QED
  BY <1>1, StartKeepsSession, TickKeepsSession, EndKeepsSession DEF SessionNext

LEMMA SessionInitially == SessionInit => SessionInv
<1> SUFFICES ASSUME SessionInit PROVE SessionInv
  OBVIOUS
<1>1. /\ 0 \in 0 .. MaxTick /\ 0 <= 0 /\ 0 \in Nat /\ RefreshTicks > 0 /\ 0 # 1
      /\ HistoryLen \in Nat
  BY SessionAssumption
<1>2. /\ trades = FALSE /\ token = NoToken /\ past = <<>> /\ candlesOf = NoToken
      /\ tick = 0 /\ refreshedAt = 0 /\ held = NoToken
      /\ sessions = 0 /\ due = 0 /\ kept = FALSE
  BY DEF SessionInit
<1>3. past \in Seq(Tokens) /\ Len(past) = 0 /\ Len(past) <= HistoryLen
  BY <1>1, <1>2
<1>4. SessionTypeOK
  <2>1. trades \in BOOLEAN /\ kept \in BOOLEAN /\ token \in Tokens \cup {NoToken}
    BY <1>2
  <2>2. /\ candlesOf \in Tokens \cup {NoToken} /\ held \in Tokens \cup {NoToken}
        /\ tick \in 0 .. MaxTick /\ refreshedAt \in 0 .. MaxTick /\ due \in 0 .. MaxTick
    BY <1>1, <1>2
  <2> QED
    BY <1>3, <2>1, <2>2 DEF SessionTypeOK
<1>5. NoSessionYet /\ FirstSessionTimed /\ SessionSafe
  BY <1>1, <1>2 DEF NoSessionYet, FirstSessionTimed, SessionSafe, ForeignPositionWasKept,
                    FirstSessionClean
<1> QED
  BY <1>1, <1>2, <1>4, <1>5 DEF SessionInv

\* What a trading engine keeps from one session to the next, with the counting of the ticks of
\* the first one that bounds how stale its candles get.
THEOREM SessionInvariant == SessionSpec => []SessionInv
BY SessionInitially, SessionStep, PTL DEF SessionSpec

\* SessionSafe: what start() of app/engine.py finds of the session before it is a position the
\* stop left open on purpose, and in the first session of a process all data is of its symbol.
THEOREM SessionsClean == SessionSpec => []SessionSafe
<1>1. SessionInv => SessionSafe
  BY DEF SessionInv
<1> QED
  BY <1>1, SessionInvariant, PTL
=============================================================================
