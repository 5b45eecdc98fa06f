---------------------------- MODULE CandleCache ----------------------------
(***************************************************************************)
(* The hub's cache of candles (hub/market/cache.py), filled by requests    *)
(* and by the refresh job, and the path of an agent to its candles: the    *)
(* hub, else TwelveData (app/market/market.py).  The candles of a pair are *)
(* the time TwelveData answered with them.                                 *)
(***************************************************************************)
EXTENDS Integers, FiniteSets

CONSTANTS
  Pairs,         \* (symbol, interval)
  CandleCalls,   \* request slots of the hub
  Staleness,     \* CANDLE_STALENESS_SECONDS, in ticks of the fetch timeout
  MaxCandleClock, MaxCandleRows

ASSUME CandleAssumption ==
  /\ Staleness \in Nat \ {0} /\ MaxCandleClock \in Nat /\ MaxCandleRows \in Nat \ {0}
  /\ "none" \notin Pairs

VARIABLES
  candleClock,
  tracked,     \* pairs asked for since the hub came up
  candleRows,  \* market_cache, rows by id
  candleCall,  \* requests under way
  job,         \* refresh_all_tracked, one at a time
  raced        \* history: pairs with two first fetches that overlapped

candleVars == <<candleClock, tracked, candleRows, candleCall, job, raced>>

CandleRowIds == 1..MaxCandleRows
CandleTime == 0..MaxCandleClock
NoCandles == -1                      \* TwelveData answered without any
NoPair == "none"
NoCandleRow == [pair |-> NoPair, at |-> NoCandles, stamp |-> 0]
CandleRow == [pair : Pairs \cup {NoPair}, at : {NoCandles} \cup CandleTime, stamp : CandleTime]
Waiting == [pair |-> NoPair, row |-> 0, now |-> 0]
NoJob == [left |-> {}, pair |-> NoPair, since |-> 0, row |-> -1, at |-> NoCandles]

CandleTypeOK ==
  /\ candleClock \in CandleTime
  /\ tracked \subseteq Pairs /\ raced \subseteq Pairs
  /\ candleRows \in [CandleRowIds -> CandleRow]
  /\ candleCall \in [CandleCalls -> [pair : Pairs \cup {NoPair}, row : {0} \cup CandleRowIds, now : CandleTime]]
  /\ job \in [left : SUBSET Pairs, pair : Pairs \cup {NoPair}, since : CandleTime,
              row : {-1, 0} \cup CandleRowIds, at : {NoCandles} \cup CandleTime]

CandleInit ==
  /\ candleClock = 0
  /\ tracked = {} /\ raced = {}
  /\ candleRows = [i \in CandleRowIds |-> NoCandleRow]
  /\ candleCall = [c \in CandleCalls |-> Waiting]
  /\ job = NoJob

CandleRowsOf(p) == {i \in CandleRowIds : candleRows[i].pair = p}
RowsFull == \A i \in CandleRowIds : candleRows[i].pair # NoPair
FreshRow(i) == candleClock - candleRows[i].stamp < Staleness

\* A row is updated or, without one, inserted.
Stored(i, p, at, stamp) ==
  [candleRows EXCEPT ![IF i # 0 THEN i
                       ELSE CHOOSE j \in CandleRowIds : candleRows[j].pair = NoPair] =
     [pair |-> p, at |-> at, stamp |-> stamp]]

\* Time passes, but a fetch has answered or failed within its timeout of one tick.
FetchOverdue == \/ \E c \in CandleCalls : candleCall[c].pair # NoPair /\ candleClock - candleCall[c].now >= 1
                \/ job.pair # NoPair /\ (job.row # -1 \/ candleClock - job.since >= 1)
CandleTick ==
  /\ candleClock < MaxCandleClock /\ ~FetchOverdue
  /\ candleClock' = candleClock + 1
  /\ UNCHANGED <<tracked, candleRows, candleCall, job, raced>>

(***************************************************************************)
(* GET /market/candles: get_or_fetch.                                      *)
(***************************************************************************)
\* Two rows of a pair raise an error, a fresh row is the answer, else a fetch.
CandlesAsked(c, p) ==
  LET found == CandleRowsOf(p)
      row == IF found = {} THEN 0 ELSE CHOOSE i \in found : TRUE IN
  /\ candleCall[c].pair = NoPair
  /\ tracked' = tracked \cup {p}
  /\ IF Cardinality(found) > 1 \/ (row # 0 /\ FreshRow(row))
     THEN UNCHANGED <<candleCall, raced>>
     ELSE /\ candleCall' = [candleCall EXCEPT ![c] = [pair |-> p, row |-> row, now |-> candleClock]]
          /\ raced' = IF row = 0 /\ (job.pair = p \/ \E d \in CandleCalls : candleCall[d].pair = p)
                      THEN raced \cup {p} ELSE raced
  /\ UNCHANGED <<candleClock, candleRows, job>>

\* The old candles, if any, are served as stale, and the row is left alone.
CandleFetchFails(c) ==
  LET call == candleCall[c] IN
  /\ call.pair # NoPair
  /\ candleCall' = [candleCall EXCEPT ![c] = Waiting]
  /\ UNCHANGED <<candleClock, tracked, candleRows, job, raced>>

MutFetchInserts(c, at) ==
  LET call == candleCall[c] IN
  /\ call.pair # NoPair /\ ~RowsFull
  /\ candleRows' = Stored(0, call.pair, at, call.now)
  /\ candleCall' = [candleCall EXCEPT ![c] = Waiting]
  /\ UNCHANGED <<candleClock, tracked, job, raced>>
\* The stamp is the time before the fetch; no constraint keeps a second row out.
CandlesFetched(c, at) ==
  LET call == candleCall[c] IN
  /\ call.pair # NoPair /\ (call.row # 0 \/ ~RowsFull)
  /\ at \in {NoCandles, candleClock}
  /\ candleRows' = Stored(call.row, call.pair, at, call.now)
  /\ candleCall' = [candleCall EXCEPT ![c] = Waiting]
  /\ UNCHANGED <<candleClock, tracked, job, raced>>

(***************************************************************************)
(* The refresh job, every CANDLE_STALENESS_SECONDS.                        *)
(***************************************************************************)
JobStarts ==
  /\ job = NoJob /\ tracked # {}
  /\ job' = [job EXCEPT !.left = tracked]
  /\ UNCHANGED <<candleClock, tracked, candleRows, candleCall, raced>>

JobTakes(p) ==
  /\ job.pair = NoPair /\ p \in job.left
  /\ job' = [NoJob EXCEPT !.left = job.left \ {p}, !.pair = p, !.since = candleClock]
  /\ raced' = IF CandleRowsOf(p) = {} /\ \E d \in CandleCalls : candleCall[d].pair = p
              THEN raced \cup {p} ELSE raced
  /\ UNCHANGED <<candleClock, tracked, candleRows, candleCall>>

NextPair == IF job.left = {} THEN NoJob ELSE [NoJob EXCEPT !.left = job.left]

JobFetchFails ==
  /\ job.pair # NoPair /\ job.row = -1
  /\ job' = NextPair
  /\ UNCHANGED <<candleClock, tracked, candleRows, candleCall, raced>>

\* The row is looked up after the fetch.  Two rows of a pair end the job, and with
\* it the pairs it has not come to.
JobLooks(at) ==
  LET found == CandleRowsOf(job.pair) IN
  /\ job.pair # NoPair /\ job.row = -1
  /\ at \in {NoCandles, candleClock}
  /\ job' = IF Cardinality(found) > 1 THEN NoJob
            ELSE [job EXCEPT !.at = at, !.row = IF found = {} THEN 0 ELSE CHOOSE i \in found : TRUE]
  /\ UNCHANGED <<candleClock, tracked, candleRows, candleCall, raced>>

\* The stamp is the time after the fetch.
JobCommits ==
  /\ job.row # -1 /\ (job.row # 0 \/ ~RowsFull)
  /\ candleRows' = Stored(job.row, job.pair, job.at, candleClock)
  /\ job' = NextPair
  /\ UNCHANGED <<candleClock, tracked, candleCall, raced>>

CandleNext ==
  \/ CandleTick \/ JobStarts \/ JobFetchFails \/ JobCommits
  \/ \E p \in Pairs : JobTakes(p)
  \/ \E at \in {NoCandles} \cup CandleTime : JobLooks(at)
  \/ \E c \in CandleCalls :
       \/ \E p \in Pairs : CandlesAsked(c, p)
       \/ CandleFetchFails(c)
       \/ \E at \in {NoCandles} \cup CandleTime : CandlesFetched(c, at)

CandleSpec == CandleInit /\ [][CandleNext]_candleVars

(***************************************************************************)
(* Properties.                                                             *)
(***************************************************************************)
\* Candles served as fresh are from the last Staleness ticks and one fetch: a
\* failed fetch never makes old candles look new.
FreshMeansRecent ==
  \A i \in CandleRowIds : candleRows[i].at # NoCandles => candleRows[i].stamp <= candleRows[i].at + 1

\* Two rows of a pair, with which it answers nothing but errors for good, come
\* only of two first fetches that overlapped.
DoubleRowOnlyByOverlap == \A p \in Pairs : Cardinality(CandleRowsOf(p)) > 1 => p \in raced

\* What get_or_fetch (market/cache.py:19) and the refresh job (market/cache.py:69) may
\* make of each other's rows.
CandlesSound == FreshMeansRecent /\ DoubleRowOnlyByOverlap
=============================================================================
