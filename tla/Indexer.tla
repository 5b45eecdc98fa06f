------------------------------ MODULE Indexer ------------------------------
(***************************************************************************)
(* The mirror of chain transactions on a user-server (indexer/writer.py)   *)
(* and the flush that pushes it to the hub every period and on a drain     *)
(* (flusher.py): the oldest rows of the week, each time from the start.    *)
(*                                                                         *)
(* Time is the wall clock's, counted in flush periods.  A row is stamped   *)
(* when the transaction that writes it begins and is seen when that        *)
(* commits: later in the same period as a rule, any time later when the VM *)
(* is paused in between.                                                   *)
(***************************************************************************)
EXTENDS Naturals, FiniteSets

CONSTANTS
  TxHashes,
  Window,       \* periods a row stays within reach of a flush: the week
  BatchSize,    \* rows a flush sends at most
  MaxIndexClock

ASSUME IndexerAssumption ==
  Window \in Nat /\ BatchSize \in Nat \ {0} /\ MaxIndexClock \in Nat

VARIABLES
  indexClock,
  indexed,   \* indexer_tx: hash and created_at; history: the period it was seen in
  sending,   \* the rows a flush is sending
  began,     \* the period in which it selected them
  atHub,     \* hashes the hub has acknowledged
  flushed    \* history: periods in which a flush began that was not to fail

indexerVars == <<indexClock, indexed, sending, began, atHub, flushed>>

IndexTime == 0..MaxIndexClock
IndexRow == [hash : TxHashes, at : IndexTime, seen : IndexTime]

IndexerTypeOK ==
  /\ indexClock \in IndexTime /\ began \in IndexTime
  /\ indexed \subseteq IndexRow
  /\ \A r, s \in indexed : r.hash = s.hash => r = s
  /\ sending \subseteq indexed
  /\ atHub \subseteq TxHashes
  /\ flushed \subseteq IndexTime

IndexerInit ==
  /\ indexClock = 0 /\ began = 0
  /\ indexed = {} /\ sending = {} /\ atHub = {}
  /\ flushed = {}

\* The job is an interval of a scheduler in memory (server.py:45): a period passes without a
\* flush when the VM is paused or restarted or the database raises, and a flush that was
\* waiting for the hub when the VM was paused ends in a later one.
PeriodEnds ==
  /\ indexClock < MaxIndexClock
  /\ indexClock' = indexClock + 1
  /\ UNCHANGED <<indexed, sending, began, atHub, flushed>>

\* ON CONFLICT DO NOTHING
Write(h, at) ==
  /\ at \in IndexTime /\ at <= indexClock
  /\ indexed' = IF \E r \in indexed : r.hash = h THEN indexed
                ELSE indexed \cup {[hash |-> h, at |-> at, seen |-> indexClock]}
  /\ UNCHANGED <<indexClock, sending, began, atHub, flushed>>

\* The rows of the window, oldest first, up to the size of a batch; rows of one
\* stamp come in any order.
InReach == {r \in indexed : r.at + Window >= indexClock}
MutNewestFirst ==
  {batch \in SUBSET InReach :
     /\ Cardinality(batch) = IF Cardinality(InReach) < BatchSize THEN Cardinality(InReach) ELSE BatchSize
     /\ \A r \in batch, s \in InReach \ batch : r.at >= s.at}
Oldest ==
  {batch \in SUBSET InReach :
     /\ Cardinality(batch) = IF Cardinality(InReach) < BatchSize THEN Cardinality(InReach) ELSE BatchSize
     /\ \A r \in batch, s \in InReach \ batch : r.at <= s.at}

\* A flush of the scheduler or of a drain.  Nothing to send: "empty".
FlushStarts ==
  /\ sending = {}
  /\ sending' \in Oldest
  /\ began' = indexClock
  /\ flushed' = IF sending' = {} THEN flushed \cup {indexClock} ELSE flushed
  /\ UNCHANGED <<indexClock, indexed, atHub>>

\* POST /internal/v1/indexer/flush: accepted, whatever has come before.
HubAccepts(rows) == atHub' = atHub \cup {r.hash : r \in rows}

FlushDone ==
  /\ sending # {}
  /\ HubAccepts(sending)
  /\ sending' = {}
  /\ flushed' = flushed \cup {began}
  /\ UNCHANGED <<indexClock, indexed, began>>

\* An error of the connection or of the hub, or a server that ends: the next flush starts over.
FlushFails ==
  /\ sending # {}
  /\ sending' = {}
  /\ UNCHANGED <<indexClock, indexed, began, atHub, flushed>>

IndexerNext ==
  \/ PeriodEnds \/ FlushStarts \/ FlushDone \/ FlushFails
  \/ \E h \in TxHashes, at \in IndexTime : Write(h, at)

IndexerSpec == IndexerInit /\ [][IndexerNext]_indexerVars

(***************************************************************************)
(* Properties.                                                             *)
(***************************************************************************)
\* What a flush of period q would send before r or with it.
Before(r, q) == {s \in indexed : s.seen <= q /\ q <= s.at + Window /\ s.at <= r.at}

\* The flush keeps no cursor and sends the same oldest rows again and again: a row is only
\* sure to be at the hub when some flush of a period that had it from the start went through
\* while no more rows than a batch holds, itself included, were within reach and no younger.
\* A row that ages out unpushed was crowded so, or missed, in every period of its window.
PushedUnlessCrowded ==
  \A r \in indexed, q \in flushed :
    r.seen < q /\ q <= r.at + Window /\ Cardinality(Before(r, q)) <= BatchSize => r.hash \in atHub
=============================================================================
