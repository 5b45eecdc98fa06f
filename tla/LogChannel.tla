---------------------------- MODULE LogChannel ----------------------------
(***************************************************************************)
(* The log lines of an agent, from the engine to a browser: the buffer of  *)
(* hub_callback.py, flushed by the trading loop every tenth tick, /logs of *)
(* push_router.py, the table, and the socket that polls the table          *)
(* (logs/ws.py).  A line is its number, and so its timestamp: lines are    *)
(* emitted one after the other.                                            *)
(***************************************************************************)
EXTENDS Naturals, FiniteSets, Sequences, Functions

CONSTANTS
  MaxLines,    \* bound on the lines emitted
  PollLimit,   \* LIMIT of a poll of the socket
  MaxCopies    \* bound on the copies of a line in the table

ASSUME LogAssumption == MaxLines \in Nat /\ PollLimit \in Nat \ {0} /\ MaxCopies \in Nat \ {0}

VARIABLES
  emitted,  \* number of the last line
  buffer,   \* _log_buffer
  looping,  \* the trading loop runs
  batch,    \* the batch a flush of the loop waits for an answer to
  atServer, \* batches the server has read and not yet stored
  copies,   \* log_entries: rows of each line
  socket,   \* the stream: open, the lines emitted before it, last_ts
  shown,    \* the lines the stream has sent
  given,    \* history: lines of a flush that was refused, or in a process that ended
  resent,   \* history: lines put back into the buffer by a flush that failed
  late      \* history: lines first stored when a later one was in the table

logVars == <<emitted, buffer, looping, batch, atServer, copies, socket, shown, given, resent, late>>

Lines == 1..MaxLines
Closed == [open |-> FALSE, since |-> 0, lastTs |-> 0]
InSeq(s) == {s[i] : i \in 1..Len(s)}

LogTypeOK ==
  /\ emitted \in 0..MaxLines
  /\ buffer \in Seq(Lines) /\ batch \in Seq(Lines)
  /\ IsInjective(buffer \o batch)
  /\ looping \in BOOLEAN
  /\ atServer \subseteq SUBSET Lines
  /\ copies \in [Lines -> 0..MaxCopies]
  /\ socket \in [open : BOOLEAN, since : 0..MaxLines, lastTs : 0..MaxLines]
  /\ shown \in Seq(Lines)
  /\ given \subseteq Lines /\ resent \subseteq Lines /\ late \subseteq Lines

LogInit ==
  /\ emitted = 0 /\ buffer = <<>> /\ looping = FALSE /\ batch = <<>>
  /\ atServer = {}
  /\ copies = [n \in Lines |-> 0]
  /\ socket = Closed /\ shown = <<>>
  /\ given = {} /\ resent = {} /\ late = {}

tableVars == <<copies, late>>
streamVars == <<socket, shown>>

-----------------------------------------------------------------------------
(* The agent                                                               *)

BufferLog(n) == buffer' = Append(buffer, n)

Emit ==
  /\ emitted < MaxLines
  /\ emitted' = emitted + 1
  /\ BufferLog(emitted')
  /\ UNCHANGED <<looping, batch, atServer, tableVars, streamVars, given, resent>>

LoopStarts ==
  /\ ~looping
  /\ looping' = TRUE
  /\ UNCHANGED <<emitted, buffer, batch, atServer, tableVars, streamVars, given, resent>>

\* flush_logs: the buffer is copied and cleared, then the loop awaits the answer.
FlushLogs ==
  /\ looping /\ batch = <<>> /\ buffer # <<>>
  /\ batch' = buffer /\ buffer' = <<>>
  /\ atServer' = atServer \cup {InSeq(buffer)}
  /\ UNCHANGED <<emitted, looping, tableVars, streamVars, given, resent>>

MutKeepsCopy ==
  /\ batch # <<>>
  /\ buffer' = buffer \o batch
  /\ atServer' \in {atServer, atServer \ {InSeq(batch)}}
  /\ resent' = resent \cup InSeq(batch)
  /\ UNCHANGED <<emitted, batch, looping, tableVars, streamVars, given>>
\* The connection fails or five seconds pass: the batch goes behind the lines emitted
\* since.  The server may have read it all the same.
FlushFailsOrTimesOut ==
  /\ batch # <<>>
  /\ buffer' = buffer \o batch /\ batch' = <<>>
  /\ atServer' \in {atServer, atServer \ {InSeq(batch)}}
  /\ resent' = resent \cup InSeq(batch)
  /\ UNCHANGED <<emitted, looping, tableVars, streamVars, given>>

\* 201 once the rows are stored.  Any other status is not looked at.
FlushAnswered ==
  /\ batch # <<>>
  /\ \/ InSeq(batch) \notin atServer /\ UNCHANGED <<atServer, given>>
     \/ /\ InSeq(batch) \in atServer
        /\ atServer' = atServer \ {InSeq(batch)}
        /\ given' = given \cup InSeq(batch)
  /\ batch' = <<>>
  /\ UNCHANGED <<emitted, buffer, looping, tableVars, streamVars, resent>>

\* stop() awaits the loop, whose tick awaits the flush.
LoopEnds ==
  /\ looping /\ batch = <<>>
  /\ looping' = FALSE
  /\ UNCHANGED <<emitted, buffer, batch, atServer, tableVars, streamVars, given, resent>>

AgentEnds ==
  /\ looping' = FALSE /\ batch' = <<>> /\ buffer' = <<>>
  /\ given' = given \cup InSeq(batch \o buffer)
  /\ UNCHANGED <<emitted, atServer, tableVars, streamVars, resent>>

-----------------------------------------------------------------------------
(* The user-server                                                         *)

\* push_logs: one commit, of rows with new ids.
Store(rows) ==
  /\ rows \in atServer
  /\ \A n \in rows : copies[n] < MaxCopies
  /\ atServer' = atServer \ {rows}
  /\ copies' = [n \in Lines |-> IF n \in rows THEN copies[n] + 1 ELSE copies[n]]
  /\ late' = late \cup {n \in rows : copies[n] = 0 /\ \E m \in Lines : m > n /\ copies[m] > 0}
  /\ UNCHANGED <<emitted, buffer, looping, batch, streamVars, given, resent>>

OpenStream ==
  /\ ~socket.open
  /\ socket' = [open |-> TRUE, since |-> emitted, lastTs |-> emitted]
  /\ shown' = <<>>
  /\ UNCHANGED <<emitted, buffer, looping, batch, atServer, tableVars, given, resent>>

CloseStream ==
  /\ socket.open
  /\ socket' = Closed /\ shown' = <<>>
  /\ UNCHANGED <<emitted, buffer, looping, batch, atServer, tableVars, given, resent>>

\* The rows after last_ts in the order of their timestamps.  One is left out only when the
\* page is full, and comes after those on it.
Times(rows, n) == Cardinality({i \in 1..Len(rows) : rows[i] = n})
InOrder(rows) == \A i, j \in 1..Len(rows) : i <= j => rows[i] <= rows[j]
NewRows ==
  {rows \in UNION {[1..k -> Lines] : k \in 1..PollLimit} :
     /\ InOrder(rows) /\ \A i \in 1..Len(rows) : rows[i] > socket.lastTs
     /\ \A n \in Lines : n > socket.lastTs =>
          \/ Times(rows, n) = copies[n]
          \/ Times(rows, n) < copies[n] /\ Len(rows) = PollLimit /\ rows[PollLimit] <= n}

MutPollJumpsToNow ==
  /\ socket.open
  /\ \E rows \in NewRows :
       /\ shown' = shown \o rows
       /\ socket' = [socket EXCEPT !.lastTs = emitted]
  /\ UNCHANGED <<emitted, buffer, looping, batch, atServer, tableVars, given, resent>>
Poll ==
  /\ socket.open
  /\ \E rows \in NewRows :
       /\ shown' = shown \o rows
       /\ socket' = [socket EXCEPT !.lastTs = rows[Len(rows)]]
  /\ UNCHANGED <<emitted, buffer, looping, batch, atServer, tableVars, given, resent>>

LogNext ==
  \/ Emit \/ LoopStarts \/ FlushLogs \/ FlushFailsOrTimesOut \/ FlushAnswered
  \/ LoopEnds \/ AgentEnds
  \/ \E rows \in atServer : Store(rows)
  \/ OpenStream \/ CloseStream \/ Poll

LogSpec == LogInit /\ [][LogNext]_logVars

-----------------------------------------------------------------------------
(* Properties                                                              *)

\* A line is in the agent's hands or in the table, whatever answers are lost, unless
\* the server refused it or the process ended with it.
LineKept ==
  \A n \in 1..emitted : n \in InSeq(buffer \o batch) \cup given \/ copies[n] > 0

\* A line is stored twice only if a flush of it was given up for lost.
StoredOnce == \A n \in Lines \ resent : copies[n] <= 1

\* The stream goes forward in time, and shows a line a second time only next to the
\* first, when both copies were stored between two polls.
StreamInOrder == \A i \in 1..(Len(shown) - 1) : shown[i] <= shown[i + 1]

\* A line that was emitted since the stream opened and is stored is shown or is still
\* to be polled: only lines that reach the table after later ones are passed over.
StreamComplete ==
  socket.open =>
    \A n \in (socket.since + 1)..emitted :
      copies[n] > 0 => n \in InSeq(shown) \cup late \/ n > socket.lastTs

\* A line's way from emit_log through flush_logs and the table to the stream
\* (app/hub_callback.py:109, logs/ws.py:30): none lost, doubled or out of
\* order but for the causes named.
LogSafe == LineKept /\ StoredOnce /\ StreamInOrder /\ StreamComplete
=============================================================================
