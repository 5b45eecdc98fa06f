--------------------------- MODULE AgentLifecycle ---------------------------
(***************************************************************************)
(* The agents of one user-server (user_server/agents/service.py) with the  *)
(* spawner's Docker containers, the in-process registry, the agents rows   *)
(* in Postgres and the status pushes of the running agents; /hub/drain and *)
(* /hub/halt are here as "halt".                                           *)
(*                                                                         *)
(* Each HTTP call is one transaction (READ COMMITTED): it works on the ORM *)
(* objects it loaded at its beginning, an UPDATE takes the row's lock, and *)
(* nothing it writes is visible to another call before its commit.  The    *)
(* registry and Docker are not transactional.  A container's name is       *)
(* derived from its agent, so an agent has at most one.                    *)
(***************************************************************************)
EXTENDS Naturals, FiniteSets

CONSTANTS
  Agents,     \* numbered in the order of their creation
  Calls,      \* concurrent calls of the hub
  NoCall,     \* nobody holds the row's lock
  MaxSpawns,  \* bound on the containers created
  MaxAgents,  \* settings.MAX_AGENTS
  MaxPushes,  \* bound on the status pushes under way at once
  MaxFaults   \* bound on Docker failures that go unnoticed, and on restarts

ASSUME AgentsAssumption ==
  /\ Agents \subseteq Nat /\ IsFiniteSet(Agents) /\ NoCall \notin Calls /\ MaxSpawns \in Nat
  /\ MaxAgents \in Nat /\ MaxPushes \in Nat /\ MaxFaults \in Nat

VARIABLES
  row,        \* the committed agents rows
  rowLock,    \* the transaction that has updated the row
  ctr,        \* the container with the agent's name
  trading,    \* agents whose engine runs in that container
  spawned,    \* containers created so far; their ids are 1, 2, ...
  reg,        \* the registry: LiveState.container_id
  accepting,  \* _accepting_starts
  op,         \* what each call does
  cpc,        \* where it is
  todo,       \* the agents it has still to treat
  view,       \* the rows as it has loaded them
  mine,       \* the agents it has updated
  push,       \* the status push of each agent that is under way
  faults,     \* failures spent
  serial,     \* history: calls came one at a time, none was rolled back half-way
  orphan,     \* history: agents whose container an unnoticed failure hid
  halted      \* history: a drain or halt has returned

dockerVars == <<ctr, trading, spawned>>
callVars == <<op, cpc, todo, view, mine>>
history == <<serial, orphan, halted>>
vars == <<row, rowLock, dockerVars, reg, accepting, callVars, push, faults, history>>

Ops == {"none", "start", "startAll", "stop", "stopAll", "halt", "delete"}
StartOps == {"start", "startAll"}
NoCid == 0   \* Python's None
MaybeCid == 0..MaxSpawns
\* "starting" and "stopping" are only ever seen by the transaction that wrote
\* them, and are implied by where its call is.
Rows == [status : {"absent", "stopped", "alive", "deleted"}, cid : MaybeCid]
NoRow == [status |-> "absent", cid |-> NoCid]

TypeOK ==
  /\ row \in [Agents -> Rows]
  /\ rowLock \in [Agents -> Calls \cup {NoCall}]
  /\ ctr \in [Agents -> MaybeCid]
  /\ trading \subseteq Agents
  /\ spawned \in 0..MaxSpawns
  /\ reg \in [Agents -> MaybeCid]
  /\ accepting \in BOOLEAN
  /\ op \in [Calls -> Ops]
  /\ cpc \in [Calls -> {"idle", "next", "flush", "spawn", "health",
                        "dockerStop"}]
  /\ todo \in [Calls -> SUBSET Agents]
  /\ view \in [Calls -> [Agents -> Rows]]
  /\ mine \in [Calls -> SUBSET Agents]
  /\ push \in [Agents -> {"none", "sent", "dirty"}]
  /\ faults \in 0..MaxFaults
  /\ serial \in BOOLEAN
  /\ orphan \subseteq Agents
  /\ halted \in BOOLEAN

Init ==
  /\ row = [a \in Agents |-> NoRow]
  /\ rowLock = [a \in Agents |-> NoCall]
  /\ ctr = [a \in Agents |-> NoCid]
  /\ trading = {}
  /\ spawned = 0
  /\ reg = [a \in Agents |-> NoCid]
  /\ accepting = TRUE
  /\ op = [c \in Calls |-> "none"]
  /\ cpc = [c \in Calls |-> "idle"]
  /\ todo = [c \in Calls |-> {}]
  /\ view = [c \in Calls |-> [a \in Agents |-> NoRow]]
  /\ mine = [c \in Calls |-> {}]
  /\ push = [a \in Agents |-> "none"]
  /\ faults = 0
  /\ serial = TRUE
  /\ orphan = {}
  /\ halted = FALSE

-----------------------------------------------------------------------------
(* Helpers                                                                 *)

Exists(r) == r.status \in {"stopped", "alive"}

MutHaltOldestFirst(c) ==
  IF op[c] = "halt" THEN CHOOSE a \in todo[c] : \A b \in todo[c] : a <= b
                    ELSE CHOOSE a \in todo[c] : \A b \in todo[c] : b <= a
\* ORDER BY created_at DESC: the agent the call treats next, or is treating.
Current(c) == CHOOSE a \in todo[c] : \A b \in todo[c] : b <= a

Goto(c, from, to) == cpc[c] = from /\ cpc' = [cpc EXCEPT ![c] = to]

Busy == {c \in Calls : cpc[c] # "idle"}

Fault == faults < MaxFaults /\ faults' = faults + 1

\* The call has treated an agent.
Done(c, from) ==
  /\ Goto(c, from, "next")
  /\ todo' = [todo EXCEPT ![c] = @ \ {Current(c)}]

Finish(c) ==
  /\ cpc' = [cpc EXCEPT ![c] = "idle"]
  /\ op' = [op EXCEPT ![c] = "none"]
  /\ todo' = [todo EXCEPT ![c] = {}]
  /\ view' = [view EXCEPT ![c] = [a \in Agents |-> NoRow]]
  /\ mine' = [mine EXCEPT ![c] = {}]
  /\ rowLock' = [a \in Agents |-> IF rowLock[a] = c THEN NoCall ELSE rowLock[a]]

\* An exception leaves the handler: get_session closes the session, which
\* rolls the transaction back.  Registry and Docker keep what was done.
Rollback(c) ==
  /\ Finish(c)
  /\ serial' = (serial /\ mine[c] = {})
  /\ UNCHANGED row

-----------------------------------------------------------------------------
(* The calls                                                               *)

Create(a) ==
  /\ row[a].status = "absent"
  /\ \A b \in Agents : b < a => row[b].status # "absent"
  /\ row' = [row EXCEPT ![a] = [status |-> "stopped", cid |-> NoCid]]
  /\ UNCHANGED <<rowLock, dockerVars, reg, accepting, callVars, push, faults, history>>

\* An agent that is already what the call wants is left alone.  (The session
\* keeps what it loaded, so it does not matter when the call looks.)
Wanted(o, r) ==
  /\ o \in StartOps => r.status # "alive"
  /\ o \in {"stop", "stopAll", "halt"} => r.status # "stopped"

Load(c, o, S) ==
  LET T == {a \in S : Wanted(o, row[a])} IN
  /\ cpc[c] = "idle"
  /\ cpc' = [cpc EXCEPT ![c] = "next"]
  /\ op' = [op EXCEPT ![c] = o]
  /\ todo' = [todo EXCEPT ![c] = T]
  /\ view' = [view EXCEPT ![c] = [a \in Agents |-> IF a \in T THEN row[a] ELSE NoRow]]
  /\ serial' = (serial /\ Busy = {})
  /\ UNCHANGED mine

\* start, stop and delete of one agent: the first read of the row.  Starts are
\* refused once draining, deletes while the row says alive.
CallOne(c, o, a) ==
  /\ o = "start" => accepting
  /\ o = "delete" => row[a].status # "alive"
  /\ Exists(row[a])
  /\ Load(c, o, {a})
  /\ UNCHANGED <<row, rowLock, dockerVars, reg, accepting, push, faults, orphan, halted>>

\* start_all and stop_all; drain and halt refuse further starts first.
CallAll(c, o) ==
  /\ Load(c, o, {a \in Agents : Exists(row[a])})
  /\ accepting' = (accepting /\ o # "halt")
  /\ UNCHANGED <<row, rowLock, dockerVars, reg, push, faults, orphan, halted>>

\* SELECT count(*): the committed rows and the call's own updates.
LiveCount(c) == Cardinality({a \in Agents : row[a].status = "alive"} \cup mine[c])

MutStartUnchecked(c) ==
  /\ cpc[c] = "next" /\ todo[c] # {} /\ op[c] \in StartOps
  /\ Goto(c, "next", "flush")
  /\ UNCHANGED <<row, rowLock, dockerVars, reg, accepting, op, todo, view, mine, push, faults, history>>
\* start(): refused when too many agents are live; start_all also looks at the
\* drain flag again for each agent.
StartOne(c) ==
  /\ cpc[c] = "next" /\ todo[c] # {} /\ op[c] \in StartOps
  /\ IF LiveCount(c) >= MaxAgents \/ (op[c] = "startAll" /\ ~accepting)
     THEN Rollback(c)
     ELSE Goto(c, "next", "flush") /\ UNCHANGED <<row, rowLock, op, todo, view, mine, serial>>
  /\ UNCHANGED <<dockerVars, reg, accepting, push, faults, orphan, halted>>

RowLockFree(c) == rowLock[Current(c)] \in {NoCall, c}

\* An UPDATE waits for the row's lock; if the row is gone, SQLAlchemy raises.
Update(c, to) ==
  /\ RowLockFree(c)
  /\ IF Exists(row[Current(c)])
     THEN /\ cpc' = [cpc EXCEPT ![c] = to]
          /\ rowLock' = [rowLock EXCEPT ![Current(c)] = c]
          /\ mine' = [mine EXCEPT ![c] = @ \cup {Current(c)}]
          /\ UNCHANGED <<row, op, todo, view, serial>>
     ELSE Rollback(c)

FlushStarting(c) ==
  /\ cpc[c] = "flush"
  /\ Update(c, "spawn")
  /\ UNCHANGED <<dockerVars, reg, accepting, push, faults, orphan, halted>>

MutSpawnUnregistered(c) ==
  LET a == Current(c) IN
  /\ Goto(c, "spawn", "health")
  /\ spawned < MaxSpawns
  /\ ctr[a] = NoCid
  /\ spawned' = spawned + 1
  /\ ctr' = [ctr EXCEPT ![a] = spawned']
  /\ view' = [view EXCEPT ![c][a].cid = spawned']
  /\ UNCHANGED <<row, rowLock, trading, reg, accepting, op, todo, mine, push, faults, history>>
\* docker run: the name must be free.
Spawn(c) ==
  LET a == Current(c) IN
  /\ Goto(c, "spawn", "health")
  /\ spawned < MaxSpawns
  /\ ctr[a] = NoCid
  /\ spawned' = spawned + 1
  /\ ctr' = [ctr EXCEPT ![a] = spawned']
  /\ reg' = [reg EXCEPT ![a] = spawned']
  /\ view' = [view EXCEPT ![c][a].cid = spawned']
  /\ UNCHANGED <<row, rowLock, trading, accepting, op, todo, mine, push, faults, history>>

\* The name is taken, the image is missing, Docker does not answer.
SpawnFails(c) ==
  /\ cpc[c] = "spawn"
  /\ Rollback(c)
  /\ UNCHANGED <<dockerVars, reg, accepting, push, faults, orphan, halted>>

\* 15 seconds pass: the registry forgets the container, which stays.
Unhealthy(c) ==
  /\ cpc[c] = "health"
  /\ reg' = [reg EXCEPT ![Current(c)] = NoCid]
  /\ orphan' = orphan \cup {Current(c)}
  /\ Rollback(c)
  /\ UNCHANGED <<dockerVars, accepting, push, faults, halted>>

\* An error of the poll that is neither a refused connection nor a timeout:
\* the registry keeps the container of a row that says stopped.
PollRaises(c) ==
  /\ cpc[c] = "health"
  /\ Rollback(c)
  /\ UNCHANGED <<dockerVars, reg, accepting, push, faults, orphan, halted>>

\* Healthy: POST /start to the agent; a failure is only logged.
PostStart(c) ==
  /\ Done(c, "health")
  /\ trading' \in {trading, trading \cup {Current(c)}}
  /\ UNCHANGED <<row, rowLock, ctr, spawned, reg, accepting, op, view, mine, push, faults, history>>

\* stop(): "stopping" is flushed.
FlushStopping(c) ==
  /\ cpc[c] = "next" /\ todo[c] # {} /\ op[c] \in {"stop", "stopAll", "halt"}
  /\ Update(c, "dockerStop")
  /\ UNCHANGED <<dockerVars, reg, accepting, push, faults, orphan, halted>>

\* The container stop() means: the registry's, else the row's as loaded.
Target(c) == LET a == Current(c) IN IF reg[a] # NoCid THEN reg[a] ELSE view[c][a].cid

Removed(c) ==
  LET a == Current(c) IN
  IF ctr[a] # NoCid /\ ctr[a] = Target(c)
  THEN ctr' = [ctr EXCEPT ![a] = NoCid] /\ trading' = trading \ {a}
  ELSE UNCHANGED <<ctr, trading>>

\* Stopped and removed, or nothing to stop; the registry forgets it.
DockerStop(c) ==
  /\ cpc[c] = "dockerStop"
  /\ Removed(c)
  /\ reg' = [reg EXCEPT ![Current(c)] = NoCid]
  /\ Done(c, "dockerStop")
  /\ UNCHANGED <<row, rowLock, spawned, accepting, op, view, mine, push, faults, history>>

\* containers.get fails for another reason than the container being gone.
DockerStopBlind(c) ==
  /\ cpc[c] = "dockerStop"
  /\ Fault
  /\ ctr[Current(c)] # NoCid /\ ctr[Current(c)] = Target(c)
  /\ orphan' = orphan \cup {Current(c)}
  /\ reg' = [reg EXCEPT ![Current(c)] = NoCid]
  /\ Done(c, "dockerStop")
  /\ UNCHANGED <<row, rowLock, dockerVars, accepting, op, view, mine, push, serial, halted>>

\* container.stop raises, with the container removed, or remove raises too.
DockerStopRaises(c) ==
  /\ cpc[c] = "dockerStop"
  /\ Fault
  /\ Removed(c) \/ UNCHANGED <<ctr, trading>>
  /\ Rollback(c)
  /\ UNCHANGED <<spawned, reg, accepting, push, orphan, halted>>

MutStartLeavesStarting(c, a) ==
  [status |-> IF op[c] \in StartOps THEN "starting" ELSE "stopped", cid |-> view[c][a].cid]
\* The rows after the commit.  The ORM writes the columns that changed: a
\* container_id that was None when loaded is not written by stop().
Written(c, a) ==
  IF op[c] \in StartOps THEN [status |-> "alive", cid |-> view[c][a].cid]
  ELSE [status |-> "stopped", cid |-> IF view[c][a].cid = NoCid THEN row[a].cid ELSE NoCid]

Commit(c) ==
  /\ cpc[c] = "next" /\ todo[c] = {}
  /\ row' = [a \in Agents |-> IF a \in mine[c] THEN Written(c, a) ELSE row[a]]
  /\ halted' = (halted \/ op[c] = "halt")
  /\ Finish(c)
  /\ UNCHANGED <<dockerVars, reg, accepting, push, faults, serial, orphan>>

\* DELETE waits for the lock like an UPDATE; the status is not looked at again.
DeleteCommit(c) ==
  /\ cpc[c] = "next" /\ op[c] = "delete"
  /\ RowLockFree(c)
  /\ row' = [row EXCEPT ![Current(c)] = [status |-> "deleted", cid |-> NoCid]]
  /\ Finish(c)
  /\ UNCHANGED <<dockerVars, reg, accepting, push, faults, history>>

-----------------------------------------------------------------------------
(* The agents' status pushes, and the user-server's restart                *)

PushSend(a) ==
  /\ a \in trading /\ push[a] = "none"
  /\ Cardinality({b \in Agents : push[b] # "none"}) < MaxPushes
  /\ push' = [push EXCEPT ![a] = "sent"]
  /\ UNCHANGED <<row, rowLock, dockerVars, reg, accepting, callVars, faults, history>>

\* push_status loads the row; only a status that is not alive is written.
PushRead(a) ==
  /\ push[a] = "sent"
  /\ push' = [push EXCEPT ![a] = IF row[a].status = "stopped" THEN "dirty" ELSE "none"]
  /\ UNCHANGED <<row, rowLock, dockerVars, reg, accepting, callVars, faults, history>>

PushWrite(a) ==
  /\ push[a] = "dirty"
  /\ rowLock[a] = NoCall
  /\ row' = IF Exists(row[a]) THEN [row EXCEPT ![a].status = "alive"] ELSE row
  /\ push' = [push EXCEPT ![a] = "none"]
  /\ UNCHANGED <<rowLock, dockerVars, reg, accepting, callVars, faults, history>>

\* Transactions are rolled back and the registry is empty; nothing scans for
\* containers, so only those the rows name can be found again.
Restart ==
  /\ Fault
  /\ reg' = [a \in Agents |-> NoCid]
  /\ rowLock' = [a \in Agents |-> NoCall]
  /\ accepting' = TRUE
  /\ op' = [c \in Calls |-> "none"]
  /\ cpc' = [c \in Calls |-> "idle"]
  /\ todo' = [c \in Calls |-> {}]
  /\ view' = [c \in Calls |-> [a \in Agents |-> NoRow]]
  /\ mine' = [c \in Calls |-> {}]
  /\ push' = [a \in Agents |-> "none"]
  /\ serial' = (serial /\ Busy = {})
  /\ orphan' = orphan \cup {a \in Agents : ctr[a] # NoCid /\ row[a].cid # ctr[a]}
  /\ halted' = FALSE
  /\ UNCHANGED <<row, dockerVars>>

-----------------------------------------------------------------------------
Step(c) ==
  \/ StartOne(c) \/ Spawn(c) \/ SpawnFails(c)
  \/ Unhealthy(c) \/ PollRaises(c) \/ PostStart(c) \/ DockerStop(c) \/ DockerStopBlind(c)
  \/ DockerStopRaises(c) \/ Commit(c)

\* The steps that wait for a row's lock.
LockStep(c) == FlushStarting(c) \/ FlushStopping(c) \/ DeleteCommit(c)

Begin(c) ==
  \/ \E a \in Agents, o \in {"start", "stop", "delete"} : CallOne(c, o, a)
  \/ \E o \in {"startAll", "stopAll", "halt"} : CallAll(c, o)

Next ==
  \/ \E a \in Agents : Create(a) \/ PushSend(a) \/ PushRead(a) \/ PushWrite(a)
  \/ \E c \in Calls : Begin(c) \/ Step(c) \/ LockStep(c)
  \/ Restart

Spec == Init /\ [][Next]_vars

-----------------------------------------------------------------------------
(* Properties                                                              *)

\* stop() goes by the registry, else by the row.  As long as no failure hid the
\* container of an agent that trades, that is the container it finds: whatever
\* was rolled back, removed or started since, no stop reports success over
\* another container's id while the agent trades on.
StopReachesTrading ==
  \A a \in trading \ orphan :
    /\ ctr[a] # NoCid
    /\ ctr[a] = IF reg[a] # NoCid THEN reg[a] ELSE row[a].cid

\* No deadlock in the database: start_all and stop_all take the rows' locks in
\* the same order, so among the calls that hold locks one always has the next
\* lock it needs.
Blocked(c) ==
  /\ todo[c] # {} /\ ~RowLockFree(c)
  /\ \/ cpc[c] = "flush"
     \/ cpc[c] = "next" /\ op[c] \notin StartOps
NoDeadlock ==
  LET Holders == {c \in Calls : mine[c] # {}} IN
  Holders # {} => \E c \in Holders : ~Blocked(c)

\* "/hub/halt: immediate stop-all (credits depleted)": once it has returned no
\* agent trades, for no start is accepted any more.
HaltStopsAll == halted => trading = {}

\* "cannot delete a running agent; stop it first".
TradingHasRow == \A a \in trading : Exists(row[a])

\* "max agents already running": no more than MAX_AGENTS agents trade.
MaxAgentsRespected == Cardinality(trading) <= MaxAgents

\* A hub that makes one call at a time, none of which failed half-way, gets what
\* the API promises: a halt has stopped every agent, an agent that trades has a
\* row that says so, and there are never more than MAX_AGENTS of them, late
\* status pushes notwithstanding.
SerialSafe ==
  serial /\ orphan = {} =>
    /\ HaltStopsAll
    /\ Busy = {} => \A a \in trading : row[a].status = "alive"
    /\ MaxAgentsRespected
=============================================================================
