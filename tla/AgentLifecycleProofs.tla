----------------------- MODULE AgentLifecycleProofs -----------------------
(***************************************************************************)
(* Proofs about AgentLifecycle for any number of agents and calls and any  *)
(* bounds on containers, agents, pushes and faults.                        *)
(***************************************************************************)
EXTENDS AgentLifecycle, FiniteSetTheorems, TLAPS

StopOps == {"stop", "stopAll", "halt"}
InDocker == {"spawn", "health", "dockerStop"}

\* Where a call can be.
CallShape(c) ==
  /\ cpc[c] = "idle" <=> op[c] = "none"
  /\ cpc[c] = "idle" => todo[c] = {} /\ mine[c] = {}
  /\ op[c] = "delete" => cpc[c] = "next" /\ todo[c] # {} /\ mine[c] = {}
  /\ cpc[c] \in {"flush", "spawn", "health"} => op[c] \in StartOps /\ todo[c] # {}
  /\ cpc[c] = "dockerStop" => op[c] \in StopOps /\ todo[c] # {}

\* A call holds the locks of the rows it has updated, and takes them downwards: what it
\* has still to treat comes after what it has updated.
LocksDescend(c) ==
  /\ \A a \in Agents : rowLock[a] = c <=> a \in mine[c]
  /\ cpc[c] \in InDocker => Current(c) \in mine[c]
  /\ \A a \in mine[c], b \in todo[c] : b < a \/ (cpc[c] \in InDocker /\ a = Current(c))

CallsInv == \A c \in Calls : CallShape(c) /\ LocksDescend(c)

\* The call has treated the agent.
Treated(c, a) == a \in mine[c] /\ (a \notin todo[c] \/ cpc[c] = "health")

\* A container that only the row can name.
Exposed(a) == ctr[a] # NoCid /\ a \notin orphan /\ reg[a] = NoCid

\* What the registry and the row know of the agent's container.
AgentSound(a) ==
  /\ a \in trading => ctr[a] # NoCid
  /\ reg[a] # NoCid => ctr[a] \in {reg[a], NoCid}
  /\ row[a].cid <= spawned /\ ctr[a] <= spawned
  /\ Exposed(a) => row[a].status = "alive" /\ row[a].cid = ctr[a]
  /\ row[a].status # "alive" /\ ctr[a] # NoCid /\ a \notin orphan => row[a].cid # ctr[a]

\* What a call knows of it.
CallKnows(c, a) ==
  /\ Exposed(a) /\ a \in todo[c] => op[c] \in StopOps /\ view[c][a].cid = row[a].cid
  /\ op[c] \in StartOps /\ Treated(c, a) =>
       ctr[a] # NoCid /\ reg[a] = ctr[a] /\ view[c][a].cid = ctr[a]
  /\ op[c] \in StopOps /\ Treated(c, a) => ctr[a] = NoCid \/ a \in orphan

ContainersInv == \A a \in Agents : AgentSound(a) /\ \A c \in Calls : CallKnows(c, a)

Quiet == serial /\ orphan = {}

\* What a call knows of the agents that trade, and of the drain flag.
CallSerial(c) ==
  /\ op[c] = "delete" => todo[c] \cap trading = {}
  /\ op[c] = "halt" => trading \subseteq todo[c] /\ ~accepting
  /\ cpc[c] = "flush" => Cardinality(trading \cup mine[c]) < MaxAgents
  /\ cpc[c] \in {"spawn", "health"} => Cardinality(trading \cup mine[c]) <= MaxAgents
  /\ ~accepting => op[c] # "start" /\ (op[c] = "startAll" => cpc[c] = "next" /\ mine[c] = {})

OneCall == \A c, d \in Busy : c = d
TradingAlive ==
  \A a \in trading : row[a].status = "alive" \/ \E c \in Calls : a \in mine[c] /\ op[c] \in StartOps
HaltHolds == halted => ~accepting /\ trading = {}

\* With one call at a time, none rolled back half-way.
SerialInv ==
  Quiet =>
    /\ OneCall /\ TradingAlive /\ HaltHolds /\ Cardinality(trading) <= MaxAgents
    /\ \A c \in Calls : CallSerial(c)

-----------------------------------------------------------------------------
(* Lemmas                                                                  *)

\* A finite set of numbers that is not empty has a largest element: among the sets of the
\* elements from x upwards, one has no other of them inside it.
LEMMA LargestExists ==
  ASSUME NEW T \in SUBSET Nat, IsFiniteSet(T), T # {}
  PROVE  \E m \in T : \A x \in T : x <= m
<1> DEFINE From(x) == {y \in T : x <= y}
           Froms == {From(x) : x \in T}
<1>1. Froms \subseteq FiniteSubsetsOf(T)
  BY FS_FiniteSubsetsOfFinite
<1>2. PICK U \in Froms : \A V \in Froms : <<V, U>> \notin StrictSubsetOrdering(T)
  <2>1. IsWellFoundedOn(StrictSubsetOrdering(T), FiniteSubsetsOf(T))
    BY FS_StrictSubsetOrderingWellFounded
  <2>2. Froms # {}
    OBVIOUS
  <2> HIDE DEF Froms
  <2> QED
    BY <1>1, <2>1, <2>2, WFMin
<1>3. PICK m \in T : U = From(m)
  OBVIOUS
<1>4. ASSUME NEW x \in T, ~(x <= m)
      PROVE  FALSE
  <2>1. From(x) \subseteq From(m) /\ From(x) # From(m)
    <3>1. m \in From(m) /\ m \notin From(x)
      BY <1>4
    <3>2. ASSUME NEW y \in T, x <= y
          PROVE  m <= y
      <4>1. x \in Nat /\ y \in Nat /\ m \in Nat
        OBVIOUS
      <4> QED
        BY <1>4, <3>2, <4>1
    <3> QED
      BY <3>1, <3>2
  <2>2. <<From(x), From(m)>> \in StrictSubsetOrdering(T)
    BY <2>1 DEF StrictSubsetOrdering
  <2> QED
    BY <1>2, <1>3, <2>2
<1> QED
  BY <1>4

\* ... and a smallest one.
LEMMA SmallestExists ==
  ASSUME NEW T \in SUBSET Nat, IsFiniteSet(T), T # {}
  PROVE  \E m \in T : \A x \in T : m <= x
<1> DEFINE UpTo(x) == {y \in T : y <= x}
           UpTos == {UpTo(x) : x \in T}
<1>1. UpTos \subseteq FiniteSubsetsOf(T)
  BY FS_FiniteSubsetsOfFinite
<1>2. PICK U \in UpTos : \A V \in UpTos : <<V, U>> \notin StrictSubsetOrdering(T)
  <2>1. IsWellFoundedOn(StrictSubsetOrdering(T), FiniteSubsetsOf(T))
    BY FS_StrictSubsetOrderingWellFounded
  <2>2. UpTos # {}
    OBVIOUS
  <2> HIDE DEF UpTos
  <2> QED
    BY <1>1, <2>1, <2>2, WFMin
<1>3. PICK m \in T : U = UpTo(m)
  OBVIOUS
<1>4. ASSUME NEW x \in T, ~(m <= x)
      PROVE  FALSE
  <2>1. UpTo(x) \subseteq UpTo(m) /\ UpTo(x) # UpTo(m)
    <3>1. m \in UpTo(m) /\ m \notin UpTo(x)
      BY <1>4
    <3>2. ASSUME NEW y \in T, y <= x
          PROVE  y <= m
      <4>1. x \in Nat /\ y \in Nat /\ m \in Nat
        OBVIOUS
      <4> QED
        BY <1>4, <3>2, <4>1
    <3> QED
      BY <3>1, <3>2
  <2>2. <<UpTo(x), UpTo(m)>> \in StrictSubsetOrdering(T)
    BY <2>1 DEF StrictSubsetOrdering
  <2> QED
    BY <1>2, <1>3, <2>2
<1> QED
  BY <1>4

\* The agent a call treats is one of those it has still to treat, and the newest of them.
LEMMA CurrentIsNewest ==
  ASSUME TypeOK, NEW c \in Calls, todo[c] # {}
  PROVE  Current(c) \in todo[c] /\ Current(c) \in Agents /\ \A b \in todo[c] : b <= Current(c)
<1>1. todo[c] \subseteq Agents /\ todo[c] \in SUBSET Nat /\ IsFiniteSet(todo[c])
  BY AgentsAssumption, FS_Subset DEF TypeOK
<1>2. \E m \in todo[c] : \A x \in todo[c] : x <= m
  BY <1>1, LargestExists
<1> QED
  BY <1>1, <1>2 DEF Current

\* What a call's shape and locks depend on.
LEMMA UntouchedCall ==
  ASSUME NEW d \in Calls, CallShape(d), LocksDescend(d),
         cpc'[d] = cpc[d], op'[d] = op[d], todo'[d] = todo[d], mine'[d] = mine[d],
         \A a \in Agents : rowLock'[a] = d <=> rowLock[a] = d
  PROVE  CallShape(d)' /\ LocksDescend(d)'
<1>1. Current(d)' = Current(d)
  BY DEF Current
<1>2. CallShape(d)'
  BY DEF CallShape
<1>3. LocksDescend(d)'
  BY <1>1 DEF LocksDescend
<1> QED
  BY <1>2, <1>3

LEMMA FinishKeepsCalls ==
  ASSUME TypeOK, CallsInv, NEW c \in Calls, Finish(c)
  PROVE  CallsInv'
<1>1. CallShape(c)' /\ LocksDescend(c)'
  BY AgentsAssumption DEF TypeOK, CallsInv, Finish, CallShape, LocksDescend, InDocker, StartOps, StopOps
<1>2. ASSUME NEW d \in Calls, d # c
      PROVE  CallShape(d)' /\ LocksDescend(d)'
  <2>1. \A a \in Agents : rowLock'[a] = d <=> rowLock[a] = d
    BY <1>2, AgentsAssumption DEF Finish, TypeOK
  <2> QED
    BY <1>2, <2>1, UntouchedCall DEF TypeOK, CallsInv, Finish
<1> QED
  BY <1>1, <1>2 DEF CallsInv

LEMMA LoadKeepsCalls ==
  ASSUME TypeOK, CallsInv, NEW c \in Calls, NEW o \in Ops \ {"none"}, NEW S \in SUBSET Agents,
         Load(c, o, S), UNCHANGED rowLock, o = "delete" => \E a \in S : Wanted(o, row[a])
  PROVE  CallsInv'
<1>1. CallShape(c)' /\ LocksDescend(c)'
  BY DEF TypeOK, CallsInv, Load, CallShape, LocksDescend, InDocker, Ops, StartOps, StopOps
<1>2. ASSUME NEW d \in Calls, d # c
      PROVE  CallShape(d)' /\ LocksDescend(d)'
  BY <1>2, UntouchedCall DEF TypeOK, CallsInv, Load
<1> QED
  BY <1>1, <1>2 DEF CallsInv

LEMMA GotoKeepsCalls ==
  ASSUME TypeOK, CallsInv, NEW c \in Calls,
         \/ Goto(c, "next", "flush") /\ todo[c] # {} /\ op[c] \in StartOps
         \/ Goto(c, "spawn", "health"),
         UNCHANGED <<rowLock, op, todo, mine>>
  PROVE  CallsInv'
<1>1. CallShape(c)'
  BY DEF TypeOK, CallsInv, Goto, CallShape, Ops, StartOps, StopOps
<1>2. LocksDescend(c)'
  <2>1. Current(c)' = Current(c)
    BY DEF Current
  <2> QED
    BY <2>1 DEF TypeOK, CallsInv, Goto, LocksDescend, InDocker
<1>3. ASSUME NEW d \in Calls, d # c
      PROVE  CallShape(d)' /\ LocksDescend(d)'
  BY <1>3, UntouchedCall DEF TypeOK, CallsInv, Goto
<1> QED
  BY <1>1, <1>2, <1>3 DEF CallsInv

\* The call takes the lock of the newest agent it has still to treat.
LEMMA UpdateKeepsCalls ==
  ASSUME TypeOK, CallsInv, NEW c \in Calls,
         \/ Update(c, "spawn") /\ cpc[c] = "flush"
         \/ Update(c, "dockerStop") /\ cpc[c] = "next" /\ op[c] \in StopOps /\ todo[c] # {}
  PROVE  CallsInv'
<1>1. CASE ~Exists(row[Current(c)])
  BY <1>1, FinishKeepsCalls DEF Update, Rollback
<1>2. CASE Exists(row[Current(c)])
  <2> DEFINE a == Current(c)
  <2>1. todo[c] # {}
    BY DEF CallsInv, CallShape
  <2>2. a \in todo[c] /\ a \in Agents /\ \A b \in todo[c] : b <= a
    BY <2>1, CurrentIsNewest
  <2>3. PICK to \in {"spawn", "dockerStop"} :
          /\ cpc' = [cpc EXCEPT ![c] = to]
          /\ to = "spawn" => cpc[c] = "flush"
          /\ to = "dockerStop" => op[c] \in StopOps
    BY <1>2 DEF Update
  <2>4. /\ rowLock[a] \in {NoCall, c}
        /\ rowLock' = [rowLock EXCEPT ![a] = c]
        /\ mine' = [mine EXCEPT ![c] = @ \cup {a}]
        /\ UNCHANGED <<op, todo>>
        /\ cpc[c] \notin InDocker
    BY <1>2 DEF Update, RowLockFree, InDocker
  <2>5. Current(c)' = a
    BY <2>4 DEF Current
  <2>6. CallShape(c)'
    BY <2>1, <2>3, <2>4 DEF TypeOK, CallsInv, CallShape, StartOps, StopOps
  <2>7. LocksDescend(c)'
    <3> HIDE DEF a
    <3>1. \A x \in Agents : rowLock'[x] = c <=> x \in mine'[c]
      BY <2>2, <2>4 DEF TypeOK, CallsInv, LocksDescend
    <3>2. a \in mine'[c]
      BY <2>4 DEF TypeOK
    <3>3. cpc'[c] \in InDocker
      BY <2>3 DEF TypeOK, InDocker
    <3>4. ASSUME NEW x \in mine'[c], NEW y \in todo'[c]
          PROVE  y < x \/ x = a
      <4>1. x = a \/ x \in mine[c]
        BY <2>4 DEF TypeOK
      <4>2. y \in todo[c]
        BY <2>4
      <4> QED
        BY <2>4, <4>1, <4>2 DEF CallsInv, LocksDescend
    <3> QED
      BY <2>5, <3>1, <3>2, <3>3, <3>4 DEF LocksDescend
  <2>8. ASSUME NEW d \in Calls, d # c
        PROVE  CallShape(d)' /\ LocksDescend(d)'
    <3> HIDE DEF a
    <3>1. \A x \in Agents : rowLock'[x] = d <=> rowLock[x] = d
      BY <2>2, <2>4, <2>8, AgentsAssumption DEF TypeOK
    <3> QED
      BY <2>3, <2>4, <2>8, <3>1, UntouchedCall DEF TypeOK, CallsInv
  <2> QED
    BY <2>6, <2>7, <2>8 DEF CallsInv
<1> QED
  BY <1>1, <1>2

LEMMA DoneKeepsCalls ==
  ASSUME TypeOK, CallsInv, NEW c \in Calls, NEW from \in {"health", "dockerStop"}, Done(c, from),
         UNCHANGED <<rowLock, op, mine>>
  PROVE  CallsInv'
<1>1. todo[c] # {}
  BY DEF CallsInv, CallShape, Done, Goto
<1>2. Current(c) \in todo[c] /\ Current(c) \in Agents /\ Current(c) \in mine[c]
  BY <1>1, CurrentIsNewest DEF CallsInv, LocksDescend, InDocker, Done, Goto
<1>3. CallShape(c)'
  BY <1>1, <1>2 DEF TypeOK, CallsInv, CallShape, Done, Goto, StartOps, StopOps
<1>4. LocksDescend(c)'
  <2>1. ASSUME NEW a \in mine[c], NEW b \in todo[c] \ {Current(c)}
        PROVE  b < a
    <3>1. b < a \/ a = Current(c)
      BY DEF CallsInv, LocksDescend
    <3>2. b <= Current(c) /\ b \in Nat /\ Current(c) \in Nat
      BY <1>1, <1>2, CurrentIsNewest, AgentsAssumption DEF TypeOK
    <3> QED
      BY <2>1, <3>1, <3>2
  <2>2. /\ cpc'[c] = "next" /\ todo'[c] = todo[c] \ {Current(c)}
        /\ mine' = mine /\ rowLock' = rowLock
    BY DEF Done, Goto, TypeOK
  <2> QED
    BY <2>1, <2>2 DEF CallsInv, LocksDescend, InDocker
<1>5. ASSUME NEW d \in Calls, d # c
      PROVE  CallShape(d)' /\ LocksDescend(d)'
  BY <1>5, UntouchedCall DEF TypeOK, CallsInv, Done, Goto
<1> QED
  BY <1>3, <1>4, <1>5 DEF CallsInv

LEMMA RestartKeepsCalls ==
  ASSUME TypeOK, Restart
  PROVE  CallsInv'
BY AgentsAssumption
DEF Restart, CallsInv, CallShape, LocksDescend, InDocker, StartOps, StopOps

-----------------------------------------------------------------------------
(* Types and locks                                                         *)

LEMMA RowTypes ==
  /\ NoCid \in MaybeCid /\ NoRow \in Rows
  /\ \A n \in MaybeCid, st \in {"absent", "stopped", "alive", "deleted"} :
       [status |-> st, cid |-> n] \in Rows
BY AgentsAssumption DEF NoRow, Rows, MaybeCid, NoCid

LEMMA FinishTypes ==
  ASSUME TypeOK, NEW c \in Calls, Finish(c)
  PROVE  /\ rowLock' \in [Agents -> Calls \cup {NoCall}]
         /\ op' \in [Calls -> Ops]
         /\ cpc' \in [Calls -> {"idle", "next", "flush", "spawn", "health", "dockerStop"}]
         /\ todo' \in [Calls -> SUBSET Agents]
         /\ view' \in [Calls -> [Agents -> Rows]]
         /\ mine' \in [Calls -> SUBSET Agents]
<1>1. [a \in Agents |-> NoRow] \in [Agents -> Rows]
  BY RowTypes
<1> QED
  BY <1>1 DEF TypeOK, Finish, Ops

LEMMA LoadTypes ==
  ASSUME TypeOK, NEW c \in Calls, NEW o \in Ops, NEW S \in SUBSET Agents, Load(c, o, S)
  PROVE  /\ op' \in [Calls -> Ops]
         /\ cpc' \in [Calls -> {"idle", "next", "flush", "spawn", "health", "dockerStop"}]
         /\ todo' \in [Calls -> SUBSET Agents]
         /\ view' \in [Calls -> [Agents -> Rows]]
         /\ mine' \in [Calls -> SUBSET Agents]
         /\ serial' \in BOOLEAN
<1> DEFINE T == {a \in S : Wanted(o, row[a])}
           V == [a \in Agents |-> IF a \in T THEN row[a] ELSE NoRow]
<1>1. V \in [Agents -> Rows] /\ T \in SUBSET Agents
  BY RowTypes DEF TypeOK
<1>2. /\ cpc' = [cpc EXCEPT ![c] = "next"] /\ op' = [op EXCEPT ![c] = o] /\ mine' = mine
      /\ todo' = [todo EXCEPT ![c] = T] /\ view' = [view EXCEPT ![c] = V]
      /\ serial' = (serial /\ Busy = {})
  BY DEF Load
<1> HIDE DEF T, V
<1> QED
  BY <1>1, <1>2 DEF TypeOK

LEMMA UpdateTypes ==
  ASSUME TypeOK, CallsInv, NEW c \in Calls, NEW to \in {"spawn", "dockerStop"}, Update(c, to),
         todo[c] # {}
  PROVE  /\ row' = row
         /\ rowLock' \in [Agents -> Calls \cup {NoCall}]
         /\ op' \in [Calls -> Ops]
         /\ cpc' \in [Calls -> {"idle", "next", "flush", "spawn", "health", "dockerStop"}]
         /\ todo' \in [Calls -> SUBSET Agents]
         /\ view' \in [Calls -> [Agents -> Rows]]
         /\ mine' \in [Calls -> SUBSET Agents]
         /\ serial' \in BOOLEAN
<1>1. CASE ~Exists(row[Current(c)])
  BY <1>1, FinishTypes DEF Update, Rollback, TypeOK
<1>2. CASE Exists(row[Current(c)])
  <2> DEFINE a == Current(c)
  <2>1. a \in Agents
    BY CurrentIsNewest
  <2>2. /\ cpc' = [cpc EXCEPT ![c] = to]
        /\ rowLock' = [rowLock EXCEPT ![a] = c]
        /\ mine' = [mine EXCEPT ![c] = @ \cup {a}]
        /\ UNCHANGED <<row, op, todo, view, serial>>
    BY <1>2 DEF Update
  <2> HIDE DEF a
  <2> QED
    BY <2>1, <2>2 DEF TypeOK
<1> QED
  BY <1>1, <1>2

\* A call that is with Docker treats an agent it has loaded.
LEMMA CurrentKnown ==
  ASSUME TypeOK, CallsInv, NEW c \in Calls,
         cpc[c] \in {"flush", "spawn", "health", "dockerStop"} \/ op[c] = "delete" \/ todo[c] # {}
  PROVE  Current(c) \in todo[c] /\ Current(c) \in Agents /\ \A b \in todo[c] : b <= Current(c)
BY CurrentIsNewest DEF CallsInv, CallShape

LEMMA WrittenType ==
  ASSUME TypeOK, NEW c \in Calls, NEW a \in Agents
  PROVE  Written(c, a) \in Rows
<1>1. row[a].cid \in MaybeCid /\ view[c][a].cid \in MaybeCid
  BY DEF TypeOK, Rows
<1> QED
  BY <1>1, RowTypes DEF Written

LEMMA FaultType ==
  ASSUME TypeOK, Fault
  PROVE  faults' \in 0..MaxFaults
BY AgentsAssumption DEF TypeOK, Fault

LEMMA RemovedTypes ==
  ASSUME TypeOK, NEW c \in Calls, Current(c) \in Agents, Removed(c)
  PROVE  ctr' \in [Agents -> MaybeCid] /\ trading' \subseteq Agents
<1> DEFINE a == Current(c)
<1>1. \/ ctr' = [ctr EXCEPT ![a] = NoCid] /\ trading' = trading \ {a}
      \/ UNCHANGED <<ctr, trading>>
  BY DEF Removed
<1> HIDE DEF a
<1> QED
  BY <1>1, RowTypes DEF TypeOK

LEMMA DoneTypes ==
  ASSUME TypeOK, NEW c \in Calls, NEW from \in {"health", "dockerStop"}, Done(c, from)
  PROVE  /\ cpc' \in [Calls -> {"idle", "next", "flush", "spawn", "health", "dockerStop"}]
         /\ todo' \in [Calls -> SUBSET Agents]
BY DEF TypeOK, Done, Goto

\* One step of a call keeps the types and the calls' shapes.
LEMMA StepKeepsCalls ==
  ASSUME TypeOK, CallsInv, NEW c \in Calls, Step(c) \/ LockStep(c)
  PROVE  TypeOK' /\ CallsInv'
<1> USE DEF dockerVars, callVars, history
<1>1. CASE StartOne(c)
  <2>1. CASE LiveCount(c) >= MaxAgents \/ (op[c] = "startAll" /\ ~accepting)
    <3>1. Rollback(c) /\ UNCHANGED <<dockerVars, reg, accepting, push, faults, orphan, halted>>
      BY <1>1, <2>1 DEF StartOne
    <3> QED
      BY <3>1, FinishTypes, FinishKeepsCalls DEF TypeOK, Rollback
  <2>2. CASE ~(LiveCount(c) >= MaxAgents \/ (op[c] = "startAll" /\ ~accepting))
    <3>1. /\ Goto(c, "next", "flush") /\ todo[c] # {} /\ op[c] \in StartOps
          /\ UNCHANGED <<row, rowLock, op, todo, view, mine, serial>>
          /\ UNCHANGED <<dockerVars, reg, accepting, push, faults, orphan, halted>>
      BY <1>1, <2>2 DEF StartOne
    <3>2. TypeOK'
      BY <3>1 DEF TypeOK, Goto
    <3> QED
      BY <3>1, <3>2, GotoKeepsCalls
  <2> QED
    BY <2>1, <2>2
<1>2. CASE Spawn(c)
  <2> DEFINE a == Current(c)
  <2>1. a \in Agents
    BY <1>2, CurrentKnown DEF Spawn, Goto
  <2>2. /\ Goto(c, "spawn", "health") /\ spawned < MaxSpawns /\ spawned' = spawned + 1
        /\ ctr' = [ctr EXCEPT ![a] = spawned'] /\ reg' = [reg EXCEPT ![a] = spawned']
        /\ view' = [view EXCEPT ![c][a].cid = spawned']
        /\ UNCHANGED <<row, rowLock, trading, accepting, op, todo, mine, push, faults, history>>
    BY <1>2 DEF Spawn
  <2>3. spawned' \in MaybeCid
    BY <2>2, AgentsAssumption DEF TypeOK, MaybeCid
  <2>4. view' \in [Calls -> [Agents -> Rows]]
    <3>1. [view[c][a] EXCEPT !.cid = spawned'] \in Rows
      BY <2>1, <2>3 DEF TypeOK, Rows
    <3>2. view' = [view EXCEPT ![c] = [view[c] EXCEPT ![a] = [view[c][a] EXCEPT !.cid = spawned']]]
      BY <2>2
    <3> HIDE DEF a
    <3> QED
      BY <2>1, <3>1, <3>2 DEF TypeOK
  <2>5. TypeOK'
    <3> HIDE DEF a
    <3> QED
      BY <2>1, <2>2, <2>3, <2>4 DEF TypeOK, Goto, MaybeCid
  <2> QED
    BY <2>2, <2>5, GotoKeepsCalls
<1>3. CASE SpawnFails(c)
  BY <1>3, FinishTypes, FinishKeepsCalls DEF SpawnFails, TypeOK, Rollback
<1>4. CASE Unhealthy(c)
  BY <1>4, FinishTypes, FinishKeepsCalls, CurrentKnown, RowTypes DEF Unhealthy, TypeOK, Rollback
<1>5. CASE PollRaises(c)
  BY <1>5, FinishTypes, FinishKeepsCalls DEF PollRaises, TypeOK, Rollback
<1>6. CASE PostStart(c)
  <2>1. TypeOK'
    BY <1>6, CurrentKnown DEF PostStart, Done, Goto, TypeOK
  <2> QED
    BY <1>6, <2>1, DoneKeepsCalls DEF PostStart
<1>7. CASE DockerStop(c)
  <2>1. TypeOK'
    <3>1. Current(c) \in Agents
      BY <1>7, CurrentKnown DEF DockerStop
    <3>2. reg' \in [Agents -> MaybeCid]
      BY <1>7, <3>1, RowTypes DEF DockerStop, TypeOK
    <3> QED
      BY <1>7, <3>1, <3>2, RemovedTypes, DoneTypes DEF DockerStop, TypeOK
  <2> QED
    BY <1>7, <2>1, DoneKeepsCalls DEF DockerStop
<1>8. CASE DockerStopBlind(c)
  <2>1. TypeOK'
    <3>1. Current(c) \in Agents
      BY <1>8, CurrentKnown DEF DockerStopBlind
    <3>2. reg' \in [Agents -> MaybeCid] /\ orphan' \subseteq Agents
      BY <1>8, <3>1, RowTypes DEF DockerStopBlind, TypeOK
    <3> QED
      BY <1>8, <3>2, FaultType, DoneTypes DEF DockerStopBlind, TypeOK
  <2> QED
    BY <1>8, <2>1, DoneKeepsCalls DEF DockerStopBlind
<1>9. CASE DockerStopRaises(c)
  <2>1. /\ faults' \in 0..MaxFaults /\ ctr' \in [Agents -> MaybeCid] /\ trading' \subseteq Agents
        /\ Rollback(c) /\ UNCHANGED <<spawned, reg, accepting, push, orphan, halted>>
    BY <1>9, CurrentKnown, RemovedTypes, FaultType DEF DockerStopRaises, TypeOK
  <2> QED
    BY <2>1, FinishTypes, FinishKeepsCalls DEF TypeOK, Rollback
<1>10. CASE Commit(c)
  <2>1. row' \in [Agents -> Rows]
    BY <1>10, WrittenType DEF Commit, TypeOK
  <2> QED
    BY <1>10, <2>1, FinishTypes, FinishKeepsCalls DEF Commit, TypeOK
<1>11. CASE FlushStarting(c)
  <2>1. todo[c] # {}
    BY <1>11 DEF FlushStarting, CallsInv, CallShape
  <2>2. TypeOK'
    BY <1>11, <2>1, UpdateTypes DEF FlushStarting, TypeOK
  <2> QED
    BY <1>11, <2>2, UpdateKeepsCalls DEF FlushStarting
<1>12. CASE FlushStopping(c)
  <2>1. TypeOK'
    BY <1>12, UpdateTypes DEF FlushStopping, TypeOK
  <2> QED
    BY <1>12, <2>1, UpdateKeepsCalls DEF FlushStopping, StopOps
<1>13. CASE DeleteCommit(c)
  <2>1. row' \in [Agents -> Rows]
    BY <1>13, CurrentKnown, RowTypes DEF DeleteCommit, TypeOK
  <2> QED
    BY <1>13, <2>1, FinishTypes, FinishKeepsCalls DEF DeleteCommit, TypeOK
<1> QED
  BY <1>1, <1>2, <1>3, <1>4, <1>5, <1>6, <1>7, <1>8, <1>9, <1>10, <1>11, <1>12, <1>13
  DEF Step, LockStep

LEMMA BeginKeepsCalls ==
  ASSUME TypeOK, CallsInv, NEW c \in Calls, Begin(c)
  PROVE  TypeOK' /\ CallsInv'
<1> USE DEF dockerVars, callVars, history
<1>1. ASSUME NEW a \in Agents, NEW o \in {"start", "stop", "delete"}, CallOne(c, o, a)
      PROVE  TypeOK' /\ CallsInv'
  <2>1. /\ Load(c, o, {a}) /\ (o = "delete" => Exists(row[a]) /\ row[a].status # "alive")
        /\ UNCHANGED <<row, rowLock, dockerVars, reg, accepting, push, faults, orphan, halted>>
        /\ o \in Ops \ {"none"} /\ {a} \in SUBSET Agents
    BY <1>1 DEF CallOne, Ops
  <2>2. o = "delete" => \E x \in {a} : Wanted(o, row[x])
    BY DEF Wanted, StartOps
  <2>3. TypeOK'
    BY <2>1, LoadTypes DEF TypeOK
  <2> QED
    BY <2>1, <2>2, <2>3, LoadKeepsCalls
<1>2. ASSUME NEW o \in {"startAll", "stopAll", "halt"}, CallAll(c, o)
      PROVE  TypeOK' /\ CallsInv'
  <2> DEFINE S == {a \in Agents : Exists(row[a])}
  <2>1. /\ Load(c, o, S) /\ accepting' \in BOOLEAN
        /\ UNCHANGED <<row, rowLock, dockerVars, reg, push, faults, orphan, halted>>
        /\ o \in Ops \ {"none"} /\ S \in SUBSET Agents /\ o # "delete"
    BY <1>2 DEF CallAll, Ops
  <2> HIDE DEF S
  <2>2. TypeOK'
    BY <2>1, LoadTypes DEF TypeOK
  <2> QED
    BY <2>1, <2>2, LoadKeepsCalls
<1> QED
  BY <1>1, <1>2 DEF Begin

LEMMA OthersKeepCalls ==
  ASSUME TypeOK, CallsInv,
         \/ \E a \in Agents : Create(a) \/ PushSend(a) \/ PushRead(a) \/ PushWrite(a)
         \/ Restart
         \/ UNCHANGED vars
  PROVE  TypeOK' /\ CallsInv'
<1> USE DEF dockerVars, callVars, history
<1>1. ASSUME UNCHANGED <<rowLock, callVars>>
      PROVE  CallsInv'
  BY <1>1, UntouchedCall DEF CallsInv
<1>2. ASSUME NEW a \in Agents, Create(a) \/ PushSend(a) \/ PushRead(a) \/ PushWrite(a)
      PROVE  TypeOK' /\ CallsInv'
  <2>1. CASE Create(a)
    BY <1>1, <2>1, RowTypes DEF Create, TypeOK
  <2>2. CASE PushSend(a)
    BY <1>1, <2>2 DEF PushSend, TypeOK
  <2>3. CASE PushRead(a)
    BY <1>1, <2>3 DEF PushRead, TypeOK
  <2>4. CASE PushWrite(a)
    <3>1. row' \in [Agents -> Rows]
      <4>1. [row[a] EXCEPT !.status = "alive"] \in Rows
        <5>1. row[a] \in Rows
          BY DEF TypeOK
        <5> QED
          BY <5>1 DEF Rows
      <4>2. \/ row' = [row EXCEPT ![a] = [row[a] EXCEPT !.status = "alive"]]
            \/ row' = row
        BY <2>4 DEF PushWrite
      <4> QED
        BY <4>1, <4>2 DEF TypeOK
    <3>2. TypeOK'
      BY <2>4, <3>1 DEF PushWrite, TypeOK
    <3>3. UNCHANGED <<rowLock, callVars>>
      BY <2>4 DEF PushWrite
    <3> QED
      BY <1>1, <3>2, <3>3
  <2> QED
    BY <1>2, <2>1, <2>2, <2>3, <2>4
<1>3. CASE Restart
  <2>1. [a \in Agents |-> NoRow] \in [Agents -> Rows]
    BY RowTypes
  <2>2. faults' \in 0..MaxFaults
    BY <1>3, FaultType DEF Restart
  <2>3. view' \in [Calls -> [Agents -> Rows]] /\ reg' \in [Agents -> MaybeCid]
    BY <1>3, <2>1, RowTypes DEF Restart
  <2>4. /\ rowLock' \in [Agents -> Calls \cup {NoCall}] /\ orphan' \subseteq Agents
        /\ op' \in [Calls -> Ops] /\ todo' \in [Calls -> SUBSET Agents]
        /\ mine' \in [Calls -> SUBSET Agents] /\ push' \in [Agents -> {"none", "sent", "dirty"}]
        /\ cpc' \in [Calls -> {"idle", "next", "flush", "spawn", "health", "dockerStop"}]
        /\ accepting' \in BOOLEAN /\ serial' \in BOOLEAN /\ halted' \in BOOLEAN
    BY <1>3 DEF Restart, TypeOK, Ops
  <2>5. TypeOK'
    BY <1>3, <2>2, <2>3, <2>4 DEF Restart, TypeOK
  <2> QED
    BY <1>3, <2>5, RestartKeepsCalls
<1>4. CASE UNCHANGED vars
  BY <1>1, <1>4 DEF vars, TypeOK
<1> QED
  BY <1>2, <1>3, <1>4

LEMMA CallsStart == Init => TypeOK /\ CallsInv
<1> SUFFICES ASSUME Init PROVE TypeOK /\ CallsInv
  OBVIOUS
<1>1. [a \in Agents |-> NoRow] \in [Agents -> Rows]
  BY RowTypes
<1>2. TypeOK
  <2>1. 0 \in 0..MaxSpawns /\ 0 \in 0..MaxFaults
    BY AgentsAssumption
  <2>2. row \in [Agents -> Rows] /\ view \in [Calls -> [Agents -> Rows]]
    BY <1>1 DEF Init
  <2> QED
    BY <2>1, <2>2, RowTypes DEF Init, TypeOK, Ops
<1>3. CallsInv
  BY AgentsAssumption DEF Init, CallsInv, CallShape, LocksDescend, InDocker, StartOps, StopOps
<1> QED
  BY <1>2, <1>3

\* The state of every call and lock has its type and shape, whatever runs concurrently.
THEOREM CallsKept == Spec => [](TypeOK /\ CallsInv)
<1>1. Init => TypeOK /\ CallsInv
  BY CallsStart
<1>2. TypeOK /\ CallsInv /\ [Next]_vars => (TypeOK /\ CallsInv)'
  BY StepKeepsCalls, BeginKeepsCalls, OthersKeepCalls DEF Next
<1> QED
  BY <1>1, <1>2, PTL DEF Spec

\* TypeOK: every variable of the calls, rows, containers and registry keeps its type.
THEOREM AgentsTypeCorrect == Spec => []TypeOK
BY CallsKept, PTL

-----------------------------------------------------------------------------
(* No deadlock                                                             *)

\* The call that holds the lock of the oldest agent locked waits for an older one, if for
\* any, and that one is free.
LEMMA SomeHolderMoves == TypeOK /\ CallsInv => NoDeadlock
<1> SUFFICES ASSUME TypeOK, CallsInv, NEW h \in Calls, mine[h] # {}
             PROVE  \E c \in Calls : mine[c] # {} /\ ~Blocked(c)
  BY DEF NoDeadlock
<1> DEFINE Locked == {a \in Agents : rowLock[a] # NoCall}
<1>1. Locked # {} /\ Locked \in SUBSET Nat /\ IsFiniteSet(Locked)
  <2>1. \E a \in Agents : a \in mine[h] /\ rowLock[a] = h
    BY DEF TypeOK, CallsInv, LocksDescend
  <2>2. Locked \in SUBSET Agents
    OBVIOUS
  <2> QED
    BY <2>1, <2>2, AgentsAssumption, FS_Subset
<1>2. PICK m \in Locked : \A x \in Locked : m <= x
  BY <1>1, SmallestExists
<1>3. rowLock[m] \in Calls /\ m \in mine[rowLock[m]]
  BY DEF TypeOK, CallsInv, LocksDescend
<1> DEFINE c == rowLock[m]
<1>4. ASSUME Blocked(c)
      PROVE  FALSE
  <2>1. todo[c] # {} /\ Current(c) \in todo[c] /\ Current(c) \in Agents
    BY <1>3, <1>4, CurrentIsNewest DEF Blocked
  <2>2. cpc[c] \notin InDocker
    BY <1>4 DEF Blocked, InDocker
  <2>3. Current(c) < m
    BY <1>3, <2>1, <2>2 DEF CallsInv, LocksDescend
  <2>4. Current(c) \in Locked
    BY <1>4, <2>1 DEF Blocked, RowLockFree
  <2> QED
    BY <1>1, <1>2, <2>3, <2>4
<1> QED
  BY <1>3, <1>4

\* NoDeadlock: the calls that hold rows of Postgres never all wait for each other.
THEOREM CallsNeverDeadlock == Spec => []NoDeadlock
BY CallsKept, SomeHolderMoves, PTL

-----------------------------------------------------------------------------
(* Containers                                                              *)

LEMMA UntouchedAgent ==
  ASSUME TypeOK, NEW b \in Agents, AgentSound(b), ctr'[b] = ctr[b], reg'[b] = reg[b],
         row'[b] = row[b], b \in trading' => b \in trading, b \in orphan' <=> b \in orphan,
         spawned' \in Nat, spawned <= spawned'
  PROVE  AgentSound(b)'
<1>1. row[b].cid \in Nat /\ ctr[b] \in Nat /\ spawned \in Nat
  BY DEF TypeOK, Rows, MaybeCid
<1> QED
  BY <1>1 DEF AgentSound, Exposed

LEMMA UntouchedKnowledge ==
  ASSUME NEW d \in Calls, NEW b \in Agents, CallKnows(d, b), ctr'[b] = ctr[b], reg'[b] = reg[b],
         row'[b] = row[b], b \in orphan' <=> b \in orphan, op'[d] = op[d],
         b \in todo'[d] => b \in todo[d], Treated(d, b)' => Treated(d, b),
         view'[d][b] = view[d][b]
  PROVE  CallKnows(d, b)'
BY DEF CallKnows, Exposed

\* A call that is over knows nothing.
LEMMA FinishedKnows ==
  ASSUME TypeOK, NEW c \in Calls, NEW b \in Agents, Finish(c)
  PROVE  CallKnows(c, b)'
BY DEF TypeOK, Finish, CallKnows, Treated

LEMMA OtherCallsKeep ==
  ASSUME TypeOK, NEW c \in Calls, NEW d \in Calls, c # d,
         \/ Finish(c)
         \/ cpc' = [cpc EXCEPT ![c] = cpc'[c]] /\ op' = [op EXCEPT ![c] = op'[c]]
            /\ todo' = [todo EXCEPT ![c] = todo'[c]] /\ view' = [view EXCEPT ![c] = view'[c]]
            /\ mine' = [mine EXCEPT ![c] = mine'[c]]
  PROVE  /\ cpc'[d] = cpc[d] /\ op'[d] = op[d] /\ todo'[d] = todo[d] /\ view'[d] = view[d]
         /\ mine'[d] = mine[d]
BY DEF TypeOK, Finish

\* Two calls never have updated the same agent.
LEMMA MineDisjoint ==
  ASSUME CallsInv, NEW c \in Calls, NEW d \in Calls, NEW a \in Agents, a \in mine[c], a \in mine[d]
  PROVE  c = d
BY DEF CallsInv, LocksDescend

\* A call ends without having changed a container, the registry or a row.
LEMMA RollbackKeepsContainers ==
  ASSUME TypeOK, CallsInv, ContainersInv, NEW c \in Calls, Finish(c),
         UNCHANGED <<row, ctr, trading, spawned, reg, orphan>>
  PROVE  ContainersInv'
<1>1. spawned \in Nat
  BY AgentsAssumption DEF TypeOK
<1>2. ASSUME NEW a \in Agents
      PROVE  AgentSound(a)'
  BY <1>1, UntouchedAgent DEF ContainersInv
<1>3. ASSUME NEW a \in Agents, NEW d \in Calls
      PROVE  CallKnows(d, a)'
  <2>1. CASE d = c
    BY <2>1, FinishedKnows
  <2>2. CASE d # c
    BY <2>2, OtherCallsKeep, UntouchedKnowledge DEF ContainersInv, Treated
  <2> QED
    BY <2>1, <2>2
<1> QED
  BY <1>2, <1>3 DEF ContainersInv

\* A call moves on without having changed a container, the registry or a row.
LEMMA MoveKeepsContainers ==
  ASSUME TypeOK, ContainersInv, NEW c \in Calls,
         cpc' = [cpc EXCEPT ![c] = cpc'[c]], todo' = [todo EXCEPT ![c] = todo'[c]],
         mine' = [mine EXCEPT ![c] = mine'[c]], UNCHANGED <<op, view>>, todo'[c] \subseteq todo[c],
         \A a \in Agents : Treated(c, a)' => Treated(c, a),
         UNCHANGED <<row, ctr, spawned, reg, orphan>>,
         \A a \in trading' : a \in trading \/ ctr[a] # NoCid
  PROVE  ContainersInv'
<1>1. spawned \in Nat
  BY AgentsAssumption DEF TypeOK
<1>2. ASSUME NEW a \in Agents
      PROVE  AgentSound(a)'
  BY DEF ContainersInv, AgentSound, Exposed
<1>3. ASSUME NEW a \in Agents, NEW d \in Calls
      PROVE  CallKnows(d, a)'
  <2>1. CASE d = c
    BY <2>1, UntouchedKnowledge DEF ContainersInv
  <2>2. CASE d # c
    <3>1. cpc'[d] = cpc[d] /\ todo'[d] = todo[d] /\ mine'[d] = mine[d]
      BY <2>2 DEF TypeOK
    <3> QED
      BY <3>1, UntouchedKnowledge DEF ContainersInv, Treated
  <2> QED
    BY <2>1, <2>2
<1> QED
  BY <1>2, <1>3 DEF ContainersInv

LEMMA UpdateKeepsContainers ==
  ASSUME TypeOK, CallsInv, ContainersInv, NEW c \in Calls, todo[c] # {}, cpc[c] \notin InDocker,
         Update(c, "spawn") \/ Update(c, "dockerStop"),
         UNCHANGED <<ctr, trading, spawned, reg, orphan>>
  PROVE  ContainersInv'
<1>1. CASE ~Exists(row[Current(c)])
  BY <1>1, RollbackKeepsContainers DEF Update, Rollback
<1>2. CASE Exists(row[Current(c)])
  <2> DEFINE a == Current(c)
  <2>1. a \in todo[c]
    BY CurrentIsNewest
  <2>2. /\ cpc' = [cpc EXCEPT ![c] = "spawn"] \/ cpc' = [cpc EXCEPT ![c] = "dockerStop"]
        /\ mine' = [mine EXCEPT ![c] = @ \cup {a}]
        /\ UNCHANGED <<row, op, todo, view>>
    BY <1>2 DEF Update
  <2> HIDE DEF a
  <2>3. cpc' = [cpc EXCEPT ![c] = cpc'[c]] /\ cpc'[c] # "health"
    BY <2>2 DEF TypeOK
  <2>4. mine' = [mine EXCEPT ![c] = mine'[c]] /\ todo' = [todo EXCEPT ![c] = todo'[c]]
    BY <2>2 DEF TypeOK
  <2>5. ASSUME NEW b \in Agents, Treated(c, b)'
        PROVE  Treated(c, b)
    <3>1. b \notin todo[c] /\ b \in mine[c] \cup {a}
      BY <2>2, <2>3, <2>5 DEF Treated, TypeOK
    <3> QED
      BY <2>1, <3>1 DEF Treated
  <2> QED
    BY <2>2, <2>3, <2>4, <2>5, MoveKeepsContainers
<1> QED
  BY <1>1, <1>2

LEMMA LoadKeepsContainers ==
  ASSUME TypeOK, CallsInv, ContainersInv, NEW c \in Calls, NEW o \in Ops \ {"none"},
         NEW S \in SUBSET Agents, Load(c, o, S), o = "delete" => \A a \in S : row[a].status # "alive",
         UNCHANGED <<row, ctr, trading, spawned, reg, orphan>>
  PROVE  ContainersInv'
<1>1. spawned \in Nat
  BY AgentsAssumption DEF TypeOK
<1>2. ASSUME NEW a \in Agents
      PROVE  AgentSound(a)'
  BY <1>1, UntouchedAgent DEF ContainersInv
<1>3. ASSUME NEW a \in Agents, NEW d \in Calls, d # c
      PROVE  CallKnows(d, a)'
  <2>1. /\ cpc'[d] = cpc[d] /\ op'[d] = op[d] /\ todo'[d] = todo[d] /\ view'[d] = view[d]
        /\ mine'[d] = mine[d]
    BY <1>3 DEF Load, TypeOK
  <2> QED
    BY <2>1, UntouchedKnowledge DEF ContainersInv, Treated
<1>4. ASSUME NEW a \in Agents
      PROVE  CallKnows(c, a)'
  <2>1. mine'[c] = {} /\ op'[c] = o
    BY DEF Load, TypeOK, CallsInv, CallShape
  <2>2. ~Treated(c, a)'
    BY <2>1 DEF Treated
  <2>3. ASSUME Exposed(a)', a \in todo'[c]
        PROVE  o \in StopOps /\ view'[c][a].cid = row'[a].cid
    <3>1. Exposed(a) /\ row[a].status = "alive"
      BY <2>3 DEF Exposed, ContainersInv, AgentSound
    <3>2. a \in S /\ Wanted(o, row[a]) /\ view'[c][a] = row[a]
      BY <2>3 DEF Load, TypeOK
    <3> QED
      BY <3>1, <3>2 DEF Wanted, StartOps, StopOps, Ops
  <2> QED
    BY <2>1, <2>2, <2>3 DEF CallKnows
<1> QED
  BY <1>2, <1>3, <1>4 DEF ContainersInv

LEMMA SpawnKeepsContainers ==
  ASSUME TypeOK, CallsInv, ContainersInv, NEW c \in Calls, Spawn(c)
  PROVE  ContainersInv'
<1>1. PICK a \in Agents : a = Current(c) /\ a \in todo[c] /\ a \in mine[c]
  BY CurrentKnown DEF Spawn, Goto, CallsInv, LocksDescend, InDocker
<1>2. /\ Goto(c, "spawn", "health") /\ spawned' = spawned + 1 /\ ctr[a] = NoCid
      /\ ctr' = [ctr EXCEPT ![a] = spawned'] /\ reg' = [reg EXCEPT ![a] = spawned']
      /\ view' = [view EXCEPT ![c][a].cid = spawned']
      /\ UNCHANGED <<row, trading, op, todo, mine, orphan>>
  BY <1>1 DEF Spawn, history
<1>3. spawned \in Nat /\ spawned' \in Nat /\ spawned' # NoCid
  BY <1>2, AgentsAssumption DEF TypeOK, NoCid
<1>4. ctr'[a] = spawned' /\ reg'[a] = spawned' /\ view'[c][a].cid = spawned'
  <2>1. view[c][a] \in [status : {"absent", "stopped", "alive", "deleted"}, cid : MaybeCid]
    BY <1>1 DEF TypeOK, Rows
  <2> QED
    BY <1>1, <1>2, <2>1 DEF TypeOK
<1>5. AgentSound(a)'
  <2>1. row[a].cid <= spawned /\ row[a].cid \in Nat
    BY <1>1 DEF ContainersInv, AgentSound, TypeOK, Rows, MaybeCid
  <2> QED
    BY <1>1, <1>2, <1>3, <1>4, <2>1 DEF AgentSound, Exposed
<1>6. ASSUME NEW b \in Agents, b # a
      PROVE  AgentSound(b)'
  BY <1>1, <1>2, <1>3, <1>6, UntouchedAgent DEF TypeOK, ContainersInv
<1>7. ASSUME NEW b \in Agents, b # a
      PROVE  CallKnows(c, b)'
  <2>1. Treated(c, b)' => Treated(c, b)
    <3>1. cpc[c] = "spawn"
      BY <1>2 DEF Goto
    <3>2. b \in mine[c] => b \notin todo[c]
      <4>1. LocksDescend(c) /\ b \in Nat
        BY AgentsAssumption DEF CallsInv
      <4>2. b \in mine[c] /\ b \in todo[c] => b < b \/ b = Current(c)
        BY <4>1 DEF LocksDescend
      <4> QED
        BY <1>1, <1>7, <4>1, <4>2
    <3> QED
      BY <1>2, <3>2 DEF Treated
  <2>2. ctr'[b] = ctr[b] /\ reg'[b] = reg[b] /\ view'[c][b] = view[c][b]
    BY <1>1, <1>2, <1>7 DEF TypeOK
  <2> QED
    BY <1>2, <2>1, <2>2, UntouchedKnowledge DEF ContainersInv
<1>8. CallKnows(c, a)'
  <2>1. op'[c] \in StartOps
    BY <1>2 DEF Goto, CallsInv, CallShape
  <2> QED
    BY <1>3, <1>4, <2>1 DEF CallKnows, Exposed, StartOps, StopOps
<1>9. ASSUME NEW b \in Agents, NEW d \in Calls, d # c
      PROVE  CallKnows(d, b)'
  <2>1. cpc'[d] = cpc[d] /\ view'[d] = view[d]
    BY <1>2, <1>9 DEF Goto, TypeOK
  <2>2. CASE b = a
    <3>1. ~Treated(d, a)'
      BY <1>1, <1>2, <1>9, MineDisjoint DEF Treated
    <3> QED
      BY <1>3, <1>4, <2>2, <3>1 DEF CallKnows, Exposed
  <2>3. CASE b # a
    BY <1>1, <1>2, <2>1, <2>3, UntouchedKnowledge DEF ContainersInv, Treated, TypeOK
  <2> QED
    BY <2>2, <2>3
<1> QED
  BY <1>5, <1>6, <1>7, <1>8, <1>9 DEF ContainersInv

\* A call that has updated an agent's row changes its container or hides it, and moves on.
LEMMA TreatKeepsContainers ==
  ASSUME TypeOK, CallsInv, ContainersInv, NEW c \in Calls, NEW a \in Agents, a = Current(c),
         cpc[c] \in {"health", "dockerStop"},
         \/ Finish(c)
         \/ Done(c, "dockerStop") /\ UNCHANGED <<op, view, mine>> /\ (ctr'[a] = NoCid \/ a \in orphan'),
         UNCHANGED <<row, spawned>>,
         ctr' = [ctr EXCEPT ![a] = ctr'[a]], reg' = [reg EXCEPT ![a] = reg'[a]],
         orphan' \in {orphan, orphan \cup {a}}, trading' \subseteq trading,
         a \in orphan' \/ ctr'[a] = NoCid \/ (ctr'[a] = ctr[a] /\ reg'[a] = reg[a]),
         reg'[a] \in {reg[a], NoCid}, ctr'[a] \in {ctr[a], NoCid},
         a \in trading' => ctr'[a] # NoCid
  PROVE  ContainersInv'
<1>1. /\ a \in todo[c] /\ a \in mine[c] /\ cpc[c] \in InDocker /\ spawned \in Nat
  BY CurrentKnown, AgentsAssumption DEF CallsInv, LocksDescend, InDocker, TypeOK
<1>2. AgentSound(a)'
  <2>1. AgentSound(a) /\ row[a].cid \in Nat /\ spawned \in Nat
    BY <1>1 DEF ContainersInv, TypeOK, Rows, MaybeCid
  <2> QED
    BY <2>1 DEF AgentSound, Exposed, NoCid
<1>3. ASSUME NEW b \in Agents, b # a
      PROVE  AgentSound(b)'
  BY <1>1, <1>3, UntouchedAgent DEF TypeOK, ContainersInv
<1>4. ASSUME NEW b \in Agents, NEW d \in Calls, d # c
      PROVE  CallKnows(d, b)'
  <2>1. /\ cpc'[d] = cpc[d] /\ op'[d] = op[d] /\ todo'[d] = todo[d] /\ view'[d] = view[d]
        /\ mine'[d] = mine[d]
    BY <1>4 DEF Done, Goto, Finish, TypeOK
  <2>2. CASE b = a
    <3>1. ~Treated(d, a)'
      BY <1>1, <1>4, <2>1, MineDisjoint DEF Treated
    <3>2. Exposed(a)' => Exposed(a)
      BY DEF Exposed
    <3> QED
      BY <2>1, <2>2, <3>1, <3>2 DEF ContainersInv, CallKnows
  <2>3. CASE b # a
    BY <2>1, <2>3, UntouchedKnowledge DEF ContainersInv, Treated, TypeOK
  <2> QED
    BY <2>2, <2>3
<1>5. ASSUME NEW b \in Agents
      PROVE  CallKnows(c, b)'
  <2>1. CASE Finish(c)
    BY <2>1, FinishedKnows
  <2>2. CASE /\ Done(c, "dockerStop") /\ UNCHANGED <<op, view, mine>>
             /\ ctr'[a] = NoCid \/ a \in orphan'
    <3>1. op[c] \in StopOps /\ cpc'[c] = "next" /\ todo'[c] = todo[c] \ {a}
      BY <2>2 DEF Done, Goto, CallsInv, CallShape, TypeOK
    <3>2. CASE b = a
      BY <2>2, <3>1, <3>2 DEF CallKnows, Exposed, StartOps, StopOps
    <3>3. CASE b # a
      <4>1. Treated(c, b)' => Treated(c, b)
        BY <2>2, <3>1, <3>3 DEF Treated
      <4> QED
        BY <2>2, <3>1, <3>3, <4>1, UntouchedKnowledge DEF ContainersInv, TypeOK
    <3> QED
      BY <3>2, <3>3
  <2> QED
    BY <2>1, <2>2
<1> QED
  BY <1>2, <1>3, <1>4, <1>5 DEF ContainersInv

\* stop() finds the container, unless a failure has hidden it.
LEMMA StopFinds ==
  ASSUME TypeOK, CallsInv, ContainersInv, NEW c \in Calls, NEW a \in Agents, a = Current(c),
         cpc[c] = "dockerStop", ctr[a] # NoCid, ctr[a] # Target(c)
  PROVE  a \in orphan
<1>1. a \in todo[c] /\ op[c] \in StopOps
  BY CurrentKnown DEF CallsInv, CallShape
<1>2. CASE reg[a] # NoCid
  BY <1>2 DEF Target, ContainersInv, AgentSound
<1>3. CASE reg[a] = NoCid
  BY <1>1, <1>3 DEF Target, ContainersInv, AgentSound, CallKnows, Exposed
<1> QED
  BY <1>2, <1>3

LEMMA CommitKeepsContainers ==
  ASSUME TypeOK, CallsInv, ContainersInv, NEW c \in Calls, Commit(c)
  PROVE  ContainersInv'
<1>1. /\ cpc[c] = "next" /\ todo[c] = {} /\ Finish(c)
      /\ row' = [a \in Agents |-> IF a \in mine[c] THEN Written(c, a) ELSE row[a]]
      /\ UNCHANGED <<ctr, trading, spawned, reg, orphan>>
  BY DEF Commit, dockerVars
<1>2. op[c] \in StartOps \/ op[c] \in StopOps
  BY <1>1 DEF TypeOK, CallsInv, CallShape, Ops, StartOps, StopOps
<1>3. ASSUME NEW a \in Agents, a \in mine[c]
      PROVE  /\ AgentSound(a)'
             /\ ~Exposed(a)
  <2>1. Treated(c, a) /\ row'[a] = Written(c, a)
    BY <1>1, <1>3 DEF Treated
  <2>2. AgentSound(a) /\ CallKnows(c, a) /\ spawned \in Nat /\ ctr[a] \in Nat /\ row[a].cid \in Nat
    BY AgentsAssumption DEF ContainersInv, TypeOK, Rows, MaybeCid
  <2>3. CASE op[c] \in StartOps
    BY <1>1, <2>1, <2>2, <2>3 DEF AgentSound, CallKnows, Exposed, Written
  <2>4. CASE op[c] \in StopOps
    BY <1>1, <2>1, <2>2, <2>4 DEF AgentSound, CallKnows, Exposed, Written, StartOps, StopOps, NoCid
  <2> QED
    BY <1>2, <2>3, <2>4
<1>4. ASSUME NEW a \in Agents, a \notin mine[c]
      PROVE  AgentSound(a)'
  BY <1>1, <1>4, AgentsAssumption, UntouchedAgent DEF ContainersInv, TypeOK
<1>5. ASSUME NEW a \in Agents, NEW d \in Calls
      PROVE  CallKnows(d, a)'
  <2>1. CASE d = c
    BY <1>1, <2>1, FinishedKnows
  <2>2. CASE d # c
    <3>1. /\ cpc'[d] = cpc[d] /\ op'[d] = op[d] /\ todo'[d] = todo[d] /\ view'[d] = view[d]
          /\ mine'[d] = mine[d]
      BY <1>1, <2>2, OtherCallsKeep
    <3>2. CASE a \notin mine[c]
      BY <1>1, <3>1, <3>2, UntouchedKnowledge DEF ContainersInv, Treated
    <3>3. CASE a \in mine[c]
      BY <1>1, <1>3, <3>1, <3>3 DEF ContainersInv, CallKnows, Treated, Exposed
    <3> QED
      BY <3>2, <3>3
  <2> QED
    BY <2>1, <2>2
<1> QED
  BY <1>3, <1>4, <1>5 DEF ContainersInv

LEMMA DeleteKeepsContainers ==
  ASSUME TypeOK, CallsInv, ContainersInv, NEW c \in Calls, DeleteCommit(c)
  PROVE  ContainersInv'
<1>1. PICK a \in Agents : a = Current(c) /\ a \in todo[c]
  BY CurrentKnown DEF DeleteCommit
<1>2. /\ op[c] = "delete" /\ Finish(c)
      /\ row' = [row EXCEPT ![a] = [status |-> "deleted", cid |-> NoCid]]
      /\ UNCHANGED <<ctr, trading, spawned, reg, orphan>>
  BY <1>1 DEF DeleteCommit, dockerVars, history
<1>3. row'[a].status = "deleted" /\ row'[a].cid = NoCid
  BY <1>1, <1>2 DEF TypeOK
<1>4. ~Exposed(a) /\ AgentSound(a) /\ spawned \in Nat
  BY <1>1, <1>2, AgentsAssumption DEF ContainersInv, CallKnows, StopOps, TypeOK
<1>5. AgentSound(a)'
  BY <1>2, <1>3, <1>4 DEF AgentSound, Exposed, NoCid
<1>6. ASSUME NEW b \in Agents, b # a
      PROVE  AgentSound(b)'
  BY <1>1, <1>2, <1>4, <1>6, UntouchedAgent DEF ContainersInv, TypeOK
<1>7. ASSUME NEW b \in Agents, NEW d \in Calls
      PROVE  CallKnows(d, b)'
  <2>1. CASE d = c
    BY <1>2, <2>1, FinishedKnows
  <2>2. CASE d # c
    <3>1. /\ cpc'[d] = cpc[d] /\ op'[d] = op[d] /\ todo'[d] = todo[d] /\ view'[d] = view[d]
          /\ mine'[d] = mine[d]
      BY <1>2, <2>2, OtherCallsKeep
    <3>2. CASE b # a
      BY <1>1, <1>2, <3>1, <3>2, UntouchedKnowledge DEF ContainersInv, Treated, TypeOK
    <3>3. CASE b = a
      BY <1>2, <1>4, <3>1, <3>3 DEF ContainersInv, CallKnows, Treated, Exposed
    <3> QED
      BY <3>2, <3>3
  <2> QED
    BY <2>1, <2>2
<1> QED
  BY <1>5, <1>6, <1>7 DEF ContainersInv

\* Status pushes and creations change only a row.
LEMMA RowWriteKeepsContainers ==
  ASSUME TypeOK, ContainersInv, NEW a \in Agents,
         row' = [row EXCEPT ![a] = row'[a]], row'[a].status \in {"alive", "stopped"},
         \/ row'[a].status = "alive" /\ row'[a].cid = row[a].cid
         \/ row'[a].status = "stopped" /\ row'[a].cid = NoCid /\ row[a].status = "absent",
         UNCHANGED <<callVars, dockerVars, reg, orphan>>
  PROVE  ContainersInv'
<1> USE DEF callVars, dockerVars
<1>1. spawned \in Nat
  BY AgentsAssumption DEF TypeOK
<1>2. AgentSound(a)'
  BY <1>1 DEF ContainersInv, AgentSound, Exposed, NoCid
<1>3. ASSUME NEW b \in Agents, b # a
      PROVE  AgentSound(b)'
  BY <1>1, <1>3, UntouchedAgent DEF ContainersInv, TypeOK
<1>4. ASSUME NEW b \in Agents, NEW d \in Calls
      PROVE  CallKnows(d, b)'
  <2>1. CASE b # a
    BY <2>1, UntouchedKnowledge DEF ContainersInv, Treated, TypeOK
  <2>2. CASE b = a
    <3>1. Exposed(a) => row'[a].cid = row[a].cid
      BY DEF ContainersInv, AgentSound
    <3> QED
      BY <2>2, <3>1 DEF ContainersInv, CallKnows, Treated, Exposed
  <2> QED
    BY <2>1, <2>2
<1> QED
  BY <1>2, <1>3, <1>4 DEF ContainersInv

LEMMA RestartKeepsContainers ==
  ASSUME TypeOK, ContainersInv, Restart
  PROVE  ContainersInv'
<1>1. /\ row' = row /\ ctr' = ctr /\ trading' = trading /\ spawned' = spawned
      /\ reg' = [a \in Agents |-> NoCid]
      /\ orphan' = orphan \cup {a \in Agents : ctr[a] # NoCid /\ row[a].cid # ctr[a]}
      /\ todo' = [c \in Calls |-> {}] /\ mine' = [c \in Calls |-> {}]
  BY DEF Restart, dockerVars
<1>2. ASSUME NEW a \in Agents
      PROVE  AgentSound(a)'
  BY <1>1 DEF ContainersInv, AgentSound, Exposed
<1>3. ASSUME NEW a \in Agents, NEW c \in Calls
      PROVE  CallKnows(c, a)'
  BY <1>1 DEF CallKnows, Treated
<1> QED
  BY <1>2, <1>3 DEF ContainersInv

LEMMA StepKeepsContainers ==
  ASSUME TypeOK, CallsInv, ContainersInv, NEW c \in Calls, Step(c) \/ LockStep(c)
  PROVE  ContainersInv'
<1> USE DEF dockerVars, callVars, history
<1>1. CASE StartOne(c)
  <2>1. CASE Finish(c)
    BY <1>1, <2>1, RollbackKeepsContainers DEF StartOne, Rollback
  <2>2. CASE Goto(c, "next", "flush") /\ UNCHANGED <<row, rowLock, op, todo, view, mine, serial>>
    <3>1. cpc' = [cpc EXCEPT ![c] = "flush"] /\ cpc'[c] = "flush"
      BY <2>2 DEF Goto, TypeOK
    <3>2. \A a \in Agents : Treated(c, a)' => Treated(c, a)
      BY <2>2, <3>1 DEF Treated
    <3>3. todo' = [todo EXCEPT ![c] = todo'[c]] /\ mine' = [mine EXCEPT ![c] = mine'[c]]
      BY <2>2 DEF TypeOK
    <3> QED
      BY <1>1, <2>2, <3>1, <3>2, <3>3, MoveKeepsContainers DEF StartOne
  <2> QED
    BY <1>1, <2>1, <2>2 DEF StartOne, Rollback
<1>2. CASE Spawn(c)
  BY <1>2, SpawnKeepsContainers
<1>3. CASE SpawnFails(c)
  BY <1>3, RollbackKeepsContainers DEF SpawnFails, Rollback
<1>4. CASE Unhealthy(c)
  <2>1. PICK a \in Agents : a = Current(c)
    BY <1>4, CurrentKnown DEF Unhealthy
  <2>2. /\ cpc[c] = "health" /\ Finish(c) /\ reg' = [reg EXCEPT ![a] = NoCid]
        /\ orphan' = orphan \cup {a} /\ UNCHANGED <<row, ctr, trading, spawned>>
    BY <1>4, <2>1 DEF Unhealthy, Rollback
  <2>3. /\ ctr' = [ctr EXCEPT ![a] = ctr'[a]] /\ reg' = [reg EXCEPT ![a] = reg'[a]]
        /\ reg'[a] = NoCid /\ (a \in trading' => ctr'[a] # NoCid)
    BY <2>1, <2>2 DEF TypeOK, ContainersInv, AgentSound
  <2> QED
    BY <2>1, <2>2, <2>3, TreatKeepsContainers
<1>5. CASE PollRaises(c)
  BY <1>5, RollbackKeepsContainers DEF PollRaises, Rollback
<1>6. CASE PostStart(c)
  <2>1. PICK a \in Agents : a = Current(c) /\ a \in todo[c] /\ a \in mine[c]
    BY <1>6, CurrentKnown DEF PostStart, Done, Goto, CallsInv, LocksDescend, InDocker
  <2>2. /\ cpc[c] = "health" /\ cpc' = [cpc EXCEPT ![c] = "next"]
        /\ todo' = [todo EXCEPT ![c] = @ \ {a}]
        /\ trading' \in {trading, trading \cup {a}}
        /\ UNCHANGED <<row, ctr, spawned, reg, orphan, op, view, mine>>
    BY <1>6, <2>1 DEF PostStart, Done, Goto
  <2>3. Treated(c, a) /\ op[c] \in StartOps
    BY <2>1, <2>2 DEF Treated, CallsInv, CallShape
  <2>4. ctr[a] # NoCid
    BY <2>1, <2>3 DEF ContainersInv, CallKnows
  <2>5. /\ todo'[c] = todo[c] \ {a} /\ cpc'[c] = "next"
        /\ cpc' = [cpc EXCEPT ![c] = cpc'[c]] /\ todo' = [todo EXCEPT ![c] = todo'[c]]
        /\ mine' = [mine EXCEPT ![c] = mine'[c]]
    BY <2>2 DEF TypeOK
  <2>6. \A b \in Agents : Treated(c, b)' => Treated(c, b)
    BY <2>2, <2>5 DEF Treated
  <2> QED
    BY <2>2, <2>4, <2>5, <2>6, MoveKeepsContainers
<1>7. CASE DockerStop(c)
  <2>1. PICK a \in Agents : a = Current(c)
    BY <1>7, CurrentKnown DEF DockerStop
  <2>2. /\ cpc[c] = "dockerStop" /\ Done(c, "dockerStop") /\ reg' = [reg EXCEPT ![a] = NoCid]
        /\ UNCHANGED <<row, spawned, orphan, op, view, mine>>
        /\ \/ ctr' = [ctr EXCEPT ![a] = NoCid] /\ trading' = trading \ {a}
           \/ UNCHANGED <<ctr, trading>> /\ (ctr[a] = NoCid \/ ctr[a] # Target(c))
    BY <1>7, <2>1 DEF DockerStop, Removed
  <2>3. /\ ctr' = [ctr EXCEPT ![a] = ctr'[a]] /\ reg' = [reg EXCEPT ![a] = reg'[a]]
        /\ reg'[a] = NoCid /\ (a \in trading' => ctr'[a] # NoCid) /\ ctr'[a] \in {ctr[a], NoCid}
    BY <2>1, <2>2 DEF TypeOK, ContainersInv, AgentSound
  <2>4. ctr'[a] = NoCid \/ a \in orphan'
    BY <2>1, <2>2, StopFinds DEF TypeOK
  <2> QED
    BY <2>1, <2>2, <2>3, <2>4, TreatKeepsContainers
<1>8. CASE DockerStopBlind(c)
  <2>1. PICK a \in Agents : a = Current(c)
    BY <1>8, CurrentKnown DEF DockerStopBlind
  <2>2. /\ cpc[c] = "dockerStop" /\ Done(c, "dockerStop") /\ reg' = [reg EXCEPT ![a] = NoCid]
        /\ orphan' = orphan \cup {a} /\ UNCHANGED <<row, spawned, ctr, trading, op, view, mine>>
    BY <1>8, <2>1 DEF DockerStopBlind
  <2>3. /\ ctr' = [ctr EXCEPT ![a] = ctr'[a]] /\ reg' = [reg EXCEPT ![a] = reg'[a]]
        /\ reg'[a] = NoCid /\ (a \in trading' => ctr'[a] # NoCid)
    BY <2>1, <2>2 DEF TypeOK, ContainersInv, AgentSound
  <2> QED
    BY <2>1, <2>2, <2>3, TreatKeepsContainers
<1>9. CASE DockerStopRaises(c)
  <2>1. PICK a \in Agents : a = Current(c)
    BY <1>9, CurrentKnown DEF DockerStopRaises
  <2>2. /\ cpc[c] = "dockerStop" /\ Finish(c) /\ UNCHANGED <<row, spawned, reg, orphan>>
        /\ \/ ctr' = [ctr EXCEPT ![a] = NoCid] /\ trading' = trading \ {a}
           \/ UNCHANGED <<ctr, trading>>
    BY <1>9, <2>1 DEF DockerStopRaises, Removed, Rollback
  <2>3. /\ ctr' = [ctr EXCEPT ![a] = ctr'[a]] /\ reg' = [reg EXCEPT ![a] = reg'[a]]
        /\ (a \in trading' => ctr'[a] # NoCid) /\ ctr'[a] \in {ctr[a], NoCid}
    BY <2>1, <2>2 DEF TypeOK, ContainersInv, AgentSound
  <2> QED
    BY <2>1, <2>2, <2>3, TreatKeepsContainers
<1>10. CASE Commit(c)
  BY <1>10, CommitKeepsContainers
<1>11. CASE FlushStarting(c)
  <2>1. todo[c] # {}
    BY <1>11 DEF FlushStarting, CallsInv, CallShape
  <2> QED
    BY <1>11, <2>1, UpdateKeepsContainers DEF FlushStarting, InDocker
<1>12. CASE FlushStopping(c)
  BY <1>12, UpdateKeepsContainers DEF FlushStopping, InDocker
<1>13. CASE DeleteCommit(c)
  BY <1>13, DeleteKeepsContainers
<1> QED
  BY <1>1, <1>2, <1>3, <1>4, <1>5, <1>6, <1>7, <1>8, <1>9, <1>10, <1>11, <1>12, <1>13
  DEF Step, LockStep

LEMMA BeginKeepsContainers ==
  ASSUME TypeOK, CallsInv, ContainersInv, NEW c \in Calls, Begin(c)
  PROVE  ContainersInv'
<1> USE DEF dockerVars
<1>1. ASSUME NEW a \in Agents, NEW o \in {"start", "stop", "delete"}, CallOne(c, o, a)
      PROVE  ContainersInv'
  <2>1. /\ o \in Ops \ {"none"} /\ {a} \in SUBSET Agents /\ Load(c, o, {a})
        /\ UNCHANGED <<row, ctr, trading, spawned, reg, orphan>>
        /\ o = "delete" => \A x \in {a} : row[x].status # "alive"
    BY <1>1 DEF CallOne, Ops
  <2> QED
    BY <2>1, LoadKeepsContainers
<1>2. ASSUME NEW o \in {"startAll", "stopAll", "halt"}, CallAll(c, o)
      PROVE  ContainersInv'
  <2>1. PICK S \in SUBSET Agents : Load(c, o, S)
    BY <1>2 DEF CallAll
  <2>2. /\ o \in Ops \ {"none"} /\ UNCHANGED <<row, ctr, trading, spawned, reg, orphan>>
        /\ o # "delete"
    BY <1>2 DEF CallAll, Ops
  <2> QED
    BY <2>1, <2>2, LoadKeepsContainers
<1> QED
  BY <1>1, <1>2 DEF Begin

LEMMA OthersKeepContainers ==
  ASSUME TypeOK, CallsInv, ContainersInv,
         \/ \E a \in Agents : Create(a) \/ PushSend(a) \/ PushRead(a) \/ PushWrite(a)
         \/ Restart
         \/ UNCHANGED vars
  PROVE  ContainersInv'
<1> USE DEF dockerVars, callVars, history
<1>1. ASSUME UNCHANGED <<row, dockerVars, reg, callVars, orphan>>
      PROVE  ContainersInv'
  BY <1>1 DEF ContainersInv, AgentSound, CallKnows, Treated, Exposed
<1>2. ASSUME NEW a \in Agents, Create(a) \/ PushSend(a) \/ PushRead(a) \/ PushWrite(a)
      PROVE  ContainersInv'
  <2>1. CASE Create(a)
    <3>1. /\ row' = [row EXCEPT ![a] = row'[a]] /\ row'[a].status = "stopped"
          /\ row'[a].cid = NoCid /\ row[a].status = "absent"
      BY <2>1 DEF Create, TypeOK
    <3> QED
      BY <2>1, <3>1, RowWriteKeepsContainers DEF Create
  <2>2. CASE PushSend(a) \/ PushRead(a)
    BY <1>1, <2>2 DEF PushSend, PushRead
  <2>3. CASE PushWrite(a)
    <3>1. CASE Exists(row[a])
      <4>1. /\ row' = [row EXCEPT ![a] = row'[a]] /\ row'[a].status = "alive"
            /\ row'[a].cid = row[a].cid
        BY <2>3, <3>1 DEF PushWrite, TypeOK, Rows
      <4> QED
        BY <2>3, <4>1, RowWriteKeepsContainers DEF PushWrite
    <3>2. CASE ~Exists(row[a])
      BY <1>1, <2>3, <3>2 DEF PushWrite
    <3> QED
      BY <3>1, <3>2
  <2> QED
    BY <1>2, <2>1, <2>2, <2>3
<1>3. CASE Restart
  BY <1>3, RestartKeepsContainers
<1>4. CASE UNCHANGED vars
  BY <1>1, <1>4 DEF vars
<1> QED
  BY <1>2, <1>3, <1>4

LEMMA ContainersStart == Init => ContainersInv
<1> SUFFICES ASSUME Init PROVE ContainersInv
  OBVIOUS
<1>1. ASSUME NEW a \in Agents
      PROVE  AgentSound(a) /\ \A c \in Calls : CallKnows(c, a)
  BY DEF Init, AgentSound, CallKnows, Exposed, Treated, NoRow, NoCid
<1> QED
  BY <1>1 DEF ContainersInv

\* What registry, row and the calls under way know of a container: what only the row can name
\* it names, with status alive, and every stop that has yet to treat the agent has loaded
\* that name (agents/service.py, start and stop with their rollbacks).
THEOREM ContainersKept == Spec => [](TypeOK /\ CallsInv /\ ContainersInv)
<1>1. Init => ContainersInv
  BY ContainersStart
<1>2. TypeOK /\ CallsInv /\ ContainersInv /\ [Next]_vars => ContainersInv'
  BY StepKeepsContainers, BeginKeepsContainers, OthersKeepContainers DEF Next
<1> QED
  BY <1>1, <1>2, CallsKept, PTL DEF Spec

LEMMA ContainersReached == TypeOK /\ ContainersInv => StopReachesTrading
BY DEF TypeOK, ContainersInv, AgentSound, Exposed, StopReachesTrading

\* StopReachesTrading: whatever was rolled back, restarted or started since, the registry or
\* else the row names the container of every agent that trades.
THEOREM StopFindsTrading == Spec => []StopReachesTrading
BY ContainersKept, ContainersReached, PTL

-----------------------------------------------------------------------------
(* One call at a time                                                      *)

OthersSame(c) ==
  \A d \in Calls \ {c} : cpc'[d] = cpc[d] /\ op'[d] = op[d] /\ mine'[d] = mine[d]

LEMMA StepOthersSame ==
  ASSUME TypeOK, NEW c \in Calls, Step(c) \/ LockStep(c)
  PROVE  OthersSame(c) /\ cpc[c] # "idle"
<1> USE DEF callVars, OthersSame
<1>1. ASSUME Finish(c)
      PROVE  OthersSame(c)
  BY <1>1 DEF Finish, TypeOK
<1>2. ASSUME NEW from \in {"health", "dockerStop"}, Done(c, from), UNCHANGED <<op, mine>>
      PROVE  OthersSame(c) /\ cpc[c] # "idle"
  BY <1>2 DEF Done, Goto, TypeOK
<1>3. ASSUME NEW to \in {"spawn", "dockerStop"}, Update(c, to)
      PROVE  OthersSame(c)
  <2>1. CASE Rollback(c)
    BY <1>1, <2>1 DEF Rollback
  <2>2. CASE /\ cpc' = [cpc EXCEPT ![c] = to] /\ mine' = [mine EXCEPT ![c] = @ \cup {Current(c)}]
             /\ UNCHANGED op
    BY <2>2 DEF TypeOK
  <2> QED
    BY <1>3, <2>1, <2>2 DEF Update
<1>4. CASE StartOne(c)
  <2>1. cpc[c] = "next"
    BY <1>4 DEF StartOne
  <2>2. CASE Rollback(c)
    BY <1>1, <2>1, <2>2 DEF Rollback
  <2>3. CASE Goto(c, "next", "flush") /\ UNCHANGED <<op, mine>>
    BY <2>1, <2>3 DEF Goto, TypeOK
  <2> QED
    BY <1>4, <2>2, <2>3 DEF StartOne
<1>5. CASE Spawn(c)
  BY <1>5 DEF Spawn, Goto, TypeOK
<1>6. CASE SpawnFails(c) \/ Unhealthy(c) \/ PollRaises(c) \/ DockerStopRaises(c)
  BY <1>1, <1>6 DEF SpawnFails, Unhealthy, PollRaises, DockerStopRaises, Rollback
<1>7. CASE PostStart(c)
  BY <1>2, <1>7 DEF PostStart
<1>8. CASE DockerStop(c) \/ DockerStopBlind(c)
  BY <1>2, <1>8 DEF DockerStop, DockerStopBlind
<1>9. CASE Commit(c) \/ DeleteCommit(c)
  BY <1>1, <1>9 DEF Commit, DeleteCommit
<1>10. CASE FlushStarting(c) \/ FlushStopping(c)
  BY <1>3, <1>10 DEF FlushStarting, FlushStopping
<1> QED
  BY <1>4, <1>5, <1>6, <1>7, <1>8, <1>9, <1>10 DEF Step, LockStep

\* It is enough to look at the call that makes the step.
LEMMA OnlyThisCall ==
  ASSUME TypeOK, CallsInv, OneCall, NEW c \in Calls, Step(c) \/ LockStep(c)
  PROVE  /\ OneCall'
         /\ \A d \in Calls \ {c} : CallSerial(d)' /\ mine[d] = {}
<1>1. OthersSame(c) /\ c \in Busy
  BY StepOthersSame DEF Busy
<1>2. ASSUME NEW d \in Calls \ {c}
      PROVE  cpc'[d] = "idle" /\ op'[d] = "none" /\ mine[d] = {}
  BY <1>1, <1>2 DEF OthersSame, OneCall, Busy, CallsInv, CallShape
<1>3. OneCall'
  BY <1>2 DEF OneCall, Busy
<1>4. ASSUME NEW d \in Calls \ {c}
      PROVE  CallSerial(d)'
  BY <1>2 DEF CallSerial
<1> QED
  BY <1>2, <1>3, <1>4

LEMMA Counts ==
  ASSUME NEW S \in SUBSET Agents, NEW T \in SUBSET Agents, S \subseteq T
  PROVE  /\ Cardinality(S) \in Nat /\ Cardinality(T) \in Nat /\ IsFiniteSet(S) /\ IsFiniteSet(T)
         /\ Cardinality(S) <= Cardinality(T)
<1>1. IsFiniteSet(S) /\ IsFiniteSet(T)
  BY AgentsAssumption, FS_Subset
<1> QED
  BY <1>1, FS_Subset, FS_CardinalityType

\* A call ends without having started or stopped an agent.
LEMMA EndKeepsSerial ==
  ASSUME TypeOK, CallsInv, SerialInv, Quiet, NEW c \in Calls, Step(c) \/ LockStep(c), Finish(c),
         mine[c] = {}, UNCHANGED <<row, trading, accepting, halted>>
  PROVE  SerialInv'
<1>1. OneCall' /\ \A d \in Calls \ {c} : CallSerial(d)'
  BY OnlyThisCall DEF SerialInv
<1>2. CallSerial(c)'
  BY DEF Finish, TypeOK, CallSerial
<1>3. TradingAlive'
  <2>1. ASSUME NEW d \in Calls, d # c
        PROVE  mine'[d] = mine[d] /\ op'[d] = op[d]
    BY <2>1, OtherCallsKeep
  <2> QED
    BY <2>1 DEF SerialInv, TradingAlive
<1>4. HaltHolds' /\ Cardinality(trading') <= MaxAgents
  BY DEF HaltHolds, SerialInv
<1> QED
  BY <1>1, <1>2, <1>3, <1>4 DEF SerialInv

LEMMA StartOneKeepsSerial ==
  ASSUME TypeOK, CallsInv, SerialInv, Quiet, Quiet', NEW c \in Calls, StartOne(c)
  PROVE  SerialInv'
<1> USE DEF dockerVars
<1>1. Step(c)
  BY DEF Step
<1>2. CASE Rollback(c)
  BY <1>1, <1>2, EndKeepsSerial DEF Rollback, StartOne, Quiet
<1>3. CASE /\ ~(LiveCount(c) >= MaxAgents \/ (op[c] = "startAll" /\ ~accepting))
           /\ Goto(c, "next", "flush") /\ UNCHANGED <<row, rowLock, op, todo, view, mine, serial>>
  <2>1. OneCall' /\ \A d \in Calls \ {c} : CallSerial(d)' /\ mine[d] = {}
    BY <1>1, OnlyThisCall DEF SerialInv
  <2>2. TradingAlive' /\ HaltHolds' /\ Cardinality(trading') <= MaxAgents
    BY <1>3 DEF SerialInv, TradingAlive, HaltHolds, StartOne
  <2>3. Cardinality(trading \cup mine[c]) < MaxAgents
    <3> DEFINE L == {a \in Agents : row[a].status = "alive"} \cup mine[c]
    <3>1. trading \cup mine[c] \subseteq L /\ L \in SUBSET Agents
      BY <2>1 DEF SerialInv, TradingAlive, TypeOK
    <3>2. Cardinality(L) < MaxAgents
      <4>1. Cardinality(L) \in Nat /\ ~(Cardinality(L) >= MaxAgents)
        BY <1>3, <3>1, Counts DEF LiveCount
      <4> QED
        BY <4>1, AgentsAssumption
    <3>3. Cardinality(trading \cup mine[c]) \in Nat /\ Cardinality(L) \in Nat
          /\ Cardinality(trading \cup mine[c]) <= Cardinality(L)
      BY <3>1, Counts
    <3> QED
      BY <3>2, <3>3, AgentsAssumption
  <2>4. CallSerial(c)'
    <3>1. /\ op[c] \in StartOps /\ op' = op /\ cpc'[c] = "flush" /\ mine' = mine
          /\ trading' = trading /\ accepting' = accepting
      BY <1>3 DEF StartOne, Goto, TypeOK
    <3>2. accepting
      BY <1>3, <3>1 DEF SerialInv, CallSerial, StartOps
    <3> QED
      BY <2>3, <3>1, <3>2 DEF CallSerial, StartOps
  <2> QED
    BY <2>1, <2>2, <2>4 DEF SerialInv
<1> QED
  BY <1>2, <1>3 DEF StartOne

\* The call takes the row's lock.
LEMMA UpdateKeepsSerial ==
  ASSUME TypeOK, CallsInv, SerialInv, Quiet, Quiet', NEW c \in Calls, LockStep(c),
         \/ Update(c, "spawn") /\ cpc[c] = "flush"
         \/ Update(c, "dockerStop") /\ cpc[c] = "next" /\ op[c] \in StopOps /\ todo[c] # {},
         UNCHANGED <<trading, accepting, halted>>
  PROVE  SerialInv'
<1>1. CASE Rollback(c)
  BY <1>1, EndKeepsSerial DEF Rollback, Quiet
<1>2. CASE ~Rollback(c)
  <2>1. PICK a \in Agents : a = Current(c)
    BY CurrentKnown
  <2>2. PICK to \in {"spawn", "dockerStop"} :
          /\ cpc' = [cpc EXCEPT ![c] = to]
          /\ to = "spawn" => cpc[c] = "flush"
          /\ to = "dockerStop" => op[c] \in StopOps
          /\ mine' = [mine EXCEPT ![c] = @ \cup {a}]
          /\ UNCHANGED <<row, op, todo>>
    BY <1>2, <2>1 DEF Update
  <2>3. OneCall' /\ \A d \in Calls \ {c} : CallSerial(d)'
    BY OnlyThisCall DEF SerialInv
  <2>4. TradingAlive'
    BY <2>2 DEF SerialInv, TradingAlive, TypeOK
  <2>5. HaltHolds' /\ Cardinality(trading') <= MaxAgents
    BY DEF SerialInv, HaltHolds
  <2>6. mine'[c] = mine[c] \cup {a} /\ cpc'[c] = to
    BY <2>2 DEF TypeOK
  <2>7. to = "spawn" => Cardinality(trading \cup mine'[c]) <= MaxAgents
    <3> SUFFICES ASSUME to = "spawn" PROVE Cardinality(trading \cup mine'[c]) <= MaxAgents
      OBVIOUS
    <3> DEFINE S == trading \cup mine[c]
    <3>1. S \in SUBSET Agents /\ Cardinality(S) < MaxAgents /\ trading \cup mine'[c] = S \cup {a}
      BY <2>2, <2>6 DEF SerialInv, CallSerial, TypeOK
    <3> HIDE DEF S
    <3>2. IsFiniteSet(S) /\ Cardinality(S) \in Nat
      BY <3>1, Counts
    <3>3. Cardinality(S \cup {a}) = IF a \in S THEN Cardinality(S) ELSE Cardinality(S) + 1
      BY <3>2, FS_AddElement
    <3> QED
      BY <3>1, <3>2, <3>3, AgentsAssumption
  <2>8. CallSerial(c)'
    <3>1. to = "spawn" => op[c] \in StartOps /\ accepting
      BY <2>2 DEF SerialInv, CallSerial, CallsInv, CallShape, StartOps
    <3> QED
      BY <2>2, <2>6, <2>7, <3>1 DEF SerialInv, CallSerial, StartOps, StopOps
  <2> QED
    BY <2>3, <2>4, <2>5, <2>8 DEF SerialInv
<1> QED
  BY <1>1, <1>2

LEMMA PostStartKeepsSerial ==
  ASSUME TypeOK, CallsInv, SerialInv, Quiet, NEW c \in Calls, PostStart(c)
  PROVE  SerialInv'
<1>1. PICK a \in Agents : a = Current(c) /\ a \in mine[c]
  BY CurrentKnown DEF PostStart, Done, Goto, CallsInv, LocksDescend, InDocker
<1>2. /\ cpc[c] = "health" /\ cpc'[c] = "next" /\ op[c] \in StartOps
      /\ trading' \in {trading, trading \cup {a}}
      /\ UNCHANGED <<row, accepting, op, mine, halted>>
  BY <1>1 DEF PostStart, Done, Goto, TypeOK, CallsInv, CallShape, history
<1>3. accepting
  BY <1>2 DEF SerialInv, CallSerial, StartOps
<1>4. OneCall' /\ \A d \in Calls \ {c} : CallSerial(d)'
  BY OnlyThisCall DEF SerialInv, Step
<1>5. TradingAlive'
  BY <1>1, <1>2 DEF SerialInv, TradingAlive
<1>6. HaltHolds'
  BY <1>2, <1>3 DEF SerialInv, HaltHolds
<1>7. Cardinality(trading') <= MaxAgents
  <2>1. trading' \subseteq trading \cup mine[c] /\ trading \cup mine[c] \in SUBSET Agents
    BY <1>1, <1>2 DEF TypeOK
  <2>2. Cardinality(trading \cup mine[c]) <= MaxAgents
    BY <1>2 DEF SerialInv, CallSerial
  <2>3. /\ Cardinality(trading') \in Nat /\ Cardinality(trading \cup mine[c]) \in Nat
        /\ Cardinality(trading') <= Cardinality(trading \cup mine[c])
    BY <2>1, Counts
  <2> QED
    BY <2>2, <2>3, AgentsAssumption
<1>8. CallSerial(c)'
  BY <1>2, <1>3 DEF CallSerial, StartOps
<1> QED
  BY <1>4, <1>5, <1>6, <1>7, <1>8 DEF SerialInv

LEMMA DockerStopKeepsSerial ==
  ASSUME TypeOK, CallsInv, ContainersInv, SerialInv, Quiet, NEW c \in Calls, DockerStop(c)
  PROVE  SerialInv'
<1>1. PICK a \in Agents : a = Current(c)
  BY CurrentKnown DEF DockerStop
<1>2. /\ cpc[c] = "dockerStop" /\ cpc'[c] = "next" /\ op[c] \in StopOps
      /\ todo'[c] = todo[c] \ {a} /\ trading' \subseteq trading
      /\ UNCHANGED <<row, accepting, op, mine, halted>>
  BY <1>1 DEF DockerStop, Removed, Done, Goto, TypeOK, CallsInv, CallShape, history
<1>3. a \notin trading'
  <2>1. CASE ctr[a] # NoCid /\ ctr[a] = Target(c)
    BY <1>1, <2>1 DEF DockerStop, Removed
  <2>2. CASE ~(ctr[a] # NoCid /\ ctr[a] = Target(c))
    <3>1. ctr[a] = NoCid
      BY <1>1, <1>2, <2>2, StopFinds DEF Quiet
    <3> QED
      BY <1>2, <3>1 DEF ContainersInv, AgentSound
  <2> QED
    BY <2>1, <2>2
<1>4. OneCall' /\ \A d \in Calls \ {c} : CallSerial(d)'
  BY OnlyThisCall DEF SerialInv, Step
<1>5. TradingAlive' /\ HaltHolds'
  BY <1>2 DEF SerialInv, TradingAlive, HaltHolds
<1>6. Cardinality(trading') <= MaxAgents
  <2>1. /\ Cardinality(trading') \in Nat /\ Cardinality(trading) \in Nat
        /\ Cardinality(trading') <= Cardinality(trading)
    BY <1>2, Counts DEF TypeOK
  <2> QED
    BY <2>1, AgentsAssumption DEF SerialInv
<1>7. CallSerial(c)'
  BY <1>2, <1>3 DEF SerialInv, CallSerial, StopOps
<1> QED
  BY <1>4, <1>5, <1>6, <1>7 DEF SerialInv

LEMMA CommitKeepsSerial ==
  ASSUME TypeOK, CallsInv, ContainersInv, SerialInv, Quiet, NEW c \in Calls, Commit(c)
  PROVE  SerialInv'
<1>1. /\ cpc[c] = "next" /\ todo[c] = {} /\ Finish(c)
      /\ row' = [a \in Agents |-> IF a \in mine[c] THEN Written(c, a) ELSE row[a]]
      /\ halted' = (halted \/ op[c] = "halt")
      /\ UNCHANGED <<trading, accepting>>
  BY DEF Commit, dockerVars
<1>2. OneCall' /\ \A d \in Calls \ {c} : CallSerial(d)' /\ mine[d] = {}
  BY OnlyThisCall DEF SerialInv, Step
<1>3. CallSerial(c)'
  BY <1>1 DEF Finish, TypeOK, CallSerial
<1>4. ASSUME NEW a \in trading
      PROVE  row'[a].status = "alive"
  <2>1. a \in Agents
    BY DEF TypeOK
  <2>2. CASE a \in mine[c]
    <3>1. Treated(c, a)
      BY <1>1, <2>2 DEF Treated
    <3>2. op[c] \notin StopOps
      BY <2>1, <3>1 DEF ContainersInv, AgentSound, CallKnows, Quiet
    <3>3. op[c] \in StartOps
      BY <1>1, <3>2 DEF TypeOK, CallsInv, CallShape, Ops, StartOps, StopOps
    <3> QED
      BY <1>1, <2>1, <2>2, <3>3 DEF Written
  <2>3. CASE a \notin mine[c]
    BY <1>1, <1>2, <2>1, <2>3 DEF SerialInv, TradingAlive
  <2> QED
    BY <2>2, <2>3
<1>5. TradingAlive'
  BY <1>1, <1>4 DEF TradingAlive
<1>6. HaltHolds' /\ Cardinality(trading') <= MaxAgents
  BY <1>1 DEF SerialInv, CallSerial, HaltHolds
<1> QED
  BY <1>2, <1>3, <1>5, <1>6 DEF SerialInv

LEMMA DeleteKeepsSerial ==
  ASSUME TypeOK, CallsInv, SerialInv, Quiet, NEW c \in Calls, DeleteCommit(c)
  PROVE  SerialInv'
<1>1. PICK a \in Agents : a = Current(c) /\ a \in todo[c]
  BY CurrentKnown DEF DeleteCommit
<1>2. /\ op[c] = "delete" /\ Finish(c)
      /\ row' = [row EXCEPT ![a] = [status |-> "deleted", cid |-> NoCid]]
      /\ UNCHANGED <<trading, accepting, halted>>
  BY <1>1 DEF DeleteCommit, dockerVars, history
<1>3. a \notin trading /\ mine[c] = {}
  BY <1>1, <1>2 DEF SerialInv, CallSerial, CallsInv, CallShape
<1>4. OneCall' /\ \A d \in Calls \ {c} : CallSerial(d)' /\ mine[d] = {}
  BY OnlyThisCall DEF SerialInv, LockStep
<1>5. CallSerial(c)'
  BY <1>2 DEF Finish, TypeOK, CallSerial
<1>6. TradingAlive'
  <2>1. \A b \in trading : row[b].status = "alive" /\ row'[b] = row[b]
    BY <1>2, <1>3, <1>4 DEF SerialInv, TradingAlive, TypeOK
  <2> QED
    BY <1>2, <2>1 DEF TradingAlive
<1>7. HaltHolds' /\ Cardinality(trading') <= MaxAgents
  BY <1>2 DEF SerialInv, HaltHolds
<1> QED
  BY <1>4, <1>5, <1>6, <1>7 DEF SerialInv

\* serial and orphan only ever grow worse.
LEMMA QuietBefore ==
  ASSUME TypeOK, Next, Quiet'
  PROVE  Quiet
<1> USE DEF history, callVars, dockerVars
<1>1. ASSUME NEW c \in Calls, NEW to \in {"spawn", "dockerStop"}, Update(c, to)
      PROVE  serial' => serial
  BY <1>1 DEF Update, Rollback
<1>2. ASSUME NEW c \in Calls, Begin(c)
      PROVE  Quiet
  BY <1>2 DEF Begin, CallOne, CallAll, Load, Quiet
<1>3. ASSUME NEW c \in Calls, Step(c)
      PROVE  Quiet
  BY <1>3 DEF Step, StartOne, Spawn, SpawnFails, Unhealthy, PollRaises, PostStart, DockerStop,
              DockerStopBlind, DockerStopRaises, Commit, Rollback, Quiet
<1>4. ASSUME NEW c \in Calls, LockStep(c)
      PROVE  Quiet
  BY <1>1, <1>4 DEF LockStep, FlushStarting, FlushStopping, DeleteCommit, Quiet
<1>5. ASSUME NEW a \in Agents, Create(a) \/ PushSend(a) \/ PushRead(a) \/ PushWrite(a)
      PROVE  Quiet
  BY <1>5 DEF Create, PushSend, PushRead, PushWrite, Quiet
<1>6. CASE Restart
  BY <1>6 DEF Restart, Quiet
<1> QED
  BY <1>2, <1>3, <1>4, <1>5, <1>6 DEF Next

LEMMA StepKeepsSerial ==
  ASSUME TypeOK, CallsInv, ContainersInv, SerialInv, Quiet, Quiet',
         NEW c \in Calls, Step(c) \/ LockStep(c)
  PROVE  SerialInv'
<1> USE DEF dockerVars, callVars, history
<1>1. CASE StartOne(c)
  BY <1>1, StartOneKeepsSerial
<1>2. CASE Spawn(c)
  <2>1. /\ cpc[c] = "spawn" /\ cpc'[c] = "health" /\ op[c] \in StartOps
        /\ UNCHANGED <<row, trading, accepting, op, todo, mine, halted>>
    BY <1>2 DEF Spawn, Goto, TypeOK, CallsInv, CallShape
  <2>2. OneCall' /\ \A d \in Calls \ {c} : CallSerial(d)'
    BY OnlyThisCall DEF SerialInv
  <2>3. TradingAlive' /\ HaltHolds' /\ Cardinality(trading') <= MaxAgents
    BY <2>1 DEF SerialInv, TradingAlive, HaltHolds
  <2>4. CallSerial(c)'
    BY <2>1 DEF SerialInv, CallSerial, StartOps
  <2> QED
    BY <2>2, <2>3, <2>4 DEF SerialInv
<1>3. CASE SpawnFails(c) \/ PollRaises(c)
  BY <1>3, EndKeepsSerial DEF SpawnFails, PollRaises, Rollback, Quiet
<1>4. CASE Unhealthy(c) \/ DockerStopBlind(c)
  BY <1>4 DEF Unhealthy, DockerStopBlind, Quiet
<1>5. CASE PostStart(c)
  BY <1>5, PostStartKeepsSerial
<1>6. CASE DockerStop(c)
  BY <1>6, DockerStopKeepsSerial
<1>7. CASE DockerStopRaises(c)
  <2>1. mine[c] # {}
    BY <1>7 DEF DockerStopRaises, CallsInv, LocksDescend, InDocker
  <2> QED
    BY <1>7, <2>1 DEF DockerStopRaises, Rollback, Quiet
<1>8. CASE Commit(c)
  BY <1>8, CommitKeepsSerial
<1>9. CASE FlushStarting(c) \/ FlushStopping(c)
  <2>1. LockStep(c) /\ UNCHANGED <<trading, accepting, halted>>
    BY <1>9 DEF LockStep, FlushStarting, FlushStopping
  <2>2. CASE FlushStarting(c)
    BY <2>1, <2>2, UpdateKeepsSerial DEF FlushStarting
  <2>3. CASE FlushStopping(c)
    BY <2>1, <2>3, UpdateKeepsSerial DEF FlushStopping, StopOps
  <2> QED
    BY <1>9, <2>2, <2>3
<1>10. CASE DeleteCommit(c)
  BY <1>10, DeleteKeepsSerial
<1> QED
  BY <1>1, <1>2, <1>3, <1>4, <1>5, <1>6, <1>7, <1>8, <1>9, <1>10 DEF Step, LockStep

\* A call begins when no other is under way: every agent that trades has a row that says so.
LEMMA LoadKeepsSerial ==
  ASSUME TypeOK, CallsInv, SerialInv, Quiet, Quiet', NEW c \in Calls, NEW o \in Ops \ {"none"},
         NEW S \in SUBSET Agents, Load(c, o, S),
         o = "delete" => \A a \in S : row[a].status # "alive",
         o = "halt" => S = {a \in Agents : Exists(row[a])},
         o = "start" => accepting, accepting' = (accepting /\ o # "halt"),
         UNCHANGED <<row, trading, halted>>
  PROVE  SerialInv'
<1>1. Busy = {} /\ serial
  BY DEF Load, Quiet
<1>2. \A d \in Calls : cpc[d] = "idle" /\ op[d] = "none" /\ mine[d] = {}
  BY <1>1 DEF Busy, CallsInv, CallShape
<1>3. \A a \in trading : row[a].status = "alive" /\ a \in Agents
  BY <1>2 DEF SerialInv, TradingAlive, TypeOK
<1>4. /\ cpc'[c] = "next" /\ op'[c] = o /\ mine' = mine
      /\ todo'[c] = {a \in S : Wanted(o, row[a])}
  BY DEF Load, TypeOK
<1>5. \A d \in Calls \ {c} : cpc'[d] = "idle" /\ op'[d] = "none"
  BY <1>2 DEF Load, TypeOK
<1>6. OneCall'
  BY <1>5 DEF OneCall, Busy
<1>7. TradingAlive' /\ HaltHolds' /\ Cardinality(trading') <= MaxAgents
  BY <1>3 DEF SerialInv, TradingAlive, HaltHolds
<1>8. CallSerial(c)'
  <2>1. o = "delete" => todo'[c] \cap trading = {}
    BY <1>3, <1>4
  <2>2. o = "halt" => trading \subseteq todo'[c]
    BY <1>3, <1>4 DEF Exists, Wanted, StartOps
  <2> QED
    BY <1>2, <1>4, <2>1, <2>2 DEF CallSerial
<1>9. \A d \in Calls \ {c} : CallSerial(d)'
  BY <1>5 DEF CallSerial
<1> QED
  BY <1>6, <1>7, <1>8, <1>9 DEF SerialInv

LEMMA BeginKeepsSerial ==
  ASSUME TypeOK, CallsInv, SerialInv, Quiet, Quiet', NEW c \in Calls, Begin(c)
  PROVE  SerialInv'
<1> USE DEF dockerVars
<1>1. ASSUME NEW a \in Agents, NEW o \in {"start", "stop", "delete"}, CallOne(c, o, a)
      PROVE  SerialInv'
  <2>1. /\ o \in Ops \ {"none"} /\ {a} \in SUBSET Agents /\ Load(c, o, {a}) /\ o # "halt"
        /\ o = "start" => accepting
        /\ accepting' = accepting /\ UNCHANGED <<row, trading, halted>>
        /\ o = "delete" => \A x \in {a} : row[x].status # "alive"
    BY <1>1 DEF CallOne, Ops
  <2>2. accepting' = (accepting /\ o # "halt")
    BY <2>1 DEF TypeOK
  <2> QED
    BY <2>1, <2>2, LoadKeepsSerial
<1>2. ASSUME NEW o \in {"startAll", "stopAll", "halt"}, CallAll(c, o)
      PROVE  SerialInv'
  <2>1. PICK S \in SUBSET Agents : S = {a \in Agents : Exists(row[a])} /\ Load(c, o, S)
    BY <1>2 DEF CallAll
  <2>2. /\ o \in Ops \ {"none"} /\ o # "delete" /\ o # "start" /\ UNCHANGED <<row, trading, halted>>
        /\ accepting' = (accepting /\ o # "halt")
    BY <1>2 DEF CallAll, Ops
  <2> QED
    BY <2>1, <2>2, LoadKeepsSerial
<1> QED
  BY <1>1, <1>2 DEF Begin

LEMMA OthersKeepSerial ==
  ASSUME TypeOK, CallsInv, SerialInv, Quiet, Quiet',
         \/ \E a \in Agents : Create(a) \/ PushSend(a) \/ PushRead(a) \/ PushWrite(a)
         \/ Restart
         \/ UNCHANGED vars
  PROVE  SerialInv'
<1> USE DEF dockerVars, callVars, history
<1>1. ASSUME UNCHANGED <<trading, accepting, callVars, halted>>,
             \A a \in trading : row[a].status = "alive" => row'[a].status = "alive"
      PROVE  SerialInv'
  <2>1. TradingAlive' /\ HaltHolds' /\ OneCall'
    BY <1>1 DEF SerialInv, TradingAlive, HaltHolds, OneCall, Busy
  <2>2. ASSUME NEW c \in Calls
        PROVE  CallSerial(c)'
    BY <1>1 DEF SerialInv, CallSerial
  <2> QED
    BY <1>1, <2>1, <2>2 DEF SerialInv
<1>2. ASSUME NEW a \in Agents, Create(a) \/ PushSend(a) \/ PushRead(a) \/ PushWrite(a)
      PROVE  SerialInv'
  <2>1. \A b \in Agents : row[b].status = "alive" => row'[b].status = "alive"
    <3>1. CASE Create(a)
      BY <3>1 DEF Create, TypeOK
    <3>2. CASE PushSend(a) \/ PushRead(a)
      BY <3>2 DEF PushSend, PushRead
    <3>3. CASE PushWrite(a)
      BY <3>3 DEF PushWrite, TypeOK, Rows
    <3> QED
      BY <1>2, <3>1, <3>2, <3>3
  <2>2. UNCHANGED <<trading, accepting, callVars, halted>>
    BY <1>2 DEF Create, PushSend, PushRead, PushWrite
  <2> QED
    BY <1>1, <2>1, <2>2 DEF TypeOK
<1>3. CASE Restart
  <2>1. Busy = {} /\ UNCHANGED <<row, trading>>
    BY <1>3 DEF Restart, Quiet
  <2>2. \A a \in trading : row[a].status = "alive"
    BY <2>1 DEF SerialInv, TradingAlive, Busy, CallsInv, CallShape
  <2>3. /\ \A c \in Calls : cpc'[c] = "idle" /\ op'[c] = "none" /\ mine'[c] = {}
        /\ accepting' /\ ~halted'
    BY <1>3 DEF Restart
  <2>4. OneCall' /\ TradingAlive' /\ HaltHolds' /\ Cardinality(trading') <= MaxAgents
    BY <2>1, <2>2, <2>3 DEF OneCall, Busy, TradingAlive, HaltHolds, SerialInv
  <2>5. ASSUME NEW c \in Calls
        PROVE  CallSerial(c)'
    BY <2>3 DEF CallSerial
  <2> QED
    BY <2>4, <2>5 DEF SerialInv
<1>4. CASE UNCHANGED vars
  BY <1>1, <1>4 DEF vars
<1> QED
  BY <1>2, <1>3, <1>4

LEMMA SerialStart == Init => SerialInv
<1> SUFFICES ASSUME Init PROVE SerialInv
  OBVIOUS
<1>1. Cardinality(trading) <= MaxAgents
  BY FS_EmptySet, AgentsAssumption DEF Init
<1> QED
  BY <1>1 DEF Init, SerialInv, OneCall, Busy, TradingAlive, HaltHolds, CallSerial

\* With one call at a time, what that call still relies on: a halt has every trading agent
\* before it, a start counts the agents it has begun, and a drained user-server starts none
\* (agents/service.py, hub_callback/router.py).
THEOREM SerialKept == Spec => [](TypeOK /\ CallsInv /\ ContainersInv /\ SerialInv)
<1>1. Init => SerialInv
  BY SerialStart
<1>2. TypeOK /\ CallsInv /\ ContainersInv /\ SerialInv /\ [Next]_vars => SerialInv'
  <2> SUFFICES ASSUME TypeOK, CallsInv, ContainersInv, SerialInv, [Next]_vars, Quiet'
               PROVE  SerialInv'
    BY DEF SerialInv
  <2>1. Quiet
    BY QuietBefore DEF vars, history, Quiet
  <2> QED
    BY <2>1, StepKeepsSerial, BeginKeepsSerial, OthersKeepSerial DEF Next
<1> QED
  BY <1>1, <1>2, ContainersKept, PTL DEF Spec

LEMMA SerialSuffices == SerialInv /\ CallsInv => SerialSafe
BY DEF SerialInv, SerialSafe, Quiet, HaltStopsAll, HaltHolds, TradingAlive, MaxAgentsRespected,
       Busy, CallsInv, CallShape

\* SerialSafe: to a hub that makes one call at a time the user-server keeps what its API says
\* about halts, rows and the number of agents.
THEOREM SerialCallsSafe == Spec => []SerialSafe
BY SerialKept, SerialSuffices, PTL
=============================================================================
