-------------------------- MODULE VMServiceProofs --------------------------
(***************************************************************************)
(* Proofs about VMService for any number of requests, sockets, instances   *)
(* and failures, in a hub where nobody drains.                             *)
(***************************************************************************)
EXTENDS MCVMDrain, TLAPS

Mapped(s, v, e) == [status |-> s, vm |-> v, ep |-> e]

\* What the holder of the wake lock knows at each of its steps.
HolderKnows(t) ==
  LET v == vmOf[t] IN
  /\ pc[t] = "persistWaking" =>
       /\ reg = Mapped("waking", row.vm, row.ep)
       /\ row.status \in {"stopped", "waking", "draining", "error"}
  /\ pc[t] = "readRow" => reg = row /\ row.status = "waking"
  /\ pc[t] = "getStatus" => v # NoVM /\ reg = row /\ row = Mapped("waking", v, v)
  /\ pc[t] = "stopOrphan" => v # NoVM /\ reg = row /\ row = Mapped("waking", v, NoVM)
  /\ pc[t] \in {"clear", "clearLeaked"} =>
       /\ reg = Mapped("waking", NoVM, NoVM)
       /\ row.status = "waking"
       /\ Live(row.vm) => row.vm \in lost
  /\ pc[t] = "start" => reg = row /\ row = Mapped("waking", NoVM, NoVM)
  /\ pc[t] = "persistVm" =>
       /\ v # NoVM
       /\ reg = Mapped("waking", v, NoVM)
       /\ row = Mapped("waking", NoVM, NoVM)
  /\ pc[t] = "launch" => v # NoVM /\ reg = row /\ row = Mapped("waking", v, NoVM)
  /\ pc[t] = "persistEp" =>
       /\ v \in launched
       /\ reg = Mapped("waking", v, v)
       /\ row = Mapped("waking", v, NoVM)
  /\ pc[t] \in {"health", "secrets"} =>
       v \in launched /\ reg = row /\ row = Mapped("waking", v, v)
  /\ pc[t] = "persistRunning" =>
       /\ v \in launched \cap pushed
       /\ reg = Mapped("running", v, v)
       /\ row = Mapped("waking", v, v)
  /\ pc[t] = "cleanup" => reg = row /\ row.status = "waking" /\ row.ep = NoVM
  /\ pc[t] = "persistError" =>
       reg = Mapped("error", NoVM, NoVM) /\ row = Mapped("waking", NoVM, NoVM)

\* Exactly the holder of the lock is inside wake().
LockInv == \A t \in Tasks : pc[t] \in WakeSteps <=> lock = t

\* Rows that are reached: an endpoint is that of the mapped, launched
\* instance; a running row is complete; only a drain leaves one draining.
RowInv ==
  /\ row.status = "draining" => Drainers # {}
  /\ row.ep # NoVM => row.ep = row.vm /\ row.vm \in launched
  /\ row.status = "running" => row.ep # NoVM /\ row.vm \in pushed

\* Nothing is known of a user before signup is committed and published.
SignupInv ==
  /\ row.status = "absent" <=> signup = "none"
  /\ signup = "none" => row = Absent
  /\ signup # "done" => reg = Absent
  /\ signup = "committed" => row = Stopped
  /\ reg.status = "absent" <=> signup # "done"
  /\ reg.status = "absent" => \A t \in Tasks : pc[t] = "idle"

\* Requests being forwarded go to the running instance.
ForwardInv ==
  \A t \in Tasks : pc[t] = "forward" =>
     reg.status = "running" /\ vmOf[t] \in launched \cap pushed

HolderInv == \A t \in Tasks : lock = t => HolderKnows(t)

\* The inductive invariant.
WakeInv ==
  /\ TypeOK
  /\ LockInv
  /\ SignupInv
  /\ RowInv
  /\ ForwardInv
  /\ CacheCoherent
  /\ HolderInv
  /\ NoInstanceForgotten

-----------------------------------------------------------------------------
(* Type correctness, with or without drains.                               *)

USE NamesAssumption, BoundAssumption
USE DEF Tasks, taskVars, drainVars, history, Statuses, MaybeVM, VMStates,
        Absent, Stopped, WakeSteps, TaskSteps, DrainSteps, Live, Goto, DGoto,
        SetStatus, SetState, Persist, Serving, WakeLockFree, Resumed, Return,
        Raise, Fault, Mapped

\* Every step of every request, socket, drain, instance and of the hub
\* itself keeps the state well typed.
LEMMA TypeStep == ASSUME TypeOK, [Next]_vars PROVE TypeOK'
<1>1. CASE ProvisionCommit \/ ProvisionPut
  BY <1>1 DEF TypeOK, ProvisionCommit, ProvisionPut
<1>2. ASSUME NEW t \in Tasks, Dispatch(t) \/ ForwardOk(t) \/ ForwardFails(t) \/ SocketGone(t)
      PROVE  TypeOK'
  BY <1>2 DEF TypeOK, Dispatch, ForwardOk, ForwardFails, SocketGone
<1>3. ASSUME NEW t \in Tasks, Wake(t) PROVE TypeOK'
  <2>1. CASE Acquire(t) BY <2>1 DEF TypeOK, Acquire
  <2>2. CASE PersistWaking(t) BY <2>2 DEF TypeOK, PersistWaking
  <2>3. CASE ReadRow(t) BY <2>3 DEF TypeOK, ReadRow
  <2>4. CASE Reuse(t) BY <2>4 DEF TypeOK, Reuse
  <2>5. CASE Stale(t) BY <2>5 DEF TypeOK, Stale
  <2>6. CASE StopOrphan(t) BY <2>6 DEF TypeOK, StopOrphan
  <2>7. CASE StopOrphanFails(t) BY <2>7 DEF TypeOK, StopOrphanFails
  <2>8. CASE ClearMapping(t) BY <2>8 DEF TypeOK, ClearMapping
  <2>9. CASE Start(t) BY <2>9 DEF TypeOK, Start
  <2>10. CASE StartFails(t) BY <2>10 DEF TypeOK, StartFails
  <2>11. CASE StartLost(t) BY <2>11 DEF TypeOK, StartLost
  <2>12. CASE PersistVmId(t) BY <2>12 DEF TypeOK, PersistVmId
  <2>13. CASE Launch(t) BY <2>13 DEF TypeOK, Launch
  <2>14. CASE LaunchFails(t) BY <2>14 DEF TypeOK, LaunchFails
  <2>15. CASE PersistEndpoint(t) BY <2>15 DEF TypeOK, PersistEndpoint
  <2>16. CASE Healthy(t) BY <2>16 DEF TypeOK, Healthy
  <2>17. CASE HealthTimeout(t) BY <2>17 DEF TypeOK, HealthTimeout
  <2>18. CASE PushSecrets(t) BY <2>18 DEF TypeOK, PushSecrets
  <2>19. CASE PersistRunning(t) BY <2>19 DEF TypeOK, PersistRunning
  <2>20. CASE Cleanup(t) BY <2>20 DEF TypeOK, Cleanup
  <2>21. CASE CleanupStopFails(t) BY <2>21 DEF TypeOK, CleanupStopFails
  <2>22. CASE ClearLeaked(t) BY <2>22 DEF TypeOK, ClearLeaked
  <2>23. CASE PersistError(t) BY <2>23 DEF TypeOK, PersistError
  <2>24. CASE WakeRaises(t) BY <2>24 DEF TypeOK, WakeRaises
  <2>25. QED BY <1>3, <2>1, <2>2, <2>3, <2>4, <2>5, <2>6, <2>7, <2>8, <2>9, <2>10, <2>11, <2>12, <2>13, <2>14, <2>15, <2>16, <2>17, <2>18, <2>19, <2>20, <2>21, <2>22, <2>23, <2>24 DEF Wake
<1>4. ASSUME NEW d \in Drainers, Drain(d) PROVE TypeOK'
  <2>1. CASE DrainStart(d) BY <2>1 DEF TypeOK, DrainStart
  <2>2. CASE DrainPersist(d) BY <2>2 DEF TypeOK, DrainPersist
  <2>3. CASE DrainSnapshot(d) BY <2>3 DEF TypeOK, DrainSnapshot
  <2>4. CASE DrainStop(d)
    <3>1. cloud' \in [VMs -> {"none", "ready", "paused", "gone"}]
      BY <2>4 DEF TypeOK, DrainStop
    <3>2. dpc' \in [Drainers -> DrainSteps]
      BY <2>4 DEF TypeOK, DrainStop
    <3>3. QED BY <2>4, <3>1, <3>2 DEF TypeOK, DrainStop
  <2>5. CASE DrainFails(d) BY <2>5 DEF TypeOK, DrainFails
  <2>6. CASE DrainRaises(d) BY <2>6 DEF TypeOK, DrainRaises
  <2>7. CASE DrainWriteRow(d) BY <2>7 DEF TypeOK, DrainWriteRow
  <2>8. CASE DrainSetStopped(d) BY <2>8 DEF TypeOK, DrainSetStopped
  <2>9. CASE DrainPersistError(d) BY <2>9 DEF TypeOK, DrainPersistError
  <2>10. QED BY <1>4, <2>1, <2>2, <2>3, <2>4, <2>5, <2>6, <2>7, <2>8, <2>9 DEF Drain
<1>5. ASSUME NEW v \in VMs, Pause(v) \/ Terminate(v) PROVE TypeOK'
  BY <1>5 DEF TypeOK, Pause, Terminate
<1>6. CASE Restart
  BY <1>6 DEF TypeOK, Restart
<1>7. CASE UNCHANGED vars
  BY <1>7 DEF TypeOK, vars
<1>8. QED
  BY <1>1, <1>2, <1>3, <1>4, <1>5, <1>6, <1>7 DEF Next

\* The variables of VMService always have their types.
THEOREM TypeCorrect == Spec => []TypeOK
<1>1. Init => TypeOK
  BY DEF Init, TypeOK
<1>2. TypeOK /\ [Next]_vars => TypeOK'
  BY TypeStep
<1>3. QED
  BY <1>1, <1>2, PTL DEF Spec

-----------------------------------------------------------------------------
(* The invariant is inductive when nobody drains.                          *)

LEMMA InitWakeInv == Init => WakeInv
  BY DEF Init, WakeInv, TypeOK, LockInv, SignupInv, RowInv, ForwardInv,
         CacheCoherent, HolderInv, HolderKnows, NoInstanceForgotten

LEMMA SignupStep ==
  ASSUME WakeInv, TypeOK', ProvisionCommit \/ ProvisionPut
  PROVE  WakeInv'
<1>1. LockInv' /\ SignupInv' /\ RowInv' /\ ForwardInv'
  BY DEF WakeInv, ProvisionCommit, ProvisionPut, TypeOK, LockInv, SignupInv, RowInv, ForwardInv
<1>2. CacheCoherent' /\ HolderInv'
  BY DEF WakeInv, ProvisionCommit, ProvisionPut, TypeOK, LockInv, SignupInv,
         CacheCoherent, HolderInv
<1>3. NoInstanceForgotten'
  BY DEF WakeInv, ProvisionCommit, ProvisionPut, TypeOK, SignupInv, NoInstanceForgotten
<1>4. QED
  BY <1>1, <1>2, <1>3 DEF WakeInv

LEMMA CallerStep ==
  ASSUME WakeInv, TypeOK', NEW t \in Tasks,
         Dispatch(t) \/ ForwardOk(t) \/ ForwardFails(t) \/ SocketGone(t)
  PROVE  WakeInv'
<1>1. CASE Dispatch(t)
  <2>1. LockInv' /\ SignupInv' /\ RowInv' /\ ForwardInv'
    BY <1>1 DEF WakeInv, TypeOK, LockInv, SignupInv, RowInv, ForwardInv,
           CacheCoherent, HolderInv, HolderKnows, Dispatch
  <2>2. CacheCoherent'
    BY <1>1, <2>1 DEF WakeInv, TypeOK, LockInv, SignupInv, RowInv, ForwardInv,
           CacheCoherent, HolderInv, HolderKnows, Dispatch
  <2>3. HolderInv'
    BY <1>1, <2>1 DEF WakeInv, TypeOK, LockInv, SignupInv, RowInv, ForwardInv,
           CacheCoherent, HolderInv, HolderKnows, Dispatch
  <2>4. NoInstanceForgotten'
    BY <1>1 DEF WakeInv, TypeOK, LockInv, SignupInv, HolderInv, HolderKnows,
           NoInstanceForgotten, Dispatch
  <2>5. QED BY <2>1, <2>2, <2>3, <2>4 DEF WakeInv
<1>2. CASE ForwardOk(t)
  <2>1. LockInv' /\ SignupInv' /\ RowInv' /\ ForwardInv'
    BY <1>2 DEF WakeInv, TypeOK, LockInv, SignupInv, RowInv, ForwardInv,
           CacheCoherent, HolderInv, HolderKnows, ForwardOk
  <2>2. CacheCoherent'
    BY <1>2, <2>1 DEF WakeInv, TypeOK, LockInv, SignupInv, RowInv, ForwardInv,
           CacheCoherent, HolderInv, HolderKnows, ForwardOk
  <2>3. HolderInv'
    BY <1>2, <2>1 DEF WakeInv, TypeOK, LockInv, SignupInv, RowInv, ForwardInv,
           CacheCoherent, HolderInv, HolderKnows, ForwardOk
  <2>4. NoInstanceForgotten'
    BY <1>2 DEF WakeInv, TypeOK, LockInv, SignupInv, HolderInv, HolderKnows,
           NoInstanceForgotten, ForwardOk
  <2>5. QED BY <2>1, <2>2, <2>3, <2>4 DEF WakeInv
<1>3. CASE ForwardFails(t)
  <2>1. LockInv' /\ SignupInv' /\ RowInv' /\ ForwardInv'
    BY <1>3 DEF WakeInv, TypeOK, LockInv, SignupInv, RowInv, ForwardInv,
           CacheCoherent, HolderInv, HolderKnows, ForwardFails
  <2>2. CacheCoherent'
    BY <1>3, <2>1 DEF WakeInv, TypeOK, LockInv, SignupInv, RowInv, ForwardInv,
           CacheCoherent, HolderInv, HolderKnows, ForwardFails
  <2>3. HolderInv'
    BY <1>3, <2>1 DEF WakeInv, TypeOK, LockInv, SignupInv, RowInv, ForwardInv,
           CacheCoherent, HolderInv, HolderKnows, ForwardFails
  <2>4. NoInstanceForgotten'
    BY <1>3 DEF WakeInv, TypeOK, LockInv, SignupInv, HolderInv, HolderKnows,
           NoInstanceForgotten, ForwardFails
  <2>5. QED BY <2>1, <2>2, <2>3, <2>4 DEF WakeInv
<1>4. CASE SocketGone(t)
  <2>1. LockInv' /\ SignupInv' /\ RowInv' /\ ForwardInv'
    BY <1>4 DEF WakeInv, TypeOK, LockInv, SignupInv, RowInv, ForwardInv,
           CacheCoherent, HolderInv, HolderKnows, SocketGone
  <2>2. CacheCoherent'
    BY <1>4, <2>1 DEF WakeInv, TypeOK, LockInv, SignupInv, RowInv, ForwardInv,
           CacheCoherent, HolderInv, HolderKnows, SocketGone
  <2>3. HolderInv'
    BY <1>4, <2>1 DEF WakeInv, TypeOK, LockInv, SignupInv, RowInv, ForwardInv,
           CacheCoherent, HolderInv, HolderKnows, SocketGone
  <2>4. NoInstanceForgotten'
    BY <1>4 DEF WakeInv, TypeOK, LockInv, SignupInv, HolderInv, HolderKnows,
           NoInstanceForgotten, SocketGone
  <2>5. QED BY <2>1, <2>2, <2>3, <2>4 DEF WakeInv
<1>5. QED BY <1>1, <1>2, <1>3, <1>4

LEMMA WakeStep ==
  ASSUME WakeInv, TypeOK', NEW t \in Tasks, Wake(t)
  PROVE  WakeInv'
<1>1. CASE Acquire(t)
  <2>1. LockInv' /\ SignupInv' /\ RowInv' /\ ForwardInv'
    BY <1>1 DEF WakeInv, TypeOK, LockInv, SignupInv, RowInv, ForwardInv,
           CacheCoherent, HolderInv, HolderKnows, Acquire
  <2>2. CacheCoherent'
    BY <1>1, <2>1 DEF WakeInv, TypeOK, LockInv, SignupInv, RowInv, ForwardInv,
           CacheCoherent, HolderInv, HolderKnows, Acquire
  <2>3. HolderInv'
    BY <1>1, <2>1 DEF WakeInv, TypeOK, LockInv, SignupInv, RowInv, ForwardInv,
           CacheCoherent, HolderInv, HolderKnows, Acquire
  <2>4. NoInstanceForgotten'
    BY <1>1 DEF WakeInv, TypeOK, LockInv, SignupInv, HolderInv, HolderKnows,
           NoInstanceForgotten, Acquire
  <2>5. QED BY <2>1, <2>2, <2>3, <2>4 DEF WakeInv
<1>2. CASE PersistWaking(t)
  <2>1. LockInv' /\ SignupInv' /\ RowInv' /\ ForwardInv'
    BY <1>2 DEF WakeInv, TypeOK, LockInv, SignupInv, RowInv, ForwardInv,
           CacheCoherent, HolderInv, HolderKnows, PersistWaking
  <2>2. CacheCoherent'
    BY <1>2, <2>1 DEF WakeInv, TypeOK, LockInv, SignupInv, RowInv, ForwardInv,
           CacheCoherent, HolderInv, HolderKnows, PersistWaking
  <2>3. HolderInv'
    BY <1>2, <2>1 DEF WakeInv, TypeOK, LockInv, SignupInv, RowInv, ForwardInv,
           CacheCoherent, HolderInv, HolderKnows, PersistWaking
  <2>4. NoInstanceForgotten'
    BY <1>2 DEF WakeInv, TypeOK, LockInv, SignupInv, HolderInv, HolderKnows,
           NoInstanceForgotten, PersistWaking
  <2>5. QED BY <2>1, <2>2, <2>3, <2>4 DEF WakeInv
<1>3. CASE ReadRow(t)
  <2>1. LockInv' /\ SignupInv' /\ RowInv' /\ ForwardInv'
    BY <1>3 DEF WakeInv, TypeOK, LockInv, SignupInv, RowInv, ForwardInv,
           CacheCoherent, HolderInv, HolderKnows, ReadRow
  <2>2. CacheCoherent'
    BY <1>3, <2>1 DEF WakeInv, TypeOK, LockInv, SignupInv, RowInv, ForwardInv,
           CacheCoherent, HolderInv, HolderKnows, ReadRow
  <2>3. HolderInv'
    BY <1>3, <2>1 DEF WakeInv, TypeOK, LockInv, SignupInv, RowInv, ForwardInv,
           CacheCoherent, HolderInv, HolderKnows, ReadRow
  <2>4. NoInstanceForgotten'
    BY <1>3 DEF WakeInv, TypeOK, LockInv, SignupInv, HolderInv, HolderKnows,
           NoInstanceForgotten, ReadRow
  <2>5. QED BY <2>1, <2>2, <2>3, <2>4 DEF WakeInv
<1>4. CASE Reuse(t)
  <2>1. LockInv' /\ SignupInv' /\ RowInv' /\ ForwardInv'
    BY <1>4 DEF WakeInv, TypeOK, LockInv, SignupInv, RowInv, ForwardInv,
           CacheCoherent, HolderInv, HolderKnows, Reuse
  <2>2. CacheCoherent'
    BY <1>4, <2>1 DEF WakeInv, TypeOK, LockInv, SignupInv, RowInv, ForwardInv,
           CacheCoherent, HolderInv, HolderKnows, Reuse
  <2>3. HolderInv'
    BY <1>4, <2>1 DEF WakeInv, TypeOK, LockInv, SignupInv, RowInv, ForwardInv,
           CacheCoherent, HolderInv, HolderKnows, Reuse
  <2>4. NoInstanceForgotten'
    BY <1>4 DEF WakeInv, TypeOK, LockInv, SignupInv, HolderInv, HolderKnows,
           NoInstanceForgotten, Reuse
  <2>5. QED BY <2>1, <2>2, <2>3, <2>4 DEF WakeInv
<1>5. CASE Stale(t)
  <2>1. LockInv' /\ SignupInv' /\ RowInv' /\ ForwardInv'
    BY <1>5 DEF WakeInv, TypeOK, LockInv, SignupInv, RowInv, ForwardInv,
           CacheCoherent, HolderInv, HolderKnows, Stale
  <2>2. CacheCoherent'
    BY <1>5, <2>1 DEF WakeInv, TypeOK, LockInv, SignupInv, RowInv, ForwardInv,
           CacheCoherent, HolderInv, HolderKnows, Stale
  <2>3. HolderInv'
    BY <1>5, <2>1 DEF WakeInv, TypeOK, LockInv, SignupInv, RowInv, ForwardInv,
           CacheCoherent, HolderInv, HolderKnows, Stale
  <2>4. NoInstanceForgotten'
    BY <1>5 DEF WakeInv, TypeOK, LockInv, SignupInv, HolderInv, HolderKnows,
           NoInstanceForgotten, Stale
  <2>5. QED BY <2>1, <2>2, <2>3, <2>4 DEF WakeInv
<1>6. CASE StopOrphan(t)
  <2>1. LockInv' /\ SignupInv' /\ RowInv' /\ ForwardInv'
    BY <1>6 DEF WakeInv, TypeOK, LockInv, SignupInv, RowInv, ForwardInv,
           CacheCoherent, HolderInv, HolderKnows, StopOrphan
  <2>2. CacheCoherent'
    BY <1>6, <2>1 DEF WakeInv, TypeOK, LockInv, SignupInv, RowInv, ForwardInv,
           CacheCoherent, HolderInv, HolderKnows, StopOrphan
  <2>3. HolderInv'
    BY <1>6, <2>1 DEF WakeInv, TypeOK, LockInv, SignupInv, RowInv, ForwardInv,
           CacheCoherent, HolderInv, HolderKnows, StopOrphan
  <2>4. NoInstanceForgotten'
    BY <1>6 DEF WakeInv, TypeOK, LockInv, SignupInv, HolderInv, HolderKnows,
           NoInstanceForgotten, StopOrphan
  <2>5. QED BY <2>1, <2>2, <2>3, <2>4 DEF WakeInv
<1>7. CASE StopOrphanFails(t)
  <2>1. LockInv' /\ SignupInv' /\ RowInv' /\ ForwardInv'
    BY <1>7 DEF WakeInv, TypeOK, LockInv, SignupInv, RowInv, ForwardInv,
           CacheCoherent, HolderInv, HolderKnows, StopOrphanFails
  <2>2. CacheCoherent'
    BY <1>7, <2>1 DEF WakeInv, TypeOK, LockInv, SignupInv, RowInv, ForwardInv,
           CacheCoherent, HolderInv, HolderKnows, StopOrphanFails
  <2>3. HolderInv'
    BY <1>7, <2>1 DEF WakeInv, TypeOK, LockInv, SignupInv, RowInv, ForwardInv,
           CacheCoherent, HolderInv, HolderKnows, StopOrphanFails
  <2>4. NoInstanceForgotten'
    BY <1>7 DEF WakeInv, TypeOK, LockInv, SignupInv, HolderInv, HolderKnows,
           NoInstanceForgotten, StopOrphanFails
  <2>5. QED BY <2>1, <2>2, <2>3, <2>4 DEF WakeInv
<1>8. CASE ClearMapping(t)
  <2>1. LockInv' /\ SignupInv' /\ RowInv' /\ ForwardInv'
    BY <1>8 DEF WakeInv, TypeOK, LockInv, SignupInv, RowInv, ForwardInv,
           CacheCoherent, HolderInv, HolderKnows, ClearMapping
  <2>2. CacheCoherent'
    BY <1>8, <2>1 DEF WakeInv, TypeOK, LockInv, SignupInv, RowInv, ForwardInv,
           CacheCoherent, HolderInv, HolderKnows, ClearMapping
  <2>3. lock = t /\ HolderKnows(t) /\ lock' = t
    BY <1>8 DEF WakeInv, TypeOK, LockInv, HolderInv, ClearMapping
  <2>4. row.status = "waking" /\ row \in VMStates
    BY <1>8, <2>3 DEF WakeInv, TypeOK, HolderKnows, ClearMapping
  <2>5. row' = Mapped("waking", NoVM, NoVM)
    BY <1>8, <2>4 DEF ClearMapping
  <2>6. HolderKnows(t)'
    BY <1>8, <2>3, <2>5 DEF WakeInv, TypeOK, SignupInv, HolderKnows, ClearMapping
  <2>7. HolderInv'
    BY <2>3, <2>6 DEF HolderInv
  <2>8. NoInstanceForgotten'
    BY <1>8 DEF WakeInv, TypeOK, LockInv, SignupInv, HolderInv, HolderKnows,
           NoInstanceForgotten, ClearMapping
  <2>9. QED BY <2>1, <2>2, <2>7, <2>8 DEF WakeInv
<1>9. CASE Start(t)
  <2>1. LockInv' /\ SignupInv' /\ RowInv' /\ ForwardInv'
    BY <1>9 DEF WakeInv, TypeOK, LockInv, SignupInv, RowInv, ForwardInv,
           CacheCoherent, HolderInv, HolderKnows, Start
  <2>2. CacheCoherent'
    BY <1>9, <2>1 DEF WakeInv, TypeOK, LockInv, SignupInv, RowInv, ForwardInv,
           CacheCoherent, HolderInv, HolderKnows, Start
  <2>3. HolderInv'
    BY <1>9, <2>1 DEF WakeInv, TypeOK, LockInv, SignupInv, RowInv, ForwardInv,
           CacheCoherent, HolderInv, HolderKnows, Start
  <2>4. NoInstanceForgotten'
    BY <1>9 DEF WakeInv, TypeOK, LockInv, SignupInv, HolderInv, HolderKnows,
           NoInstanceForgotten, Start
  <2>5. QED BY <2>1, <2>2, <2>3, <2>4 DEF WakeInv
<1>10. CASE StartFails(t)
  <2>1. LockInv' /\ SignupInv' /\ RowInv' /\ ForwardInv'
    BY <1>10 DEF WakeInv, TypeOK, LockInv, SignupInv, RowInv, ForwardInv,
           CacheCoherent, HolderInv, HolderKnows, StartFails
  <2>2. CacheCoherent'
    BY <1>10, <2>1 DEF WakeInv, TypeOK, LockInv, SignupInv, RowInv, ForwardInv,
           CacheCoherent, HolderInv, HolderKnows, StartFails
  <2>3. HolderInv'
    BY <1>10, <2>1 DEF WakeInv, TypeOK, LockInv, SignupInv, RowInv, ForwardInv,
           CacheCoherent, HolderInv, HolderKnows, StartFails
  <2>4. NoInstanceForgotten'
    BY <1>10 DEF WakeInv, TypeOK, LockInv, SignupInv, HolderInv, HolderKnows,
           NoInstanceForgotten, StartFails
  <2>5. QED BY <2>1, <2>2, <2>3, <2>4 DEF WakeInv
<1>11. CASE StartLost(t)
  <2>1. LockInv' /\ SignupInv' /\ RowInv' /\ ForwardInv'
    BY <1>11 DEF WakeInv, TypeOK, LockInv, SignupInv, RowInv, ForwardInv,
           CacheCoherent, HolderInv, HolderKnows, StartLost
  <2>2. CacheCoherent'
    BY <1>11, <2>1 DEF WakeInv, TypeOK, LockInv, SignupInv, RowInv, ForwardInv,
           CacheCoherent, HolderInv, HolderKnows, StartLost
  <2>3. HolderInv'
    BY <1>11, <2>1 DEF WakeInv, TypeOK, LockInv, SignupInv, RowInv, ForwardInv,
           CacheCoherent, HolderInv, HolderKnows, StartLost
  <2>4. NoInstanceForgotten'
    BY <1>11 DEF WakeInv, TypeOK, LockInv, SignupInv, HolderInv, HolderKnows,
           NoInstanceForgotten, StartLost
  <2>5. QED BY <2>1, <2>2, <2>3, <2>4 DEF WakeInv
<1>12. CASE PersistVmId(t)
  <2>1. LockInv' /\ SignupInv' /\ RowInv' /\ ForwardInv'
    BY <1>12 DEF WakeInv, TypeOK, LockInv, SignupInv, RowInv, ForwardInv,
           CacheCoherent, HolderInv, HolderKnows, PersistVmId
  <2>2. CacheCoherent'
    BY <1>12, <2>1 DEF WakeInv, TypeOK, LockInv, SignupInv, RowInv, ForwardInv,
           CacheCoherent, HolderInv, HolderKnows, PersistVmId
  <2>3. HolderInv'
    BY <1>12, <2>1 DEF WakeInv, TypeOK, LockInv, SignupInv, RowInv, ForwardInv,
           CacheCoherent, HolderInv, HolderKnows, PersistVmId
  <2>4. NoInstanceForgotten'
    BY <1>12 DEF WakeInv, TypeOK, LockInv, SignupInv, HolderInv, HolderKnows,
           NoInstanceForgotten, PersistVmId
  <2>5. QED BY <2>1, <2>2, <2>3, <2>4 DEF WakeInv
<1>13. CASE Launch(t)
  <2>1. LockInv' /\ SignupInv' /\ RowInv' /\ ForwardInv'
    BY <1>13 DEF WakeInv, TypeOK, LockInv, SignupInv, RowInv, ForwardInv,
           CacheCoherent, HolderInv, HolderKnows, Launch
  <2>2. CacheCoherent'
    BY <1>13, <2>1 DEF WakeInv, TypeOK, LockInv, SignupInv, RowInv, ForwardInv,
           CacheCoherent, HolderInv, HolderKnows, Launch
  <2>3. HolderInv'
    BY <1>13, <2>1 DEF WakeInv, TypeOK, LockInv, SignupInv, RowInv, ForwardInv,
           CacheCoherent, HolderInv, HolderKnows, Launch
  <2>4. NoInstanceForgotten'
    BY <1>13 DEF WakeInv, TypeOK, LockInv, SignupInv, HolderInv, HolderKnows,
           NoInstanceForgotten, Launch
  <2>5. QED BY <2>1, <2>2, <2>3, <2>4 DEF WakeInv
<1>14. CASE LaunchFails(t)
  <2>1. LockInv' /\ SignupInv' /\ RowInv' /\ ForwardInv'
    BY <1>14 DEF WakeInv, TypeOK, LockInv, SignupInv, RowInv, ForwardInv,
           CacheCoherent, HolderInv, HolderKnows, LaunchFails
  <2>2. CacheCoherent'
    BY <1>14, <2>1 DEF WakeInv, TypeOK, LockInv, SignupInv, RowInv, ForwardInv,
           CacheCoherent, HolderInv, HolderKnows, LaunchFails
  <2>3. HolderInv'
    BY <1>14, <2>1 DEF WakeInv, TypeOK, LockInv, SignupInv, RowInv, ForwardInv,
           CacheCoherent, HolderInv, HolderKnows, LaunchFails
  <2>4. NoInstanceForgotten'
    BY <1>14 DEF WakeInv, TypeOK, LockInv, SignupInv, HolderInv, HolderKnows,
           NoInstanceForgotten, LaunchFails
  <2>5. QED BY <2>1, <2>2, <2>3, <2>4 DEF WakeInv
<1>15. CASE PersistEndpoint(t)
  <2>1. LockInv' /\ SignupInv' /\ RowInv' /\ ForwardInv'
    BY <1>15 DEF WakeInv, TypeOK, LockInv, SignupInv, RowInv, ForwardInv,
           CacheCoherent, HolderInv, HolderKnows, PersistEndpoint
  <2>2. CacheCoherent'
    BY <1>15, <2>1 DEF WakeInv, TypeOK, LockInv, SignupInv, RowInv, ForwardInv,
           CacheCoherent, HolderInv, HolderKnows, PersistEndpoint
  <2>3. HolderInv'
    BY <1>15, <2>1 DEF WakeInv, TypeOK, LockInv, SignupInv, RowInv, ForwardInv,
           CacheCoherent, HolderInv, HolderKnows, PersistEndpoint
  <2>4. NoInstanceForgotten'
    BY <1>15 DEF WakeInv, TypeOK, LockInv, SignupInv, HolderInv, HolderKnows,
           NoInstanceForgotten, PersistEndpoint
  <2>5. QED BY <2>1, <2>2, <2>3, <2>4 DEF WakeInv
<1>16. CASE Healthy(t)
  <2>1. LockInv' /\ SignupInv' /\ RowInv' /\ ForwardInv'
    BY <1>16 DEF WakeInv, TypeOK, LockInv, SignupInv, RowInv, ForwardInv,
           CacheCoherent, HolderInv, HolderKnows, Healthy
  <2>2. CacheCoherent'
    BY <1>16, <2>1 DEF WakeInv, TypeOK, LockInv, SignupInv, RowInv, ForwardInv,
           CacheCoherent, HolderInv, HolderKnows, Healthy
  <2>3. HolderInv'
    BY <1>16, <2>1 DEF WakeInv, TypeOK, LockInv, SignupInv, RowInv, ForwardInv,
           CacheCoherent, HolderInv, HolderKnows, Healthy
  <2>4. NoInstanceForgotten'
    BY <1>16 DEF WakeInv, TypeOK, LockInv, SignupInv, HolderInv, HolderKnows,
           NoInstanceForgotten, Healthy
  <2>5. QED BY <2>1, <2>2, <2>3, <2>4 DEF WakeInv
<1>17. CASE HealthTimeout(t)
  <2>1. LockInv' /\ SignupInv' /\ RowInv' /\ ForwardInv'
    BY <1>17 DEF WakeInv, TypeOK, LockInv, SignupInv, RowInv, ForwardInv,
           CacheCoherent, HolderInv, HolderKnows, HealthTimeout
  <2>2. CacheCoherent'
    BY <1>17, <2>1 DEF WakeInv, TypeOK, LockInv, SignupInv, RowInv, ForwardInv,
           CacheCoherent, HolderInv, HolderKnows, HealthTimeout
  <2>3. HolderInv'
    BY <1>17, <2>1 DEF WakeInv, TypeOK, LockInv, SignupInv, RowInv, ForwardInv,
           CacheCoherent, HolderInv, HolderKnows, HealthTimeout
  <2>4. NoInstanceForgotten'
    BY <1>17 DEF WakeInv, TypeOK, LockInv, SignupInv, HolderInv, HolderKnows,
           NoInstanceForgotten, HealthTimeout
  <2>5. QED BY <2>1, <2>2, <2>3, <2>4 DEF WakeInv
<1>18. CASE PushSecrets(t)
  <2>1. LockInv' /\ SignupInv' /\ RowInv' /\ ForwardInv'
    BY <1>18 DEF WakeInv, TypeOK, LockInv, SignupInv, RowInv, ForwardInv,
           CacheCoherent, HolderInv, HolderKnows, PushSecrets
  <2>2. CacheCoherent'
    BY <1>18, <2>1 DEF WakeInv, TypeOK, LockInv, SignupInv, RowInv, ForwardInv,
           CacheCoherent, HolderInv, HolderKnows, PushSecrets
  <2>3. HolderInv'
    BY <1>18, <2>1 DEF WakeInv, TypeOK, LockInv, SignupInv, RowInv, ForwardInv,
           CacheCoherent, HolderInv, HolderKnows, PushSecrets
  <2>4. NoInstanceForgotten'
    BY <1>18 DEF WakeInv, TypeOK, LockInv, SignupInv, HolderInv, HolderKnows,
           NoInstanceForgotten, PushSecrets
  <2>5. QED BY <2>1, <2>2, <2>3, <2>4 DEF WakeInv
<1>19. CASE PersistRunning(t)
  <2>1. LockInv' /\ SignupInv' /\ RowInv' /\ ForwardInv'
    BY <1>19 DEF WakeInv, TypeOK, LockInv, SignupInv, RowInv, ForwardInv,
           CacheCoherent, HolderInv, HolderKnows, PersistRunning
  <2>2. CacheCoherent'
    BY <1>19, <2>1 DEF WakeInv, TypeOK, LockInv, SignupInv, RowInv, ForwardInv,
           CacheCoherent, HolderInv, HolderKnows, PersistRunning
  <2>3. HolderInv'
    BY <1>19, <2>1 DEF WakeInv, TypeOK, LockInv, SignupInv, RowInv, ForwardInv,
           CacheCoherent, HolderInv, HolderKnows, PersistRunning
  <2>4. NoInstanceForgotten'
    BY <1>19 DEF WakeInv, TypeOK, LockInv, SignupInv, HolderInv, HolderKnows,
           NoInstanceForgotten, PersistRunning
  <2>5. QED BY <2>1, <2>2, <2>3, <2>4 DEF WakeInv
<1>20. CASE Cleanup(t)
  <2>1. LockInv' /\ SignupInv' /\ RowInv' /\ ForwardInv'
    BY <1>20 DEF WakeInv, TypeOK, LockInv, SignupInv, RowInv, ForwardInv,
           CacheCoherent, HolderInv, HolderKnows, Cleanup
  <2>2. CacheCoherent'
    BY <1>20, <2>1 DEF WakeInv, TypeOK, LockInv, SignupInv, RowInv, ForwardInv,
           CacheCoherent, HolderInv, HolderKnows, Cleanup
  <2>3. HolderInv'
    BY <1>20, <2>1 DEF WakeInv, TypeOK, LockInv, SignupInv, RowInv, ForwardInv,
           CacheCoherent, HolderInv, HolderKnows, Cleanup
  <2>4. NoInstanceForgotten'
    BY <1>20 DEF WakeInv, TypeOK, LockInv, SignupInv, HolderInv, HolderKnows,
           NoInstanceForgotten, Cleanup
  <2>5. QED BY <2>1, <2>2, <2>3, <2>4 DEF WakeInv
<1>21. CASE CleanupStopFails(t)
  <2>1. LockInv' /\ SignupInv' /\ RowInv' /\ ForwardInv'
    BY <1>21 DEF WakeInv, TypeOK, LockInv, SignupInv, RowInv, ForwardInv,
           CacheCoherent, HolderInv, HolderKnows, CleanupStopFails
  <2>2. CacheCoherent'
    BY <1>21, <2>1 DEF WakeInv, TypeOK, LockInv, SignupInv, RowInv, ForwardInv,
           CacheCoherent, HolderInv, HolderKnows, CleanupStopFails
  <2>3. HolderInv'
    BY <1>21, <2>1 DEF WakeInv, TypeOK, LockInv, SignupInv, RowInv, ForwardInv,
           CacheCoherent, HolderInv, HolderKnows, CleanupStopFails
  <2>4. NoInstanceForgotten'
    BY <1>21 DEF WakeInv, TypeOK, LockInv, SignupInv, HolderInv, HolderKnows,
           NoInstanceForgotten, CleanupStopFails
  <2>5. QED BY <2>1, <2>2, <2>3, <2>4 DEF WakeInv
<1>22. CASE ClearLeaked(t)
  <2>1. LockInv' /\ SignupInv' /\ RowInv' /\ ForwardInv'
    BY <1>22 DEF WakeInv, TypeOK, LockInv, SignupInv, RowInv, ForwardInv,
           CacheCoherent, HolderInv, HolderKnows, ClearLeaked
  <2>2. CacheCoherent'
    BY <1>22, <2>1 DEF WakeInv, TypeOK, LockInv, SignupInv, RowInv, ForwardInv,
           CacheCoherent, HolderInv, HolderKnows, ClearLeaked
  <2>3. lock = t /\ HolderKnows(t) /\ lock' = t
    BY <1>22 DEF WakeInv, TypeOK, LockInv, HolderInv, ClearLeaked
  <2>4. row.status = "waking" /\ row \in VMStates
    BY <1>22, <2>3 DEF WakeInv, TypeOK, HolderKnows, ClearLeaked
  <2>5. row' = Mapped("waking", NoVM, NoVM)
    BY <1>22, <2>4 DEF ClearLeaked
  <2>6. HolderKnows(t)'
    BY <1>22, <2>3, <2>5 DEF WakeInv, TypeOK, SignupInv, HolderKnows, ClearLeaked
  <2>7. HolderInv'
    BY <2>3, <2>6 DEF HolderInv
  <2>8. NoInstanceForgotten'
    BY <1>22 DEF WakeInv, TypeOK, LockInv, SignupInv, HolderInv, HolderKnows,
           NoInstanceForgotten, ClearLeaked
  <2>9. QED BY <2>1, <2>2, <2>7, <2>8 DEF WakeInv
<1>23. CASE PersistError(t)
  <2>1. LockInv' /\ SignupInv' /\ RowInv' /\ ForwardInv'
    BY <1>23 DEF WakeInv, TypeOK, LockInv, SignupInv, RowInv, ForwardInv,
           CacheCoherent, HolderInv, HolderKnows, PersistError
  <2>2. CacheCoherent'
    BY <1>23, <2>1 DEF WakeInv, TypeOK, LockInv, SignupInv, RowInv, ForwardInv,
           CacheCoherent, HolderInv, HolderKnows, PersistError
  <2>3. HolderInv'
    BY <1>23, <2>1 DEF WakeInv, TypeOK, LockInv, SignupInv, RowInv, ForwardInv,
           CacheCoherent, HolderInv, HolderKnows, PersistError
  <2>4. NoInstanceForgotten'
    BY <1>23 DEF WakeInv, TypeOK, LockInv, SignupInv, HolderInv, HolderKnows,
           NoInstanceForgotten, PersistError
  <2>5. QED BY <2>1, <2>2, <2>3, <2>4 DEF WakeInv
<1>24. CASE WakeRaises(t)
  <2>1. LockInv' /\ SignupInv' /\ RowInv' /\ ForwardInv'
    BY <1>24 DEF WakeInv, TypeOK, LockInv, SignupInv, RowInv, ForwardInv,
           CacheCoherent, HolderInv, HolderKnows, WakeRaises
  <2>2. CacheCoherent'
    BY <1>24, <2>1 DEF WakeInv, TypeOK, LockInv, SignupInv, RowInv, ForwardInv,
           CacheCoherent, HolderInv, HolderKnows, WakeRaises
  <2>3. HolderInv'
    BY <1>24, <2>1 DEF WakeInv, TypeOK, LockInv, SignupInv, RowInv, ForwardInv,
           CacheCoherent, HolderInv, HolderKnows, WakeRaises
  <2>4. NoInstanceForgotten'
    BY <1>24 DEF WakeInv, TypeOK, LockInv, SignupInv, HolderInv, HolderKnows,
           NoInstanceForgotten, WakeRaises
  <2>5. QED BY <2>1, <2>2, <2>3, <2>4 DEF WakeInv
<1>25. QED
  BY <1>1, <1>2, <1>3, <1>4, <1>5, <1>6, <1>7, <1>8, <1>9, <1>10, <1>11, <1>12, <1>13, <1>14, <1>15, <1>16, <1>17, <1>18, <1>19, <1>20, <1>21, <1>22, <1>23, <1>24 DEF Wake

LEMMA EnvironmentStep ==
  ASSUME WakeInv, TypeOK', (\E v \in VMs : Pause(v) \/ Terminate(v)) \/ Restart
  PROVE  WakeInv'
<1>1. CASE \E v \in VMs : Pause(v) \/ Terminate(v)
  <2>1. LockInv' /\ SignupInv' /\ RowInv' /\ ForwardInv' /\ CacheCoherent'
    BY <1>1 DEF WakeInv, TypeOK, LockInv, SignupInv, RowInv, ForwardInv,
                CacheCoherent, Pause, Terminate
  <2>2. HolderInv' /\ NoInstanceForgotten'
    BY <1>1 DEF WakeInv, TypeOK, HolderInv, HolderKnows, NoInstanceForgotten, Pause, Terminate
  <2>3. QED BY <2>1, <2>2 DEF WakeInv
<1>2. CASE Restart
  <2>1. LockInv' /\ SignupInv' /\ RowInv' /\ ForwardInv' /\ CacheCoherent' /\ HolderInv'
    BY <1>2 DEF WakeInv, TypeOK, LockInv, SignupInv, RowInv, ForwardInv,
                CacheCoherent, HolderInv, Restart
  <2>2. NoInstanceForgotten'
    BY <1>2 DEF WakeInv, TypeOK, NoInstanceForgotten, Restart
  <2>3. QED BY <2>1, <2>2 DEF WakeInv
<1>3. QED BY <1>1, <1>2

LEMMA StutterStep == ASSUME WakeInv, UNCHANGED vars PROVE WakeInv'
  BY DEF WakeInv, vars, TypeOK, LockInv, SignupInv, RowInv, ForwardInv,
         CacheCoherent, HolderInv, HolderKnows, NoInstanceForgotten

LEMMA WakeInvStep == ASSUME Drainers = {}, WakeInv, [Next]_vars PROVE WakeInv'
<1>1. TypeOK'
  BY TypeStep DEF WakeInv
<1>2. CASE ProvisionCommit \/ ProvisionPut
  BY <1>1, <1>2, SignupStep
<1>3. CASE \E t \in Tasks : Dispatch(t) \/ ForwardOk(t) \/ ForwardFails(t) \/ Wake(t)
  BY <1>1, <1>3, CallerStep, WakeStep
<1>4. CASE \E s \in Sockets : SocketGone(s)
  BY <1>1, <1>4, CallerStep
<1>5. CASE (\E v \in VMs : Pause(v) \/ Terminate(v)) \/ Restart
  BY <1>1, <1>5, EnvironmentStep
<1>6. CASE UNCHANGED vars
  BY <1>6, StutterStep
<1>7. QED
  BY <1>2, <1>3, <1>4, <1>5, <1>6 DEF Next

\* WakeInv: under the hub as it is, without drains, what the holder of a user's lock knows at each
\* step of hydrate and wake stays true whatever the other requests do.
THEOREM WakeInvariant == Drainers = {} => (Spec => []WakeInv)
<1> SUFFICES ASSUME Drainers = {} PROVE Spec => []WakeInv
  OBVIOUS
<1>1. WakeInv /\ [Next]_vars => WakeInv'
  BY WakeInvStep
<1>2. QED
  BY <1>1, InitWakeInv, PTL DEF Spec

-----------------------------------------------------------------------------
(* The safety properties.                                                  *)

\* For any number of concurrent requests and sockets, of failures and of
\* restarts: a request is only forwarded to, and the registry only calls
\* running, an instance whose user-server answered and got its secrets.
THEOREM TrafficSafe == Drainers = {} => (Spec => []TrafficOnlyToServing)
<1>1. WakeInv => TrafficOnlyToServing
  BY DEF WakeInv, TypeOK, LockInv, SignupInv, RowInv, ForwardInv, CacheCoherent,
         HolderInv, HolderKnows, TrafficOnlyToServing
<1>2. QED BY <1>1, WakeInvariant, PTL

\* Whenever no wake is under way a restart reads back what the registry holds.
THEOREM CacheSafe == Drainers = {} => (Spec => []CacheCoherent)
<1>1. WakeInv => CacheCoherent BY DEF WakeInv
<1>2. QED BY <1>1, WakeInvariant, PTL

\* Persisting the id before the launch is enough: an instance is only ever
\* forgotten through a failure the hub cannot see.
THEOREM NothingForgotten == Drainers = {} => (Spec => []NoInstanceForgotten)
<1>1. WakeInv => NoInstanceForgotten BY DEF WakeInv
<1>2. QED BY <1>1, WakeInvariant, PTL

\* Concurrent callers share one wake.
THEOREM SharedWake == Drainers = {} => (Spec => []OneInstance)
<1>1. WakeInv => OneInstance
  BY DEF WakeInv, TypeOK, LockInv, HolderInv, HolderKnows, NoInstanceForgotten, OneInstance
<1>2. QED BY <1>1, WakeInvariant, PTL

-----------------------------------------------------------------------------
(* VMService implements VMPromise.                                         *)

\* The instance promised to callers: the refinement mapping for "serving".
Promised == IF reg.status = "running" THEN reg.vm ELSE NoVM

LEMMA PromiseStep ==
  ASSUME Drainers = {}, WakeInv, [Next]_vars
  PROVE  [Promise!Next]_<<reg.status, Promised>>
<1> USE DEF Promised
<1>1. CASE reg' = reg
  BY <1>1
<1>2. CASE ProvisionPut
  BY <1>2 DEF WakeInv, SignupInv, ProvisionPut, Promise!Next, Promise!Signup
<1>3. ASSUME NEW t \in Tasks, ForwardOk(t)
      PROVE  reg' = reg
  BY <1>3 DEF WakeInv, TypeOK, ForwardInv, ForwardOk
<1>4. ASSUME NEW t \in Tasks, Acquire(t), reg' # reg
      PROVE  Promise!Attempt \/ UNCHANGED <<reg.status, Promised>>
  <2>1. lock = NoTask /\ reg = row /\ ~Serving(reg) /\ row.status \notin {"absent", "draining"}
    BY <1>4 DEF WakeInv, SignupInv, RowInv, CacheCoherent, Acquire
  <2>2. reg.status # "running" /\ reg'.status = "waking"
    BY <1>4, <2>1 DEF WakeInv, TypeOK, RowInv, Acquire
  <2>3. QED BY <2>1, <2>2 DEF WakeInv, TypeOK, Promise!Attempt
<1>5. ASSUME NEW t \in Tasks,
             Stale(t) \/ StopOrphan(t) \/ StopOrphanFails(t) \/ Start(t) \/ Launch(t)
               \/ CleanupStopFails(t) \/ (Cleanup(t) /\ reg.vm # NoVM)
      PROVE  UNCHANGED <<reg.status, Promised>>
  <2>1. lock = t /\ reg.status = "waking"
    BY <1>5 DEF WakeInv, TypeOK, LockInv, HolderInv, HolderKnows, Stale, StopOrphan,
                StopOrphanFails, Start, Launch, Cleanup, CleanupStopFails
  <2>2. reg'.status = "waking"
    BY <1>5, <2>1 DEF Stale, StopOrphan, StopOrphanFails, Start, Launch, Cleanup,
                      CleanupStopFails
  <2>3. QED BY <2>1, <2>2
<1>6. ASSUME NEW t \in Tasks, PushSecrets(t)
      PROVE  Promise!Succeed
  BY <1>6 DEF WakeInv, TypeOK, LockInv, HolderInv, HolderKnows, PushSecrets, Promise!Succeed
<1>7. ASSUME NEW t \in Tasks, ClearLeaked(t) \/ (Cleanup(t) /\ reg.vm = NoVM)
      PROVE  Promise!Fail
  <2>1. lock = t /\ reg.status = "waking"
    BY <1>7 DEF WakeInv, TypeOK, LockInv, HolderInv, HolderKnows, ClearLeaked, Cleanup
  <2>2. reg'.status = "error"
    BY <1>7, <2>1 DEF WakeInv, TypeOK, ClearLeaked, Cleanup
  <2>3. QED BY <2>1, <2>2 DEF Promise!Fail
<1>8. CASE Restart
  <2>1. reg' = row
    BY <1>8 DEF Restart
  <2>2. CASE lock = NoTask
    <3>1. CASE signup = "committed"
      BY <2>1, <3>1 DEF WakeInv, SignupInv, Promise!Next, Promise!Signup
    <3>2. CASE signup # "committed"
      BY <2>1, <2>2, <3>2 DEF WakeInv, CacheCoherent
    <3>3. QED BY <3>1, <3>2
  <2>3. CASE lock # NoTask
    <3>1. lock \in Tasks /\ HolderKnows(lock) /\ pc[lock] \in WakeSteps
      BY <2>3 DEF WakeInv, TypeOK, LockInv, HolderInv
    <3>2. \/ reg.status = row.status /\ row.status # "running"
          \/ <<reg.status, row.status>> \in Promise!Undone
      <4>1. row.status # "draining"
        BY DEF WakeInv, RowInv
      <4> QED BY <3>1, <4>1 DEF WakeInv, TypeOK, HolderKnows, Promise!Undone
    <3>3. CASE reg.status = row.status /\ row.status # "running"
      BY <2>1, <3>3
    <3>4. CASE <<reg.status, row.status>> \in Promise!Undone
      BY <2>1, <3>4 DEF Promise!Next, Promise!Undo, Promise!Undone
    <3>5. QED BY <3>2, <3>3, <3>4
  <2>4. QED BY <2>2, <2>3
<1>9. ASSUME NEW t \in Tasks, Wake(t)
      PROVE  [Promise!Next]_<<reg.status, Promised>>
  <2>1. CASE \/ PersistWaking(t) \/ ReadRow(t) \/ Reuse(t) \/ ClearMapping(t) \/ StartFails(t)
             \/ StartLost(t) \/ PersistVmId(t) \/ LaunchFails(t) \/ PersistEndpoint(t)
             \/ Healthy(t) \/ HealthTimeout(t) \/ PersistRunning(t) \/ PersistError(t)
             \/ WakeRaises(t)
    BY <2>1 DEF PersistWaking, ReadRow, Reuse, ClearMapping, StartFails, StartLost,
                PersistVmId, LaunchFails, PersistEndpoint, Healthy, HealthTimeout,
                PersistRunning, PersistError, WakeRaises
  <2>2. QED BY <1>4, <1>5, <1>6, <1>7, <1>9, <2>1 DEF Wake, Promise!Next
<1>10. ASSUME ProvisionCommit \/ (\E t \in Tasks : Dispatch(t) \/ ForwardFails(t))
              \/ (\E s \in Sockets : SocketGone(s)) \/ (\E v \in VMs : Pause(v) \/ Terminate(v))
              \/ UNCHANGED vars
       PROVE  reg' = reg
  BY <1>10 DEF ProvisionCommit, Dispatch, ForwardFails, SocketGone, Pause, Terminate, vars
<1>11. QED
  BY <1>1, <1>2, <1>3, <1>8, <1>9, <1>10 DEF Next

\* When nobody drains, the registry keeps the promise of VMPromise whatever
\* the requests, the failures and the restarts: only wake() moves the status,
\* an instance that answered stays the user's, and a restart takes back at
\* most one step.
THEOREM PromiseKept == Drainers = {} => (Spec => ImplementsPromise)
<1> SUFFICES ASSUME Drainers = {} PROVE Spec => ImplementsPromise
  OBVIOUS
<1>1. Init => Promise!Init
  BY DEF Init, Promise!Init
<1>2. WakeInv /\ [Next]_vars => [Promise!Next]_<<reg.status, Promised>>
  BY PromiseStep
<1>3. QED
  BY <1>1, <1>2, WakeInvariant, PTL DEF Spec, ImplementsPromise, Promise!Spec, Promised

-----------------------------------------------------------------------------
(* A drain that no request overlaps (MCVMDrain).                           *)

\* What a drain knows at each of its steps when nothing else moves the mapping.
DrainKnows(d) ==
  LET v == dvm[d] IN
  /\ v # NoVM
  /\ dpc[d] \in {"persistDraining", "snapshot", "stop", "writeRow", "persistError"} => row.vm = v
  /\ dpc[d] = "persistDraining" => reg = Mapped("draining", row.vm, row.ep)
  /\ dpc[d] \in {"snapshot", "stop", "writeRow"} => reg = row /\ row.status = "draining"
  /\ dpc[d] = "writeRow" => ~Live(v)
  /\ dpc[d] = "setStopped" => reg.status = "draining" /\ row = Stopped
  /\ dpc[d] = "persistError" => row.status = "draining" /\ reg = Mapped("error", row.vm, row.ep)

\* The state while a drain is alone with the user's VM.
DrainInv ==
  /\ lock = NoTask /\ \A t \in Tasks : pc[t] = "idle"
  /\ signup = "done" /\ reg.status # "absent" /\ row.status # "absent"
  /\ RowInv /\ NoInstanceForgotten
  /\ \A d \in Drainers : dpc[d] # "idle" => DrainKnows(d)

\* Until a request and a drain meet, the state is one of a wake or one of a drain.
AloneInv ==
  /\ TypeOK /\ raced \in BOOLEAN
  /\ ~raced => ~Beside
  /\ ~raced => IF Draining THEN DrainInv ELSE WakeInv

OneDrainer == \A d, e \in Drainers : d = e

\* A request that moves, or is on its way, meets a drain that is under way.
LEMMA NoRequestBeside ==
  ASSUME TypeOK, NEW t \in Tasks,
         Dispatch(t) \/ ForwardOk(t) \/ ForwardFails(t) \/ SocketGone(t) \/ Wake(t)
  PROVE  UNCHANGED drainVars /\ (pc[t] # "idle" \/ pc'[t] # "idle")
<1>1. UNCHANGED drainVars
  BY DEF Dispatch, ForwardOk, ForwardFails, SocketGone, Wake, Acquire, PersistWaking, ReadRow, Reuse,
         Stale, StopOrphan, StopOrphanFails, ClearMapping, Start, StartFails, StartLost, PersistVmId,
         Launch, LaunchFails, PersistEndpoint, Healthy, HealthTimeout, PushSecrets, PersistRunning,
         Cleanup, CleanupStopFails, ClearLeaked, PersistError, WakeRaises
<1>2. CASE Dispatch(t)
  BY <1>2 DEF TypeOK, Dispatch
<1>3. CASE ForwardOk(t) \/ ForwardFails(t) \/ SocketGone(t)
  BY <1>3 DEF ForwardOk, ForwardFails, SocketGone
<1>4. CASE Wake(t)
  BY <1>4 DEF Wake, Acquire, PersistWaking, ReadRow, Reuse,
         Stale, StopOrphan, StopOrphanFails, ClearMapping, Start, StartFails, StartLost, PersistVmId,
         Launch, LaunchFails, PersistEndpoint, Healthy, HealthTimeout, PushSecrets, PersistRunning,
         Cleanup, CleanupStopFails, ClearLeaked, PersistError, WakeRaises
<1> QED
  BY <1>1, <1>2, <1>3, <1>4

\* A drain starts from what a wake, or nothing, left.
LEMMA DrainStarts ==
  ASSUME OneDrainer, TypeOK, WakeInv, ~Draining, NEW d \in Drainers, Drain(d),
         \A t \in Tasks : pc[t] = "idle"
  PROVE  DrainInv'
<1>1. dpc[d] = "idle" /\ DrainStart(d)
  BY DEF Draining, Drain, DrainPersist, DrainSnapshot, DrainStop, DrainFails, DrainRaises,
         DrainWriteRow, DrainSetStopped, DrainPersistError
<1>2. lock = NoTask
  BY DEF WakeInv, TypeOK, LockInv
<1>3. reg.vm # NoVM /\ reg.status # "absent" /\ signup = "done" /\ reg = row
  BY <1>1, <1>2 DEF WakeInv, TypeOK, SignupInv, CacheCoherent, DrainStart
<1>4. /\ reg' = Mapped("draining", row.vm, row.ep) /\ dvm'[d] = row.vm
      /\ dpc'[d] = "persistDraining" /\ UNCHANGED <<row, cloud, lock, pc, vmOf, signup, history>>
  BY <1>1, <1>3 DEF TypeOK, DrainStart
<1>5. RowInv' /\ NoInstanceForgotten'
  BY <1>4 DEF WakeInv, RowInv, NoInstanceForgotten
<1>6. DrainKnows(d)'
  BY <1>3, <1>4 DEF DrainKnows
<1> QED
  BY <1>2, <1>3, <1>4, <1>5, <1>6 DEF DrainInv, OneDrainer

\* The steps of a drain, each from what the one before it left.
LEMMA DrainKeeps ==
  ASSUME OneDrainer, TypeOK, TypeOK', DrainInv, NEW d \in Drainers, Drain(d), dpc[d] # "idle"
  PROVE  IF dpc'[d] = "idle" THEN WakeInv' ELSE DrainInv'
<1>1. /\ lock' = NoTask /\ \A t \in Tasks : pc'[t] = "idle"
      /\ signup' = "done" /\ UNCHANGED <<launched, pushed, lost, dvm, pc>>
  BY DEF DrainInv, Drain, DrainStart, DrainPersist, DrainSnapshot, DrainStop, DrainFails, DrainRaises,
         DrainWriteRow, DrainSetStopped, DrainPersistError
<1>2. DrainKnows(d) /\ reg.status # "absent" /\ row.status # "absent" /\ RowInv
      /\ NoInstanceForgotten /\ reg \in VMStates /\ row \in VMStates /\ Drainers # {}
      /\ \A e \in Drainers : e = d
  BY DEF DrainInv, TypeOK, OneDrainer
<1>3. ASSUME RowInv', NoInstanceForgotten', reg'.status # "absent", row'.status # "absent",
             DrainKnows(d)'
      PROVE  DrainInv'
  BY <1>1, <1>2, <1>3 DEF DrainInv
<1>4. ASSUME RowInv', NoInstanceForgotten', row'.status # "absent", reg' = row'
      PROVE  WakeInv'
  BY <1>1, <1>4 DEF WakeInv, LockInv, SignupInv, ForwardInv, CacheCoherent, HolderInv
<1>5. CASE DrainPersist(d)
  <2>1. /\ dpc[d] = "persistDraining" /\ dpc'[d] = "snapshot"
        /\ row' = Mapped("draining", row.vm, row.ep) /\ reg' = reg /\ cloud' = cloud
    BY <1>2, <1>5 DEF TypeOK, DrainPersist
  <2>2. RowInv' /\ NoInstanceForgotten'
    BY <1>1, <1>2, <2>1 DEF RowInv, NoInstanceForgotten
  <2>3. DrainKnows(d)'
    BY <1>1, <1>2, <2>1 DEF DrainKnows
  <2> QED
    BY <1>2, <1>3, <2>1, <2>2, <2>3
<1>6. CASE DrainSnapshot(d)
  <2>1. dpc[d] = "snapshot" /\ dpc'[d] = "stop" /\ UNCHANGED <<reg, row, cloud>>
    BY <1>6 DEF TypeOK, DrainSnapshot
  <2>2. RowInv' /\ NoInstanceForgotten'
    BY <1>1, <1>2, <2>1 DEF RowInv, NoInstanceForgotten
  <2>3. DrainKnows(d)'
    BY <1>1, <1>2, <2>1 DEF DrainKnows
  <2> QED
    BY <1>2, <1>3, <2>1, <2>2, <2>3
<1>7. CASE DrainStop(d)
  <2>1. /\ dpc[d] = "stop" /\ dpc'[d] = "writeRow" /\ UNCHANGED <<reg, row>>
        /\ cloud' = [cloud EXCEPT ![dvm[d]] = "gone"] /\ dvm[d] \in VMs
    BY <1>2, <1>7 DEF TypeOK, DrainStop, DrainKnows
  <2>2. cloud'[dvm[d]] = "gone" /\ \A v \in VMs : Live(v)' => Live(v)
    BY <2>1 DEF TypeOK
  <2>3. RowInv'
    BY <1>1, <1>2, <2>1 DEF RowInv
  <2>4. NoInstanceForgotten'
    BY <1>1, <1>2, <2>1, <2>2 DEF NoInstanceForgotten, DrainInv
  <2>5. DrainKnows(d)'
    BY <1>1, <1>2, <2>1, <2>2 DEF DrainKnows
  <2> QED
    BY <1>2, <1>3, <2>1, <2>3, <2>4, <2>5
<1>8. CASE DrainFails(d)
  <2>1. /\ dpc[d] \in {"snapshot", "stop"} /\ dpc'[d] = "persistError" /\ UNCHANGED <<row, cloud>>
        /\ reg' = Mapped("error", reg.vm, reg.ep)
    BY <1>2, <1>8 DEF TypeOK, DrainFails
  <2>2. RowInv' /\ NoInstanceForgotten'
    BY <1>1, <1>2, <2>1 DEF RowInv, NoInstanceForgotten
  <2>3. DrainKnows(d)'
    BY <1>1, <1>2, <2>1 DEF DrainKnows
  <2> QED
    BY <1>2, <1>3, <2>1, <2>2, <2>3
<1>9. CASE DrainRaises(d)
  <2>1. dpc[d] \in {"snapshot", "stop"} /\ dpc'[d] = "idle" /\ UNCHANGED <<reg, row, cloud>>
    BY <1>9 DEF TypeOK, DrainRaises
  <2>2. RowInv' /\ NoInstanceForgotten' /\ reg' = row'
    BY <1>1, <1>2, <2>1 DEF RowInv, NoInstanceForgotten, DrainKnows
  <2> QED
    BY <1>2, <1>4, <2>1, <2>2
<1>10. CASE DrainWriteRow(d)
  <2>1. /\ dpc[d] = "writeRow" /\ dpc'[d] = "setStopped" /\ UNCHANGED <<reg, cloud>>
        /\ row' = Stopped
    BY <1>2, <1>10 DEF TypeOK, DrainWriteRow
  <2>2. RowInv' /\ DrainKnows(d)'
    BY <1>1, <1>2, <2>1 DEF RowInv, DrainKnows
  <2>3. NoInstanceForgotten'
    BY <1>1, <1>2, <2>1 DEF NoInstanceForgotten, DrainKnows, DrainInv
  <2> QED
    BY <1>2, <1>3, <2>1, <2>2, <2>3
<1>11. CASE DrainSetStopped(d)
  <2>1. /\ dpc[d] = "setStopped" /\ dpc'[d] = "idle" /\ UNCHANGED <<row, cloud>>
        /\ reg' = Stopped
    BY <1>2, <1>11 DEF TypeOK, DrainSetStopped
  <2>2. RowInv' /\ NoInstanceForgotten' /\ reg' = row'
    BY <1>1, <1>2, <2>1 DEF RowInv, NoInstanceForgotten, DrainKnows
  <2> QED
    BY <1>2, <1>4, <2>1, <2>2
<1>12. CASE DrainPersistError(d)
  <2>1. /\ dpc[d] = "persistError" /\ dpc'[d] = "idle" /\ UNCHANGED <<reg, cloud>>
        /\ row' = Mapped("error", row.vm, row.ep)
    BY <1>2, <1>12 DEF TypeOK, DrainPersistError
  <2>2. RowInv' /\ NoInstanceForgotten' /\ reg' = row'
    BY <1>1, <1>2, <2>1 DEF RowInv, NoInstanceForgotten, DrainKnows
  <2> QED
    BY <1>2, <1>4, <2>1, <2>2
<1> QED
  BY <1>5, <1>6, <1>7, <1>8, <1>9, <1>10, <1>11, <1>12 DEF Drain, DrainStart

\* Beside a drain only the environment moves; a restart of the hub ends the drain.
LEMMA BesideDrain ==
  ASSUME TypeOK, TypeOK', DrainInv
  PROVE  /\ (\E v \in VMs : Pause(v) \/ Terminate(v)) => DrainInv' /\ dpc' = dpc
         /\ Restart => WakeInv' /\ ~Draining'
         /\ UNCHANGED vars => DrainInv' /\ dpc' = dpc
         /\ ~ProvisionCommit /\ ~ProvisionPut
<1>1. ASSUME NEW v \in VMs, Pause(v) \/ Terminate(v) PROVE DrainInv' /\ dpc' = dpc
  <2>1. UNCHANGED <<reg, row, lock, pc, vmOf, dpc, dvm, signup, launched, pushed, lost>>
    BY <1>1 DEF Pause, Terminate
  <2>2. \A w \in VMs : Live(w)' => Live(w)
    BY <1>1 DEF TypeOK, Pause, Terminate
  <2>3. RowInv' /\ NoInstanceForgotten'
    BY <2>1, <2>2 DEF DrainInv, RowInv, NoInstanceForgotten
  <2>4. \A d \in Drainers : DrainKnows(d) => DrainKnows(d)'
    BY <2>1, <2>2 DEF DrainKnows, TypeOK
  <2> QED
    BY <2>1, <2>3, <2>4 DEF DrainInv
<1>2. ASSUME Restart PROVE WakeInv' /\ ~Draining'
  <2>1. /\ reg' = row /\ row' = row /\ cloud' = cloud /\ lock' = NoTask /\ signup' = "done"
        /\ \A t \in Tasks : pc'[t] = "idle"
        /\ lost \subseteq lost' /\ UNCHANGED <<launched, pushed>>
        /\ \A d \in Drainers : dpc'[d] = "idle"
    BY <1>2 DEF Restart, DrainInv
  <2>2. RowInv' /\ row'.status # "absent"
    BY <2>1 DEF DrainInv, RowInv
  <2>3. NoInstanceForgotten'
    BY <2>1 DEF DrainInv, NoInstanceForgotten
  <2>4. ~Draining'
    BY <2>1 DEF Draining
  <2>5. LockInv' /\ ForwardInv' /\ CacheCoherent' /\ HolderInv'
    BY <2>1 DEF LockInv, ForwardInv, CacheCoherent, HolderInv
  <2>6. SignupInv'
    BY <2>1, <2>2 DEF SignupInv
  <2> QED
    BY <2>2, <2>3, <2>4, <2>5, <2>6 DEF WakeInv
<1>3. ASSUME UNCHANGED vars PROVE DrainInv' /\ dpc' = dpc
  <2>1. UNCHANGED <<reg, row, cloud, lock, pc, vmOf, dpc, dvm, signup, launched, pushed, lost>>
    BY <1>3 DEF vars
  <2>2. RowInv' /\ NoInstanceForgotten'
    BY <2>1 DEF DrainInv, RowInv, NoInstanceForgotten
  <2>3. \A d \in Drainers : DrainKnows(d) => DrainKnows(d)'
    BY <2>1 DEF DrainKnows
  <2> QED
    BY <2>1, <2>2, <2>3 DEF DrainInv
<1>4. ~ProvisionCommit /\ ~ProvisionPut
  BY DEF DrainInv, ProvisionCommit, ProvisionPut
<1> QED
  BY <1>1, <1>2, <1>3, <1>4

LEMMA AloneStep ==
  ASSUME OneDrainer, AloneInv, [NextDrain]_<<vars, raced>> PROVE AloneInv'
<1>1. [Next]_vars /\ (raced' = (raced \/ Beside') \/ UNCHANGED <<vars, raced>>)
  BY DEF NextDrain
<1>2. TypeOK' /\ TypeOK
  BY <1>1, TypeStep DEF AloneInv
<1>3. raced' \in BOOLEAN /\ (~raced' => ~raced /\ ~Beside')
  <2>1. CASE raced' = (raced \/ Beside')
    BY <2>1 DEF AloneInv
  <2>2. CASE UNCHANGED <<vars, raced>>
    BY <2>2 DEF AloneInv, Beside, Draining, vars, drainVars, taskVars
  <2> QED
    BY <1>1, <2>1, <2>2
<1>4. ASSUME ~raced' PROVE IF Draining' THEN DrainInv' ELSE WakeInv'
  <2>1. ~Beside /\ ~Beside' /\ (IF Draining THEN DrainInv ELSE WakeInv)
    BY <1>3, <1>4 DEF AloneInv
  <2>2. CASE Draining
    <3>1. DrainInv
      BY <2>1, <2>2
    <3>2. PICK d \in Drainers : dpc[d] # "idle"
      BY <2>2 DEF Draining
    <3>3. \A e \in Drainers : e = d
      BY DEF OneDrainer
    <3>4. CASE Drain(d)
      <4>1. Draining' <=> dpc'[d] # "idle"
        BY <3>3 DEF Draining
      <4> QED
        BY <1>2, <3>1, <3>2, <3>4, <4>1, DrainKeeps
    <3>5. ASSUME NEW t \in Tasks,
                 Dispatch(t) \/ ForwardOk(t) \/ ForwardFails(t) \/ SocketGone(t) \/ Wake(t)
          PROVE  FALSE
      <4>1. UNCHANGED drainVars /\ (pc[t] # "idle" \/ pc'[t] # "idle")
        BY <1>2, <3>5, NoRequestBeside
      <4>2. Draining'
        BY <2>2, <4>1 DEF Draining
      <4> QED
        BY <2>1, <2>2, <4>1, <4>2 DEF Beside
    <3>6. CASE (\E v \in VMs : Pause(v) \/ Terminate(v)) \/ Restart \/ UNCHANGED vars
               \/ ProvisionCommit \/ ProvisionPut
      <4>1. dpc' = dpc => Draining'
        BY <2>2 DEF Draining
      <4> QED
        BY <1>2, <3>1, <3>6, <4>1, BesideDrain
    <3> QED
      BY <1>1, <3>3, <3>4, <3>5, <3>6 DEF Next
  <2>3. CASE ~Draining
    <3>1. WakeInv
      BY <2>1, <2>3
    <3>2. ASSUME NEW d \in Drainers, Drain(d)
          PROVE  IF Draining' THEN DrainInv' ELSE WakeInv'
      <4>1. DrainStart(d) /\ pc' = pc /\ dpc'[d] = "persistDraining"
        BY <1>2, <2>3, <3>2 DEF TypeOK, Draining, Drain, DrainStart, DrainPersist, DrainSnapshot,
           DrainStop, DrainFails, DrainRaises, DrainWriteRow, DrainSetStopped, DrainPersistError
      <4>2. Draining'
        BY <4>1 DEF Draining
      <4>3. \A t \in Tasks : pc[t] = "idle"
        BY <2>1, <4>1, <4>2 DEF Beside
      <4> QED
        BY <1>2, <2>3, <3>1, <3>2, <4>2, <4>3, DrainStarts
    <3>3. CASE \/ ProvisionCommit \/ ProvisionPut \/ UNCHANGED vars
               \/ (\E v \in VMs : Pause(v) \/ Terminate(v)) \/ Restart
      <4>1. WakeInv'
        BY <1>2, <3>1, <3>3, SignupStep, EnvironmentStep, StutterStep
      <4>2. ~Draining'
        BY <2>3, <3>3 DEF Draining, ProvisionCommit, ProvisionPut, Pause, Terminate, Restart, vars
      <4> QED
        BY <4>1, <4>2
    <3>4. ASSUME NEW t \in Tasks,
                 Dispatch(t) \/ ForwardOk(t) \/ ForwardFails(t) \/ SocketGone(t) \/ Wake(t)
          PROVE  WakeInv' /\ ~Draining'
      <4>1. WakeInv'
        BY <1>2, <3>1, <3>4, CallerStep, WakeStep
      <4>2. UNCHANGED drainVars
        BY <1>2, <3>4, NoRequestBeside
      <4> QED
        BY <2>3, <4>1, <4>2 DEF Draining
    <3> QED
      BY <1>1, <3>2, <3>3, <3>4 DEF Next
  <2> QED
    BY <2>2, <2>3
<1> QED
  BY <1>2, <1>3, <1>4 DEF AloneInv

\* A hub in which at most one drain runs at a time: as long as no request meets it, a drain
\* keeps the row, the registry and the instance in step (hub/vm/service.py, drain()).
THEOREM DrainInvariant == OneDrainer => (SpecDrain => []AloneInv)
<1> SUFFICES ASSUME OneDrainer PROVE SpecDrain => []AloneInv
  OBVIOUS
<1>1. InitDrain => AloneInv
  <2> SUFFICES ASSUME InitDrain PROVE AloneInv
    OBVIOUS
  <2>1. WakeInv /\ ~Draining /\ raced = FALSE
    BY InitWakeInv DEF InitDrain, Init, Draining
  <2> QED
    BY <2>1 DEF AloneInv, WakeInv, Beside
<1>2. AloneInv /\ [NextDrain]_<<vars, raced>> => AloneInv'
  BY AloneStep
<1> QED
  BY <1>1, <1>2, PTL DEF SpecDrain

\* DrainAloneSafe: a drain that no request overlaps forgets no instance, ends with the registry
\* and the row in agreement and sends no traffic to an instance that does not serve, whatever
\* snapshots or stops fail, instances end and restarts come.
THEOREM DrainSafe == OneDrainer => (SpecDrain => []DrainAloneSafe)
<1> SUFFICES ASSUME OneDrainer PROVE SpecDrain => []DrainAloneSafe
  OBVIOUS
<1>1. AloneInv => DrainAloneSafe
  <2> SUFFICES ASSUME AloneInv, ~raced
               PROVE  NoInstanceForgotten /\ (~Draining => CacheCoherent) /\ TrafficOnlyToServing
    BY DEF DrainAloneSafe
  <2>1. CASE Draining
    <3>1. DrainInv /\ \E d \in Drainers : DrainKnows(d) /\ dpc[d] # "idle"
      BY <2>1 DEF AloneInv, DrainInv, Draining
    <3>2. reg.status # "running"
      BY <3>1 DEF AloneInv, TypeOK, DrainKnows
    <3> QED
      BY <2>1, <3>1, <3>2 DEF DrainInv, TrafficOnlyToServing
  <2>2. CASE ~Draining
    <3>1. WakeInv
      BY <2>2 DEF AloneInv
    <3>2. TrafficOnlyToServing
      BY <3>1 DEF WakeInv, TypeOK, LockInv, SignupInv, RowInv, ForwardInv, CacheCoherent,
         HolderInv, HolderKnows, TrafficOnlyToServing
    <3> QED
      BY <3>1, <3>2 DEF WakeInv
  <2> QED
    BY <2>1, <2>2
<1> QED
  BY <1>1, DrainInvariant, PTL
=============================================================================
