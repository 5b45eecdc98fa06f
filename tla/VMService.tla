----------------------------- MODULE VMService -----------------------------
(***************************************************************************)
(* The life cycle of one user's VM in the hub: VMService (hub/vm/          *)
(* service.py) with its in-memory registry, the user_vms row in Postgres,  *)
(* the Morph provider, and the two callers of wake(): the wake-proxy       *)
(* middleware and the WebSocket proxy.                                     *)
(*                                                                         *)
(* Users share nothing (registry entry, row and wake lock are per user),   *)
(* so one user is modelled.  An action is what runs between two awaits:    *)
(* the effect of the call awaited, then the code up to the next await.     *)
(* An endpoint URL is named by the instance it exposes.                    *)
(***************************************************************************)
EXTENDS Naturals

CONSTANTS
  VMs,        \* instances the provider can create (never reused)
  NoVM,       \* Python's None, for a vm id or an endpoint
  Requests,   \* HTTP requests under /api/v1/u
  Sockets,    \* WebSocket connects under /ws/u
  NoTask,     \* nobody holds the wake lock
  Drainers,   \* callers of VMService.drain
  MaxFaults   \* bound on the failures the hub cannot observe, and on restarts

Tasks == Requests \cup Sockets

ASSUME NamesAssumption == NoVM \notin VMs /\ NoTask \notin Tasks
ASSUME BoundAssumption == MaxFaults \in Nat

VARIABLES
  reg,       \* the VMState in the registry
  row,       \* the user_vms row
  cloud,     \* what the provider runs
  lock,      \* _wake_locks[user_id]
  pc,        \* where each request is
  vmOf,      \* the instance, or endpoint, a request works with
  dpc,       \* where each drain is
  dvm,       \* the instance it read from the registry
  signup,    \* progress of provision_for_user
  faults,    \* failures spent
  launched,  \* history: instances whose user-server passed its health poll
  pushed,    \* history: instances to which a secrets push was made
  lost       \* history: live instances an unobservable failure hid

taskVars == <<lock, pc, vmOf>>
drainVars == <<dpc, dvm>>
history == <<launched, pushed, lost>>
vars == <<reg, row, cloud, taskVars, drainVars, signup, faults, history>>

Statuses == {"stopped", "waking", "running", "draining", "error"}
MaybeVM == VMs \cup {NoVM}
\* A registry entry or a row; "absent" when there is none.
VMStates == [status : Statuses \cup {"absent"}, vm : MaybeVM, ep : MaybeVM]
Absent == [status |-> "absent", vm |-> NoVM, ep |-> NoVM]
Stopped == [status |-> "stopped", vm |-> NoVM, ep |-> NoVM]

\* The steps of wake(), all under the wake lock, in program order.
WakeSteps == {"persistWaking", "readRow", "getStatus", "stopOrphan", "clear",
              "start", "persistVm", "launch", "persistEp", "health", "secrets",
              "persistRunning", "cleanup", "clearLeaked", "persistError"}
TaskSteps == WakeSteps \cup {"idle", "lock", "forward", "dropped"}
DrainSteps == {"idle", "persistDraining", "snapshot", "stop", "writeRow",
               "setStopped", "persistError"}

TypeOK ==
  /\ reg \in VMStates
  /\ row \in VMStates
  /\ cloud \in [VMs -> {"none", "ready", "paused", "gone"}]
  /\ lock \in Tasks \cup {NoTask}
  /\ pc \in [Tasks -> TaskSteps]
  /\ vmOf \in [Tasks -> MaybeVM]
  /\ dpc \in [Drainers -> DrainSteps]
  /\ dvm \in [Drainers -> MaybeVM]
  /\ signup \in {"none", "committed", "done"}
  /\ faults \in 0..MaxFaults
  /\ launched \subseteq VMs
  /\ pushed \subseteq MaybeVM
  /\ lost \subseteq MaybeVM

Init ==
  /\ reg = Absent
  /\ row = Absent
  /\ cloud = [v \in VMs |-> "none"]
  /\ lock = NoTask
  /\ pc = [t \in Tasks |-> "idle"]
  /\ vmOf = [t \in Tasks |-> NoVM]
  /\ dpc = [d \in Drainers |-> "idle"]
  /\ dvm = [d \in Drainers |-> NoVM]
  /\ signup = "none"
  /\ faults = 0
  /\ launched = {}
  /\ pushed = {}
  /\ lost = {}

-----------------------------------------------------------------------------
(* Helpers                                                                 *)

Live(v) == v \in VMs /\ cloud[v] \in {"ready", "paused"}

Goto(t, from, to) ==
  /\ pc[t] = from
  /\ pc' = [pc EXCEPT ![t] = to]

MutSetStatusDropsMapping(s) == reg' = IF reg.status = "absent" THEN reg ELSE [status |-> s]
\* VMRegistry.set_status: no effect on a user the registry does not hold.
SetStatus(s) == reg' = IF reg.status = "absent" THEN reg ELSE [reg EXCEPT !.status = s]
SetState(s, v, e) ==
  reg' = IF reg.status = "absent" THEN reg ELSE [status |-> s, vm |-> v, ep |-> e]

\* The _persist_* helpers: an UPDATE of the row, if there is one.
Persist(s) == row' = IF row.status = "absent" THEN row ELSE s

MutServingWithoutStatus(s) == s.ep # NoVM
\* The test that skips wake(), in the middleware, in ws.py and in wake().
Serving(s) == s.status = "running" /\ s.ep # NoVM

MutWakeLockIgnored == TRUE
\* async with lock.
WakeLockFree == lock = NoTask

\* What a caller does when wake() returns.  The middleware re-reads the
\* registry: endpoint present, forward; otherwise 503.  ws.py compares the
\* result with WakeResult.OK, a member the enum does not have: the
\* AttributeError ends the handler before the socket is accepted.
Resumed(t, ok, s) ==
  IF t \in Sockets THEN "dropped"
  ELSE IF ok /\ s.ep # NoVM THEN "forward" ELSE "idle"

\* wake() returns, releasing the lock, with the registry s.
Return(t, from, ok, s) ==
  /\ Goto(t, from, Resumed(t, ok, s))
  /\ lock' = NoTask
  /\ vmOf' = [vmOf EXCEPT ![t] = IF Resumed(t, ok, s) = "forward" THEN s.ep ELSE NoVM]

\* An exception other than VMProviderError (an httpx timeout) leaves wake():
\* the lock is released, nothing else is undone, the client gets a 500.
Raise(t, from) ==
  /\ Goto(t, from, "idle")
  /\ lock' = NoTask
  /\ vmOf' = [vmOf EXCEPT ![t] = NoVM]

Fault == faults < MaxFaults /\ faults' = faults + 1

-----------------------------------------------------------------------------
(* Signup and the callers of wake()                                        *)

\* provision_for_user: the row is committed, then the registry filled in.
ProvisionCommit ==
  /\ signup = "none"
  /\ row' = Stopped
  /\ signup' = "committed"
  /\ UNCHANGED <<reg, cloud, taskVars, drainVars, faults, history>>

ProvisionPut ==
  /\ signup = "committed"
  /\ reg' = Stopped
  /\ signup' = "done"
  /\ UNCHANGED <<row, cloud, taskVars, drainVars, faults, history>>

\* Middleware.dispatch and ws_agent_logs up to their first await; a user
\* without a registry entry is answered 404 and changes nothing.
Dispatch(t) ==
  /\ reg.status # "absent"
  /\ Goto(t, "idle", IF Serving(reg) THEN "forward" ELSE "lock")
  /\ vmOf' = [vmOf EXCEPT ![t] = IF Serving(reg) THEN reg.ep ELSE NoVM]
  /\ UNCHANGED <<reg, row, cloud, lock, drainVars, signup, faults, history>>

\* The request reached the user-server, which resumes a paused instance, and
\* was answered 2xx or 3xx: touch().  A socket is bridged and never touches.
ForwardOk(t) ==
  /\ Goto(t, "forward", "idle")
  /\ Live(vmOf[t])
  /\ cloud' = [cloud EXCEPT ![vmOf[t]] = "ready"]
  /\ IF t \in Requests THEN SetStatus("running") ELSE UNCHANGED reg
  /\ vmOf' = [vmOf EXCEPT ![t] = NoVM]
  /\ UNCHANGED <<row, lock, drainVars, signup, faults, history>>

\* 4xx, 5xx, 502 or 504 from the forwarder: no touch.
ForwardFails(t) ==
  /\ Goto(t, "forward", "idle")
  /\ vmOf' = [vmOf EXCEPT ![t] = NoVM]
  /\ UNCHANGED <<reg, row, cloud, lock, drainVars, signup, faults, history>>

SocketGone(t) ==
  /\ Goto(t, "dropped", "idle")
  /\ UNCHANGED <<reg, row, cloud, lock, vmOf, drainVars, signup, faults, history>>

-----------------------------------------------------------------------------
(* wake()                                                                  *)

\* The lock is ours: either another wake has finished the work, or the
\* registry says "waking" from here on.
Acquire(t) ==
  /\ pc[t] = "lock"
  /\ WakeLockFree
  /\ IF Serving(reg)
     THEN Return(t, "lock", TRUE, reg) /\ UNCHANGED reg
     ELSE /\ Goto(t, "lock", "persistWaking")
          /\ lock' = t
          /\ SetStatus("waking")
          /\ UNCHANGED vmOf
  /\ UNCHANGED <<row, cloud, drainVars, signup, faults, history>>

PersistWaking(t) ==
  /\ Goto(t, "persistWaking", "readRow")
  /\ Persist([row EXCEPT !.status = "waking"])
  /\ UNCHANGED <<reg, cloud, lock, vmOf, drainVars, signup, faults, history>>

\* _start_or_resume reads the row and picks case A/B, C or D.
ReadRow(t) ==
  /\ Goto(t, "readRow", IF row.vm = NoVM THEN "start"
                        ELSE IF row.ep = NoVM THEN "stopOrphan" ELSE "getStatus")
  /\ vmOf' = [vmOf EXCEPT ![t] = row.vm]
  /\ UNCHANGED <<reg, row, cloud, lock, drainVars, signup, faults, history>>

\* Case A/B, status ready or paused: reuse the instance.
Reuse(t) ==
  /\ Goto(t, "getStatus", "health")
  /\ Live(vmOf[t])
  /\ UNCHANGED <<reg, row, cloud, lock, vmOf, drainVars, signup, faults, history>>

\* Case A/B, any other answer: forget the instance without stopping it.
Stale(t) ==
  /\ Goto(t, "getStatus", "clear")
  /\ SetState("waking", NoVM, NoVM)
  /\ IF Live(vmOf[t])   \* get_status answers None to every error
     THEN Fault /\ lost' = lost \cup {vmOf[t]}
     ELSE UNCHANGED <<faults, lost>>
  /\ UNCHANGED <<row, cloud, lock, vmOf, drainVars, signup, launched, pushed>>

\* Case C: an instance without endpoint is stopped; VMProviderError is
\* swallowed and the mapping forgotten all the same.
StopOrphan(t) ==
  /\ Goto(t, "stopOrphan", "clear")
  /\ cloud' = [cloud EXCEPT ![vmOf[t]] = "gone"]
  /\ SetState("waking", NoVM, NoVM)
  /\ UNCHANGED <<row, lock, vmOf, drainVars, signup, faults, history>>

StopOrphanFails(t) ==
  /\ Goto(t, "stopOrphan", "clear")
  /\ Fault
  /\ SetState("waking", NoVM, NoVM)
  /\ lost' = lost \cup {vmOf[t]}
  /\ UNCHANGED <<row, cloud, lock, vmOf, drainVars, signup, launched, pushed>>

ClearMapping(t) ==
  /\ Goto(t, "clear", "start")
  /\ Persist([row EXCEPT !.vm = NoVM, !.ep = NoVM])
  /\ vmOf' = [vmOf EXCEPT ![t] = NoVM]
  /\ UNCHANGED <<reg, cloud, lock, drainVars, signup, faults, history>>

\* Case D: a fresh instance; its id goes to the registry at once.
Start(t) ==
  \E v \in VMs :
    /\ cloud[v] = "none"
    /\ Goto(t, "start", "persistVm")
    /\ cloud' = [cloud EXCEPT ![v] = "ready"]
    /\ vmOf' = [vmOf EXCEPT ![t] = v]
    /\ SetState("waking", v, reg.ep)
    /\ UNCHANGED <<row, lock, drainVars, signup, faults, history>>

\* The provider refuses, or there is no snapshot to start from.
StartFails(t) ==
  /\ Goto(t, "start", "cleanup")
  /\ UNCHANGED <<reg, row, cloud, lock, vmOf, drainVars, signup, faults, history>>

\* The request times out after the provider has created the instance.
StartLost(t) ==
  \E v \in VMs :
    /\ cloud[v] = "none"
    /\ Fault
    /\ Raise(t, "start")
    /\ cloud' = [cloud EXCEPT ![v] = "ready"]
    /\ lost' = lost \cup {v}
    /\ UNCHANGED <<reg, row, drainVars, signup, launched, pushed>>

MutPersistVmIdForgotten(t) ==
  /\ Goto(t, "persistVm", "launch")
  /\ UNCHANGED <<reg, row, cloud, lock, vmOf, drainVars, signup, faults, history>>
PersistVmId(t) ==
  /\ Goto(t, "persistVm", "launch")
  /\ Persist([row EXCEPT !.vm = vmOf[t]])
  /\ UNCHANGED <<reg, cloud, lock, vmOf, drainVars, signup, faults, history>>

\* configure_wake_on_http, ensure_wallet and launch_user_server, which polls
\* the user-server's health inside the VM before it exposes the endpoint.
Launch(t) ==
  /\ Goto(t, "launch", "persistEp")
  /\ Live(vmOf[t])
  /\ launched' = launched \cup {vmOf[t]}
  /\ SetState("waking", reg.vm, vmOf[t])
  /\ UNCHANGED <<row, cloud, lock, vmOf, drainVars, signup, faults, pushed, lost>>

\* An exec or the expose call is refused: VMProviderError.
LaunchFails(t) ==
  /\ Goto(t, "launch", "cleanup")
  /\ UNCHANGED <<reg, row, cloud, lock, vmOf, drainVars, signup, faults, history>>

PersistEndpoint(t) ==
  /\ Goto(t, "persistEp", "health")
  /\ Persist([row EXCEPT !.ep = vmOf[t]])
  /\ UNCHANGED <<reg, cloud, lock, vmOf, drainVars, signup, faults, history>>

\* One poll of the endpoint answers 200; the request resumes a paused VM.
Healthy(t) ==
  /\ Goto(t, "health", "secrets")
  /\ Live(vmOf[t]) /\ vmOf[t] \in launched
  /\ cloud' = [cloud EXCEPT ![vmOf[t]] = "ready"]
  /\ UNCHANGED <<reg, row, lock, vmOf, drainVars, signup, faults, history>>

MutNoDeadline(t) == pc[t] = "health" /\ UNCHANGED vars
\* VM_WAKE_TIMEOUT_SECONDS pass: PENDING, with status still "waking".
HealthTimeout(t) ==
  /\ Return(t, "health", FALSE, reg)
  /\ UNCHANGED <<reg, row, cloud, drainVars, signup, faults, history>>

\* The push is made once, failures are logged; then the registry is running.
PushSecrets(t) ==
  /\ Goto(t, "secrets", "persistRunning")
  /\ pushed' = pushed \cup {vmOf[t]}
  /\ SetState("running", vmOf[t], vmOf[t])
  /\ UNCHANGED <<row, cloud, lock, vmOf, drainVars, signup, faults, launched, lost>>

MutRunningWithoutRow(t) ==
  /\ Return(t, "persistRunning", TRUE, reg)
  /\ UNCHANGED <<reg, row, cloud, drainVars, signup, faults, history>>
PersistRunning(t) ==
  /\ Return(t, "persistRunning", TRUE, reg)
  /\ Persist([status |-> "running", vm |-> vmOf[t], ep |-> vmOf[t]])
  /\ UNCHANGED <<reg, cloud, drainVars, signup, faults, history>>

\* except VMProviderError: the instance the registry knows is stopped, any
\* failure of the stop is swallowed and the mapping is forgotten.
Cleanup(t) ==
  /\ pc[t] = "cleanup"
  /\ IF reg.vm = NoVM
     THEN /\ Goto(t, "cleanup", "persistError")
          /\ SetStatus("error")
          /\ UNCHANGED cloud
     ELSE /\ Goto(t, "cleanup", "clearLeaked")
          /\ cloud' = [cloud EXCEPT ![reg.vm] = "gone"]
          /\ SetState("waking", NoVM, NoVM)
  /\ UNCHANGED <<row, lock, vmOf, drainVars, signup, faults, history>>

CleanupStopFails(t) ==
  /\ Goto(t, "cleanup", "clearLeaked")
  /\ reg.vm # NoVM
  /\ Fault
  /\ SetState("waking", NoVM, NoVM)
  /\ lost' = lost \cup {reg.vm}
  /\ UNCHANGED <<row, cloud, lock, vmOf, drainVars, signup, launched, pushed>>

ClearLeaked(t) ==
  /\ Goto(t, "clearLeaked", "persistError")
  /\ Persist([row EXCEPT !.vm = NoVM, !.ep = NoVM])
  /\ SetStatus("error")
  /\ UNCHANGED <<cloud, lock, vmOf, drainVars, signup, faults, history>>

PersistError(t) ==
  /\ Return(t, "persistError", FALSE, reg)
  /\ Persist([row EXCEPT !.status = "error"])
  /\ UNCHANGED <<reg, cloud, drainVars, signup, faults, history>>

\* A timeout or a connection error at a provider call that lets it through.
WakeRaises(t) ==
  /\ \E from \in {"stopOrphan", "start", "launch"} : Raise(t, from)
  /\ UNCHANGED <<reg, row, cloud, drainVars, signup, faults, history>>

-----------------------------------------------------------------------------
(* drain(), which does not take the wake lock                              *)

DGoto(d, from, to) ==
  /\ dpc[d] = from
  /\ dpc' = [dpc EXCEPT ![d] = to]

DrainStart(d) ==
  /\ DGoto(d, "idle", "persistDraining")
  /\ reg.vm # NoVM
  /\ dvm' = [dvm EXCEPT ![d] = reg.vm]
  /\ SetStatus("draining")
  /\ UNCHANGED <<row, cloud, taskVars, signup, faults, history>>

DrainPersist(d) ==
  /\ DGoto(d, "persistDraining", "snapshot")
  /\ Persist([row EXCEPT !.status = "draining"])
  /\ UNCHANGED <<reg, cloud, taskVars, dvm, signup, faults, history>>

DrainSnapshot(d) ==
  /\ DGoto(d, "snapshot", "stop")
  /\ Live(dvm[d])
  /\ UNCHANGED <<reg, row, cloud, taskVars, dvm, signup, faults, history>>

DrainStop(d) ==
  /\ DGoto(d, "stop", "writeRow")
  /\ cloud' = [cloud EXCEPT ![dvm[d]] = "gone"]
  /\ UNCHANGED <<reg, row, taskVars, dvm, signup, faults, history>>

\* VMProviderError from snapshot or stop.
DrainFails(d) ==
  /\ \E from \in {"snapshot", "stop"} : DGoto(d, from, "persistError")
  /\ SetStatus("error")
  /\ UNCHANGED <<row, cloud, taskVars, dvm, signup, faults, history>>

\* Any other exception: the status stays "draining".
DrainRaises(d) ==
  /\ \E from \in {"snapshot", "stop"} : DGoto(d, from, "idle")
  /\ UNCHANGED <<reg, row, cloud, taskVars, dvm, signup, faults, history>>

DrainWriteRow(d) ==
  /\ DGoto(d, "writeRow", "setStopped")
  /\ Persist(Stopped)
  /\ UNCHANGED <<reg, cloud, taskVars, dvm, signup, faults, history>>

MutDrainKeepsMapping(d) ==
  /\ DGoto(d, "setStopped", "idle")
  /\ SetStatus("stopped")
  /\ UNCHANGED <<row, cloud, taskVars, dvm, signup, faults, history>>
DrainSetStopped(d) ==
  /\ DGoto(d, "setStopped", "idle")
  /\ SetState("stopped", NoVM, NoVM)
  /\ UNCHANGED <<row, cloud, taskVars, dvm, signup, faults, history>>

DrainPersistError(d) ==
  /\ DGoto(d, "persistError", "idle")
  /\ Persist([row EXCEPT !.status = "error"])
  /\ UNCHANGED <<reg, cloud, taskVars, dvm, signup, faults, history>>

-----------------------------------------------------------------------------
(* The environment                                                         *)

\* Morph's TTL: a ready instance is paused.
Pause(v) ==
  /\ cloud[v] = "ready"
  /\ cloud' = [cloud EXCEPT ![v] = "paused"]
  /\ UNCHANGED <<reg, row, taskVars, drainVars, signup, faults, history>>

\* Without wake-on-HTTP the TTL, or an operator, ends it for good.
Terminate(v) ==
  /\ Live(v)
  /\ cloud' = [cloud EXCEPT ![v] = "gone"]
  /\ UNCHANGED <<reg, row, taskVars, drainVars, signup, faults, history>>

MutRestartWithoutHydrate ==
  /\ Fault
  /\ reg' = Absent
  /\ lock' = NoTask
  /\ pc' = [t \in Tasks |-> "idle"]
  /\ vmOf' = [t \in Tasks |-> NoVM]
  /\ UNCHANGED <<row, cloud, drainVars, signup, history>>
\* The hub process dies and comes up again: hydrate() fills the registry
\* from the row; requests, drains and locks are gone.
Restart ==
  /\ Fault
  /\ reg' = row
  /\ lock' = NoTask
  /\ pc' = [t \in Tasks |-> "idle"]
  /\ vmOf' = [t \in Tasks |-> NoVM]
  /\ dpc' = [d \in Drainers |-> "idle"]
  /\ dvm' = [d \in Drainers |-> NoVM]
  /\ signup' = IF signup = "none" THEN "none" ELSE "done"
  /\ lost' = lost \cup {v \in VMs : \E t \in Tasks : pc[t] = "persistVm" /\ vmOf[t] = v}
  /\ UNCHANGED <<row, cloud, launched, pushed>>

-----------------------------------------------------------------------------
Wake(t) ==
  \/ Acquire(t) \/ PersistWaking(t) \/ ReadRow(t) \/ Reuse(t) \/ Stale(t)
  \/ StopOrphan(t) \/ StopOrphanFails(t) \/ ClearMapping(t)
  \/ Start(t) \/ StartFails(t) \/ StartLost(t) \/ PersistVmId(t)
  \/ Launch(t) \/ LaunchFails(t) \/ PersistEndpoint(t)
  \/ Healthy(t) \/ HealthTimeout(t) \/ PushSecrets(t) \/ PersistRunning(t)
  \/ Cleanup(t) \/ CleanupStopFails(t) \/ ClearLeaked(t) \/ PersistError(t)
  \/ WakeRaises(t)

Drain(d) ==
  \/ DrainStart(d) \/ DrainPersist(d) \/ DrainSnapshot(d) \/ DrainStop(d)
  \/ DrainFails(d) \/ DrainRaises(d) \/ DrainWriteRow(d) \/ DrainSetStopped(d)
  \/ DrainPersistError(d)

Next ==
  \/ ProvisionCommit \/ ProvisionPut
  \/ \E t \in Tasks : Dispatch(t) \/ ForwardOk(t) \/ ForwardFails(t) \/ Wake(t)
  \/ \E s \in Sockets : SocketGone(s)
  \/ \E d \in Drainers : Drain(d)
  \/ \E v \in VMs : Pause(v) \/ Terminate(v)
  \/ Restart

Spec == Init /\ [][Next]_vars

\* What a request has still to do once it does not wait for the lock.  The
\* event loop runs every ready task and every provider call has a timeout.
InFlight(t) ==
  \/ ForwardOk(t) \/ ForwardFails(t)
  \/ pc[t] \in WakeSteps /\ Wake(t)
  \/ t \in Sockets /\ SocketGone(t)

\* asyncio.Lock wakes its waiters first come, first served: strong fairness.
Fairness ==
  \A t \in Tasks : WF_vars(InFlight(t)) /\ SF_vars(Acquire(t))

FairSpec == Spec /\ Fairness

\* The same with clients that keep sending requests.
BusySpec == FairSpec /\ \A t \in Tasks : WF_vars(Dispatch(t))

-----------------------------------------------------------------------------
(* Properties.  The first four are about a hub in which nobody drains,     *)
(* which is the hub of this repository: drain() has no caller.             *)

\* Traffic only goes where it can be answered: an entry that says running
\* (read by the middleware without the lock, and again after a restart) and
\* the endpoint a request is about to be forwarded to are those of one
\* instance whose user-server passed its health poll and to which the
\* secrets push was made before.
TrafficOnlyToServing ==
  /\ reg.status = "running" =>
       reg.vm \in launched \cap pushed /\ reg.ep = reg.vm
  /\ \A t \in Tasks : pc[t] = "forward" => vmOf[t] \in launched \cap pushed

\* Between wakes the registry is what a restart would read back from the
\* row: no update of one is missing from the other.
CacheCoherent == lock = NoTask /\ signup # "committed" => reg = row

\* A live instance that no failure hid from the hub can be found again: its
\* id is in the row, or is about to be written by the wake that started it.
\* This is what "persist vm_id BEFORE launch_user_server" is for.
NoInstanceForgotten ==
  \A v \in VMs : Live(v) /\ v \notin lost =>
    \/ row.vm = v
    \/ \E t \in Tasks : pc[t] = "persistVm" /\ vmOf[t] = v

\* "Concurrent callers share one wake": however many requests arrive, wakes
\* fail and instances die, two instances that the hub can see never live
\* at the same time.
OneInstance ==
  \A v, w \in VMs : Live(v) /\ Live(w) /\ {v, w} \cap lost = {} => v = w

Promise == INSTANCE VMPromise WITH phase <- reg.status,
             serving <- IF reg.status = "running" THEN reg.vm ELSE NoVM
\* The registry, as the middleware reads it at any moment, implements
\* VMPromise: only wake() moves the status, an instance that answered is
\* kept, and a restart takes back at most one step of the status.
ImplementsPromise == Promise!Spec

\* Every request is answered: no path out of wake() keeps the lock.
RequestsAnswered == \A t \in Tasks : pc[t] # "idle" ~> pc[t] = "idle"

\* A user whose instance the provider ended gets another one, as long as
\* requests keep coming: "non-fatal, VM hard-stops on TTL instead".
DeadInstanceReplaced ==
  \A v \in VMs : reg.vm = v /\ cloud[v] = "gone" ~> reg.vm # v
=============================================================================
