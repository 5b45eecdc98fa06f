----------------------------- MODULE MCVMDrain -----------------------------
(***************************************************************************)
(* VMService with drains.  drain() takes no lock, so what it guarantees    *)
(* depends on what runs beside it: "raced" remembers whether a drain and a *)
(* request were ever under way together.                                   *)
(***************************************************************************)
EXTENDS VMService

VARIABLE raced

Draining == \E d \in Drainers : dpc[d] # "idle"
Beside == Draining /\ \E t \in Tasks : pc[t] # "idle"

InitDrain == Init /\ raced = FALSE
NextDrain == Next /\ raced' = (raced \/ Beside')
SpecDrain == InitDrain /\ [][NextDrain]_<<vars, raced>>

\* A drain that no request overlaps is as good as a wake, through failures of
\* the snapshot or of the stop and restarts at any of its steps: no instance
\* is forgotten, the registry and the row agree when it is over, and traffic
\* only goes to an instance that serves.
DrainAloneSafe ==
  ~raced => /\ NoInstanceForgotten
            /\ ~Draining => CacheCoherent
            /\ TrafficOnlyToServing
=============================================================================
