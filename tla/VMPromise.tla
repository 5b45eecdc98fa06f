----------------------------- MODULE VMPromise -----------------------------
(***************************************************************************)
(* What the hub promises about a user's VM when nobody drains it: it is    *)
(* woken by one attempt after another until one succeeds, and the instance *)
(* that answered is the user's from then on.  A restart of the hub may     *)
(* take back the last step of the status, never more: a VM is only lost    *)
(* again if the restart comes before "running" has reached the database.   *)
(***************************************************************************)
CONSTANTS VMs, NoVM
VARIABLES phase, serving

Init == phase = "absent" /\ serving = NoVM

Signup == phase = "absent" /\ phase' = "stopped" /\ UNCHANGED serving

Attempt ==
  /\ phase \in {"stopped", "error"}
  /\ phase' = "waking"
  /\ UNCHANGED serving

Succeed == \E v \in VMs : phase = "waking" /\ phase' = "running" /\ serving' = v

Fail == phase = "waking" /\ phase' = "error" /\ UNCHANGED serving

\* The last step a restart may take back, read backwards.
Undone == { <<"waking", "stopped">>, <<"waking", "error">>,
            <<"running", "waking">>, <<"error", "waking">> }

Undo ==
  /\ <<phase, phase'>> \in Undone
  /\ serving' = NoVM

Next == Signup \/ Attempt \/ Succeed \/ Fail \/ Undo
Spec == Init /\ [][Next]_<<phase, serving>>
=============================================================================
