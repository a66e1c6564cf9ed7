--------------------------- MODULE AccountLifecycle ---------------------------
(***************************************************************************)
(* What managed provisioning promises about one MySQL user per operation,  *)
(* without leases, workers, retries or time: the user appears only for a   *)
(* pending operation, a failed operation and a removed account leave no    *)
(* user behind, and from the moment the activation may have committed the  *)
(* user is untouched until its removal is asked for.                       *)
(***************************************************************************)
CONSTANT Ops

VARIABLES
    phase, \* [Ops -> Phases]
    users  \* operations whose user exists upstream

vars == <<phase, users>>

Phases == {"none", "pending", "committed", "failed", "active", "removing", "removed"}

Init ==
    /\ phase = [o \in Ops |-> "none"]
    /\ users = {}

Move(o, from, to) ==
    /\ phase[o] = from
    /\ phase' = [phase EXCEPT ![o] = to]
    /\ UNCHANGED users

Start(o) == Move(o, "none", "pending")
Fail(o) == o \notin users /\ Move(o, "pending", "failed")
Commit(o) == o \in users /\ Move(o, "pending", "committed")
Activate(o) == o \in users /\ Move(o, "committed", "active")
RequestRemoval(o) == Move(o, "active", "removing")
Remove(o) == o \notin users /\ Move(o, "removing", "removed")

CreateUser(o) ==
    /\ phase[o] = "pending"
    /\ users' = users \cup {o}
    /\ UNCHANGED phase

DropUser(o) ==
    /\ phase[o] \in {"pending", "removing"}
    /\ users' = users \ {o}
    /\ UNCHANGED phase

Next == \E o \in Ops :
    \/ Start(o) \/ Fail(o) \/ Commit(o) \/ Activate(o) \/ RequestRemoval(o)
    \/ Remove(o) \/ CreateUser(o) \/ DropUser(o)

Spec == Init /\ [][Next]_vars
=============================================================================
