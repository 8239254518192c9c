---------------------------- MODULE VmLifeCycle ----------------------------
(***************************************************************************)
(* What oned promises of a virtual machine, with its managers, queues and  *)
(* drivers out of sight: the states it goes through, the hosts that hold   *)
(* capacity for it, and the network leases it holds. A VM takes capacity   *)
(* once in an activation, gives all of it back before the activation ends, *)
(* gives its leases back exactly when it is done, and is never revived.    *)
(***************************************************************************)
CONSTANTS VMs, Hosts

VARIABLES
  status,  \* what clients may tell apart, ACTIVE being divided in three:
           \* DISPATCHED, PLACED on hosts, and LEFT its hosts
  placed,  \* the hosts charged for the VM
  held     \* whether the VM holds its leases

Idle == {"PENDING", "HOLD", "STOPPED", "SUSPENDED", "FAILED"}

lifeVars == <<status, placed, held>>

Init ==
  /\ status = [v \in VMs |-> "INIT"]
  /\ placed = [v \in VMs |-> {}]
  /\ held   = [v \in VMs |-> FALSE]

Move(v, from, to) ==
  /\ status[v] \in from
  /\ status' = [status EXCEPT ![v] = to]

Submit(v) ==
  /\ \E first \in {"PENDING", "HOLD"} : Move(v, {"INIT"}, first)
  /\ held' = [held EXCEPT ![v] = TRUE]
  /\ UNCHANGED placed

\* hold, release, resume of a stopped VM
Queue(v) ==
  /\ \/ Move(v, {"PENDING"}, "HOLD")
     \/ Move(v, {"HOLD", "STOPPED"}, "PENDING")
  /\ UNCHANGED <<placed, held>>

Dispatch(v) ==
  /\ Move(v, {"PENDING", "SUSPENDED"}, "DISPATCHED")
  /\ UNCHANGED <<placed, held>>

Place(v) ==
  /\ Move(v, {"DISPATCHED"}, "PLACED")
  /\ \E h \in Hosts : placed' = [placed EXCEPT ![v] = {h}]
  /\ UNCHANGED held

\* A migration reserves the other host, and ends on one of the two.
Reserve(v) ==
  /\ status[v] = "PLACED"
  /\ \E g, h \in Hosts : placed[v] = {g} /\ placed' = [placed EXCEPT ![v] = {g, h}]
  /\ UNCHANGED <<status, held>>

Settle(v) ==
  /\ status[v] = "PLACED"
  /\ \E h \in placed[v] : placed' = [placed EXCEPT ![v] = {h}]
  /\ UNCHANGED <<status, held>>

Leave(v) ==
  /\ Move(v, {"PLACED"}, "LEFT")
  /\ placed' = [placed EXCEPT ![v] = {}]
  /\ UNCHANGED held

\* The activation ends: the VM can be resumed, has failed, or is done.
End(v) ==
  \/ /\ \E s \in {"STOPPED", "SUSPENDED", "FAILED"} : Move(v, {"LEFT"}, s)
     /\ UNCHANGED <<placed, held>>
  \/ /\ Move(v, {"LEFT"}, "DONE")
     /\ held' = [held EXCEPT ![v] = FALSE]
     /\ UNCHANGED placed

Discard(v) ==
  /\ Move(v, Idle, "DONE")
  /\ held' = [held EXCEPT ![v] = FALSE]
  /\ UNCHANGED placed

Next == \E v \in VMs : \/ Submit(v)
                       \/ Queue(v)
                       \/ Dispatch(v)
                       \/ Place(v)
                       \/ Reserve(v)
                       \/ Settle(v)
                       \/ Leave(v)
                       \/ End(v)
                       \/ Discard(v)

\* An activation that has begun takes its capacity, and one that has given
\* it back ends.
Spec == /\ Init /\ [][Next]_lifeVars
        /\ \A v \in VMs : WF_lifeVars(Place(v)) /\ WF_lifeVars(End(v))
=============================================================================
