------------------------------ MODULE Cluster ------------------------------
(***************************************************************************)
(* oned as the scheduler sees it: the rows of the hosts and of the VMs in  *)
(* the database, the deploy call, and what else changes the rows meanwhile *)
(* - the Life-cycle Manager, which charges a VM to its host some time      *)
(* after the call has returned, the information drivers and users.         *)
(*                                                                         *)
(* What becomes of a VM on its host is in VmLifeCycle; here it is charged, *)
(* and leaves.  CPU is in halves of a core (50%), and stands for memory    *)
(* and disk.                                                               *)
(***************************************************************************)
EXTENDS HostObject, FiniteSets, FiniteSetsExt, TLC

CONSTANTS
  VMs, Hosts,    \* oids
  NoHost,
  CPU,           \* the attribute of each VM's template
  NoMemory,      \* the VMs whose template has no MEMORY
  Total,         \* what the information driver of each host says: TOTALCPU
  Free,          \* and FREECPU, one of these
  New,           \* hosts whose drivers may not have answered yet
  MaxUser,       \* bound: operations of users on VMs
  MaxReports     \* bound: changes of the hosts by users and drivers

ClusterAssumption ==
  /\ VMs \subseteq Nat /\ Hosts \subseteq Nat /\ NoHost \notin Hosts
  /\ CPU \in [VMs -> Nat] /\ NoMemory \subseteq VMs
  /\ Total \in [Hosts -> Nat] /\ Free \subseteq Nat
  /\ New \subseteq Hosts
  /\ MaxUser \in Nat /\ MaxReports \in Nat

ASSUME ClusterAssumption

VARIABLES
  hstate,      \* the state of each host
  share,       \* its HostShare
  state,       \* the state of each VM
  hid,         \* the host it was sent to, while it may go back there
  promised,    \* VMs whose DEPLOY or RESTORE is in the queue of the LCM
  charged,     \* VMs charged to their hosts
  byHand,      \* VMs the scheduler has not chosen the host of, this time
  user, reports

clusterVars == <<hstate, share, state, hid, promised, charged, byHand, user, reports>>

States == {"PENDING", "ACTIVE", "STOPPED", "SUSPENDED", "DONE"}

ClusterTypeOK ==
  /\ hstate \in [Hosts -> HostStates \cup {NONE}]
  /\ share \in [Hosts -> [max : Nat, free : Nat, usage : Int]]
  /\ state \in [VMs -> States]
  /\ hid \in [VMs -> Hosts \cup {NoHost}]
  /\ promised \subseteq VMs /\ charged \subseteq VMs \ promised /\ byHand \subseteq VMs
  /\ \A v \in VMs : state[v] = "ACTIVE" <=> v \in promised \cup charged
  /\ user \in 0..MaxUser /\ reports \in 0..MaxReports

\* The hosts have been monitored, or not yet; the VMs have been submitted.
ClusterInit ==
  /\ hstate \in [Hosts -> {"INIT", "MONITORED"}]
  /\ \A h \in Hosts \ New : hstate[h] = "MONITORED"
  /\ share = [h \in Hosts |-> IF hstate[h] = "INIT" THEN EmptyShare
                              ELSE UpdateInfo(EmptyShare, Total[h], Total[h])]
  /\ state = [v \in VMs |-> "PENDING"]
  /\ hid = [v \in VMs |-> NoHost]
  /\ promised = {} /\ charged = {} /\ byHand = {}
  /\ user = 0 /\ reports = 0

InPool(h) == hstate[h] # NONE

\* get_requirements: a VM that does not say both asks for nothing.
Cpu(v) == IF v \in NoMemory THEN 0 ELSE CPU[v]

CpuOf(vs) == MapThenSumSet(Cpu, vs)

-----------------------------------------------------------------------------
(* The Virtual Machine Manager's and the user's side of a VM               *)

\* one.vm.deploy, whoever calls it: refused unless the host is there and the
\* VM is pending.  Neither the state of the host nor its capacity is looked at.
Deploys(v, h) == InPool(h) /\ state[v] = "PENDING"

DeployCall(v, h) ==
  IF Deploys(v, h)
    THEN /\ state' = [state EXCEPT ![v] = "ACTIVE"]
         /\ hid' = [hid EXCEPT ![v] = h]
         /\ promised' = promised \cup {v}
    ELSE UNCHANGED <<state, hid, promised>>

\* Mutant: a VM a user has chosen the host of is not charged.
ChargeScheduled(v) ==
  /\ v \in promised
  /\ promised' = promised \ {v} /\ charged' = charged \cup {v}
  /\ share' = IF InPool(hid[v]) /\ v \notin byHand
              THEN [share EXCEPT ![hid[v]] = AddShare(@, Cpu(v))] ELSE share
  /\ UNCHANGED <<hstate, state, hid, byHand, user, reports>>

\* The Life-cycle Manager takes the action: HostPool::add_capacity.
Charge(v) ==
  /\ v \in promised
  /\ promised' = promised \ {v} /\ charged' = charged \cup {v}
  /\ share' = IF InPool(hid[v]) THEN [share EXCEPT ![hid[v]] = AddShare(@, Cpu(v))] ELSE share
  /\ UNCHANGED <<hstate, state, hid, byHand, user, reports>>

\* The VM ends, or its state is saved: HostPool::del_capacity.
Leave(v) ==
  /\ v \in charged
  /\ charged' = charged \ {v}
  /\ share' = IF InPool(hid[v]) THEN [share EXCEPT ![hid[v]] = DelShare(@, Cpu(v))] ELSE share
  /\ \E s \in {"STOPPED", "SUSPENDED", "DONE"} :
       /\ state' = [state EXCEPT ![v] = s]
       /\ hid' = IF s = "SUSPENDED" THEN hid ELSE [hid EXCEPT ![v] = NoHost]
  /\ byHand' = byHand \ {v}
  /\ UNCHANGED <<hstate, promised, user, reports>>

UserRequest == user < MaxUser /\ user' = user + 1

\* A stopped VM is for the scheduler again; a suspended one goes where it was,
\* whether there is room or not.
Resume(v) ==
  /\ UserRequest
  /\ \/ /\ state[v] = "STOPPED" /\ state' = [state EXCEPT ![v] = "PENDING"]
        /\ UNCHANGED <<promised, byHand>>
     \/ /\ state[v] = "SUSPENDED" /\ state' = [state EXCEPT ![v] = "ACTIVE"]
        /\ promised' = promised \cup {v} /\ byHand' = byHand \cup {v}
  /\ UNCHANGED <<hstate, share, hid, charged, reports>>

DeployByHand(v, h) ==
  /\ UserRequest
  /\ Deploys(v, h) /\ DeployCall(v, h)
  /\ byHand' = byHand \cup {v}
  /\ UNCHANGED <<hstate, share, charged, reports>>

-----------------------------------------------------------------------------
(* What happens to the hosts                                               *)

Report == reports < MaxReports /\ reports' = reports + 1

\* An information driver answers.
Monitored(h, success) ==
  /\ Report /\ InPool(h)
  /\ hstate' = [hstate EXCEPT ![h] = Touch(@, success)]
  /\ IF success
       THEN \E f \in Free : share' = [share EXCEPT ![h] = UpdateInfo(@, Total[h], f)]
       ELSE UNCHANGED share
  /\ UNCHANGED <<state, hid, promised, charged, byHand, user>>

HostEnable(h, enable) ==
  /\ Report /\ InPool(h)
  /\ hstate' = [hstate EXCEPT ![h] = IF enable THEN "INIT" ELSE "DISABLED"]
  /\ UNCHANGED <<share, state, hid, promised, charged, byHand, user>>

\* VMs may be there.
HostDelete(h) ==
  /\ Report /\ InPool(h)
  /\ hstate' = [hstate EXCEPT ![h] = NONE]
  /\ share' = [share EXCEPT ![h] = EmptyShare]
  /\ UNCHANGED <<state, hid, promised, charged, byHand, user>>

ClusterNext ==
  \/ \E v \in VMs :
       Charge(v) \/ Leave(v) \/ Resume(v) \/ \E h \in Hosts : DeployByHand(v, h)
  \/ \E h \in Hosts :
       \/ \E success \in BOOLEAN : Monitored(h, success)
       \/ \E enable \in BOOLEAN : HostEnable(h, enable)
       \/ HostDelete(h)

=============================================================================
