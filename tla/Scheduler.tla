----------------------------- MODULE Scheduler ------------------------------
(***************************************************************************)
(* mm_sched, the scheduler: a process of its own that reads the database   *)
(* of oned and asks it for deployments (src/scheduler).  A round reads the *)
(* hosts that are enabled, the VMs that are pending, then each host, and   *)
(* dispatches the VMs by oid, each to the host its RANK puts first of the  *)
(* ones that match its REQUIREMENTS and still have room in the copy the    *)
(* round has made of them.  Rows change while it does.                     *)
(***************************************************************************)
EXTENDS Cluster

CONSTANTS
  Matching,      \* the hosts the REQUIREMENTS of each VM accept
  Rank,          \* what its RANK says of each host
  Core,          \* CPU units of a core
  LcmIsPrompt,   \* a round starts when the LCM has done what the last one asked for
  MaxErrors      \* bound: statements and calls that fail

ASSUME SchedulerAssumption ==
  /\ Matching \in [VMs -> SUBSET Hosts] /\ Rank \in [VMs -> [Hosts -> Int]]
  /\ Core \in Nat \ {0} /\ LcmIsPrompt \in BOOLEAN /\ MaxErrors \in Nat

VARIABLES
  phase,      \* where the round is
  hids,       \* the hosts it will look at
  pending,    \* the VMs it has yet to dispatch
  copies,     \* the shares of the hosts it has read
  errors

schedVars == <<phase, hids, pending, copies, errors>>
vars == <<clusterVars, schedVars>>

TypeOK ==
  /\ ClusterTypeOK
  /\ phase \in {"idle", "hosts", "load", "dispatch"}
  /\ hids \subseteq Hosts /\ pending \subseteq VMs
  /\ DOMAIN copies \subseteq Hosts
  /\ \A h \in DOMAIN copies : copies[h] \in [max : Nat, free : Nat, usage : Int]
  /\ errors \in 0..MaxErrors

Init ==
  /\ ClusterInit
  /\ phase = "idle" /\ hids = {} /\ pending = {} /\ copies = <<>> /\ errors = 0

-----------------------------------------------------------------------------
(* The round                                                               *)

Fails == errors < MaxErrors /\ errors' = errors + 1

GiveUp ==
  /\ Fails
  /\ phase' = "idle" /\ hids' = {}
  /\ UNCHANGED <<clusterVars, pending, copies>>

Enabled == {h \in Hosts : InPool(h) /\ hstate[h] \notin {"DISABLED", "ERROR"}}

\* SchedulerHostPool::set_up: the copies of the last round are forgotten.
SetUpHosts ==
  /\ phase = "idle"
  /\ LcmIsPrompt => promised = {}
  /\ \/ GiveUp
     \/ /\ phase' = "hosts" /\ hids' = Enabled /\ copies' = <<>>
        /\ UNCHANGED <<clusterVars, pending, errors>>

\* SchedulerVirtualMachinePool::set_up
SetUpVMs ==
  /\ phase = "hosts"
  /\ \/ GiveUp
     \/ /\ pending' = {v \in VMs : state[v] = "PENDING"}
        /\ IF pending' = {} THEN phase' = "idle" /\ hids' = {}
                            ELSE phase' = "load" /\ UNCHANGED hids
        /\ UNCHANGED <<clusterVars, copies, errors>>

\* The first VM that is matched reads the host; one that has been deleted is
\* passed over.
LoadHost(h) ==
  /\ phase = "load" /\ h \in hids
  /\ hids' = hids \ {h}
  /\ copies' = IF InPool(h)
                THEN [g \in DOMAIN copies \cup {h} |-> IF g = h THEN share[h] ELSE copies[g]]
                ELSE copies
  /\ UNCHANGED <<clusterVars, phase, pending, errors>>

Match ==
  /\ phase = "load" /\ hids = {}
  /\ phase' = "dispatch"
  /\ UNCHANGED <<clusterVars, hids, pending, copies, errors>>

\* get_capacity: the cpu that is free, rounded up to a whole core.  It is never
\* less than the threshold of 0.9 of all the cpu, which is an int there: 0.
FreeCpu(copy) == ((copy.free + Core - 1) \div Core) * Core

\* Mutant: only the total the driver reports is looked at.
FitsTotal(v, h) == h \in Matching[v] /\ Cpu(v) <= copies[h].max

\* match, and the test get_host makes again.  A host only loses room in the
\* copy, so that the second implies what the first tests of it.
Fits(v, h) ==
  /\ h \in Matching[v]
  /\ Cpu(v) <= FreeCpu(copies[h])
  /\ TestShare(copies[h], Cpu(v))

\* RankPolicy, set_priorities: hosts of one rank come in any order.
Best(v) ==
  LET fit == {h \in DOMAIN copies : Fits(v, h)}
  IN  {h \in fit : \A g \in fit : Rank[v][g] <= Rank[v][h]}

Call(v, h) == DeployCall(v, h) /\ UNCHANGED <<hstate, share, charged, byHand, user, reports>>

\* Mutant: the copy of the host is not charged.
DispatchFree(v) ==
  /\ phase = "dispatch" /\ v \in pending /\ \A w \in pending : v <= w
  /\ pending' = pending \ {v}
  /\ IF Best(v) = {} THEN UNCHANGED clusterVars
                     ELSE \E h \in Best(v) : Call(v, h)
  /\ UNCHANGED <<phase, hids, copies, errors>>

\* Mutant: a VM that fits nowhere ends the round.
DispatchStops(v) ==
  /\ phase = "dispatch" /\ v \in pending /\ \A w \in pending : v <= w
  /\ IF Best(v) = {}
       THEN /\ pending' = {}
            /\ UNCHANGED <<clusterVars, copies>>
       ELSE /\ pending' = pending \ {v}
            /\ \E h \in Best(v) :
                 Call(v, h) /\ copies' = [copies EXCEPT ![h] = AddShare(@, Cpu(v))]
  /\ UNCHANGED <<phase, hids, errors>>

\* The lowest oid: get_host charges the copy of the host, and the call may be
\* refused, or not be answered - whether oned has done it or not -, which ends
\* the round.
Dispatch(v) ==
  /\ phase = "dispatch" /\ v \in pending /\ \A w \in pending : v <= w
  /\ \/ /\ Best(v) = {}
        /\ pending' = pending \ {v}
        /\ UNCHANGED <<clusterVars, copies, errors>>
     \/ \E h \in Best(v) :
          /\ copies' = [copies EXCEPT ![h] = AddShare(@, Cpu(v))]
          /\ \/ Call(v, h) /\ pending' = pending \ {v} /\ UNCHANGED errors
             \/ (Call(v, h) \/ UNCHANGED clusterVars) /\ pending' = {} /\ Fails
  /\ UNCHANGED <<phase, hids>>

RoundEnds ==
  /\ phase = "dispatch" /\ pending = {}
  /\ phase' = "idle" /\ copies' = <<>>
  /\ UNCHANGED <<clusterVars, hids, pending, errors>>

Round ==
  \/ SetUpHosts \/ SetUpVMs \/ Match \/ RoundEnds
  \/ \E h \in Hosts : LoadHost(h)
  \/ \E v \in VMs : Dispatch(v)

Oned == ClusterNext /\ UNCHANGED schedVars

Next == Round \/ Oned

Spec == Init /\ [][Next]_vars

\* The timer of the scheduler ticks, and oned takes what is in its queues.
FairSpec == Spec /\ WF_vars(Round) /\ \A v \in VMs : WF_vars(Charge(v) /\ UNCHANGED schedVars)

-----------------------------------------------------------------------------
(* Properties                                                              *)

On(h, vs) == {v \in vs : hid[v] = h}

\* A host never holds more VMs of the scheduler's choice than it has room for,
\* whatever is charged, released, monitored, deployed by hand and suspended while
\* a round looks at the copies it has made: as long as the Life-cycle Manager has
\* charged the VMs of a round when the next one starts (Scheduler::dispatch,
\* SchedulerVirtualMachine::get_host).
SchedulerFits ==
  \A h \in Hosts :
    InPool(h) => CpuOf(On(h, (charged \cup promised) \ byHand)) <= share[h].max

\* What a host counts as used is what its VMs have asked for, whoever deployed
\* them, and whatever its driver reports meanwhile (HostPool::add_capacity,
\* del_capacity, Host::update_info).
HostUsage == \A h \in Hosts : InPool(h) => share[h].usage = CpuOf(On(h, charged))

\* A VM that is pending does not stay so for ever if there is a host its
\* REQUIREMENTS accept that is enabled and has room for it and all other VMs that
\* are pending or on their way: no VM that fits nowhere, no call that is refused
\* or not answered and no failed statement keeps it from its host
\* (Scheduler::dispatch, do_action).
RoomFor(v, h) ==
  LET others == {w \in VMs : state[w] = "PENDING"} \cup promised
  IN  /\ state[v] = "PENDING" /\ h \in Enabled \cap Matching[v]
      /\ Cpu(v) <= FreeCpu(share[h])
      /\ TestShare(share[h], CpuOf(others))

Dispatched == \A v \in VMs, h \in Hosts : ~ <>[]RoomFor(v, h)
=============================================================================
