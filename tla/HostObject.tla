----------------------------- MODULE HostObject -----------------------------
(***************************************************************************)
(* A host as the pool of hosts keeps it (src/host/Host.cc, HostShare.cc):  *)
(* what touches, disables and enables it, and its share, in which cpu      *)
(* stands for cpu, memory and disk, which are counted and tested alike.    *)
(***************************************************************************)
EXTENDS Integers

HostStates == {"INIT", "MONITORING", "MONITORED", "ERROR", "DISABLED"}

\* The host is not in the pool: get returns no object.
NONE == "NONE"

isEnabled(state) == state \notin {"DISABLED", NONE}

\* Mutant: a host that is disabled is touched like any other.
TouchAlways(state, success) == IF success THEN "MONITORED" ELSE "ERROR"

\* Mutant: a failure is only logged.
TouchSuccess(state, success) ==
  IF success /\ isEnabled(state) THEN "MONITORED" ELSE state

\* The driver has answered: the state of a disabled host stays.
Touch(state, success) ==
  CASE state \in {"DISABLED", NONE} -> state
    [] success /\ isEnabled(state) -> "MONITORED"
    [] ~ success /\ isEnabled(state) -> "ERROR"

-----------------------------------------------------------------------------
(* HostShare: max_cpu and free_cpu come from the information driver,       *)
(* cpu_usage is what the VMs of the host have asked for.                   *)

EmptyShare == [max |-> 0, free |-> 0, usage |-> 0]

AddShare(share, cpu) == [share EXCEPT !.usage = @ + cpu]

DelShare(share, cpu) == [share EXCEPT !.usage = @ - cpu]

\* test_capacity
TestShare(share, cpu) == share.max - share.usage >= cpu

\* Mutant: what the driver reports overwrites what the VMs have asked for.
UpdateInfoResets(share, max, free) == [max |-> max, free |-> free, usage |-> 0]

\* update_info: TOTALCPU and FREECPU.
UpdateInfo(share, max, free) == [share EXCEPT !.max = max, !.free = free]
=============================================================================
