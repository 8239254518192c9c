---------------------------- MODULE MCScheduler -----------------------------
(***************************************************************************)
(* Instances of Scheduler for TLC: CPU is in halves of a core.             *)
(***************************************************************************)
EXTENDS Scheduler

\* VM 3 has CPU but no MEMORY.
MCCPU == [v \in VMs |-> IF v = 2 THEN 2 ELSE 1]
MCTotal == [h \in Hosts |-> 2]
MCMatching == [v \in VMs |-> IF v = 1 THEN {h \in Hosts : h = 1} ELSE Hosts]
MCRank == [v \in VMs |-> [h \in Hosts |-> IF v = 2 THEN - h ELSE 0]]
=============================================================================
