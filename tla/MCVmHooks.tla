------------------------------ MODULE MCVmHooks ------------------------------
(* A hook on the creation of VMs, one on RUNNING that is run on the host, one *)
(* on DONE, and three VM_HOOK attributes the pool does not register.          *)
EXTENDS VmHooks, TLC
Hook(on, remote) == [on |-> on, command |-> TRUE, remote |-> remote]
MCHookConf == <<Hook("", FALSE), Hook("CREATE", FALSE), Hook("RUNNING", TRUE),
                Hook("OTHER", FALSE), [on |-> "STOP", command |-> FALSE, remote |-> FALSE],
                Hook("DONE", FALSE)>>

Symmetry == Permutations(Requests) \cup Permutations(Handlers)
=============================================================================
