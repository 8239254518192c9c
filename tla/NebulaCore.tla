---------------------------- MODULE NebulaCore ----------------------------
(***************************************************************************)
(* The state the managers of oned share: the virtual machines of the       *)
(* VirtualMachinePool with their two states and their history records, the *)
(* capacity charged to the hosts of the HostPool, the action queue of each *)
(* manager thread, and what the driver processes (MADs) are working on.    *)
(*                                                                         *)
(* Every handler of a manager runs from vmpool->get(vid,true) to           *)
(* vm->unlock() with the lock of its virtual machine held, so one handler  *)
(* is one action of the modules that extend this one.                      *)
(***************************************************************************)
EXTENDS Integers, Sequences, FiniteSets, SequencesExt

CONSTANTS
  VMs,           \* the virtual machines (vid)
  Hosts,         \* the hosts (hid)
  NoHost,        \* the hid of a history record that does not exist
  Api,           \* the XML-RPC operations clients use in a run
  MaxRequests,   \* bound: how many XML-RPC operations are accepted
  MaxPolls,      \* bound: how many times the VMM timer polls a VM
  FastManagers,  \* TRUE: clients and drivers are slower than the managers
  DbFails        \* TRUE: writing a history record to the database may fail

Operations == {"hold", "release", "deploy", "migrate", "live_migrate", "stop",
               "suspend", "shutdown", "cancel", "resume", "restart", "finalize"}

ASSUME CoreAssumption ==
  /\ NoHost \notin Hosts
  /\ Api \subseteq Operations
  /\ MaxRequests \in Nat
  /\ MaxPolls \in Nat
  /\ FastManagers \in BOOLEAN
  /\ DbFails \in BOOLEAN

VmStates  == {"INIT", "PENDING", "HOLD", "ACTIVE", "STOPPED", "SUSPENDED",
              "DONE", "FAILED"}

LcmStates == {"LCM_INIT", "PROLOG", "BOOT", "RUNNING", "MIGRATE", "SAVE_STOP",
              "SAVE_SUSPEND", "SAVE_MIGRATE", "PROLOG_MIGRATE",
              "PROLOG_RESUME", "EPILOG_STOP", "EPILOG", "SHUTDOWN", "CANCEL",
              "FAILURE", "DELETE", "UNKNOWN"}

Reasons   == {"NONE", "ERROR", "STOP_RESUME", "USER", "CANCEL"}

DmActions  == {"SUSPEND_SUCCESS", "STOP_SUCCESS", "DONE", "FAILED"}

LcmActions == {"DEPLOY", "SUSPEND", "STOP", "MIGRATE", "LIVE_MIGRATE",
               "SHUTDOWN", "CANCEL", "RESTORE", "RESTART", "DELETE",
               "SAVE_SUCCESS", "SAVE_FAILURE", "DEPLOY_SUCCESS",
               "DEPLOY_FAILURE", "SHUTDOWN_SUCCESS", "SHUTDOWN_FAILURE",
               "CANCEL_SUCCESS", "CANCEL_FAILURE", "PROLOG_SUCCESS",
               "PROLOG_FAILURE", "EPILOG_SUCCESS", "EPILOG_FAILURE",
               "MONITOR_SUSPEND", "MONITOR_FAILURE", "MONITOR_DONE"}

VmmActions == {"DEPLOY", "SAVE", "SHUTDOWN", "CANCEL", "CANCEL_PREVIOUS",
               "MIGRATE", "RESTORE", "POLL", "DRIVER_CANCEL"}

TmActions  == {"PROLOG", "PROLOG_MIGR", "PROLOG_RESUME", "EPILOG",
               "EPILOG_STOP", "EPILOG_DELETE", "EPILOG_DELETE_PREVIOUS",
               "DRIVER_CANCEL"}

Records  == [hid : Hosts \cup {NoHost}, reason : Reasons]

\* The entries of a queue of the given actions.
Entries(actions) == [op : actions, vm : VMs]

Scripts == TmActions \ {"DRIVER_CANCEL"}

Commands == [op : {"DEPLOY", "SAVE", "SHUTDOWN", "CANCEL", "MIGRATE",
                   "RESTORE", "POLL"},
             at : Hosts \cup {NoHost},
             to : Hosts \cup {NoHost}]

VARIABLES
  state,       \* vm->state, the state the Dispatch Manager gives a VM
  lcm,         \* vm->lcm_state, the state the Life-cycle Manager gives it
  cur,         \* vm->history, the record of the host the VM is on
  prev,        \* vm->previous_history, the record before that one
  leases,      \* how often the VM took its leases, less how often it gave them back
  usage,       \* HostShare::running_vms of each host
  dmq,         \* action queue of the Dispatch Manager thread
  lcmq,        \* action queue of the Life-cycle Manager thread
  vmmq,        \* action queue of the Virtual Machine Manager thread
  tmq,         \* action queue of the Transfer Manager thread
  commands,    \* what the VMM driver has been sent and not answered
  transfers,   \* what the TM driver has been sent and not answered
  domains,     \* hosts whose hypervisor has a domain of the VM
  cancelling,  \* VMs whose cancel request is between its unlock and its trigger
  requests,    \* operations accepted so far
  polls        \* timer polls sent so far

stateVars   == <<state, lcm>>
historyVars == <<cur, prev>>
queueVars   == <<dmq, lcmq, vmmq, tmq>>
driverVars  == <<commands, transfers, domains>>
clientVars  == <<cancelling, requests>>

vars == <<state, lcm, cur, prev, leases, usage, dmq, lcmq, vmmq, tmq,
          commands, transfers, domains, cancelling, requests, polls>>

-----------------------------------------------------------------------------
(* History records.                                                        *)

NewRecord(h) == [hid |-> h, reason |-> "NONE"]
NoRecord     == NewRecord(NoHost)

HasHistory(v)         == cur[v].hid # NoHost
HasPreviousHistory(v) == prev[v].hid # NoHost

\* A record for host h follows the current one, whose reason becomes r.
PushRecord(v, h, r) ==
  /\ cur'  = [cur EXCEPT ![v] = NewRecord(h)]
  /\ prev' = [prev EXCEPT ![v] = IF HasHistory(v)
                                 THEN [cur[v] EXCEPT !.reason = r] ELSE @]

AddHistory(v, h) == PushRecord(v, h, cur[v].reason)

CpHistory(v) == IF HasHistory(v) THEN AddHistory(v, cur[v].hid)
                                 ELSE UNCHANGED historyVars

-----------------------------------------------------------------------------
(* Capacity of the hosts: every VM asks for the same, so that the counter  *)
(* of running VMs stands for the cpu, memory and disk counters as well. A  *)
(* host that is not in the pool is skipped.                                *)

AddCapacity(u, h) == [u EXCEPT ![h] = @ + 1]
\* Mutant: the counter of the host is reset when a VM leaves it.
DelCapacityReset(u, h) == [u EXCEPT ![h] = 0]

DelCapacity(u, h) == [u EXCEPT ![h] = @ - 1]

-----------------------------------------------------------------------------
(* Action queues.                                                          *)

Trigger(q, action, v) == Append(q, [op |-> action, vm |-> v])

IsNext(q, action, v) == q # <<>> /\ Head(q) = [op |-> action, vm |-> v]

Mentions(q, v) == \E i \in DOMAIN q : q[i].vm = v

\* No manager has anything left to do for v.
Settled(v) ==
  /\ ~ Mentions(dmq, v)
  /\ ~ Mentions(lcmq, v)
  /\ ~ Mentions(vmmq, v)
  /\ ~ Mentions(tmq, v)
  /\ v \notin cancelling

\* When the managers are fast, clients and drivers find them settled.
Admitted(v) == FastManagers => Settled(v)

IsActive(v)  == state[v] = "ACTIVE"
IsRunning(v) == IsActive(v) /\ lcm[v] = "RUNNING"

\* Drivers' answers are ignored in these states.
Ignored == {"DELETE", "FAILURE", "LCM_INIT"}

-----------------------------------------------------------------------------
Init ==
  /\ state      = [v \in VMs |-> "INIT"]
  /\ lcm        = [v \in VMs |-> "LCM_INIT"]
  /\ cur        = [v \in VMs |-> NoRecord]
  /\ prev       = [v \in VMs |-> NoRecord]
  /\ leases     = [v \in VMs |-> 0]
  /\ usage      = [h \in Hosts |-> 0]
  /\ dmq        = <<>>
  /\ lcmq       = <<>>
  /\ vmmq       = <<>>
  /\ tmq        = <<>>
  /\ commands   = [v \in VMs |-> <<>>]
  /\ transfers  = [v \in VMs |-> <<>>]
  /\ domains    = [v \in VMs |-> {}]
  /\ cancelling = {}
  /\ requests   = 0
  /\ polls      = 0

TypeOK ==
  /\ state      \in [VMs -> VmStates]
  /\ lcm        \in [VMs -> LcmStates]
  /\ cur        \in [VMs -> Records]
  /\ prev       \in [VMs -> Records]
  /\ leases     \in [VMs -> Int]
  /\ usage      \in [Hosts -> Int]
  /\ dmq        \in Seq(Entries(DmActions))
  /\ lcmq       \in Seq(Entries(LcmActions))
  /\ vmmq       \in Seq(Entries(VmmActions))
  /\ tmq        \in Seq(Entries(TmActions))
  /\ commands   \in [VMs -> Seq(Commands)]
  /\ transfers  \in [VMs -> Seq(Scripts)]
  /\ domains    \in [VMs -> SUBSET (Hosts \cup {NoHost})]
  /\ cancelling \in SUBSET VMs
  /\ requests   \in 0..MaxRequests
  /\ polls      \in 0..MaxPolls
=============================================================================
