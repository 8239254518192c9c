----------------------------- MODULE OpenNebula -----------------------------
(***************************************************************************)
(* oned: clients and the scheduler, the threads of the Dispatch,           *)
(* Life-cycle, Virtual Machine and Transfer Managers, and the drivers,     *)
(* interleaved handler by handler; and what makes them correct together.   *)
(***************************************************************************)
EXTENDS RequestManager, DispatchManager, LifeCycleManager,
        VirtualMachineManager, TransferManager

ManagerStep(v) ==
  \/ DmStep(v)
  \/ LcmStep(v)
  \/ VmmStep(v)
  \/ TmStep(v)

DriverStep(v) ==
  \/ VmmAnswer(v)
  \/ PollAnswer(v)
  \/ TmAnswer(v)

Next == \E v \in VMs : \/ Request(v)
                       \/ CancelTrigger(v)
                       \/ ManagerStep(v)
                       \/ VmmTimer(v)
                       \/ DriverStep(v)

Spec == Init /\ [][Next]_vars

\* The manager threads and the end of a cancel request are scheduled, and the
\* drivers answer what they are sent; clients and the timer need not act.
Fairness ==
  /\ WF_vars(\E v \in VMs : DmStep(v))
  /\ WF_vars(\E v \in VMs : LcmStep(v))
  /\ WF_vars(\E v \in VMs : VmmStep(v))
  /\ WF_vars(\E v \in VMs : TmStep(v))
  /\ \A v \in VMs : /\ WF_vars(CancelTrigger(v))
                    /\ WF_vars(VmmAnswer(v))
                    /\ WF_vars(PollAnswer(v))
                    /\ WF_vars(TmAnswer(v))

FairSpec == Spec /\ Fairness

-----------------------------------------------------------------------------
(* Records. A handler dereferences the history records of the VM without   *)
(* looking whether they exist: whoever asked for it must have made sure.   *)

\* A manager is asked for one of the actions as for v.
Asked(q, as, v) == \E i \in DOMAIN q : q[i].vm = v /\ q[i].op \in as

\* Something is going on for v that needs a current record.
NeedsRecord(v) ==
  \/ state[v] \in {"ACTIVE", "STOPPED", "SUSPENDED", "FAILED"}
  \/ lcm[v] # "LCM_INIT"
  \/ Mentions(dmq, v) \/ Mentions(lcmq, v)
  \/ Mentions(vmmq, v) \/ Mentions(tmq, v)
  \/ commands[v] # <<>> \/ transfers[v] # <<>>
  \/ v \in cancelling

\* Something is going on for v that needs the record of the previous host.
NeedsPreviousRecord(v) ==
  \/ lcm[v] \in {"MIGRATE", "SAVE_MIGRATE", "PROLOG_MIGRATE"}
  \/ Asked(lcmq, {"MIGRATE", "LIVE_MIGRATE"}, v)
  \/ Asked(vmmq, {"MIGRATE", "CANCEL_PREVIOUS"}, v)
  \/ Asked(tmq, {"PROLOG_MIGR", "EPILOG_DELETE_PREVIOUS"}, v)

\* In every interleaving, a handler that dereferences vm->history or
\* vm->previous_history (get_hid, get_previous_hid, set_reason, ...) finds a
\* record there.
RecordsExist ==
  \A v \in VMs :
    /\ NeedsRecord(v) => HasHistory(v)
    /\ NeedsPreviousRecord(v) => HasPreviousHistory(v)
    /\ HasPreviousHistory(v) => HasHistory(v)

-----------------------------------------------------------------------------
(* Capacity                                                                *)

\* v has left its hosts, or has not been charged to one yet.
Uncharged(v) ==
  \/ ~ IsActive(v)
  \/ Mentions(dmq, v)
  \/ lcm[v] \in Ignored

\* The history records whose hosts are charged for v. The record a migration
\* adds is charged when the Life-cycle Manager takes the migration up.
Charged(v) ==
  IF Uncharged(v) THEN {}
  ELSE IF Asked(lcmq, {"MIGRATE", "LIVE_MIGRATE"}, v) THEN {"prev"}
  ELSE IF lcm[v] \in {"MIGRATE", "SAVE_MIGRATE"} THEN {"cur", "prev"}
  ELSE {"cur"}

HostOf(v, r) == IF r = "cur" THEN cur[v].hid ELSE prev[v].hid

HostsOf(v) == {HostOf(v, r) : r \in Charged(v)}

Charges(h) ==
  {c \in VMs \X {"cur", "prev"} :
     c[2] \in Charged(c[1]) /\ HostOf(c[1], c[2]) = h}

\* The running VMs a host counts (add_capacity, del_capacity) are the VMs
\* that are on it or are being moved to or from it.
CapacityExact == \A h \in Hosts : usage[h] = Cardinality(Charges(h))

\* "Number of running VMs in this Host" (HostShare.h): a count, whatever
\* order the handlers run in.
UsageNotNegative == \A h \in Hosts : usage[h] >= 0

\* The domains of an active VM are on hosts charged for it, so that no
\* hypervisor runs a VM whose capacity the scheduler takes for free.
DomainsCharged ==
  \A v \in VMs : IsActive(v) /\ Settled(v) => domains[v] \subseteq HostsOf(v)

\* No VM runs on two hosts at once: both would write on its disks.
OneDomain == \A v \in VMs : Cardinality(domains[v]) <= 1

-----------------------------------------------------------------------------
(* The end of a virtual machine                                            *)

\* A VM that has given its leases back is done, and a VM that is done has
\* given them back; none gives back what it has not taken.
LeasesHeldOnce ==
  \A v \in VMs : leases[v] = IF state[v] \in {"INIT", "DONE"} THEN 0 ELSE 1

\* In every interleaving, the leases of a VM that is done are free.
NoLeaseLeaks ==
  \A v \in VMs : leases[v] <= IF state[v] \in {"INIT", "DONE"} THEN 0 ELSE 1

\* In every interleaving, a VM that is FAILED or DONE is never active again.
NoRevival ==
  [][\A v \in VMs : state[v] \in {"FAILED", "DONE"}
                      => state'[v] \in {"FAILED", "DONE"}]_vars

-----------------------------------------------------------------------------
(* Restart                                                                 *)

\* "RE-START THE VM IN THE SAME HOST" (restart_action): a VM that has a
\* domain on some host is only deployed on that host.
RestartsInPlace ==
  [][\A v \in VMs :
       \A c \in Range(commands'[v]) \ Range(commands[v]) :
         c.op = "DEPLOY" => domains[v] \subseteq {c.at}]_vars

-----------------------------------------------------------------------------
(* Progress                                                                *)

InTransit(v) == IsActive(v) /\ lcm[v] \notin {"RUNNING", "UNKNOWN"}

\* Whatever races with whatever, no VM stays for ever in a state in which the
\* Life-cycle Manager waits for a driver or for another manager.
Progress == \A v \in VMs : InTransit(v) ~> ~ InTransit(v)

-----------------------------------------------------------------------------
(* The life cycle clients are promised.                                    *)

Status(v) ==
  IF ~ IsActive(v) THEN state[v]
  ELSE IF Asked(lcmq, {"DEPLOY", "RESTORE"}, v) THEN "DISPATCHED"
  ELSE IF Charged(v) # {} THEN "PLACED"
  ELSE "LEFT"

LifeCycle == INSTANCE VmLifeCycle WITH
  status <- [v \in VMs |-> Status(v)],
  placed <- [v \in VMs |-> HostsOf(v)],
  held   <- [v \in VMs |-> leases[v] > 0]

\* The managers implement the life cycle, the promise that an activation takes
\* its capacity and that one that has given it back ends included.
ImplementsLifeCycle == LifeCycle!Spec
=============================================================================
