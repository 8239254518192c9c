-------------------------- MODULE RequestManager --------------------------
(***************************************************************************)
(* The operations clients and the scheduler call through the XML-RPC       *)
(* interface (src/rm), with the Dispatch Manager functions they end in     *)
(* (src/dm/DispatchManagerActions.cc). They run in threads of the XML-RPC  *)
(* server, with the lock of the VM held. An operation the state of the VM  *)
(* forbids answers an error and changes nothing: it is not an action here. *)
(***************************************************************************)
EXTENDS NebulaCore

\* The operation is one clients use, and there are requests left (bound).
Accepted(v, operation) ==
  /\ operation \in Api
  /\ requests < MaxRequests
  /\ Admitted(v)
  /\ requests' = requests + 1

\* The VM is created, PENDING or on HOLD, with its network leases taken.
Allocate(v, first) ==
  /\ state[v] = "INIT"
  /\ first \in {"PENDING", "HOLD"}
  /\ state'  = [state EXCEPT ![v] = first]
  /\ leases' = [leases EXCEPT ![v] = @ + 1]
  /\ UNCHANGED <<lcm, historyVars, usage, queueVars, driverVars, clientVars,
                 polls>>

\* An operation that only asks the Life-cycle Manager for an action.
AskLcm(v, action) ==
  /\ lcmq' = Trigger(lcmq, action, v)
  /\ UNCHANGED <<stateVars, leases, usage, dmq, vmmq, tmq, driverVars,
                 cancelling, polls>>

\* The history record could not be written: the request fails, but the
\* record has already been added to the VM.
HistoryNotWritten ==
  /\ DbFails
  /\ UNCHANGED <<stateVars, leases, usage, queueVars, driverVars, cancelling,
                 polls>>

Deploy(v, h) ==
  /\ Accepted(v, "deploy")
  /\ state[v] = "PENDING"
  /\ AddHistory(v, h)
  /\ \/ /\ state' = [state EXCEPT ![v] = "ACTIVE"]
        /\ lcmq'  = Trigger(lcmq, "DEPLOY", v)
        /\ UNCHANGED <<lcm, leases, usage, dmq, vmmq, tmq, driverVars,
                       cancelling, polls>>
     \/ HistoryNotWritten

Migrate(v, h, live) ==
  /\ Accepted(v, IF live THEN "live_migrate" ELSE "migrate")
  /\ IsRunning(v)
  /\ AddHistory(v, h)
  /\ \/ AskLcm(v, IF live THEN "LIVE_MIGRATE" ELSE "MIGRATE")
     \/ HistoryNotWritten

\* stop, suspend and shutdown: the VM has to be running.
RunningAction(v, operation, action) ==
  /\ Accepted(v, operation)
  /\ IsRunning(v)
  /\ AskLcm(v, action)
  /\ UNCHANGED historyVars

Stop(v)     == RunningAction(v, "stop", "STOP")
Suspend(v)  == RunningAction(v, "suspend", "SUSPEND")
Shutdown(v) == RunningAction(v, "shutdown", "SHUTDOWN")

\* cancel unlocks the VM before it triggers the action of the LCM.
Cancel(v) ==
  /\ Accepted(v, "cancel")
  /\ IsRunning(v)
  /\ v \notin cancelling
  /\ cancelling' = cancelling \cup {v}
  /\ UNCHANGED <<stateVars, historyVars, leases, usage, queueVars, driverVars,
                 polls>>

CancelTrigger(v) ==
  /\ v \in cancelling
  /\ cancelling' = cancelling \ {v}
  /\ lcmq' = Trigger(lcmq, "CANCEL", v)
  /\ UNCHANGED <<stateVars, historyVars, leases, usage, dmq, vmmq, tmq,
                 driverVars, requests, polls>>

Restart(v) ==
  /\ Accepted(v, "restart")
  /\ IsActive(v) /\ lcm[v] \in {"UNKNOWN", "BOOT"}
  /\ AskLcm(v, "RESTART")
  /\ UNCHANGED historyVars

\* hold, release, and resume of a stopped VM only change its state.
ChangeState(v, operation, from, to) ==
  /\ Accepted(v, operation)
  /\ state[v] = from
  /\ state' = [state EXCEPT ![v] = to]
  /\ UNCHANGED <<lcm, historyVars, leases, usage, queueVars, driverVars,
                 cancelling, polls>>

Hold(v)          == ChangeState(v, "hold", "PENDING", "HOLD")
Release(v)       == ChangeState(v, "release", "HOLD", "PENDING")
ResumeStopped(v) == ChangeState(v, "resume", "STOPPED", "PENDING")

\* Mutant: the Life-cycle Manager is not told that the VM is resumed.
ResumeSuspendedSilently(v) ==
  /\ Accepted(v, "resume")
  /\ state[v] = "SUSPENDED"
  /\ state' = [state EXCEPT ![v] = "ACTIVE"]
  /\ UNCHANGED <<lcm, historyVars, leases, usage, queueVars, driverVars,
                 cancelling, polls>>

ResumeSuspended(v) ==
  /\ Accepted(v, "resume")
  /\ state[v] = "SUSPENDED"
  /\ state' = [state EXCEPT ![v] = "ACTIVE"]
  /\ lcmq'  = Trigger(lcmq, "RESTORE", v)
  /\ UNCHANGED <<lcm, historyVars, leases, usage, dmq, vmmq, tmq, driverVars,
                 cancelling, polls>>

Disposable == {"PENDING", "HOLD", "STOPPED", "SUSPENDED", "FAILED"}

\* Mutant: the clean-up is asked for in every case of the switch.
FinalizeIdleCleansAlways(v) ==
  /\ Accepted(v, "finalize")
  /\ state[v] \in Disposable
  /\ tmq'    = Trigger(tmq, "EPILOG_DELETE", v)
  /\ lcm'    = [lcm EXCEPT ![v] = "LCM_INIT"]
  /\ state'  = [state EXCEPT ![v] = "DONE"]
  /\ leases' = [leases EXCEPT ![v] = @ - 1]
  /\ UNCHANGED <<historyVars, usage, dmq, lcmq, vmmq, driverVars, cancelling,
                 polls>>

\* Mutant: the leases of a VM that has failed are forgotten.
FinalizeIdleKeepsLeases(v) ==
  /\ Accepted(v, "finalize")
  /\ state[v] \in Disposable
  /\ tmq'    = IF state[v] = "SUSPENDED"
               THEN Trigger(tmq, "EPILOG_DELETE", v) ELSE tmq
  /\ lcm'    = [lcm EXCEPT ![v] = "LCM_INIT"]
  /\ state'  = [state EXCEPT ![v] = "DONE"]
  /\ leases' = [leases EXCEPT ![v] = IF state[v] = "FAILED" THEN @ ELSE @ - 1]
  /\ UNCHANGED <<historyVars, usage, dmq, lcmq, vmmq, driverVars, cancelling,
                 polls>>

\* finalize of a VM that is not active: its files and its leases go.
FinalizeIdle(v) ==
  /\ Accepted(v, "finalize")
  /\ state[v] \in Disposable
  /\ tmq'    = IF state[v] = "SUSPENDED"
               THEN Trigger(tmq, "EPILOG_DELETE", v) ELSE tmq
  /\ lcm'    = [lcm EXCEPT ![v] = "LCM_INIT"]
  /\ state'  = [state EXCEPT ![v] = "DONE"]
  /\ leases' = [leases EXCEPT ![v] = @ - 1]
  /\ UNCHANGED <<historyVars, usage, dmq, lcmq, vmmq, driverVars, cancelling,
                 polls>>

FinalizeActive(v) ==
  /\ Accepted(v, "finalize")
  /\ IsActive(v)
  /\ AskLcm(v, "DELETE")
  /\ UNCHANGED historyVars

Request(v) ==
  \/ \E first \in {"PENDING", "HOLD"} : Allocate(v, first)
  \/ \E h \in Hosts : Deploy(v, h)
  \/ \E h \in Hosts, live \in BOOLEAN : Migrate(v, h, live)
  \/ Stop(v)
  \/ Suspend(v)
  \/ Shutdown(v)
  \/ Cancel(v)
  \/ Restart(v)
  \/ Hold(v)
  \/ Release(v)
  \/ ResumeStopped(v)
  \/ ResumeSuspended(v)
  \/ FinalizeIdle(v)
  \/ FinalizeActive(v)
=============================================================================
