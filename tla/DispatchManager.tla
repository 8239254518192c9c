-------------------------- MODULE DispatchManager --------------------------
(***************************************************************************)
(* The Dispatch Manager thread (src/dm/DispatchManagerStates.cc): it gives *)
(* a VM the state the Life-cycle Manager reports it has reached.           *)
(***************************************************************************)
EXTENDS NebulaCore

DmTakes(v, action) ==
  /\ IsNext(dmq, action, v)
  /\ dmq' = Tail(dmq)
  /\ UNCHANGED <<historyVars, usage, lcmq, vmmq, tmq, driverVars, clientVars,
                 polls>>

\* Mutant: the other overload of set_state is called.
BecomeMixedUp(v, s) ==
  /\ state' = [state EXCEPT ![v] = "LCM_INIT"]
  /\ lcm'   = [lcm EXCEPT ![v] = s]

Become(v, s) ==
  /\ state' = [state EXCEPT ![v] = s]
  /\ lcm'   = [lcm EXCEPT ![v] = "LCM_INIT"]

\* A VM that is not ACTIVE any more is left alone.
NotActive(v) == ~ IsActive(v) /\ UNCHANGED <<stateVars, leases>>

\* Mutant: the state of the VM is not checked.
DmSuspendSuccessUnchecked(v) ==
  /\ DmTakes(v, "SUSPEND_SUCCESS")
  /\ Become(v, "SUSPENDED")
  /\ UNCHANGED leases

DmSuspendSuccess(v) ==
  /\ DmTakes(v, "SUSPEND_SUCCESS")
  /\ \/ IsActive(v) /\ Become(v, "SUSPENDED") /\ UNCHANGED leases
     \/ NotActive(v)

DmStopSuccess(v) ==
  /\ DmTakes(v, "STOP_SUCCESS")
  /\ \/ IsActive(v) /\ Become(v, "STOPPED") /\ UNCHANGED leases
     \/ NotActive(v)

\* Mutant: the leases are not released.
DmDoneKeepsLeases(v) ==
  /\ DmTakes(v, "DONE")
  /\ \/ IsActive(v) /\ Become(v, "DONE") /\ UNCHANGED leases
     \/ NotActive(v)

DmDone(v) ==
  /\ DmTakes(v, "DONE")
  /\ \/ /\ IsActive(v)
        /\ Become(v, "DONE")
        /\ leases' = [leases EXCEPT ![v] = @ - 1]
     \/ NotActive(v)

\* The VM becomes FAILED in whatever state it is.
DmFailed(v) ==
  /\ DmTakes(v, "FAILED")
  /\ Become(v, "FAILED")
  /\ UNCHANGED leases

DmStep(v) ==
  \/ DmSuspendSuccess(v)
  \/ DmStopSuccess(v)
  \/ DmDone(v)
  \/ DmFailed(v)
=============================================================================
