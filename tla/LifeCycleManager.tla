------------------------- MODULE LifeCycleManager -------------------------
(***************************************************************************)
(* The Life-cycle Manager (src/lcm): the thread that moves an ACTIVE VM    *)
(* through its LCM states. One action per handler; the handler takes the   *)
(* oldest entry of the queue. The actions other managers and clients ask   *)
(* for check the state of the VM; most of the handlers of the drivers'     *)
(* answers do not.                                                         *)
(***************************************************************************)
EXTENDS NebulaCore

lcmVars == <<lcm, cur, prev, usage, dmq, vmmq, tmq>>

\* The thread takes the oldest entry; what no handler of it changes.
LcmTakes(v, action) ==
  /\ IsNext(lcmq, action, v)
  /\ lcmq' = Tail(lcmq)
  /\ UNCHANGED <<state, leases, driverVars, clientVars, polls>>

SetLcm(v, s) == lcm' = [lcm EXCEPT ![v] = s]

SetReason(v, r)         == cur'  = [cur EXCEPT ![v].reason = r]
SetPreviousReason(v, r) == prev' = [prev EXCEPT ![v].reason = r]

\* Mutant: the VM is left on the record of the host it never reached.
CpPreviousHistoryForgotten(v) == SetReason(v, "ERROR") /\ UNCHANGED prev

\* The VM stays where it was: a record for the previous host is added.
CpPreviousHistory(v) ==
  IF HasPreviousHistory(v) THEN PushRecord(v, prev[v].hid, "ERROR")
                           ELSE SetReason(v, "ERROR") /\ UNCHANGED prev

-----------------------------------------------------------------------------
(* LifeCycleActions.cc                                                     *)

LcmDeploy(v) ==
  LET resume == HasPreviousHistory(v) /\ prev[v].reason = "STOP_RESUME"
  IN  /\ LcmTakes(v, "DEPLOY")
      /\ \/ /\ IsActive(v)
            /\ SetLcm(v, IF resume THEN "PROLOG_RESUME" ELSE "PROLOG")
            /\ usage' = AddCapacity(usage, cur[v].hid)
            /\ tmq' = Trigger(tmq, IF resume THEN "PROLOG_RESUME"
                                             ELSE "PROLOG", v)
            /\ UNCHANGED <<historyVars, dmq, vmmq>>
         \/ ~ IsActive(v) /\ UNCHANGED lcmVars

\* suspend, stop, shutdown and cancel: a command for the hypervisor.
LcmCommand(v, action, s, command) ==
  /\ LcmTakes(v, action)
  /\ \/ /\ IsRunning(v)
        /\ SetLcm(v, s)
        /\ vmmq' = Trigger(vmmq, command, v)
        /\ UNCHANGED <<historyVars, usage, dmq, tmq>>
     \/ ~ IsRunning(v) /\ UNCHANGED lcmVars

LcmSuspend(v)  == LcmCommand(v, "SUSPEND", "SAVE_SUSPEND", "SAVE")
LcmStop(v)     == LcmCommand(v, "STOP", "SAVE_STOP", "SAVE")
LcmShutdown(v) == LcmCommand(v, "SHUTDOWN", "SHUTDOWN", "SHUTDOWN")
LcmCancel(v)   == LcmCommand(v, "CANCEL", "CANCEL", "CANCEL")

\* Both migrations also charge the host the VM goes to.
LcmMove(v, action, s, command) ==
  /\ LcmTakes(v, action)
  /\ \/ /\ IsRunning(v)
        /\ SetLcm(v, s)
        /\ usage' = AddCapacity(usage, cur[v].hid)
        /\ vmmq' = Trigger(vmmq, command, v)
        /\ UNCHANGED <<historyVars, dmq, tmq>>
     \/ ~ IsRunning(v) /\ UNCHANGED lcmVars

LcmMigrate(v)     == LcmMove(v, "MIGRATE", "SAVE_MIGRATE", "SAVE")
LcmLiveMigrate(v) == LcmMove(v, "LIVE_MIGRATE", "MIGRATE", "MIGRATE")

LcmRestore(v) ==
  /\ LcmTakes(v, "RESTORE")
  /\ \/ /\ IsActive(v)
        /\ SetLcm(v, "BOOT")
        /\ CpHistory(v)
        /\ usage' = AddCapacity(usage, cur[v].hid)
        /\ vmmq' = Trigger(vmmq, "RESTORE", v)
        /\ UNCHANGED <<dmq, tmq>>
     \/ ~ IsActive(v) /\ UNCHANGED lcmVars

LcmRestart(v) ==
  LET restartable == IsActive(v) /\ lcm[v] \in {"UNKNOWN", "BOOT"}
  IN  /\ LcmTakes(v, "RESTART")
      /\ \/ /\ restartable
            /\ SetLcm(v, "BOOT")
            /\ vmmq' = Trigger(vmmq, "DEPLOY", v)
            /\ UNCHANGED <<historyVars, usage, dmq, tmq>>
         \/ ~ restartable /\ UNCHANGED lcmVars

\* The clean-up a deleted VM needs depends on the state it was in.
DeletesAtHypervisor ==
  {"BOOT", "RUNNING", "UNKNOWN", "SHUTDOWN", "CANCEL", "MIGRATE",
   "SAVE_STOP", "SAVE_SUSPEND"}

DeleteCommands(v) ==
  CASE lcm[v] = "MIGRATE" ->
         Trigger(Trigger(Trigger(vmmq, "DRIVER_CANCEL", v), "CANCEL", v),
                 "CANCEL_PREVIOUS", v)
    [] lcm[v] = "SAVE_MIGRATE" ->
         Trigger(Trigger(vmmq, "DRIVER_CANCEL", v), "CANCEL_PREVIOUS", v)
    [] lcm[v] \in DeletesAtHypervisor \ {"MIGRATE"} ->
         Trigger(Trigger(vmmq, "DRIVER_CANCEL", v), "CANCEL", v)
    [] OTHER -> vmmq

DeleteTransfers(v) ==
  CASE lcm[v] \in DeletesAtHypervisor -> Trigger(tmq, "EPILOG_DELETE", v)
    [] lcm[v] = "SAVE_MIGRATE" -> Trigger(tmq, "EPILOG_DELETE_PREVIOUS", v)
    [] lcm[v] = "PROLOG_MIGRATE" ->
         Trigger(Trigger(Trigger(tmq, "DRIVER_CANCEL", v),
                         "EPILOG_DELETE", v), "EPILOG_DELETE_PREVIOUS", v)
    [] OTHER -> Trigger(Trigger(tmq, "DRIVER_CANCEL", v), "EPILOG_DELETE", v)

LcmDelete(v) ==
  LET onTwoHosts == lcm[v] \in {"MIGRATE", "SAVE_MIGRATE"}
  IN  /\ LcmTakes(v, "DELETE")
      /\ \/ /\ lcm[v] \notin Ignored
            /\ SetLcm(v, "DELETE")
            /\ SetReason(v, "USER")
            /\ \/ /\ onTwoHosts
                  /\ SetPreviousReason(v, "USER")
                  /\ usage' = DelCapacity(DelCapacity(usage, cur[v].hid),
                                          prev[v].hid)
               \/ /\ ~ onTwoHosts
                  /\ usage' = DelCapacity(usage, cur[v].hid)
                  /\ UNCHANGED prev
            /\ vmmq' = DeleteCommands(v)
            /\ tmq'  = DeleteTransfers(v)
            /\ dmq'  = Trigger(dmq, "DONE", v)
         \/ lcm[v] \in Ignored /\ UNCHANGED lcmVars

-----------------------------------------------------------------------------
(* LifeCycleStates.cc                                                      *)

\* The VM leaves its host with reason r, and the DM is told.
LeaveHost(v, r, outcome) ==
  /\ SetReason(v, r)
  /\ usage' = DelCapacity(usage, cur[v].hid)
  /\ dmq' = Trigger(dmq, outcome, v)
  /\ UNCHANGED prev

FailureAction(v) ==
  /\ SetLcm(v, "FAILURE")
  /\ LeaveHost(v, "ERROR", "FAILED")
  /\ tmq' = Trigger(tmq, "EPILOG_DELETE", v)
  /\ UNCHANGED vmmq

\* The VM is assumed to be still running on its host, which is polled.
BackToRunning(v) ==
  /\ SetLcm(v, "RUNNING")
  /\ vmmq' = Trigger(vmmq, "POLL", v)
  /\ UNCHANGED <<dmq, tmq>>

\* Mutant: the capacity is released after the record has been copied.
MigrationFailedReleasesLate(v) ==
  /\ BackToRunning(v)
  /\ usage' = DelCapacity(usage, prev[v].hid)
  /\ CpPreviousHistory(v)

MigrationFailed(v) ==
  /\ BackToRunning(v)
  /\ usage' = DelCapacity(usage, cur[v].hid)
  /\ CpPreviousHistory(v)

LcmSaveSuccess(v) ==
  /\ LcmTakes(v, "SAVE_SUCCESS")
  /\ \/ /\ lcm[v] = "SAVE_MIGRATE"
        /\ SetLcm(v, "PROLOG_MIGRATE")
        /\ SetPreviousReason(v, "USER")
        /\ usage' = DelCapacity(usage, prev[v].hid)
        /\ tmq' = Trigger(tmq, "PROLOG_MIGR", v)
        /\ UNCHANGED <<cur, dmq, vmmq>>
     \/ /\ lcm[v] = "SAVE_SUSPEND"
        /\ LeaveHost(v, "STOP_RESUME", "SUSPEND_SUCCESS")
        /\ UNCHANGED <<lcm, vmmq, tmq>>
     \/ /\ lcm[v] = "SAVE_STOP"
        /\ SetLcm(v, "EPILOG_STOP")
        /\ SetReason(v, "STOP_RESUME")
        /\ tmq' = Trigger(tmq, "EPILOG_STOP", v)
        /\ UNCHANGED <<prev, usage, dmq, vmmq>>
     \/ /\ lcm[v] \notin {"SAVE_MIGRATE", "SAVE_SUSPEND", "SAVE_STOP"}
        /\ UNCHANGED lcmVars

\* Mutant: a VM that was being stopped is forgotten.
LcmSaveFailureForgetsStop(v) ==
  /\ LcmTakes(v, "SAVE_FAILURE")
  /\ \/ lcm[v] = "SAVE_MIGRATE" /\ MigrationFailed(v)
     \/ /\ lcm[v] = "SAVE_SUSPEND"
        /\ BackToRunning(v)
        /\ UNCHANGED <<historyVars, usage>>
     \/ /\ lcm[v] \notin {"SAVE_MIGRATE", "SAVE_SUSPEND"}
        /\ UNCHANGED lcmVars

LcmSaveFailure(v) ==
  /\ LcmTakes(v, "SAVE_FAILURE")
  /\ \/ lcm[v] = "SAVE_MIGRATE" /\ MigrationFailed(v)
     \/ /\ lcm[v] \in {"SAVE_SUSPEND", "SAVE_STOP"}
        /\ BackToRunning(v)
        /\ UNCHANGED <<historyVars, usage>>
     \/ /\ lcm[v] \notin {"SAVE_MIGRATE", "SAVE_SUSPEND", "SAVE_STOP"}
        /\ UNCHANGED lcmVars

\* Whatever the VM was doing, it is RUNNING from now on.
LcmDeploySuccess(v) ==
  /\ LcmTakes(v, "DEPLOY_SUCCESS")
  /\ SetLcm(v, "RUNNING")
  /\ \/ /\ lcm[v] = "MIGRATE"
        /\ SetPreviousReason(v, "USER")
        /\ usage' = DelCapacity(usage, prev[v].hid)
     \/ lcm[v] # "MIGRATE" /\ UNCHANGED <<prev, usage>>
  /\ UNCHANGED <<cur, dmq, vmmq, tmq>>

LcmDeployFailure(v) ==
  /\ LcmTakes(v, "DEPLOY_FAILURE")
  /\ \/ lcm[v] = "MIGRATE" /\ MigrationFailed(v)
     \/ lcm[v] = "BOOT" /\ FailureAction(v)
     \/ lcm[v] \notin {"MIGRATE", "BOOT"} /\ UNCHANGED lcmVars

LcmShutdownSuccess(v) ==
  /\ LcmTakes(v, "SHUTDOWN_SUCCESS")
  /\ SetLcm(v, "EPILOG")
  /\ tmq' = Trigger(tmq, "EPILOG", v)
  /\ UNCHANGED <<historyVars, usage, dmq, vmmq>>

LcmShutdownFailure(v) ==
  /\ LcmTakes(v, "SHUTDOWN_FAILURE")
  /\ BackToRunning(v)
  /\ UNCHANGED <<historyVars, usage>>

LcmPrologSuccess(v) ==
  LET prologs == {"PROLOG", "PROLOG_MIGRATE", "PROLOG_RESUME"}
  IN  /\ LcmTakes(v, "PROLOG_SUCCESS")
      /\ \/ /\ lcm[v] \in prologs
            /\ SetLcm(v, "BOOT")
            /\ vmmq' = Trigger(vmmq, IF lcm[v] = "PROLOG" THEN "DEPLOY"
                                                         ELSE "RESTORE", v)
            /\ UNCHANGED <<historyVars, usage, dmq, tmq>>
         \/ lcm[v] \notin prologs /\ UNCHANGED lcmVars

LcmPrologFailure(v) == LcmTakes(v, "PROLOG_FAILURE") /\ FailureAction(v)

LcmEpilogSuccess(v) ==
  LET outcome == IF lcm[v] = "EPILOG" THEN "DONE" ELSE "STOP_SUCCESS"
  IN  /\ LcmTakes(v, "EPILOG_SUCCESS")
      /\ \/ /\ lcm[v] \in {"EPILOG", "EPILOG_STOP"}
            /\ LeaveHost(v, cur[v].reason, outcome)
            /\ UNCHANGED <<lcm, vmmq, tmq>>
         \/ lcm[v] \notin {"EPILOG", "EPILOG_STOP"} /\ UNCHANGED lcmVars

LcmEpilogFailure(v) == LcmTakes(v, "EPILOG_FAILURE") /\ FailureAction(v)

LcmCancelSuccess(v) ==
  /\ LcmTakes(v, "CANCEL_SUCCESS")
  /\ LeaveHost(v, "CANCEL", "DONE")
  /\ UNCHANGED <<lcm, vmmq, tmq>>

LcmCancelFailure(v) ==
  /\ LcmTakes(v, "CANCEL_FAILURE")
  /\ BackToRunning(v)
  /\ UNCHANGED <<historyVars, usage>>

LcmMonitorFailure(v) == LcmTakes(v, "MONITOR_FAILURE") /\ FailureAction(v)

LcmMonitorSuspend(v) ==
  /\ LcmTakes(v, "MONITOR_SUSPEND")
  /\ LeaveHost(v, "STOP_RESUME", "SUSPEND_SUCCESS")
  /\ UNCHANGED <<lcm, vmmq, tmq>>

LcmMonitorDone(v) ==
  /\ LcmTakes(v, "MONITOR_DONE")
  /\ SetLcm(v, "UNKNOWN")
  /\ UNCHANGED <<historyVars, usage, dmq, vmmq, tmq>>

\* The thread handles the oldest entry of its queue.
LcmStep(v) ==
  \/ LcmDeploy(v)
  \/ LcmSuspend(v)
  \/ LcmStop(v)
  \/ LcmShutdown(v)
  \/ LcmCancel(v)
  \/ LcmMigrate(v)
  \/ LcmLiveMigrate(v)
  \/ LcmRestore(v)
  \/ LcmRestart(v)
  \/ LcmDelete(v)
  \/ LcmSaveSuccess(v)
  \/ LcmSaveFailure(v)
  \/ LcmDeploySuccess(v)
  \/ LcmDeployFailure(v)
  \/ LcmShutdownSuccess(v)
  \/ LcmShutdownFailure(v)
  \/ LcmPrologSuccess(v)
  \/ LcmPrologFailure(v)
  \/ LcmEpilogSuccess(v)
  \/ LcmEpilogFailure(v)
  \/ LcmCancelSuccess(v)
  \/ LcmCancelFailure(v)
  \/ LcmMonitorFailure(v)
  \/ LcmMonitorSuspend(v)
  \/ LcmMonitorDone(v)
=============================================================================
