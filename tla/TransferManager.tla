-------------------------- MODULE TransferManager --------------------------
(***************************************************************************)
(* The Transfer Manager (src/tm): the thread that writes the scripts that  *)
(* move the files of a VM and hands them to the transfer driver, and the   *)
(* handler of the driver's answers. An answer does not say which script it *)
(* answers: the handler guesses it from the LCM state of the VM.           *)
(***************************************************************************)
EXTENDS NebulaCore

TmTakes(v, action) ==
  /\ IsNext(tmq, action, v)
  /\ tmq' = Tail(tmq)
  /\ UNCHANGED <<stateVars, historyVars, leases, usage, dmq, vmmq, commands,
                 domains, clientVars, polls>>

\* The script goes to the driver, or cannot be sent: the VM has no record,
\* the driver is not loaded, the script or a disk of it cannot be written.
TmSend(v, script, found, refusal) ==
  /\ TmTakes(v, script)
  /\ \/ /\ found
        /\ transfers' = [transfers EXCEPT ![v] = Append(@, script)]
        /\ UNCHANGED lcmq
     \/ /\ lcmq' = refusal
        /\ UNCHANGED transfers

TmProlog(v, script) ==
  /\ script \in {"PROLOG", "PROLOG_MIGR", "PROLOG_RESUME"}
  /\ TmSend(v, script, HasHistory(v), Trigger(lcmq, "PROLOG_FAILURE", v))

TmEpilog(v, script) ==
  /\ script \in {"EPILOG", "EPILOG_STOP"}
  /\ TmSend(v, script, HasHistory(v), Trigger(lcmq, "EPILOG_FAILURE", v))

\* The clean-up of a deleted or failed VM: its errors are only logged.
TmEpilogDelete(v) == TmSend(v, "EPILOG_DELETE", HasHistory(v), lcmq)

TmEpilogDeletePrevious(v) ==
  TmSend(v, "EPILOG_DELETE_PREVIOUS",
         HasHistory(v) /\ HasPreviousHistory(v), lcmq)

TmDriverCancel(v) ==
  /\ TmTakes(v, "DRIVER_CANCEL")
  /\ UNCHANGED lcmq
  /\ \/ UNCHANGED transfers
     \/ \E i \in DOMAIN transfers[v] :
          transfers' = [transfers EXCEPT ![v] = RemoveAt(@, i)]

TmStep(v) ==
  \/ \E script \in TmActions : TmProlog(v, script) \/ TmEpilog(v, script)
  \/ TmEpilogDelete(v)
  \/ TmEpilogDeletePrevious(v)
  \/ TmDriverCancel(v)

-----------------------------------------------------------------------------
(* TransferManagerDriver::protocol                                         *)

TmAnswer(v) ==
  \E i \in DOMAIN transfers[v], ok \in BOOLEAN :
    /\ Admitted(v)
    /\ transfers' = [transfers EXCEPT ![v] = RemoveAt(@, i)]
    /\ lcmq' =
         CASE lcm[v] \in {"PROLOG", "PROLOG_MIGRATE", "PROLOG_RESUME"} ->
                Trigger(lcmq, IF ok THEN "PROLOG_SUCCESS"
                                    ELSE "PROLOG_FAILURE", v)
           [] lcm[v] \in {"EPILOG", "EPILOG_STOP"} ->
                Trigger(lcmq, IF ok THEN "EPILOG_SUCCESS"
                                    ELSE "EPILOG_FAILURE", v)
           [] OTHER -> lcmq
    /\ UNCHANGED <<stateVars, historyVars, leases, usage, dmq, vmmq, tmq,
                   commands, domains, clientVars, polls>>
=============================================================================
