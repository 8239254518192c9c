----------------------- MODULE VirtualMachineManager -----------------------
(***************************************************************************)
(* The Virtual Machine Manager (src/vmm): the thread that sends commands   *)
(* to the hypervisor drivers, its polling timer, and the handler of the    *)
(* drivers' answers, which runs in the MadManager's listener thread. A     *)
(* driver works on several commands at once and answers in any order.      *)
(***************************************************************************)
EXTENDS NebulaCore

VmmTakes(v, action) ==
  /\ IsNext(vmmq, action, v)
  /\ vmmq' = Tail(vmmq)
  /\ UNCHANGED <<stateVars, historyVars, leases, usage, dmq, tmq, transfers,
                 clientVars, polls>>

Command(op, at, to) == [op |-> op, at |-> at, to |-> to]

Sent(v, c) == [commands EXCEPT ![v] = Append(@, c)]

\* The command goes to the driver of the host, or cannot be sent: the VM has
\* no record, the driver is not loaded, its deployment file cannot be written.
VmmSend(v, c, found, refusal) ==
  /\ \/ /\ found
        /\ commands' = Sent(v, c)
        /\ UNCHANGED lcmq
     \/ /\ lcmq' = refusal
        /\ UNCHANGED commands
  /\ UNCHANGED domains

VmmDeploy(v) ==
  /\ VmmTakes(v, "DEPLOY")
  /\ VmmSend(v, Command("DEPLOY", cur[v].hid, cur[v].hid), HasHistory(v),
             Trigger(lcmq, "DEPLOY_FAILURE", v))

\* Mutant: the VM is saved on the host it is to be migrated to.
VmmSaveAtDestination(v) ==
  /\ VmmTakes(v, "SAVE")
  /\ VmmSend(v, Command("SAVE", cur[v].hid, cur[v].hid), HasHistory(v),
             Trigger(lcmq, "SAVE_FAILURE", v))

VmmSave(v) ==
  LET moving == lcm[v] = "SAVE_MIGRATE"
      host   == IF moving THEN prev[v].hid ELSE cur[v].hid
  IN  /\ VmmTakes(v, "SAVE")
      /\ VmmSend(v, Command("SAVE", host, host),
                 HasHistory(v) /\ (moving => HasPreviousHistory(v)),
                 Trigger(lcmq, "SAVE_FAILURE", v))

VmmShutdown(v) ==
  /\ VmmTakes(v, "SHUTDOWN")
  /\ VmmSend(v, Command("SHUTDOWN", cur[v].hid, cur[v].hid), HasHistory(v),
             Trigger(lcmq, "SHUTDOWN_FAILURE", v))

\* The error of a cancel is reported only if no delete asked for it.
VmmCancel(v) ==
  /\ VmmTakes(v, "CANCEL")
  /\ VmmSend(v, Command("CANCEL", cur[v].hid, cur[v].hid), HasHistory(v),
             IF lcm[v] = "CANCEL" THEN Trigger(lcmq, "CANCEL_FAILURE", v)
                                  ELSE lcmq)

VmmCancelPrevious(v) ==
  /\ VmmTakes(v, "CANCEL_PREVIOUS")
  /\ VmmSend(v, Command("CANCEL", prev[v].hid, prev[v].hid),
             HasHistory(v) /\ HasPreviousHistory(v), lcmq)

VmmMigrate(v) ==
  /\ VmmTakes(v, "MIGRATE")
  /\ VmmSend(v, Command("MIGRATE", prev[v].hid, cur[v].hid),
             HasHistory(v) /\ HasPreviousHistory(v),
             Trigger(lcmq, "DEPLOY_FAILURE", v))

VmmRestore(v) ==
  /\ VmmTakes(v, "RESTORE")
  /\ VmmSend(v, Command("RESTORE", cur[v].hid, cur[v].hid), HasHistory(v),
             Trigger(lcmq, "DEPLOY_FAILURE", v))

VmmPoll(v) ==
  /\ VmmTakes(v, "POLL")
  /\ VmmSend(v, Command("POLL", cur[v].hid, cur[v].hid), HasHistory(v), lcmq)

\* The domains of a VM once its command c has been carried out.
Effect(c, hosts) ==
  CASE c.op \in {"DEPLOY", "RESTORE"} -> hosts \cup {c.at}
    [] c.op \in {"SAVE", "SHUTDOWN", "CANCEL"} -> hosts \ {c.at}
    [] c.op = "MIGRATE" /\ c.at \in hosts -> (hosts \ {c.at}) \cup {c.to}
    [] OTHER -> hosts

\* The driver kills the command it is running for the VM, if there is one:
\* it will not be answered, whether it had its effect or not.
VmmDriverCancel(v) ==
  /\ VmmTakes(v, "DRIVER_CANCEL")
  /\ UNCHANGED lcmq
  /\ \/ UNCHANGED <<commands, domains>>
     \/ \E i \in DOMAIN commands[v] :
          /\ commands' = [commands EXCEPT ![v] = RemoveAt(@, i)]
          /\ \/ domains' = [domains EXCEPT ![v] = Effect(commands[v][i], @)]
             \/ UNCHANGED domains

\* The timer fires when the thread has nothing else to do, and polls the VMs
\* that are running or unknown and whose poll period is over.
VmmTimer(v) ==
  /\ vmmq = <<>>
  /\ Admitted(v)
  /\ IsActive(v) /\ lcm[v] \in {"RUNNING", "UNKNOWN"}
  /\ HasHistory(v)
  /\ polls < MaxPolls
  /\ polls' = polls + 1
  /\ commands' = Sent(v, Command("POLL", cur[v].hid, cur[v].hid))
  /\ UNCHANGED <<stateVars, historyVars, leases, usage, queueVars, transfers,
                 domains, clientVars>>

VmmStep(v) ==
  \/ VmmDeploy(v)
  \/ VmmSave(v)
  \/ VmmShutdown(v)
  \/ VmmCancel(v)
  \/ VmmCancelPrevious(v)
  \/ VmmMigrate(v)
  \/ VmmRestore(v)
  \/ VmmPoll(v)
  \/ VmmDriverCancel(v)

-----------------------------------------------------------------------------
(* VirtualMachineManagerDriver::protocol                                   *)

\* The action the LCM is asked for when a command succeeds or fails.
Answer(op, ok) ==
  CASE op \in {"DEPLOY", "RESTORE", "MIGRATE"} ->
         IF ok THEN "DEPLOY_SUCCESS" ELSE "DEPLOY_FAILURE"
    [] op = "SHUTDOWN" ->
         IF ok THEN "SHUTDOWN_SUCCESS" ELSE "SHUTDOWN_FAILURE"
    [] op = "CANCEL" -> IF ok THEN "CANCEL_SUCCESS" ELSE "CANCEL_FAILURE"
    [] OTHER -> IF ok THEN "SAVE_SUCCESS" ELSE "SAVE_FAILURE"

Answered(v, i) ==
  /\ Admitted(v)
  /\ commands' = [commands EXCEPT ![v] = RemoveAt(@, i)]
  /\ UNCHANGED <<state, historyVars, leases, usage, dmq, vmmq, tmq, transfers,
                 clientVars, polls>>

VmmAnswer(v) ==
  \E i \in DOMAIN commands[v], ok \in BOOLEAN :
    LET c == commands[v][i]
    IN  /\ c.op # "POLL"
        /\ Answered(v, i)
        /\ domains' = [domains EXCEPT ![v] = IF ok THEN Effect(c, @) ELSE @]
        /\ lcmq' = IF lcm[v] \in Ignored THEN lcmq
                   ELSE Trigger(lcmq, Answer(c.op, ok), v)
        /\ UNCHANGED lcm

\* What a poll finds: (p)aused, in (e)rror, (d)isappeared.
Found(s) ==
  CASE s = "p" -> "MONITOR_SUSPEND"
    [] s = "e" -> "MONITOR_FAILURE"
    [] s = "d" -> "MONITOR_DONE"

\* A poll that fails or says nothing of the state ("-") changes nothing; an
\* (a)ctive VM that was unknown is running again.
PollAnswer(v) ==
  \E i \in DOMAIN commands[v], s \in {"-", "a", "p", "e", "d"} :
    /\ commands[v][i].op = "POLL"
    /\ Answered(v, i)
    /\ UNCHANGED domains
    /\ lcm' = IF s = "a" /\ lcm[v] = "UNKNOWN"
              THEN [lcm EXCEPT ![v] = "RUNNING"] ELSE lcm
    /\ lcmq' = IF s \in {"p", "e", "d"} /\ lcm[v] \in {"RUNNING", "UNKNOWN"}
               THEN Trigger(lcmq, Found(s), v) ELSE lcmq
=============================================================================
