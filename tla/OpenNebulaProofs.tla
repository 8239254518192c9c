-------------------------- MODULE OpenNebulaProofs --------------------------
(***************************************************************************)
(* Theorems about OpenNebula, for any set of VMs and of hosts, any mix of  *)
(* operations and any bounds.                                              *)
(***************************************************************************)
EXTENDS OpenNebula, FiniteSetTheorems, SequenceTheorems, TLAPS

-----------------------------------------------------------------------------
(* Queues                                                                  *)

\* Triggering an action of a manager keeps its queue a queue of its actions.
LEMMA TriggerType ==
  ASSUME NEW A, NEW q \in Seq(Entries(A)), NEW action \in A, NEW v \in VMs
  PROVE  Trigger(q, action, v) \in Seq(Entries(A))
BY DEF Trigger, Entries

\* So does taking its oldest entry.
LEMMA TailType ==
  ASSUME NEW A, NEW q \in Seq(Entries(A)), NEW action, NEW v,
         IsNext(q, action, v)
  PROVE  Tail(q) \in Seq(Entries(A))
BY DEF IsNext

\* What is left of a sequence when an element of it is taken out.
LEMMA RemoveAtType ==
  ASSUME NEW S, NEW s \in Seq(S), NEW i \in DOMAIN s
  PROVE  RemoveAt(s, i) \in Seq(S)
<1>1. i \in 1..Len(s)
  OBVIOUS
<1>2. SubSeq(s, 1, i - 1) \in Seq(S)
  BY <1>1, SubSeqProperties
<1>3. SubSeq(s, i + 1, Len(s)) \in Seq(S)
  BY <1>1, SubSeqProperties
<1> QED
  BY <1>2, <1>3, ConcatProperties DEF RemoveAt

\* The same, for what a VM's driver has not answered yet.
LEMMA CommandsType ==
  ASSUME NEW S, NEW f \in [VMs -> Seq(S)], NEW v \in VMs
  PROVE  /\ \A e \in S : [f EXCEPT ![v] = Append(@, e)] \in [VMs -> Seq(S)]
         /\ \A i \in DOMAIN f[v] :
              [f EXCEPT ![v] = RemoveAt(@, i)] \in [VMs -> Seq(S)]
BY RemoveAtType

-----------------------------------------------------------------------------
(* Type correctness                                                        *)

\* A record is pushed only for a host, or for the host of a record.
LEMMA PushRecordType ==
  ASSUME TypeOK, NEW v \in VMs, NEW h \in Hosts \cup {NoHost},
         NEW r \in Reasons, PushRecord(v, h, r)
  PROVE  cur' \in [VMs -> Records] /\ prev' \in [VMs -> Records]
BY DEF TypeOK, PushRecord, Records, NewRecord, Reasons

\* Charging a host keeps the counters integers, in the pool or not.
LEMMA CapacityType ==
  ASSUME NEW u \in [Hosts -> Int], NEW h
  PROVE  /\ AddCapacity(u, h) \in [Hosts -> Int]
         /\ DelCapacity(u, h) \in [Hosts -> Int]
<1>1. CASE h \in Hosts
  BY <1>1 DEF AddCapacity, DelCapacity
<1>2. CASE h \notin Hosts
  <2>1. AddCapacity(u, h) = u /\ DelCapacity(u, h) = u
    BY <1>2 DEF AddCapacity, DelCapacity
  <2> QED
    BY <2>1
<1> QED
  BY <1>1, <1>2

LEMMA InitType == ASSUME CoreAssumption, Init PROVE TypeOK
<1>1. NoRecord \in Records
  BY DEF NoRecord, NewRecord, Records, Reasons
<1> QED
  BY <1>1 DEF CoreAssumption, Init, TypeOK, VmStates, LcmStates

LEMMA RequestType ==
  ASSUME CoreAssumption, TypeOK, NEW v \in VMs, Request(v)
  PROVE  TypeOK'
<1> USE DEF TypeOK, stateVars, historyVars, queueVars, driverVars, clientVars
<1>1. ASSUME NEW first \in {"PENDING", "HOLD"}, Allocate(v, first)
      PROVE  TypeOK'
  BY <1>1 DEF Allocate, VmStates
<1> DEFINE Asks(action) == /\ requests < MaxRequests
                           /\ requests' = requests + 1
                           /\ AskLcm(v, action)
<1>2. ASSUME NEW action \in LcmActions, Asks(action),
             cur' \in [VMs -> Records], prev' \in [VMs -> Records]
      PROVE  TypeOK'
  <2>1. lcmq' \in Seq(Entries(LcmActions))
    BY <1>2, TriggerType DEF AskLcm
  <2> QED
    BY <1>2, <2>1 DEF AskLcm, CoreAssumption
<1>3. ASSUME NEW h \in Hosts, AddHistory(v, h)
      PROVE  cur' \in [VMs -> Records] /\ prev' \in [VMs -> Records]
  BY <1>3, PushRecordType DEF AddHistory, Records
<1>4. ASSUME NEW operation, Accepted(v, operation)
      PROVE  requests < MaxRequests /\ requests' \in 0..MaxRequests
             /\ requests' = requests + 1
  BY <1>4 DEF Accepted, CoreAssumption
<1>5. ASSUME NEW h \in Hosts, Deploy(v, h)
      PROVE  TypeOK'
  <2>. "DEPLOY" \in LcmActions
    BY DEF LcmActions
  <2>1. lcmq' \in Seq(Entries(LcmActions))
    BY <1>5, TriggerType DEF Deploy, HistoryNotWritten
  <2>2. state' \in [VMs -> VmStates]
    BY <1>5 DEF Deploy, HistoryNotWritten, VmStates
  <2> QED
    BY <1>3, <1>4, <1>5, <2>1, <2>2 DEF Deploy, HistoryNotWritten
<1>6. ASSUME NEW h \in Hosts, NEW live \in BOOLEAN, Migrate(v, h, live)
      PROVE  TypeOK'
  <2>1. cur' \in [VMs -> Records] /\ prev' \in [VMs -> Records]
    BY <1>3, <1>6 DEF Migrate
  <2>2. requests < MaxRequests /\ requests' = requests + 1
        /\ requests' \in 0..MaxRequests
    BY <1>4, <1>6 DEF Migrate
  <2>3. CASE AskLcm(v, IF live THEN "LIVE_MIGRATE" ELSE "MIGRATE")
    BY <1>2, <2>1, <2>2, <2>3 DEF LcmActions
  <2>4. CASE HistoryNotWritten
    BY <2>1, <2>2, <2>4 DEF HistoryNotWritten
  <2> QED
    BY <1>6, <2>3, <2>4 DEF Migrate
<1>7. ASSUME NEW operation, NEW action \in LcmActions,
             RunningAction(v, operation, action)
      PROVE  TypeOK'
  BY <1>2, <1>4, <1>7 DEF RunningAction
<1>8. CASE Stop(v) \/ Suspend(v) \/ Shutdown(v)
  BY <1>7, <1>8 DEF Stop, Suspend, Shutdown, LcmActions
<1>9. CASE Cancel(v)
  BY <1>4, <1>9 DEF Cancel
<1>10. CASE Restart(v) \/ FinalizeActive(v)
  BY <1>2, <1>4, <1>10 DEF Restart, FinalizeActive, LcmActions
<1>11. ASSUME NEW operation, NEW from, NEW to \in VmStates,
              ChangeState(v, operation, from, to)
       PROVE  TypeOK'
  BY <1>4, <1>11 DEF ChangeState
<1>12. CASE Hold(v) \/ Release(v) \/ ResumeStopped(v)
  BY <1>11, <1>12 DEF Hold, Release, ResumeStopped, VmStates
<1>13. CASE ResumeSuspended(v)
  <2>1. lcmq' \in Seq(Entries(LcmActions))
    BY <1>13, TriggerType DEF ResumeSuspended, LcmActions
  <2> QED
    BY <1>4, <1>13, <2>1 DEF ResumeSuspended, VmStates
<1>14. CASE FinalizeIdle(v)
  <2>1. tmq' \in Seq(Entries(TmActions))
    BY <1>14, TriggerType DEF FinalizeIdle, TmActions
  <2> QED
    BY <1>4, <1>14, <2>1 DEF FinalizeIdle, VmStates, LcmStates
<1> QED
  BY <1>1, <1>5, <1>6, <1>8, <1>9, <1>10, <1>12, <1>13, <1>14 DEF Request

LEMMA DmStepType ==
  ASSUME TypeOK, NEW v \in VMs, DmStep(v)
  PROVE  TypeOK'
<1> USE DEF TypeOK, stateVars, historyVars, queueVars, driverVars, clientVars
<1>1. ASSUME NEW action, DmTakes(v, action)
      PROVE  dmq' \in Seq(Entries(DmActions))
  BY <1>1, TailType DEF DmTakes
<1>2. ASSUME NEW s \in VmStates, Become(v, s)
      PROVE  state' \in [VMs -> VmStates] /\ lcm' \in [VMs -> LcmStates]
  BY <1>2 DEF Become, LcmStates
<1>3. CASE DmSuspendSuccess(v)
  BY <1>1, <1>2, <1>3 DEF DmSuspendSuccess, DmTakes, NotActive, VmStates
<1>4. CASE DmStopSuccess(v)
  BY <1>1, <1>2, <1>4 DEF DmStopSuccess, DmTakes, NotActive, VmStates
<1>5. CASE DmDone(v)
  BY <1>1, <1>2, <1>5 DEF DmDone, DmTakes, NotActive, VmStates
<1>6. CASE DmFailed(v)
  BY <1>1, <1>2, <1>6 DEF DmFailed, DmTakes, VmStates
<1> QED
  BY <1>3, <1>4, <1>5, <1>6 DEF DmStep

LEMMA VmmStepType ==
  ASSUME TypeOK, NEW v \in VMs, VmmStep(v) \/ VmmTimer(v)
  PROVE  TypeOK'
<1> USE DEF TypeOK, stateVars, historyVars, queueVars, driverVars, clientVars
<1> DEFINE Ops == {"DEPLOY", "SAVE", "SHUTDOWN", "CANCEL", "MIGRATE",
                   "RESTORE", "POLL"}
<1>1. ASSUME NEW op \in Ops, NEW at \in Hosts \cup {NoHost},
             NEW to \in Hosts \cup {NoHost}
      PROVE  Command(op, at, to) \in Commands
  BY DEF Command, Commands
<1>2. cur[v].hid \in Hosts \cup {NoHost} /\ prev[v].hid \in Hosts \cup {NoHost}
  BY DEF Records
<1>3. ASSUME NEW action, VmmTakes(v, action),
             NEW c \in Commands, NEW found \in BOOLEAN,
             NEW refusal \in Seq(Entries(LcmActions)),
             VmmSend(v, c, found, refusal)
      PROVE  TypeOK'
  <2>1. vmmq' \in Seq(Entries(VmmActions))
    BY <1>3, TailType DEF VmmTakes
  <2>2. commands' \in [VMs -> Seq(Commands)]
    <3>1. [commands EXCEPT ![v] = Append(@, c)] \in [VMs -> Seq(Commands)]
      BY CommandsType
    <3> QED
      BY <1>3, <3>1 DEF VmmSend, Sent
  <2>3. lcmq' \in Seq(Entries(LcmActions))
    BY <1>3 DEF VmmSend
  <2> QED
    BY <1>3, <2>1, <2>2, <2>3 DEF VmmTakes, VmmSend
<1>4. ASSUME NEW action \in LcmActions
      PROVE  Trigger(lcmq, action, v) \in Seq(Entries(LcmActions))
  BY <1>4, TriggerType
<1>5. HasHistory(v) \in BOOLEAN /\ HasPreviousHistory(v) \in BOOLEAN
  BY DEF HasHistory, HasPreviousHistory
<1>6. CASE VmmDeploy(v)
  BY <1>1, <1>2, <1>3, <1>4, <1>5, <1>6 DEF VmmDeploy, LcmActions
<1>7. CASE VmmSave(v)
  BY <1>1, <1>2, <1>3, <1>4, <1>5, <1>7 DEF VmmSave, LcmActions
<1>8. CASE VmmShutdown(v)
  BY <1>1, <1>2, <1>3, <1>4, <1>5, <1>8 DEF VmmShutdown, LcmActions
<1>9. CASE VmmCancel(v)
  BY <1>1, <1>2, <1>3, <1>4, <1>5, <1>9 DEF VmmCancel, LcmActions
<1>10. CASE VmmCancelPrevious(v)
  BY <1>1, <1>2, <1>3, <1>5, <1>10 DEF VmmCancelPrevious
<1>11. CASE VmmMigrate(v)
  BY <1>1, <1>2, <1>3, <1>4, <1>5, <1>11 DEF VmmMigrate, LcmActions
<1>12. CASE VmmRestore(v)
  BY <1>1, <1>2, <1>3, <1>4, <1>5, <1>12 DEF VmmRestore, LcmActions
<1>13. CASE VmmPoll(v)
  BY <1>1, <1>2, <1>3, <1>5, <1>13 DEF VmmPoll
<1>14. ASSUME NEW c \in Commands, NEW hosts \in SUBSET (Hosts \cup {NoHost})
       PROVE  Effect(c, hosts) \in SUBSET (Hosts \cup {NoHost})
  BY DEF Effect, Commands
<1>15. CASE VmmDriverCancel(v)
  <2>1. vmmq' \in Seq(Entries(VmmActions))
    BY <1>15, TailType DEF VmmDriverCancel, VmmTakes
  <2>2. CASE UNCHANGED <<commands, domains>>
    BY <1>15, <2>1, <2>2 DEF VmmDriverCancel, VmmTakes
  <2>3. ASSUME NEW i \in DOMAIN commands[v],
               commands' = [commands EXCEPT ![v] = RemoveAt(@, i)],
               \/ domains' = [domains EXCEPT ![v] = Effect(commands[v][i], @)]
               \/ UNCHANGED domains
        PROVE  TypeOK'
    <3>1. commands' \in [VMs -> Seq(Commands)]
      BY <2>3, CommandsType
    <3>. commands[v][i] \in Commands
      BY <2>3
    <3>. domains[v] \in SUBSET (Hosts \cup {NoHost})
      OBVIOUS
    <3>2. Effect(commands[v][i], domains[v]) \in SUBSET (Hosts \cup {NoHost})
      BY <1>14
    <3>3. domains' \in [VMs -> SUBSET (Hosts \cup {NoHost})]
      BY <2>3, <3>2
    <3> QED
      BY <1>15, <2>1, <3>1, <3>3 DEF VmmDriverCancel, VmmTakes
  <2> QED
    BY <1>15, <2>2, <2>3 DEF VmmDriverCancel
<1>16. CASE VmmTimer(v)
  <2>1. commands' \in [VMs -> Seq(Commands)]
    BY <1>1, <1>2, <1>16, CommandsType DEF VmmTimer, Sent
  <2>2. polls' \in 0..MaxPolls
    BY <1>16, CoreAssumption DEF VmmTimer, CoreAssumption
  <2> QED
    BY <1>16, <2>1, <2>2 DEF VmmTimer
<1> QED
  BY <1>6, <1>7, <1>8, <1>9, <1>10, <1>11, <1>12, <1>13, <1>15, <1>16
     DEF VmmStep

LEMMA AnswerType ==
  ASSUME TypeOK, NEW v \in VMs, VmmAnswer(v) \/ PollAnswer(v)
  PROVE  TypeOK'
<1> USE DEF TypeOK, stateVars, historyVars, queueVars, driverVars, clientVars
<1>1. ASSUME NEW i \in DOMAIN commands[v], Answered(v, i)
      PROVE  commands' \in [VMs -> Seq(Commands)]
  BY <1>1, CommandsType DEF Answered
<1>2. CASE VmmAnswer(v)
  <2>1. PICK i \in DOMAIN commands[v], ok \in BOOLEAN :
          LET c == commands[v][i]
          IN  /\ Answered(v, i)
              /\ domains' = [domains EXCEPT ![v] = IF ok THEN Effect(c, @)
                                                         ELSE @]
              /\ lcmq' = IF lcm[v] \in Ignored THEN lcmq
                         ELSE Trigger(lcmq, Answer(c.op, ok), v)
              /\ UNCHANGED lcm
    BY <1>2 DEF VmmAnswer
  <2>2. commands[v][i] \in Commands
    OBVIOUS
  <2>3. Effect(commands[v][i], domains[v]) \in SUBSET (Hosts \cup {NoHost})
    BY <2>2 DEF Effect, Commands
  <2>4. Answer(commands[v][i].op, ok) \in LcmActions
    BY DEF Answer, LcmActions
  <2>5. lcmq' \in Seq(Entries(LcmActions))
    BY <2>1, <2>4, TriggerType
  <2>6. domains' \in [VMs -> SUBSET (Hosts \cup {NoHost})]
    BY <2>1, <2>3
  <2> QED
    BY <1>1, <2>1, <2>5, <2>6 DEF Answered
<1>3. CASE PollAnswer(v)
  <2>1. PICK i \in DOMAIN commands[v], s \in {"-", "a", "p", "e", "d"} :
          /\ Answered(v, i)
          /\ UNCHANGED domains
          /\ lcm' = IF s = "a" /\ lcm[v] = "UNKNOWN"
                    THEN [lcm EXCEPT ![v] = "RUNNING"] ELSE lcm
          /\ lcmq' = IF s \in {"p", "e", "d"}
                        /\ lcm[v] \in {"RUNNING", "UNKNOWN"}
                     THEN Trigger(lcmq, Found(s), v) ELSE lcmq
    BY <1>3 DEF PollAnswer
  <2>2. s \in {"p", "e", "d"} => Found(s) \in LcmActions
    BY DEF Found, LcmActions
  <2>3. lcmq' \in Seq(Entries(LcmActions))
    BY <2>1, <2>2, TriggerType
  <2>4. lcm' \in [VMs -> LcmStates]
    BY <2>1 DEF LcmStates
  <2> QED
    BY <1>1, <2>1, <2>3, <2>4 DEF Answered
<1> QED
  BY <1>2, <1>3

LEMMA TmStepType ==
  ASSUME TypeOK, NEW v \in VMs, TmStep(v) \/ TmAnswer(v)
  PROVE  TypeOK'
<1> USE DEF TypeOK, stateVars, historyVars, queueVars, driverVars, clientVars
<1>1. ASSUME NEW action \in LcmActions
      PROVE  Trigger(lcmq, action, v) \in Seq(Entries(LcmActions))
  BY <1>1, TriggerType
<1>2. ASSUME NEW action, TmTakes(v, action)
      PROVE  tmq' \in Seq(Entries(TmActions))
  BY <1>2, TailType DEF TmTakes
<1>3. ASSUME NEW script \in Scripts, NEW found \in BOOLEAN,
             NEW refusal \in Seq(Entries(LcmActions)),
             TmSend(v, script, found, refusal)
      PROVE  TypeOK'
  <2>1. tmq' \in Seq(Entries(TmActions))
    BY <1>2, <1>3 DEF TmSend
  <2>2. [transfers EXCEPT ![v] = Append(@, script)] \in [VMs -> Seq(Scripts)]
    BY CommandsType
  <2>3. transfers' \in [VMs -> Seq(Scripts)]
    BY <1>3, <2>2 DEF TmSend
  <2>4. lcmq' \in Seq(Entries(LcmActions))
    BY <1>3 DEF TmSend
  <2> QED
    BY <1>3, <2>1, <2>3, <2>4 DEF TmSend, TmTakes
<1>4. HasHistory(v) \in BOOLEAN /\ HasPreviousHistory(v) \in BOOLEAN
  BY DEF HasHistory, HasPreviousHistory
<1>5. ASSUME NEW script, TmProlog(v, script)
      PROVE  TypeOK'
  <2>1. script \in Scripts
    BY <1>5 DEF TmProlog, Scripts, TmActions
  <2>2. "PROLOG_FAILURE" \in LcmActions
    BY DEF LcmActions
  <2> QED
    BY <1>1, <1>3, <1>4, <1>5, <2>1, <2>2 DEF TmProlog
<1>6. ASSUME NEW script, TmEpilog(v, script)
      PROVE  TypeOK'
  <2>1. script \in Scripts
    BY <1>6 DEF TmEpilog, Scripts, TmActions
  <2>2. "EPILOG_FAILURE" \in LcmActions
    BY DEF LcmActions
  <2> QED
    BY <1>1, <1>3, <1>4, <1>6, <2>1, <2>2 DEF TmEpilog
<1>7. CASE TmEpilogDelete(v)
  <2>1. "EPILOG_DELETE" \in Scripts
    BY DEF Scripts, TmActions
  <2> QED
    BY <1>3, <1>4, <1>7, <2>1 DEF TmEpilogDelete
<1>8. CASE TmEpilogDeletePrevious(v)
  <2>1. "EPILOG_DELETE_PREVIOUS" \in Scripts
    BY DEF Scripts, TmActions
  <2> QED
    BY <1>3, <1>4, <1>8, <2>1 DEF TmEpilogDeletePrevious
<1>9. CASE TmDriverCancel(v)
  <2>1. tmq' \in Seq(Entries(TmActions))
    BY <1>2, <1>9 DEF TmDriverCancel
  <2>2. transfers' \in [VMs -> Seq(Scripts)]
    <3>1. CASE UNCHANGED transfers
      BY <3>1
    <3>2. ASSUME NEW i \in DOMAIN transfers[v],
                 transfers' = [transfers EXCEPT ![v] = RemoveAt(@, i)]
          PROVE  transfers' \in [VMs -> Seq(Scripts)]
      BY <3>2, CommandsType
    <3> QED
      BY <1>9, <3>1, <3>2 DEF TmDriverCancel
  <2> QED
    BY <1>9, <2>1, <2>2 DEF TmDriverCancel, TmTakes
<1>10. CASE TmAnswer(v)
  <2>1. PICK i \in DOMAIN transfers[v], ok \in BOOLEAN :
          /\ transfers' = [transfers EXCEPT ![v] = RemoveAt(@, i)]
          /\ \/ UNCHANGED lcmq
             \/ \E action \in {"PROLOG_SUCCESS", "PROLOG_FAILURE",
                               "EPILOG_SUCCESS", "EPILOG_FAILURE"} :
                  lcmq' = Trigger(lcmq, action, v)
    BY <1>10 DEF TmAnswer
  <2>2. transfers' \in [VMs -> Seq(Scripts)]
    BY <2>1, CommandsType
  <2>3. {"PROLOG_SUCCESS", "PROLOG_FAILURE", "EPILOG_SUCCESS",
         "EPILOG_FAILURE"} \subseteq LcmActions
    BY DEF LcmActions
  <2>4. lcmq' \in Seq(Entries(LcmActions))
    BY <1>1, <2>1, <2>3
  <2> QED
    BY <1>10, <2>2, <2>4 DEF TmAnswer
<1> QED
  BY <1>5, <1>6, <1>7, <1>8, <1>9, <1>10 DEF TmStep

LEMMA CancelTriggerType ==
  ASSUME TypeOK, NEW v \in VMs, CancelTrigger(v)
  PROVE  TypeOK'
<1> USE DEF TypeOK, stateVars, historyVars, driverVars
<1>1. "CANCEL" \in LcmActions
  BY DEF LcmActions
<1>2. lcmq' \in Seq(Entries(LcmActions))
  BY <1>1, TriggerType DEF CancelTrigger
<1> QED
  BY <1>2 DEF CancelTrigger

\* What a handler of the Life-cycle Manager may change has its type.
LcmVarsOK ==
  /\ lcm   \in [VMs -> LcmStates]
  /\ cur   \in [VMs -> Records]
  /\ prev  \in [VMs -> Records]
  /\ usage \in [Hosts -> Int]
  /\ dmq   \in Seq(Entries(DmActions))
  /\ vmmq  \in Seq(Entries(VmmActions))
  /\ tmq   \in Seq(Entries(TmActions))

LEMMA LcmTakesType ==
  ASSUME TypeOK, NEW v \in VMs, NEW action, LcmTakes(v, action), LcmVarsOK'
  PROVE  TypeOK'
<1>1. lcmq' \in Seq(Entries(LcmActions))
  BY TailType DEF LcmTakes, TypeOK
<1> QED
  BY <1>1 DEF LcmTakes, LcmVarsOK, TypeOK, driverVars, clientVars

LEMMA LcmActionType ==
  ASSUME TypeOK, NEW v \in VMs,
         \/ LcmDeploy(v) \/ LcmSuspend(v) \/ LcmStop(v) \/ LcmShutdown(v)
         \/ LcmCancel(v) \/ LcmMigrate(v) \/ LcmLiveMigrate(v)
         \/ LcmRestore(v) \/ LcmRestart(v)
  PROVE  TypeOK'
<1> USE DEF historyVars
<1> LcmVarsOK
  BY DEF TypeOK, LcmVarsOK
<1>1. ASSUME UNCHANGED lcmVars
      PROVE  LcmVarsOK'
  BY <1>1 DEF lcmVars, LcmVarsOK
<1>2. ASSUME NEW s \in LcmStates, SetLcm(v, s)
      PROVE  lcm' \in [VMs -> LcmStates]
  BY <1>2 DEF SetLcm, LcmVarsOK
<1>3. ASSUME NEW action \in VmmActions
      PROVE  Trigger(vmmq, action, v) \in Seq(Entries(VmmActions))
  BY <1>3, TriggerType DEF LcmVarsOK
<1>4. ASSUME NEW action \in TmActions
      PROVE  Trigger(tmq, action, v) \in Seq(Entries(TmActions))
  BY <1>4, TriggerType DEF LcmVarsOK
<1>5. \A h : AddCapacity(usage, h) \in [Hosts -> Int]
  BY CapacityType DEF LcmVarsOK
<1>6. CASE LcmDeploy(v)
  <2>1. LcmVarsOK'
    <3>1. CASE UNCHANGED lcmVars
      BY <1>1, <3>1
    <3>2. CASE /\ \E s \in {"PROLOG", "PROLOG_RESUME"} :
                    SetLcm(v, s) /\ tmq' = Trigger(tmq, s, v)
               /\ usage' = AddCapacity(usage, cur[v].hid)
               /\ UNCHANGED <<historyVars, dmq, vmmq>>
      <4>. {"PROLOG", "PROLOG_RESUME"} \subseteq LcmStates \cap TmActions
        BY DEF LcmStates, TmActions
      <4> QED
        BY <1>2, <1>4, <1>5, <3>2 DEF LcmVarsOK
    <3> QED
      BY <1>6, <3>1, <3>2 DEF LcmDeploy
  <2> QED
    BY <1>6, <2>1, LcmTakesType DEF LcmDeploy
<1>7. ASSUME NEW action, NEW s \in LcmStates, NEW command \in VmmActions,
             LcmCommand(v, action, s, command)
      PROVE  TypeOK'
  <2>1. LcmVarsOK'
    BY <1>1, <1>2, <1>3, <1>7 DEF LcmCommand, LcmVarsOK
  <2> QED
    BY <1>7, <2>1, LcmTakesType DEF LcmCommand
<1>8. CASE LcmSuspend(v) \/ LcmStop(v) \/ LcmShutdown(v) \/ LcmCancel(v)
  <2>. {"SAVE_SUSPEND", "SAVE_STOP", "SHUTDOWN", "CANCEL"} \subseteq LcmStates
    BY DEF LcmStates
  <2>. {"SAVE", "SHUTDOWN", "CANCEL"} \subseteq VmmActions
    BY DEF VmmActions
  <2> QED
    BY <1>7, <1>8 DEF LcmSuspend, LcmStop, LcmShutdown, LcmCancel
<1>9. ASSUME NEW action, NEW s \in LcmStates, NEW command \in VmmActions,
             LcmMove(v, action, s, command)
      PROVE  TypeOK'
  <2>1. LcmVarsOK'
    BY <1>1, <1>2, <1>3, <1>5, <1>9 DEF LcmMove, LcmVarsOK
  <2> QED
    BY <1>9, <2>1, LcmTakesType DEF LcmMove
<1>10. CASE LcmMigrate(v) \/ LcmLiveMigrate(v)
  <2>. {"SAVE_MIGRATE", "MIGRATE"} \subseteq LcmStates
    BY DEF LcmStates
  <2>. {"SAVE", "MIGRATE"} \subseteq VmmActions
    BY DEF VmmActions
  <2> QED
    BY <1>9, <1>10 DEF LcmMigrate, LcmLiveMigrate
<1>. "BOOT" \in LcmStates /\ {"RESTORE", "DEPLOY"} \subseteq VmmActions
  BY DEF LcmStates, VmmActions
<1>11. CASE LcmRestore(v)
  <2>1. CpHistory(v) => cur' \in [VMs -> Records] /\ prev' \in [VMs -> Records]
    <3>. cur[v].hid \in Hosts \cup {NoHost} /\ cur[v].reason \in Reasons
      BY DEF LcmVarsOK, Records
    <3> QED
      BY PushRecordType DEF CpHistory, AddHistory, LcmVarsOK
  <2>2. LcmVarsOK'
    BY <1>1, <1>2, <1>3, <1>5, <1>11, <2>1 DEF LcmRestore, LcmVarsOK
  <2> QED
    BY <1>11, <2>2, LcmTakesType DEF LcmRestore
<1>12. CASE LcmRestart(v)
  <2>1. LcmVarsOK'
    BY <1>1, <1>2, <1>3, <1>12 DEF LcmRestart, LcmVarsOK
  <2> QED
    BY <1>12, <2>1, LcmTakesType DEF LcmRestart
<1> QED
  BY <1>6, <1>8, <1>10, <1>11, <1>12

LEMMA LcmDeleteType ==
  ASSUME TypeOK, NEW v \in VMs, LcmDelete(v)
  PROVE  TypeOK'
<1> LcmVarsOK
  BY DEF TypeOK, LcmVarsOK
<1>1. CASE UNCHANGED lcmVars
  <2>1. LcmVarsOK'
    BY <1>1 DEF lcmVars, LcmVarsOK
  <2> QED
    BY <2>1, LcmTakesType DEF LcmDelete
<1>2. CASE ~ UNCHANGED lcmVars
  <2>1. lcm' \in [VMs -> LcmStates]
    BY <1>2 DEF LcmDelete, SetLcm, LcmVarsOK, LcmStates
  <2>2. cur' \in [VMs -> Records] /\ prev' \in [VMs -> Records]
    <3>1. SetReason(v, "USER") => cur' \in [VMs -> Records]
      BY DEF SetReason, LcmVarsOK, Records, Reasons
    <3>2. SetPreviousReason(v, "USER") => prev' \in [VMs -> Records]
      BY DEF SetPreviousReason, LcmVarsOK, Records, Reasons
    <3> QED
      BY <1>2, <3>1, <3>2 DEF LcmDelete, LcmVarsOK
  <2>3. usage' \in [Hosts -> Int]
    <3>1. DelCapacity(usage, cur[v].hid) \in [Hosts -> Int]
      BY CapacityType DEF LcmVarsOK
    <3>2. DelCapacity(DelCapacity(usage, cur[v].hid), prev[v].hid)
            \in [Hosts -> Int]
      BY <3>1, CapacityType
    <3> QED
      BY <1>2, <3>1, <3>2 DEF LcmDelete
  <2>4. dmq' \in Seq(Entries(DmActions))
    <3>1. "DONE" \in DmActions
      BY DEF DmActions
    <3> QED
      BY <1>2, <3>1, TriggerType DEF LcmDelete, LcmVarsOK
  <2>5. DeleteCommands(v) \in Seq(Entries(VmmActions))
    <3>1. {"DRIVER_CANCEL", "CANCEL", "CANCEL_PREVIOUS"} \subseteq VmmActions
      BY DEF VmmActions
    <3>2. \A q \in Seq(Entries(VmmActions)) :
            \A a \in {"DRIVER_CANCEL", "CANCEL", "CANCEL_PREVIOUS"} :
              Trigger(q, a, v) \in Seq(Entries(VmmActions))
      BY <3>1, TriggerType
    <3>3. vmmq \in Seq(Entries(VmmActions))
      BY DEF LcmVarsOK
    <3> QED
      BY <3>2, <3>3 DEF DeleteCommands
  <2>6. DeleteTransfers(v) \in Seq(Entries(TmActions))
    <3> DEFINE CleanUps == {"DRIVER_CANCEL", "EPILOG_DELETE",
                            "EPILOG_DELETE_PREVIOUS"}
    <3>1. CleanUps \subseteq TmActions
      BY DEF TmActions
    <3>2. \A q \in Seq(Entries(TmActions)) : \A a \in CleanUps :
            Trigger(q, a, v) \in Seq(Entries(TmActions))
      BY <3>1, TriggerType
    <3>3. tmq \in Seq(Entries(TmActions))
      BY DEF LcmVarsOK
    <3> QED
      BY <3>2, <3>3 DEF DeleteTransfers
  <2>7. LcmVarsOK'
    BY <1>2, <2>1, <2>2, <2>3, <2>4, <2>5, <2>6 DEF LcmDelete, LcmVarsOK
  <2> QED
    BY <2>7, LcmTakesType DEF LcmDelete
<1> QED
  BY <1>1, <1>2

LEMMA LcmAnswerType ==
  ASSUME TypeOK, NEW v \in VMs,
         \/ LcmSaveSuccess(v) \/ LcmSaveFailure(v) \/ LcmDeploySuccess(v)
         \/ LcmDeployFailure(v) \/ LcmShutdownSuccess(v)
         \/ LcmShutdownFailure(v) \/ LcmPrologSuccess(v)
         \/ LcmPrologFailure(v) \/ LcmEpilogSuccess(v) \/ LcmEpilogFailure(v)
         \/ LcmCancelSuccess(v) \/ LcmCancelFailure(v) \/ LcmMonitorFailure(v)
         \/ LcmMonitorSuspend(v) \/ LcmMonitorDone(v)
  PROVE  TypeOK'
<1> USE DEF historyVars
<1> LcmVarsOK
  BY DEF TypeOK, LcmVarsOK
<1>1. ASSUME UNCHANGED lcmVars
      PROVE  LcmVarsOK'
  BY <1>1 DEF lcmVars, LcmVarsOK
<1>2. ASSUME NEW s \in LcmStates, SetLcm(v, s)
      PROVE  lcm' \in [VMs -> LcmStates]
  BY <1>2 DEF SetLcm, LcmVarsOK
<1>3. ASSUME NEW action \in VmmActions
      PROVE  Trigger(vmmq, action, v) \in Seq(Entries(VmmActions))
  BY <1>3, TriggerType DEF LcmVarsOK
<1>4. ASSUME NEW action \in TmActions
      PROVE  Trigger(tmq, action, v) \in Seq(Entries(TmActions))
  BY <1>4, TriggerType DEF LcmVarsOK
<1>5. ASSUME NEW action \in DmActions
      PROVE  Trigger(dmq, action, v) \in Seq(Entries(DmActions))
  BY <1>5, TriggerType DEF LcmVarsOK
<1>6. \A h : DelCapacity(usage, h) \in [Hosts -> Int]
  BY CapacityType DEF LcmVarsOK
<1>7. ASSUME NEW r \in Reasons
      PROVE  /\ SetReason(v, r) => cur' \in [VMs -> Records]
             /\ SetPreviousReason(v, r) => prev' \in [VMs -> Records]
  BY <1>7 DEF SetReason, SetPreviousReason, LcmVarsOK, Records
<1>8. Reasons = {"NONE", "ERROR", "STOP_RESUME", "USER", "CANCEL"}
      /\ DmActions = {"SUSPEND_SUCCESS", "STOP_SUCCESS", "DONE", "FAILED"}
  BY DEF Reasons, DmActions
<1>9. {"RUNNING", "BOOT", "EPILOG", "EPILOG_STOP", "PROLOG_MIGRATE",
       "FAILURE", "UNKNOWN"} \subseteq LcmStates
  BY DEF LcmStates
<1>10. {"POLL", "DEPLOY", "RESTORE"} \subseteq VmmActions
  BY DEF VmmActions
<1>11. {"EPILOG", "EPILOG_STOP", "EPILOG_DELETE", "PROLOG_MIGR"}
         \subseteq TmActions
  BY DEF TmActions
<1>12. ASSUME NEW r \in Reasons, NEW outcome \in DmActions,
              LeaveHost(v, r, outcome)
       PROVE  /\ cur' \in [VMs -> Records] /\ prev' = prev
              /\ usage' \in [Hosts -> Int]
              /\ dmq' \in Seq(Entries(DmActions))
  BY <1>5, <1>6, <1>7, <1>12 DEF LeaveHost
<1>13. ASSUME FailureAction(v)
       PROVE  LcmVarsOK'
  BY <1>2, <1>4, <1>8, <1>9, <1>11, <1>12, <1>13 DEF FailureAction, LcmVarsOK
<1>14. ASSUME NEW action, LcmTakes(v, action), FailureAction(v)
       PROVE  TypeOK'
  BY <1>13, <1>14, LcmTakesType
<1>15. CASE LcmPrologFailure(v) \/ LcmEpilogFailure(v) \/ LcmMonitorFailure(v)
  BY <1>14, <1>15 DEF LcmPrologFailure, LcmEpilogFailure, LcmMonitorFailure
<1>16. ASSUME BackToRunning(v), cur' \in [VMs -> Records],
              prev' \in [VMs -> Records], usage' \in [Hosts -> Int]
       PROVE  LcmVarsOK'
  BY <1>2, <1>3, <1>9, <1>10, <1>16 DEF BackToRunning, LcmVarsOK
<1>17. ASSUME MigrationFailed(v)
       PROVE  LcmVarsOK'
  <2>1. cur' \in [VMs -> Records] /\ prev' \in [VMs -> Records]
    <3>. prev[v].hid \in Hosts \cup {NoHost}
      BY DEF LcmVarsOK, Records
    <3>1. PushRecord(v, prev[v].hid, "ERROR")
            => cur' \in [VMs -> Records] /\ prev' \in [VMs -> Records]
      BY <1>8, PushRecordType
    <3> QED
      BY <1>7, <1>8, <1>17, <3>1 DEF MigrationFailed, CpPreviousHistory,
                                     LcmVarsOK
  <2> QED
    BY <1>6, <1>16, <1>17, <2>1 DEF MigrationFailed
<1>18. ASSUME BackToRunning(v), UNCHANGED <<historyVars, usage>>
       PROVE  LcmVarsOK'
  BY <1>16, <1>18 DEF LcmVarsOK
<1>19. CASE LcmSaveSuccess(v)
  <2>1. LcmVarsOK'
    <3>1. CASE lcm[v] = "SAVE_MIGRATE"
      BY <1>2, <1>4, <1>6, <1>7, <1>8, <1>9, <1>11, <1>19, <3>1
         DEF LcmSaveSuccess, LcmVarsOK
    <3>2. CASE lcm[v] = "SAVE_SUSPEND"
      BY <1>8, <1>12, <1>19, <3>2 DEF LcmSaveSuccess, LcmVarsOK
    <3>3. CASE lcm[v] = "SAVE_STOP"
      BY <1>2, <1>4, <1>7, <1>8, <1>9, <1>11, <1>19, <3>3
         DEF LcmSaveSuccess, LcmVarsOK
    <3> QED
      BY <1>1, <1>19, <3>1, <3>2, <3>3 DEF LcmSaveSuccess
  <2> QED
    BY <1>19, <2>1, LcmTakesType DEF LcmSaveSuccess
<1>20. CASE LcmSaveFailure(v)
  <2>1. LcmVarsOK'
    BY <1>1, <1>17, <1>18, <1>20 DEF LcmSaveFailure
  <2> QED
    BY <1>20, <2>1, LcmTakesType DEF LcmSaveFailure
<1>21. CASE LcmDeploySuccess(v)
  <2>1. LcmVarsOK'
    BY <1>2, <1>6, <1>7, <1>8, <1>9, <1>21 DEF LcmDeploySuccess, LcmVarsOK
  <2> QED
    BY <1>21, <2>1, LcmTakesType DEF LcmDeploySuccess
<1>22. CASE LcmDeployFailure(v)
  <2>1. LcmVarsOK'
    BY <1>1, <1>13, <1>17, <1>22 DEF LcmDeployFailure
  <2> QED
    BY <1>22, <2>1, LcmTakesType DEF LcmDeployFailure
<1>23. CASE LcmShutdownSuccess(v)
  <2>1. LcmVarsOK'
    BY <1>2, <1>4, <1>9, <1>11, <1>23 DEF LcmShutdownSuccess, LcmVarsOK
  <2> QED
    BY <1>23, <2>1, LcmTakesType DEF LcmShutdownSuccess
<1>24. CASE LcmShutdownFailure(v) \/ LcmCancelFailure(v)
  <2>1. LcmVarsOK'
    BY <1>18, <1>24 DEF LcmShutdownFailure, LcmCancelFailure
  <2> QED
    BY <1>24, <2>1, LcmTakesType DEF LcmShutdownFailure, LcmCancelFailure
<1>25. CASE LcmPrologSuccess(v)
  <2>1. LcmVarsOK'
    BY <1>1, <1>2, <1>3, <1>9, <1>10, <1>25 DEF LcmPrologSuccess, LcmVarsOK
  <2> QED
    BY <1>25, <2>1, LcmTakesType DEF LcmPrologSuccess
<1>26. CASE LcmEpilogSuccess(v)
  <2>1. LcmVarsOK'
    <3>. cur[v].reason \in Reasons
      BY DEF LcmVarsOK, Records
    <3> QED
      BY <1>1, <1>8, <1>12, <1>26 DEF LcmEpilogSuccess, LcmVarsOK
  <2> QED
    BY <1>26, <2>1, LcmTakesType DEF LcmEpilogSuccess
<1>27. CASE LcmCancelSuccess(v) \/ LcmMonitorSuspend(v)
  <2>1. LcmVarsOK'
    BY <1>8, <1>12, <1>27 DEF LcmCancelSuccess, LcmMonitorSuspend, LcmVarsOK
  <2> QED
    BY <1>27, <2>1, LcmTakesType DEF LcmCancelSuccess, LcmMonitorSuspend
<1>28. CASE LcmMonitorDone(v)
  <2>1. LcmVarsOK'
    BY <1>2, <1>9, <1>28 DEF LcmMonitorDone, LcmVarsOK
  <2> QED
    BY <1>28, <2>1, LcmTakesType DEF LcmMonitorDone
<1> QED
  BY <1>15, <1>19, <1>20, <1>21, <1>22, <1>23, <1>24, <1>25, <1>26, <1>27,
     <1>28

LEMMA StepType == TypeOK /\ [Next]_vars => TypeOK'
<1> SUFFICES ASSUME TypeOK, [Next]_vars
             PROVE  TypeOK'
  OBVIOUS
<1>1. ASSUME NEW v \in VMs, Request(v)
      PROVE  TypeOK'
  BY <1>1, RequestType, CoreAssumption
<1>2. ASSUME NEW v \in VMs, ManagerStep(v)
      PROVE  TypeOK'
  <2>1. CASE LcmStep(v)
    BY <2>1, LcmActionType, LcmDeleteType, LcmAnswerType DEF LcmStep
  <2> QED
    BY <1>2, <2>1, DmStepType, VmmStepType, TmStepType DEF ManagerStep
<1>3. ASSUME NEW v \in VMs, DriverStep(v)
      PROVE  TypeOK'
  BY <1>3, AnswerType, TmStepType DEF DriverStep
<1>4. CASE UNCHANGED vars
  BY <1>4 DEF vars, TypeOK
<1> QED
  BY <1>1, <1>2, <1>3, <1>4, CancelTriggerType, VmmStepType DEF Next

\* In every reachable state of oned each variable is of its kind: a VM is in
\* a state of VirtualMachine.h, and a queue holds actions of its own manager.
THEOREM TypeCorrect == Spec => []TypeOK
<1>1. Init => TypeOK
  BY InitType, CoreAssumption
<1> QED
  BY <1>1, StepType, PTL DEF Spec
-----------------------------------------------------------------------------
(* History records                                                         *)
(*                                                                         *)
(* In every interleaving of oned a handler finds the history records it    *)
(* dereferences. RecordsExist is inductive together with TypeOK: a step of *)
(* a VM leaves the needs of the others alone (Touches), never takes a      *)
(* record away, and asks for a handler that needs a record only when the   *)
(* record is there.                                                        *)

\* Every entry of queue p is an entry of q, or one of the actions new for v.
Fed(q, p, v, new) ==
  \A i \in DOMAIN p : \/ \E j \in DOMAIN q : q[j] = p[i]
                      \/ p[i].vm = v /\ p[i].op \in new

\* A queue that nobody touches is fed nothing.
LEMMA FedSame == ASSUME NEW q, NEW v, NEW new PROVE Fed(q, q, v, new)
BY DEF Fed

\* Nor is one whose oldest entry is taken.
LEMMA FedTail ==
  ASSUME NEW S, NEW q \in Seq(S), q # <<>>, NEW v, NEW new
  PROVE  Fed(q, Tail(q), v, new)
<1>1. Len(q) \in Nat \ {0}
  BY EmptySeq
<1>2. \A i \in 1..Len(Tail(q)) : i + 1 \in 1..Len(q) /\ Tail(q)[i] = q[i + 1]
  BY <1>1, HeadTailProperties
<1>3. DOMAIN Tail(q) = 1..Len(Tail(q)) /\ DOMAIN q = 1..Len(q)
  BY HeadTailProperties
<1> QED
  BY <1>2, <1>3 DEF Fed

\* Triggering one of the actions feeds a queue that action.
LEMMA FedTrigger ==
  ASSUME NEW q, NEW S, NEW p \in Seq(S), NEW v, NEW new,
         Fed(q, p, v, new), NEW action \in new
  PROVE  Fed(q, Trigger(p, action, v), v, new)
<1> DEFINE e == [op |-> action, vm |-> v]
<1>1. /\ DOMAIN Append(p, e) = 1..(Len(p) + 1)
      /\ Append(p, e)[Len(p) + 1] = e
      /\ \A i \in 1..Len(p) : Append(p, e)[i] = p[i]
  OBVIOUS
<1>2. DOMAIN p = 1..Len(p) /\ Len(p) \in Nat
  OBVIOUS
<1>3. ASSUME NEW i \in 1..(Len(p) + 1)
      PROVE  i = Len(p) + 1 \/ i \in 1..Len(p)
  BY <1>2, <1>3
<1> QED
  BY <1>1, <1>2, <1>3 DEF Fed, Trigger

\* What a queue that has been fed actions for v mentions.
LEMMA FedNeeds ==
  ASSUME NEW q, NEW p, NEW v, NEW new, Fed(q, p, v, new)
  PROVE  /\ \A as : \A w \in VMs \ {v} : Asked(p, as, w) => Asked(q, as, w)
         /\ \A w \in VMs \ {v} : Mentions(p, w) => Mentions(q, w)
         /\ \A as : Asked(p, as, v) => Asked(q, as, v) \/ new \cap as # {}
         /\ new = {} => (Mentions(p, v) => Mentions(q, v))
BY DEF Fed, Asked, Mentions

-----------------------------------------------------------------------------
(* What a step of v touches                                                *)

\* The actions that need the record of the previous host.
LcmMoves  == {"MIGRATE", "LIVE_MIGRATE"}
VmmMoves  == {"MIGRATE", "CANCEL_PREVIOUS"}
TmMoves   == {"PROLOG_MIGR", "EPILOG_DELETE_PREVIOUS"}
LcmMoving == {"MIGRATE", "SAVE_MIGRATE", "PROLOG_MIGRATE"}

\* The VMs other than v keep what they have; v keeps its records; and the
\* queues are fed actions for v only.
Touches(v) ==
  /\ \A w \in VMs \ {v} : /\ state'[w] = state[w]
                          /\ lcm'[w] = lcm[w]
                          /\ cur'[w] = cur[w]
                          /\ prev'[w] = prev[w]
                          /\ commands'[w] = commands[w]
                          /\ transfers'[w] = transfers[w]
                          /\ w \in cancelling' => w \in cancelling
  /\ Fed(dmq, dmq', v, DmActions)
  /\ Fed(lcmq, lcmq', v, LcmActions)
  /\ Fed(vmmq, vmmq', v, VmmActions)
  /\ Fed(tmq, tmq', v, TmActions)
  /\ HasHistory(v) => HasHistory(v)'
  /\ HasHistory(v) /\ HasPreviousHistory(v) => HasPreviousHistory(v)'

\* Nothing is asked for v that needs the record of its previous host.
Plain(v) ==
  /\ lcm'[v] = lcm[v] \/ lcm'[v] \notin LcmMoving
  /\ Fed(lcmq, lcmq', v, LcmActions \ LcmMoves)
  /\ Fed(vmmq, vmmq', v, VmmActions \ VmmMoves)
  /\ Fed(tmq, tmq', v, TmActions \ TmMoves)

\* A step that touches v keeps the needs of every VM satisfied, if it gives v
\* the records it makes v need.
LEMMA TouchesRecords ==
  ASSUME CoreAssumption, RecordsExist, NEW v \in VMs, Touches(v),
         NeedsRecord(v)' => HasHistory(v)',
         HasPreviousHistory(v)' => HasHistory(v)',
         Plain(v) \/ NeedsPreviousRecord(v) \/ HasPreviousHistory(v)'
  PROVE  RecordsExist'
<1>1. ASSUME NEW w \in VMs \ {v}
      PROVE  /\ NeedsRecord(w)' => NeedsRecord(w)
             /\ NeedsPreviousRecord(w)' => NeedsPreviousRecord(w)
             /\ HasHistory(w)' <=> HasHistory(w)
             /\ HasPreviousHistory(w)' <=> HasPreviousHistory(w)
  <2>1. /\ Mentions(dmq', w) => Mentions(dmq, w)
        /\ Mentions(lcmq', w) => Mentions(lcmq, w)
        /\ Mentions(vmmq', w) => Mentions(vmmq, w)
        /\ Mentions(tmq', w) => Mentions(tmq, w)
    BY FedNeeds DEF Touches
  <2>2. \A as : /\ Asked(lcmq', as, w) => Asked(lcmq, as, w)
                /\ Asked(vmmq', as, w) => Asked(vmmq, as, w)
                /\ Asked(tmq', as, w) => Asked(tmq, as, w)
    BY FedNeeds DEF Touches
  <2>3. NeedsRecord(w)' => NeedsRecord(w)
    BY <2>1 DEF Touches, NeedsRecord, Mentions
  <2>4. NeedsPreviousRecord(w)' => NeedsPreviousRecord(w)
    BY <2>2 DEF Touches, NeedsPreviousRecord, Asked
  <2> QED
    BY <2>3, <2>4 DEF Touches, HasHistory, HasPreviousHistory
<1>2. NeedsPreviousRecord(v) => HasPreviousHistory(v)'
  BY DEF RecordsExist, Touches
<1>3. Plain(v) /\ NeedsPreviousRecord(v)' => NeedsPreviousRecord(v)
  <2> SUFFICES ASSUME Plain(v), NeedsPreviousRecord(v)'
               PROVE  NeedsPreviousRecord(v)
    OBVIOUS
  <2>1. /\ Asked(lcmq', LcmMoves, v) => Asked(lcmq, LcmMoves, v)
        /\ Asked(vmmq', VmmMoves, v) => Asked(vmmq, VmmMoves, v)
        /\ Asked(tmq', TmMoves, v) => Asked(tmq, TmMoves, v)
    BY FedNeeds DEF Plain
  <2> QED
    BY <2>1 DEF Plain, NeedsPreviousRecord, Asked, LcmMoves, VmmMoves, TmMoves,
                LcmMoving
<1>4. /\ NeedsRecord(v)' => HasHistory(v)'
      /\ NeedsPreviousRecord(v)' => HasPreviousHistory(v)'
      /\ HasPreviousHistory(v)' => HasHistory(v)'
  BY <1>2, <1>3
<1>5. \A w \in VMs : /\ NeedsRecord(w)' => HasHistory(w)'
                     /\ NeedsPreviousRecord(w)' => HasPreviousHistory(w)'
                     /\ HasPreviousHistory(w)' => HasHistory(w)'
  BY <1>1, <1>4 DEF RecordsExist
<1> QED
  BY <1>5 DEF RecordsExist

\* A queue of actions that is triggered one of them, or left alone.
LEMMA FedOnce ==
  ASSUME NEW A, NEW q \in Seq(Entries(A)), NEW p, NEW v, NEW new,
         \/ p = q
         \/ \E action \in new : p = Trigger(q, action, v)
  PROVE  Fed(q, p, v, new)
BY FedSame, FedTrigger

\* A record that is pushed is there, and is not the only one if there was one.
LEMMA PushRecordExists ==
  ASSUME CoreAssumption, TypeOK, NEW v \in VMs, NEW h \in Hosts \cup {NoHost},
         NEW r, PushRecord(v, h, r)
  PROVE  /\ \A w \in VMs \ {v} : cur'[w] = cur[w] /\ prev'[w] = prev[w]
         /\ HasHistory(v)' <=> h # NoHost
         /\ HasHistory(v) => HasPreviousHistory(v)'
         /\ ~ HasHistory(v) => prev' = prev
BY DEF TypeOK, PushRecord, HasHistory, HasPreviousHistory, NewRecord, Records

-----------------------------------------------------------------------------
(* Requests                                                                *)

\* What leaves queues, drivers and records alone.
LEMMA RequestRecords ==
  ASSUME CoreAssumption, TypeOK, RecordsExist, NEW v \in VMs, Request(v)
  PROVE  RecordsExist'
<1> USE DEF stateVars, historyVars, queueVars, driverVars, clientVars
<1>. /\ lcmq \in Seq(Entries(LcmActions)) /\ tmq \in Seq(Entries(TmActions))
     /\ state \in [VMs -> VmStates] /\ lcm \in [VMs -> LcmStates]
  BY DEF TypeOK
<1>. /\ NeedsRecord(v) => HasHistory(v)
     /\ HasPreviousHistory(v) => HasHistory(v)
  BY DEF RecordsExist
<1>1. /\ Fed(dmq, dmq, v, DmActions)
      /\ Fed(lcmq, lcmq, v, LcmActions)
      /\ Fed(lcmq, lcmq, v, LcmActions \ LcmMoves)
      /\ Fed(vmmq, vmmq, v, VmmActions)
      /\ Fed(vmmq, vmmq, v, VmmActions \ VmmMoves)
      /\ Fed(tmq, tmq, v, TmActions)
      /\ Fed(tmq, tmq, v, TmActions \ TmMoves)
  BY FedSame
<1>2. ASSUME NEW action \in LcmActions
      PROVE  /\ Fed(lcmq, Trigger(lcmq, action, v), v, LcmActions)
             /\ action \notin LcmMoves
                  => Fed(lcmq, Trigger(lcmq, action, v), v,
                         LcmActions \ LcmMoves)
  BY <1>2, FedOnce
<1>3. ASSUME NEW to, state' = [state EXCEPT ![v] = to],
             to \in {"PENDING", "HOLD", "DONE"} \/ HasHistory(v),
             UNCHANGED <<historyVars, dmq, lcmq, vmmq, driverVars, cancelling>>,
             \/ tmq' = tmq
             \/ tmq' = Trigger(tmq, "EPILOG_DELETE", v) /\ HasHistory(v),
             lcm' = lcm \/ lcm' = [lcm EXCEPT ![v] = "LCM_INIT"]
      PROVE  RecordsExist'
  <2>1. "EPILOG_DELETE" \in TmActions \ TmMoves
    BY DEF TmActions, TmMoves
  <2>2. Fed(tmq, tmq', v, TmActions) /\ Fed(tmq, tmq', v, TmActions \ TmMoves)
    BY <1>1, <1>3, <2>1, FedOnce
  <2>3. Touches(v)
    BY <1>1, <1>3, <2>2 DEF Touches, HasHistory, HasPreviousHistory
  <2>4. Plain(v)
    BY <1>1, <1>3, <2>2 DEF Plain, LcmMoving
  <2>5. NeedsRecord(v)' => HasHistory(v)'
    BY <1>3 DEF NeedsRecord, HasHistory, Mentions
  <2>6. HasPreviousHistory(v)' => HasHistory(v)'
    BY <1>3 DEF HasHistory, HasPreviousHistory
  <2> QED
    BY <2>3, <2>4, <2>5, <2>6, TouchesRecords
<1>4. ASSUME NEW action \in LcmActions, AskLcm(v, action),
             NeedsRecord(v), UNCHANGED historyVars, action \notin LcmMoves
      PROVE  RecordsExist'
  <2>1. Touches(v)
    BY <1>1, <1>2, <1>4 DEF Touches, AskLcm, HasHistory, HasPreviousHistory
  <2>2. Plain(v)
    BY <1>1, <1>2, <1>4 DEF Plain, AskLcm
  <2>3. HasHistory(v)'
    BY <1>4 DEF HasHistory
  <2> QED
    BY <2>1, <2>2, <2>3, TouchesRecords
<1>5. ASSUME IsActive(v)
      PROVE  NeedsRecord(v)
  BY <1>5 DEF IsActive, NeedsRecord
<1>6. ASSUME NEW first \in {"PENDING", "HOLD"}, Allocate(v, first)
      PROVE  RecordsExist'
  BY <1>3, <1>6 DEF Allocate
<1>7. ASSUME NEW h \in Hosts, AddHistory(v, h)
      PROVE  /\ \A w \in VMs \ {v} : cur'[w] = cur[w] /\ prev'[w] = prev[w]
             /\ HasHistory(v)'
             /\ HasHistory(v) => HasPreviousHistory(v)'
             /\ ~ HasHistory(v) => prev' = prev
  BY <1>7, PushRecordExists DEF AddHistory, CoreAssumption
<1>8. ASSUME NEW h \in Hosts, Deploy(v, h)
      PROVE  RecordsExist'
  <2>1. "DEPLOY" \in LcmActions \ LcmMoves
    BY DEF LcmActions, LcmMoves
  <2>2. /\ Fed(lcmq, lcmq', v, LcmActions)
        /\ Fed(lcmq, lcmq', v, LcmActions \ LcmMoves)
    BY <1>1, <1>2, <1>8, <2>1 DEF Deploy, HistoryNotWritten
  <2>3. Touches(v)
    BY <1>1, <1>7, <1>8, <2>2 DEF Touches, Deploy, HistoryNotWritten
  <2>4. Plain(v)
    BY <1>1, <1>8, <2>2 DEF Plain, Deploy, HistoryNotWritten
  <2> QED
    BY <1>7, <1>8, <2>3, <2>4, TouchesRecords DEF Deploy
<1>9. ASSUME NEW h \in Hosts, NEW live \in BOOLEAN, Migrate(v, h, live)
      PROVE  RecordsExist'
  <2>1. {"MIGRATE", "LIVE_MIGRATE"} \subseteq LcmActions
    BY DEF LcmActions
  <2>2. Fed(lcmq, lcmq', v, LcmActions)
    BY <1>1, <1>2, <1>9, <2>1 DEF Migrate, AskLcm, HistoryNotWritten
  <2>3. Touches(v)
    BY <1>1, <1>7, <1>9, <2>2
       DEF Touches, Migrate, AskLcm, HistoryNotWritten
  <2>4. HasHistory(v)' /\ HasPreviousHistory(v)'
    BY <1>5, <1>7, <1>9 DEF Migrate, IsRunning
  <2> QED
    BY <2>3, <2>4, TouchesRecords
<1>10. CASE Stop(v) \/ Suspend(v) \/ Shutdown(v)
  <2>. {"STOP", "SUSPEND", "SHUTDOWN"} \subseteq LcmActions \ LcmMoves
    BY DEF LcmActions, LcmMoves
  <2> QED
    BY <1>4, <1>5, <1>10
       DEF Stop, Suspend, Shutdown, RunningAction, IsRunning
<1>11. CASE Cancel(v)
  <2>1. HasHistory(v)'
    BY <1>5, <1>11 DEF Cancel, IsRunning, HasHistory
  <2>2. Touches(v)
    BY <1>1, <1>11 DEF Cancel, Touches, HasHistory, HasPreviousHistory
  <2>3. Plain(v)
    BY <1>1, <1>11 DEF Cancel, Plain
  <2> QED
    BY <2>1, <2>2, <2>3, TouchesRecords
<1>12. CASE Restart(v) \/ FinalizeActive(v)
  <2>. {"RESTART", "DELETE"} \subseteq LcmActions \ LcmMoves
    BY DEF LcmActions, LcmMoves
  <2> QED
    BY <1>4, <1>5, <1>12 DEF Restart, FinalizeActive
<1>13. CASE Hold(v) \/ Release(v) \/ ResumeStopped(v)
  BY <1>3, <1>13 DEF Hold, Release, ResumeStopped, ChangeState
<1>14. CASE ResumeSuspended(v)
  <2>1. "RESTORE" \in LcmActions \ LcmMoves
    BY DEF LcmActions, LcmMoves
  <2>2. HasHistory(v)'
    BY <1>14 DEF ResumeSuspended, NeedsRecord, HasHistory
  <2>3. Touches(v)
    BY <1>1, <1>2, <1>14, <2>1
       DEF ResumeSuspended, Touches, HasHistory, HasPreviousHistory
  <2>4. Plain(v)
    BY <1>1, <1>2, <1>14, <2>1 DEF ResumeSuspended, Plain
  <2> QED
    BY <2>2, <2>3, <2>4, TouchesRecords
<1>15. CASE FinalizeIdle(v)
  <2>1. state[v] = "SUSPENDED" => HasHistory(v)
    BY DEF NeedsRecord
  <2> QED
    BY <1>3, <1>15, <2>1 DEF FinalizeIdle
<1> QED
  BY <1>6, <1>8, <1>9, <1>10, <1>11, <1>12, <1>13, <1>14, <1>15 DEF Request

-----------------------------------------------------------------------------
(* Managers and drivers                                                    *)

\* A step of something that goes on for v, which therefore has its record,
\* keeps it.
LEMMA GoesOn ==
  ASSUME CoreAssumption, RecordsExist, NEW v \in VMs, NeedsRecord(v),
         Touches(v),
         Plain(v) \/ NeedsPreviousRecord(v) \/ HasPreviousHistory(v)'
  PROVE  RecordsExist'
<1>1. HasHistory(v)'
  BY DEF RecordsExist, Touches
<1> QED
  BY <1>1, TouchesRecords

\* The entry a thread takes mentions its VM, and the queue is fed nothing.
LEMMA Takes ==
  ASSUME NEW A, NEW q \in Seq(Entries(A)), NEW v, NEW action,
         IsNext(q, action, v)
  PROVE  /\ Mentions(q, v)
         /\ \A as : action \in as => Asked(q, as, v)
         /\ \A new : Fed(q, Tail(q), v, new)
<1>1. 1 \in DOMAIN q /\ q[1] = [op |-> action, vm |-> v]
  BY EmptySeq DEF IsNext
<1> QED
  BY <1>1, FedTail DEF IsNext, Mentions, Asked

\* The queues of the managers, as a step may leave them.
LEMMA FedAll ==
  ASSUME NEW v
  PROVE  /\ \A new : Fed(dmq, dmq, v, new)
         /\ \A new : Fed(lcmq, lcmq, v, new)
         /\ \A new : Fed(vmmq, vmmq, v, new)
         /\ \A new : Fed(tmq, tmq, v, new)
BY FedSame

LEMMA DmRecords ==
  ASSUME CoreAssumption, TypeOK, RecordsExist, NEW v \in VMs, DmStep(v)
  PROVE  RecordsExist'
<1> USE DEF stateVars, historyVars, driverVars, clientVars
<1>1. PICK action : DmTakes(v, action)
  BY DEF DmStep, DmSuspendSuccess, DmStopSuccess, DmDone, DmFailed
<1>2. \/ UNCHANGED stateVars
      \/ \E s : Become(v, s)
  BY DEF DmStep, DmSuspendSuccess, DmStopSuccess, DmDone, DmFailed, NotActive
<1>3. NeedsRecord(v) /\ Fed(dmq, dmq', v, DmActions)
  BY <1>1, Takes DEF TypeOK, DmTakes, NeedsRecord
<1>4. Touches(v)
  BY <1>1, <1>2, <1>3, FedAll
     DEF DmTakes, Touches, Become, HasHistory, HasPreviousHistory, TypeOK
<1>5. Plain(v)
  BY <1>1, <1>2, FedAll DEF DmTakes, Plain, Become, LcmMoving, TypeOK
<1> QED
  BY <1>3, <1>4, <1>5, GoesOn

\* What the handlers of the Virtual Machine and Transfer Managers and of the
\* drivers' answers may change, but for their own queue.
DriverSide(v) ==
  /\ UNCHANGED <<state, cur, prev, dmq, cancelling>>
  /\ \A w \in VMs \ {v} : /\ commands'[w] = commands[w]
                          /\ transfers'[w] = transfers[w]
                          /\ lcm'[w] = lcm[w]
  /\ lcm'[v] = lcm[v] \/ lcm'[v] = "RUNNING"
  /\ lcmq' = lcmq \/ \E action \in LcmActions \ LcmMoves :
                        lcmq' = Trigger(lcmq, action, v)

LEMMA DriverSideRecords ==
  ASSUME CoreAssumption, TypeOK, RecordsExist, NEW v \in VMs, NeedsRecord(v),
         DriverSide(v),
         Fed(vmmq, vmmq', v, {}), Fed(tmq, tmq', v, {})
  PROVE  RecordsExist'
<1>1. /\ Fed(lcmq, lcmq', v, LcmActions)
      /\ Fed(lcmq, lcmq', v, LcmActions \ LcmMoves)
  BY FedOnce DEF DriverSide, TypeOK
<1>2. Touches(v)
  BY <1>1, FedAll DEF DriverSide, Touches, HasHistory, HasPreviousHistory, Fed
<1>3. Plain(v)
  BY <1>1 DEF DriverSide, Plain, LcmMoving, Fed
<1> QED
  BY <1>2, <1>3, GoesOn

LEMMA VmmRecords ==
  ASSUME CoreAssumption, TypeOK, RecordsExist, NEW v \in VMs, VmmStep(v)
  PROVE  RecordsExist'
<1> USE DEF stateVars, historyVars, clientVars
<1>1. PICK action : VmmTakes(v, action)
  BY DEF VmmStep, VmmDeploy, VmmSave, VmmShutdown, VmmCancel,
         VmmCancelPrevious, VmmMigrate, VmmRestore, VmmPoll, VmmDriverCancel
<1>2. NeedsRecord(v) /\ Fed(vmmq, vmmq', v, {})
  BY <1>1, Takes DEF TypeOK, VmmTakes, NeedsRecord
<1>3. Fed(tmq, tmq', v, {})
  BY <1>1, FedSame DEF VmmTakes
<1> DEFINE Refusals == {"DEPLOY_FAILURE", "SAVE_FAILURE", "SHUTDOWN_FAILURE",
                        "CANCEL_FAILURE"}
<1>4. Refusals \subseteq LcmActions \ LcmMoves
  BY DEF LcmActions, LcmMoves
<1>5. ASSUME NEW c, NEW found, NEW refusal,
             \/ refusal = lcmq
             \/ \E a \in Refusals : refusal = Trigger(lcmq, a, v),
             VmmSend(v, c, found, refusal)
      PROVE  DriverSide(v)
  BY <1>1, <1>4, <1>5 DEF VmmTakes, VmmSend, Sent, DriverSide, TypeOK
<1>6. ASSUME VmmDriverCancel(v)
      PROVE  DriverSide(v)
  BY <1>1, <1>6 DEF VmmTakes, VmmDriverCancel, DriverSide, TypeOK
<1>7. ASSUME VmmDeploy(v) \/ VmmSave(v) \/ VmmShutdown(v) \/ VmmMigrate(v)
             \/ VmmRestore(v)
      PROVE  DriverSide(v)
  BY <1>5, <1>7 DEF VmmDeploy, VmmSave, VmmShutdown, VmmMigrate, VmmRestore
<1>8. ASSUME VmmCancel(v) \/ VmmCancelPrevious(v) \/ VmmPoll(v)
      PROVE  DriverSide(v)
  BY <1>5, <1>8 DEF VmmCancel, VmmCancelPrevious, VmmPoll
<1>9. DriverSide(v)
  BY <1>6, <1>7, <1>8 DEF VmmStep
<1> QED
  BY <1>2, <1>3, <1>9, DriverSideRecords

LEMMA TmRecords ==
  ASSUME CoreAssumption, TypeOK, RecordsExist, NEW v \in VMs, TmStep(v)
  PROVE  RecordsExist'
<1> USE DEF stateVars, historyVars, clientVars
<1>1. PICK action : TmTakes(v, action)
  BY DEF TmStep, TmProlog, TmEpilog, TmEpilogDelete, TmEpilogDeletePrevious,
         TmSend, TmDriverCancel
<1>2. NeedsRecord(v) /\ Fed(tmq, tmq', v, {})
  BY <1>1, Takes DEF TypeOK, TmTakes, NeedsRecord
<1>3. Fed(vmmq, vmmq', v, {})
  BY <1>1, FedSame DEF TmTakes
<1> DEFINE Refusals == {"PROLOG_FAILURE", "EPILOG_FAILURE"}
<1>4. Refusals \subseteq LcmActions \ LcmMoves
  BY DEF LcmActions, LcmMoves
<1>5. ASSUME NEW script, NEW found, NEW refusal,
             \/ refusal = lcmq
             \/ \E a \in Refusals : refusal = Trigger(lcmq, a, v),
             TmSend(v, script, found, refusal)
      PROVE  DriverSide(v)
  BY <1>1, <1>4, <1>5 DEF TmTakes, TmSend, DriverSide, TypeOK
<1>6. ASSUME TmDriverCancel(v)
      PROVE  DriverSide(v)
  BY <1>1, <1>6 DEF TmTakes, TmDriverCancel, DriverSide, TypeOK
<1>7. ASSUME NEW script, TmProlog(v, script) \/ TmEpilog(v, script)
      PROVE  DriverSide(v)
  BY <1>5, <1>7 DEF TmProlog, TmEpilog
<1>8. ASSUME TmEpilogDelete(v) \/ TmEpilogDeletePrevious(v)
      PROVE  DriverSide(v)
  BY <1>5, <1>8 DEF TmEpilogDelete, TmEpilogDeletePrevious
<1>9. DriverSide(v)
  BY <1>6, <1>7, <1>8 DEF TmStep
<1> QED
  BY <1>2, <1>3, <1>9, DriverSideRecords

LEMMA DriverRecords ==
  ASSUME CoreAssumption, TypeOK, RecordsExist, NEW v \in VMs,
         DriverStep(v) \/ VmmTimer(v)
  PROVE  RecordsExist'
<1> USE DEF stateVars, historyVars, queueVars, driverVars, clientVars
<1>1. UNCHANGED <<vmmq, tmq>>
  BY DEF DriverStep, VmmTimer, VmmAnswer, PollAnswer, TmAnswer, Answered
<1>2. Fed(vmmq, vmmq', v, {}) /\ Fed(tmq, tmq', v, {})
  BY <1>1, FedSame
<1>3. NeedsRecord(v)
  <2>1. ASSUME NEW s, DOMAIN s # {}
        PROVE  s # <<>>
    BY <2>1
  <2> QED
    BY <2>1 DEF DriverStep, VmmTimer, VmmAnswer, PollAnswer, TmAnswer,
                NeedsRecord, IsActive
<1>4. ASSUME VmmAnswer(v)
      PROVE  DriverSide(v)
  <2>1. \A op : \A ok \in BOOLEAN : Answer(op, ok) \in LcmActions \ LcmMoves
    BY DEF Answer, LcmActions, LcmMoves
  <2> QED
    BY <1>4, <2>1 DEF VmmAnswer, Answered, DriverSide, TypeOK
<1>5. ASSUME PollAnswer(v)
      PROVE  DriverSide(v)
  <2>1. \A s \in {"p", "e", "d"} : Found(s) \in LcmActions \ LcmMoves
    BY DEF Found, LcmActions, LcmMoves
  <2> QED
    BY <1>5, <2>1 DEF PollAnswer, Answered, DriverSide, TypeOK
<1>6. ASSUME TmAnswer(v)
      PROVE  DriverSide(v)
  <2>1. {"PROLOG_SUCCESS", "PROLOG_FAILURE", "EPILOG_SUCCESS",
         "EPILOG_FAILURE"} \subseteq LcmActions \ LcmMoves
    BY DEF LcmActions, LcmMoves
  <2> QED
    BY <1>6, <2>1 DEF TmAnswer, DriverSide, TypeOK
<1>7. ASSUME VmmTimer(v)
      PROVE  DriverSide(v)
  BY <1>7 DEF VmmTimer, Sent, DriverSide, TypeOK
<1>8. DriverSide(v)
  BY <1>4, <1>5, <1>6, <1>7 DEF DriverStep
<1> QED
  BY <1>2, <1>3, <1>8, DriverSideRecords

-----------------------------------------------------------------------------
(* The Life-cycle Manager                                                  *)

\* What a handler of the Life-cycle Manager may change, but for its queue.
LcmSide(v) ==
  /\ \A w \in VMs \ {v} : /\ lcm'[w] = lcm[w]
                          /\ cur'[w] = cur[w]
                          /\ prev'[w] = prev[w]
  /\ Fed(dmq, dmq', v, DmActions)
  /\ Fed(vmmq, vmmq', v, VmmActions)
  /\ Fed(tmq, tmq', v, TmActions)
  /\ HasHistory(v) => HasHistory(v)'
  /\ HasHistory(v) /\ HasPreviousHistory(v) => HasPreviousHistory(v)'

\* What it asks for without needing the record of the previous host.
LcmPlain(v) ==
  /\ lcm'[v] = lcm[v] \/ lcm'[v] \notin LcmMoving
  /\ Fed(vmmq, vmmq', v, VmmActions \ VmmMoves)
  /\ Fed(tmq, tmq', v, TmActions \ TmMoves)

LEMMA LcmSideRecords ==
  ASSUME CoreAssumption, TypeOK, RecordsExist, NEW v \in VMs,
         NEW action, LcmTakes(v, action), LcmSide(v),
         LcmPlain(v) \/ NeedsPreviousRecord(v)
  PROVE  RecordsExist'
<1>1. /\ NeedsRecord(v)
      /\ Fed(lcmq, lcmq', v, LcmActions)
      /\ Fed(lcmq, lcmq', v, LcmActions \ LcmMoves)
  BY Takes DEF TypeOK, LcmTakes, NeedsRecord
<1>2. Touches(v)
  BY <1>1 DEF LcmSide, Touches, LcmTakes, driverVars, clientVars
<1>3. LcmPlain(v) => Plain(v)
  BY <1>1 DEF LcmPlain, Plain
<1> QED
  BY <1>1, <1>2, <1>3, GoesOn

\* A handler that changes nothing, one queue, the LCM state or a reason.
LEMMA LcmPieces ==
  ASSUME CoreAssumption, TypeOK, NEW v \in VMs
  PROVE  /\ UNCHANGED lcmVars => LcmSide(v) /\ LcmPlain(v)
         /\ \A s : SetLcm(v, s) => /\ \A w \in VMs \ {v} : lcm'[w] = lcm[w]
                                   /\ lcm'[v] = s
         /\ \A r : SetReason(v, r)
              => /\ \A w \in VMs \ {v} : cur'[w] = cur[w]
                 /\ HasHistory(v)' <=> HasHistory(v)
         /\ \A r : SetPreviousReason(v, r)
              => /\ \A w \in VMs \ {v} : prev'[w] = prev[w]
                 /\ HasPreviousHistory(v)' <=> HasPreviousHistory(v)
<1>1. UNCHANGED lcmVars => LcmSide(v) /\ LcmPlain(v)
  BY FedAll DEF lcmVars, LcmSide, LcmPlain, HasHistory, HasPreviousHistory
<1>2. \A s : SetLcm(v, s) => /\ \A w \in VMs \ {v} : lcm'[w] = lcm[w]
                             /\ lcm'[v] = s
  BY DEF SetLcm, TypeOK
<1>3. \A r : SetReason(v, r)
               => /\ \A w \in VMs \ {v} : cur'[w] = cur[w]
                  /\ HasHistory(v)' <=> HasHistory(v)
  BY DEF SetReason, HasHistory, TypeOK, Records
<1>4. \A r : SetPreviousReason(v, r)
               => /\ \A w \in VMs \ {v} : prev'[w] = prev[w]
                  /\ HasPreviousHistory(v)' <=> HasPreviousHistory(v)
  BY DEF SetPreviousReason, HasPreviousHistory, TypeOK, Records
<1> QED
  BY <1>1, <1>2, <1>3, <1>4

\* The actions a handler triggers once are actions of their manager, and only
\* some of them need the record of the previous host.
LEMMA LcmTriggers ==
  ASSUME TypeOK, NEW v \in VMs
  PROVE  /\ \A a \in DmActions : Fed(dmq, Trigger(dmq, a, v), v, DmActions)
         /\ \A a \in VmmActions : Fed(vmmq, Trigger(vmmq, a, v), v, VmmActions)
         /\ \A a \in TmActions : Fed(tmq, Trigger(tmq, a, v), v, TmActions)
         /\ \A a \in VmmActions \ VmmMoves :
              Fed(vmmq, Trigger(vmmq, a, v), v, VmmActions \ VmmMoves)
         /\ \A a \in TmActions \ TmMoves :
              Fed(tmq, Trigger(tmq, a, v), v, TmActions \ TmMoves)
BY FedOnce DEF TypeOK

LEMMA LcmActionRecords ==
  ASSUME CoreAssumption, TypeOK, RecordsExist, NEW v \in VMs,
         \/ LcmDeploy(v) \/ LcmSuspend(v) \/ LcmStop(v) \/ LcmShutdown(v)
         \/ LcmCancel(v) \/ LcmMigrate(v) \/ LcmLiveMigrate(v)
         \/ LcmRestore(v) \/ LcmRestart(v)
  PROVE  RecordsExist'
<1> USE DEF historyVars
<1>1. ASSUME NEW action, LcmTakes(v, action), UNCHANGED lcmVars
      PROVE  RecordsExist'
  BY <1>1, LcmPieces, LcmSideRecords
<1>2. ASSUME NEW action, LcmTakes(v, action), NEW s, SetLcm(v, s),
             s \notin LcmMoving, UNCHANGED <<historyVars, dmq>>,
             \/ vmmq' = vmmq
             \/ \E a \in VmmActions \ VmmMoves : vmmq' = Trigger(vmmq, a, v),
             \/ tmq' = tmq
             \/ \E a \in TmActions \ TmMoves : tmq' = Trigger(tmq, a, v)
      PROVE  RecordsExist'
  <2>1. /\ Fed(vmmq, vmmq', v, VmmActions)
        /\ Fed(vmmq, vmmq', v, VmmActions \ VmmMoves)
    BY <1>2, FedAll, LcmTriggers
  <2>2. Fed(tmq, tmq', v, TmActions) /\ Fed(tmq, tmq', v, TmActions \ TmMoves)
    BY <1>2, FedAll, LcmTriggers
  <2>3. (\A w \in VMs \ {v} : lcm'[w] = lcm[w]) /\ lcm'[v] = s
    BY <1>2, LcmPieces
  <2>4. Fed(dmq, dmq', v, DmActions)
    BY <1>2, FedAll
  <2>5. LcmSide(v)
    BY <1>2, <2>1, <2>2, <2>3, <2>4 DEF LcmSide, HasHistory, HasPreviousHistory
  <2>6. LcmPlain(v)
    BY <1>2, <2>1, <2>2, <2>3 DEF LcmPlain
  <2> QED
    BY <1>2, <2>5, <2>6, LcmSideRecords
<1>3. {"PROLOG", "PROLOG_RESUME", "SAVE_SUSPEND", "SAVE_STOP", "SHUTDOWN",
       "CANCEL", "BOOT"} \cap LcmMoving = {}
  BY DEF LcmMoving
<1>4. {"SAVE", "SHUTDOWN", "CANCEL", "RESTORE", "DEPLOY"}
        \subseteq VmmActions \ VmmMoves
  BY DEF VmmActions, VmmMoves
<1>5. {"PROLOG", "PROLOG_RESUME"} \subseteq TmActions \ TmMoves
  BY DEF TmActions, TmMoves
<1>6. ASSUME LcmDeploy(v)
      PROVE  RecordsExist'
  BY <1>1, <1>2, <1>3, <1>5, <1>6 DEF LcmDeploy
<1>7. ASSUME NEW action, NEW s, NEW command, LcmCommand(v, action, s, command),
             s \notin LcmMoving, command \in VmmActions \ VmmMoves
      PROVE  RecordsExist'
  BY <1>1, <1>2, <1>7 DEF LcmCommand
<1>8. ASSUME LcmSuspend(v) \/ LcmStop(v) \/ LcmShutdown(v) \/ LcmCancel(v)
      PROVE  RecordsExist'
  BY <1>3, <1>4, <1>7, <1>8 DEF LcmSuspend, LcmStop, LcmShutdown, LcmCancel
<1>9. ASSUME NEW action \in LcmMoves, NEW s, NEW command \in VmmActions,
             LcmMove(v, action, s, command)
      PROVE  RecordsExist'
  <2>1. LcmTakes(v, action)
    BY <1>9 DEF LcmMove
  <2>2. Asked(lcmq, LcmMoves, v)
    BY <1>9, <2>1, Takes DEF LcmTakes, TypeOK
  <2>3. NeedsPreviousRecord(v)
    BY <2>2 DEF NeedsPreviousRecord, LcmMoves
  <2>4. CASE UNCHANGED lcmVars
    BY <1>1, <2>1, <2>4
  <2>5. CASE ~ UNCHANGED lcmVars
    <3>1. LcmSide(v)
      BY <1>9, <2>5, FedAll, LcmPieces, LcmTriggers
         DEF LcmMove, LcmSide, HasHistory, HasPreviousHistory
    <3> QED
      BY <2>1, <2>3, <3>1, LcmSideRecords
  <2> QED
    BY <2>4, <2>5
<1>10. ASSUME LcmMigrate(v) \/ LcmLiveMigrate(v)
       PROVE  RecordsExist'
  <2>. {"SAVE", "MIGRATE"} \subseteq VmmActions
    BY DEF VmmActions
  <2> QED
    BY <1>9, <1>10 DEF LcmMigrate, LcmLiveMigrate, LcmMoves
<1>11. ASSUME LcmRestore(v)
       PROVE  RecordsExist'
  <2>1. LcmTakes(v, "RESTORE")
    BY <1>11 DEF LcmRestore
  <2>2. HasHistory(v)
    BY <2>1, Takes DEF RecordsExist, NeedsRecord, LcmTakes, TypeOK
  <2>3. CASE UNCHANGED lcmVars
    BY <1>1, <2>1, <2>3
  <2>4. CASE ~ UNCHANGED lcmVars
    <3>. cur[v].hid \in Hosts \cup {NoHost} /\ cur[v].hid # NoHost
      BY <2>2 DEF TypeOK, Records, HasHistory
    <3>1. /\ \A w \in VMs \ {v} : cur'[w] = cur[w] /\ prev'[w] = prev[w]
          /\ HasHistory(v)' /\ HasPreviousHistory(v)'
      <4>1. PushRecord(v, cur[v].hid, cur[v].reason)
        BY <1>11, <2>2, <2>4 DEF LcmRestore, CpHistory, AddHistory
      <4> QED
        BY <2>2, <4>1, PushRecordExists
    <3>2. /\ SetLcm(v, "BOOT") /\ vmmq' = Trigger(vmmq, "RESTORE", v)
          /\ UNCHANGED <<dmq, tmq>>
      BY <1>11, <2>4 DEF LcmRestore
    <3>3. /\ Fed(vmmq, vmmq', v, VmmActions)
          /\ Fed(vmmq, vmmq', v, VmmActions \ VmmMoves)
      BY <1>4, <3>2, LcmTriggers
    <3>4. /\ Fed(dmq, dmq', v, DmActions)
          /\ Fed(tmq, tmq', v, TmActions)
          /\ Fed(tmq, tmq', v, TmActions \ TmMoves)
      BY <3>2, FedAll
    <3>5. (\A w \in VMs \ {v} : lcm'[w] = lcm[w]) /\ lcm'[v] = "BOOT"
      BY <3>2, LcmPieces
    <3>6. LcmSide(v)
      BY <3>1, <3>3, <3>4, <3>5 DEF LcmSide
    <3>7. LcmPlain(v)
      BY <1>3, <3>3, <3>4, <3>5 DEF LcmPlain
    <3> QED
      BY <2>1, <3>6, <3>7, LcmSideRecords
  <2> QED
    BY <2>3, <2>4
<1>12. ASSUME LcmRestart(v)
       PROVE  RecordsExist'
  BY <1>1, <1>2, <1>3, <1>4, <1>12 DEF LcmRestart
<1> QED
  BY <1>6, <1>8, <1>10, <1>11, <1>12

LEMMA LcmDeleteRecords ==
  ASSUME CoreAssumption, TypeOK, RecordsExist, NEW v \in VMs, LcmDelete(v)
  PROVE  RecordsExist'
<1>1. LcmTakes(v, "DELETE")
  BY DEF LcmDelete
<1>2. CASE UNCHANGED lcmVars
  BY <1>1, <1>2, LcmPieces, LcmSideRecords
<1>3. CASE ~ UNCHANGED lcmVars
  <2>1. /\ SetLcm(v, "DELETE") /\ SetReason(v, "USER")
        /\ SetPreviousReason(v, "USER") \/ UNCHANGED prev
        /\ vmmq' = DeleteCommands(v) /\ tmq' = DeleteTransfers(v)
        /\ dmq' = Trigger(dmq, "DONE", v)
    BY <1>3 DEF LcmDelete
  <2>2. (\A w \in VMs \ {v} : lcm'[w] = lcm[w]) /\ lcm'[v] \notin LcmMoving
    BY <2>1, LcmPieces DEF LcmMoving
  <2>3. /\ \A w \in VMs \ {v} : cur'[w] = cur[w] /\ prev'[w] = prev[w]
        /\ HasHistory(v)' <=> HasHistory(v)
        /\ HasPreviousHistory(v)' <=> HasPreviousHistory(v)
    BY <2>1, LcmPieces DEF HasPreviousHistory
  <2>4. Fed(dmq, dmq', v, DmActions)
    BY <2>1, LcmTriggers DEF DmActions
  <2> DEFINE T(q, a) == Trigger(q, a, v)
  <2>5. ASSUME NEW p \in Seq(Entries(VmmActions)), NEW new,
               new \subseteq VmmActions, Fed(vmmq, p, v, new), NEW a \in new
        PROVE  T(p, a) \in Seq(Entries(VmmActions)) /\ Fed(vmmq, T(p, a), v, new)
    BY <2>5, FedTrigger, TriggerType
  <2>6. ASSUME NEW p \in Seq(Entries(TmActions)), NEW new,
               new \subseteq TmActions, Fed(tmq, p, v, new), NEW a \in new
        PROVE  T(p, a) \in Seq(Entries(TmActions)) /\ Fed(tmq, T(p, a), v, new)
    BY <2>6, FedTrigger, TriggerType
  <2>7. {"DRIVER_CANCEL", "CANCEL"} \subseteq VmmActions \ VmmMoves
        /\ "CANCEL_PREVIOUS" \in VmmActions
    BY DEF VmmActions, VmmMoves
  <2>8. {"DRIVER_CANCEL", "EPILOG_DELETE"} \subseteq TmActions \ TmMoves
        /\ "EPILOG_DELETE_PREVIOUS" \in TmActions
    BY DEF TmActions, TmMoves
  <2>9. /\ vmmq \in Seq(Entries(VmmActions)) /\ tmq \in Seq(Entries(TmActions))
        /\ \A new : Fed(vmmq, vmmq, v, new) /\ Fed(tmq, tmq, v, new)
    BY FedAll DEF TypeOK
  <2> DEFINE V1 == T(vmmq, "DRIVER_CANCEL")
             V2 == T(V1, "CANCEL")
             T1 == T(tmq, "DRIVER_CANCEL")
             T2 == T(T1, "EPILOG_DELETE")
             T3 == T(tmq, "EPILOG_DELETE")
  <2>10. ASSUME NEW new, VmmActions \ VmmMoves \subseteq new,
                new \subseteq VmmActions
         PROVE  /\ V1 \in Seq(Entries(VmmActions)) /\ Fed(vmmq, V1, v, new)
                /\ V2 \in Seq(Entries(VmmActions)) /\ Fed(vmmq, V2, v, new)
    <3>. HIDE DEF T
    <3>. {"DRIVER_CANCEL", "CANCEL"} \subseteq new
      BY <2>7, <2>10
    <3>1. V1 \in Seq(Entries(VmmActions)) /\ Fed(vmmq, V1, v, new)
      BY <2>5, <2>9, <2>10
    <3>2. V2 \in Seq(Entries(VmmActions)) /\ Fed(vmmq, V2, v, new)
      BY <2>5, <2>10, <3>1
    <3> QED
      BY <3>1, <3>2
  <2>11. ASSUME NEW new, TmActions \ TmMoves \subseteq new,
                new \subseteq TmActions
         PROVE  /\ T1 \in Seq(Entries(TmActions)) /\ Fed(tmq, T1, v, new)
                /\ T2 \in Seq(Entries(TmActions)) /\ Fed(tmq, T2, v, new)
                /\ T3 \in Seq(Entries(TmActions)) /\ Fed(tmq, T3, v, new)
    <3>. HIDE DEF T
    <3>. {"DRIVER_CANCEL", "EPILOG_DELETE"} \subseteq new
      BY <2>8, <2>11
    <3>1. T1 \in Seq(Entries(TmActions)) /\ Fed(tmq, T1, v, new)
      BY <2>6, <2>9, <2>11
    <3>2. T2 \in Seq(Entries(TmActions)) /\ Fed(tmq, T2, v, new)
      BY <2>6, <2>11, <3>1
    <3>3. T3 \in Seq(Entries(TmActions)) /\ Fed(tmq, T3, v, new)
      BY <2>6, <2>9, <2>11
    <3> QED
      BY <3>1, <3>2, <3>3
  <2>12. Fed(vmmq, vmmq', v, VmmActions)
    <3>1. /\ Fed(vmmq, V2, v, VmmActions)
          /\ Fed(vmmq, T(V2, "CANCEL_PREVIOUS"), v, VmmActions)
          /\ Fed(vmmq, T(V1, "CANCEL_PREVIOUS"), v, VmmActions)
      BY <2>5, <2>7, <2>10
    <3> QED
      BY <2>1, <2>9, <3>1 DEF DeleteCommands
  <2>13. Fed(tmq, tmq', v, TmActions)
    <3>1. /\ Fed(tmq, T2, v, TmActions) /\ Fed(tmq, T3, v, TmActions)
          /\ Fed(tmq, T(tmq, "EPILOG_DELETE_PREVIOUS"), v, TmActions)
          /\ Fed(tmq, T(T2, "EPILOG_DELETE_PREVIOUS"), v, TmActions)
      BY <2>6, <2>8, <2>9, <2>11
    <3> QED
      BY <2>1, <3>1 DEF DeleteTransfers
  <2>14. LcmSide(v)
    BY <2>2, <2>3, <2>4, <2>12, <2>13 DEF LcmSide
  <2>15. CASE lcm[v] \in LcmMoving
    <3>1. NeedsPreviousRecord(v)
      BY <2>15 DEF NeedsPreviousRecord, LcmMoving
    <3> QED
      BY <1>1, <2>14, <3>1, LcmSideRecords
  <2>16. CASE lcm[v] \notin LcmMoving
    <3>1. Fed(vmmq, vmmq', v, VmmActions \ VmmMoves)
      BY <2>1, <2>9, <2>10, <2>16 DEF DeleteCommands, LcmMoving
    <3>2. Fed(tmq, tmq', v, TmActions \ TmMoves)
      BY <2>1, <2>11, <2>16 DEF DeleteTransfers, LcmMoving
    <3>3. LcmPlain(v)
      BY <2>2, <3>1, <3>2 DEF LcmPlain
    <3> QED
      BY <1>1, <2>14, <3>3, LcmSideRecords
  <2> QED
    BY <2>15, <2>16
<1> QED
  BY <1>2, <1>3

LEMMA LcmAnswerRecords ==
  ASSUME CoreAssumption, TypeOK, RecordsExist, NEW v \in VMs,
         \/ LcmSaveSuccess(v) \/ LcmSaveFailure(v) \/ LcmDeploySuccess(v)
         \/ LcmDeployFailure(v) \/ LcmShutdownSuccess(v)
         \/ LcmShutdownFailure(v) \/ LcmPrologSuccess(v)
         \/ LcmPrologFailure(v) \/ LcmEpilogSuccess(v) \/ LcmEpilogFailure(v)
         \/ LcmCancelSuccess(v) \/ LcmCancelFailure(v) \/ LcmMonitorFailure(v)
         \/ LcmMonitorSuspend(v) \/ LcmMonitorDone(v)
  PROVE  RecordsExist'
<1> USE DEF historyVars
<1>1. ASSUME NEW action, LcmTakes(v, action), UNCHANGED lcmVars
      PROVE  RecordsExist'
  BY <1>1, LcmPieces, LcmSideRecords
<1> DEFINE KeepsOthers == \A w \in VMs \ {v} : cur'[w] = cur[w] /\ prev'[w] = prev[w]
           KeepsRecords == /\ HasHistory(v) => HasHistory(v)'
                           /\ HasHistory(v) /\ HasPreviousHistory(v)
                                => HasPreviousHistory(v)'
           SetsLcm == \/ UNCHANGED lcm
                      \/ \E s \in LcmStates \ LcmMoving : SetLcm(v, s)
           FeedsDm == \/ UNCHANGED dmq
                      \/ \E a \in DmActions : dmq' = Trigger(dmq, a, v)
           FeedsVmm == \/ UNCHANGED vmmq
                       \/ \E a \in VmmActions \ VmmMoves :
                            vmmq' = Trigger(vmmq, a, v)
           FeedsTm == \/ UNCHANGED tmq
                      \/ \E a \in TmActions \ TmMoves : tmq' = Trigger(tmq, a, v)
<1>2. ASSUME NEW action, LcmTakes(v, action), KeepsOthers, KeepsRecords,
             SetsLcm, FeedsDm, FeedsVmm, FeedsTm
      PROVE  RecordsExist'
  <2>1. /\ Fed(dmq, dmq', v, DmActions)
        /\ Fed(vmmq, vmmq', v, VmmActions)
        /\ Fed(vmmq, vmmq', v, VmmActions \ VmmMoves)
    BY <1>2, FedAll, LcmTriggers
  <2>2. Fed(tmq, tmq', v, TmActions) /\ Fed(tmq, tmq', v, TmActions \ TmMoves)
    BY <1>2, FedAll, LcmTriggers
  <2>3. /\ \A w \in VMs \ {v} : lcm'[w] = lcm[w]
        /\ lcm'[v] = lcm[v] \/ lcm'[v] \notin LcmMoving
    BY <1>2, LcmPieces
  <2>4. LcmSide(v) /\ LcmPlain(v)
    BY <1>2, <2>1, <2>2, <2>3 DEF LcmSide, LcmPlain
  <2> QED
    BY <1>2, <2>4, LcmSideRecords
<1>3. UNCHANGED historyVars => KeepsOthers /\ KeepsRecords
  BY DEF HasHistory, HasPreviousHistory
<1>4. ASSUME NEW r, SetReason(v, r), UNCHANGED prev
      PROVE  KeepsOthers /\ KeepsRecords
  BY <1>4, LcmPieces DEF HasPreviousHistory
<1>5. ASSUME NEW r, SetPreviousReason(v, r), UNCHANGED cur
      PROVE  KeepsOthers /\ KeepsRecords
  BY <1>5, LcmPieces DEF HasHistory
<1>6. {"RUNNING", "BOOT", "EPILOG", "EPILOG_STOP", "FAILURE", "UNKNOWN"}
        \subseteq LcmStates \ LcmMoving
  BY DEF LcmStates, LcmMoving
<1>7. {"POLL", "DEPLOY", "RESTORE"} \subseteq VmmActions \ VmmMoves
  BY DEF VmmActions, VmmMoves
<1>8. {"EPILOG", "EPILOG_STOP", "EPILOG_DELETE"} \subseteq TmActions \ TmMoves
  BY DEF TmActions, TmMoves
<1>9. DmActions = {"SUSPEND_SUCCESS", "STOP_SUCCESS", "DONE", "FAILED"}
  BY DEF DmActions
<1>10. ASSUME NEW r, NEW outcome \in DmActions, LeaveHost(v, r, outcome)
       PROVE  KeepsOthers /\ KeepsRecords /\ FeedsDm
  BY <1>4, <1>10 DEF LeaveHost
<1>11. ASSUME NEW action, LcmTakes(v, action), FailureAction(v)
       PROVE  RecordsExist'
  <2>1. SetsLcm /\ FeedsVmm /\ FeedsTm
    BY <1>6, <1>8, <1>11 DEF FailureAction
  <2>2. KeepsOthers /\ KeepsRecords /\ FeedsDm
    BY <1>9, <1>10, <1>11 DEF FailureAction
  <2> QED
    BY <1>2, <1>11, <2>1, <2>2
<1>12. ASSUME BackToRunning(v)
       PROVE  SetsLcm /\ FeedsDm /\ FeedsVmm /\ FeedsTm
  BY <1>6, <1>7, <1>12 DEF BackToRunning
<1>13. ASSUME NEW action, LcmTakes(v, action), MigrationFailed(v)
       PROVE  RecordsExist'
  <2>1. KeepsOthers /\ KeepsRecords
    <3>1. CASE HasPreviousHistory(v)
      <4>. prev[v].hid \in Hosts \cup {NoHost} /\ prev[v].hid # NoHost
        BY <3>1 DEF TypeOK, Records, HasPreviousHistory
      <4>. PushRecord(v, prev[v].hid, "ERROR")
        BY <1>13, <3>1 DEF MigrationFailed, CpPreviousHistory
      <4> QED
        BY PushRecordExists
    <3>2. CASE ~ HasPreviousHistory(v)
      BY <1>4, <1>13, <3>2 DEF MigrationFailed, CpPreviousHistory
    <3> QED
      BY <3>1, <3>2
  <2> QED
    BY <1>2, <1>12, <1>13, <2>1 DEF MigrationFailed
<1>14. ASSUME NEW action, LcmTakes(v, action), BackToRunning(v),
              UNCHANGED <<historyVars, usage>>
       PROVE  RecordsExist'
  BY <1>2, <1>3, <1>12, <1>14
<1>15. ASSUME LcmPrologFailure(v) \/ LcmEpilogFailure(v)
              \/ LcmMonitorFailure(v)
       PROVE  RecordsExist'
  BY <1>11, <1>15 DEF LcmPrologFailure, LcmEpilogFailure, LcmMonitorFailure
<1>16. ASSUME LcmSaveSuccess(v)
       PROVE  RecordsExist'
  <2>1. LcmTakes(v, "SAVE_SUCCESS")
    BY <1>16 DEF LcmSaveSuccess
  <2>2. CASE lcm[v] = "SAVE_MIGRATE"
    <3>1. /\ SetLcm(v, "PROLOG_MIGRATE") /\ SetPreviousReason(v, "USER")
          /\ tmq' = Trigger(tmq, "PROLOG_MIGR", v)
          /\ UNCHANGED <<cur, dmq, vmmq>>
      BY <1>16, <2>2 DEF LcmSaveSuccess
    <3>2. Fed(tmq, tmq', v, TmActions)
      BY <3>1, LcmTriggers DEF TmActions
    <3>3. /\ Fed(dmq, dmq', v, DmActions) /\ Fed(vmmq, vmmq', v, VmmActions)
          /\ \A w \in VMs \ {v} : lcm'[w] = lcm[w]
      BY <3>1, FedAll, LcmPieces
    <3>4. LcmSide(v)
      BY <1>5, <3>1, <3>2, <3>3 DEF LcmSide
    <3>5. NeedsPreviousRecord(v)
      BY <2>2 DEF NeedsPreviousRecord
    <3> QED
      BY <2>1, <3>4, <3>5, LcmSideRecords
  <2>3. CASE lcm[v] = "SAVE_SUSPEND"
    <3>1. LeaveHost(v, "STOP_RESUME", "SUSPEND_SUCCESS")
          /\ UNCHANGED <<lcm, vmmq, tmq>>
      BY <1>16, <2>3 DEF LcmSaveSuccess
    <3> QED
      BY <1>2, <1>9, <1>10, <2>1, <3>1
  <2>4. CASE lcm[v] = "SAVE_STOP"
    <3>1. /\ SetLcm(v, "EPILOG_STOP") /\ SetReason(v, "STOP_RESUME")
          /\ tmq' = Trigger(tmq, "EPILOG_STOP", v)
          /\ UNCHANGED <<prev, usage, dmq, vmmq>>
      BY <1>16, <2>4 DEF LcmSaveSuccess
    <3> QED
      BY <1>2, <1>4, <1>6, <1>8, <2>1, <3>1
  <2> QED
    BY <1>1, <1>16, <2>1, <2>2, <2>3, <2>4 DEF LcmSaveSuccess
<1>17. ASSUME LcmSaveFailure(v)
       PROVE  RecordsExist'
  BY <1>1, <1>13, <1>14, <1>17 DEF LcmSaveFailure
<1>18. ASSUME LcmDeploySuccess(v)
       PROVE  RecordsExist'
  <2>1. LcmTakes(v, "DEPLOY_SUCCESS") /\ SetsLcm
    BY <1>6, <1>18 DEF LcmDeploySuccess
  <2>2. KeepsOthers /\ KeepsRecords
    BY <1>3, <1>5, <1>18 DEF LcmDeploySuccess
  <2> QED
    BY <1>2, <1>18, <2>1, <2>2 DEF LcmDeploySuccess
<1>19. ASSUME LcmDeployFailure(v)
       PROVE  RecordsExist'
  BY <1>1, <1>11, <1>13, <1>19 DEF LcmDeployFailure
<1>20. ASSUME LcmShutdownSuccess(v)
       PROVE  RecordsExist'
  BY <1>2, <1>3, <1>6, <1>8, <1>20 DEF LcmShutdownSuccess
<1>21. ASSUME LcmShutdownFailure(v) \/ LcmCancelFailure(v)
       PROVE  RecordsExist'
  BY <1>14, <1>21 DEF LcmShutdownFailure, LcmCancelFailure
<1>22. ASSUME LcmPrologSuccess(v)
       PROVE  RecordsExist'
  <2>1. LcmTakes(v, "PROLOG_SUCCESS")
    BY <1>22 DEF LcmPrologSuccess
  <2>2. CASE UNCHANGED lcmVars
    BY <1>1, <2>1, <2>2
  <2>3. CASE ~ UNCHANGED lcmVars
    <3>1. /\ SetLcm(v, "BOOT")
          /\ \E a \in {"DEPLOY", "RESTORE"} : vmmq' = Trigger(vmmq, a, v)
          /\ UNCHANGED <<historyVars, usage, dmq, tmq>>
      BY <1>22, <2>3 DEF LcmPrologSuccess
    <3> QED
      BY <1>2, <1>3, <1>6, <1>7, <2>1, <3>1
  <2> QED
    BY <2>2, <2>3
<1>23. ASSUME LcmEpilogSuccess(v)
       PROVE  RecordsExist'
  <2>1. LcmTakes(v, "EPILOG_SUCCESS")
    BY <1>23 DEF LcmEpilogSuccess
  <2>2. CASE UNCHANGED lcmVars
    BY <1>1, <2>1, <2>2
  <2>3. CASE ~ UNCHANGED lcmVars
    <3>1. /\ \E outcome \in {"DONE", "STOP_SUCCESS"} :
               LeaveHost(v, cur[v].reason, outcome)
          /\ UNCHANGED <<lcm, vmmq, tmq>>
      BY <1>23, <2>3 DEF LcmEpilogSuccess
    <3> QED
      BY <1>2, <1>9, <1>10, <2>1, <3>1
  <2> QED
    BY <2>2, <2>3
<1>24. ASSUME LcmCancelSuccess(v) \/ LcmMonitorSuspend(v)
       PROVE  RecordsExist'
  BY <1>2, <1>9, <1>10, <1>24 DEF LcmCancelSuccess, LcmMonitorSuspend
<1>25. ASSUME LcmMonitorDone(v)
       PROVE  RecordsExist'
  BY <1>2, <1>3, <1>6, <1>25 DEF LcmMonitorDone
<1> QED
  BY <1>15, <1>16, <1>17, <1>18, <1>19, <1>20, <1>21, <1>22, <1>23, <1>24,
     <1>25

-----------------------------------------------------------------------------
(* The theorem                                                             *)

LEMMA CancelTriggerRecords ==
  ASSUME CoreAssumption, TypeOK, RecordsExist, NEW v \in VMs, CancelTrigger(v)
  PROVE  RecordsExist'
<1> USE DEF stateVars, historyVars, driverVars
<1>1. "CANCEL" \in LcmActions \ LcmMoves
  BY DEF LcmActions, LcmMoves
<1>2. /\ Fed(lcmq, lcmq', v, LcmActions)
      /\ Fed(lcmq, lcmq', v, LcmActions \ LcmMoves)
  BY <1>1, FedOnce DEF CancelTrigger, TypeOK
<1>3. NeedsRecord(v)
  BY DEF CancelTrigger, NeedsRecord
<1>4. Touches(v)
  BY <1>2, FedAll DEF CancelTrigger, Touches, HasHistory, HasPreviousHistory
<1>5. Plain(v)
  BY <1>2, FedAll DEF CancelTrigger, Plain
<1> QED
  BY <1>3, <1>4, <1>5, GoesOn

LEMMA InitRecords == ASSUME Init PROVE RecordsExist
BY DEF Init, RecordsExist, NeedsRecord, NeedsPreviousRecord, Mentions, Asked,
       HasHistory, HasPreviousHistory, NoRecord, NewRecord

LEMMA StepRecords == TypeOK /\ RecordsExist /\ [Next]_vars => RecordsExist'
<1> SUFFICES ASSUME TypeOK, RecordsExist, [Next]_vars
             PROVE  RecordsExist'
  OBVIOUS
<1>1. ASSUME NEW v \in VMs, Request(v)
      PROVE  RecordsExist'
  BY <1>1, RequestRecords, CoreAssumption
<1>2. ASSUME NEW v \in VMs, CancelTrigger(v)
      PROVE  RecordsExist'
  BY <1>2, CancelTriggerRecords, CoreAssumption
<1>3. ASSUME NEW v \in VMs, LcmStep(v)
      PROVE  RecordsExist'
  BY <1>3, LcmActionRecords, LcmDeleteRecords, LcmAnswerRecords,
     CoreAssumption DEF LcmStep
<1>4. ASSUME NEW v \in VMs, ManagerStep(v)
      PROVE  RecordsExist'
  BY <1>3, <1>4, DmRecords, VmmRecords, TmRecords, CoreAssumption
     DEF ManagerStep
<1>5. ASSUME NEW v \in VMs, DriverStep(v) \/ VmmTimer(v)
      PROVE  RecordsExist'
  BY <1>5, DriverRecords, CoreAssumption
<1>6. CASE UNCHANGED vars
  <2>. UNCHANGED <<state, lcm, cur, prev, dmq, lcmq, vmmq, tmq, commands,
                   transfers, cancelling>>
    BY <1>6 DEF vars
  <2> QED
    BY DEF RecordsExist, NeedsRecord, NeedsPreviousRecord, Mentions, Asked,
           HasHistory, HasPreviousHistory
<1> QED
  BY <1>1, <1>2, <1>4, <1>5, <1>6 DEF Next

\* In every interleaving of clients, managers and drivers, with any database
\* errors, a handler that dereferences the current or the previous history
\* record of its VM (get_hid, get_previous_hid, set_reason, ...) finds it.
THEOREM RecordsAlwaysExist == Spec => []RecordsExist
<1>1. Init => RecordsExist
  BY InitRecords
<1> QED
  BY <1>1, StepRecords, TypeCorrect, PTL DEF Spec

-----------------------------------------------------------------------------
(* The end of a virtual machine                                            *)
(*                                                                         *)
(* FAILED and DONE are final but for one another, and a VM that is done    *)
(* holds no leases.  Only requests and the Dispatch Manager change states  *)
(* and leases; the others leave both alone (KeepsStates).                  *)

Finished == {"FAILED", "DONE"}

KeepsStates == UNCHANGED <<state, leases>>

\* The state of v becomes s, and the states of the others stay.
Becomes(v, s) == state' = [state EXCEPT ![v] = s]

\* No other manager, driver or timer changes the state or the leases of a VM.
LEMMA OthersKeepStates ==
  ASSUME NEW v \in VMs,
         \/ CancelTrigger(v) \/ LcmStep(v) \/ VmmStep(v) \/ TmStep(v)
         \/ VmmTimer(v) \/ DriverStep(v)
  PROVE  KeepsStates
<1> USE DEF KeepsStates, stateVars
<1>1. ASSUME NEW action, LcmTakes(v, action)
      PROVE  KeepsStates
  BY <1>1 DEF LcmTakes
<1>2. ASSUME LcmStep(v)
      PROVE  \E action : LcmTakes(v, action)
  <2>1. ASSUME NEW action, NEW s, NEW command,
               \/ LcmCommand(v, action, s, command)
               \/ LcmMove(v, action, s, command)
        PROVE  LcmTakes(v, action)
    BY <2>1 DEF LcmCommand, LcmMove
  <2>2. CASE \/ LcmSuspend(v) \/ LcmStop(v) \/ LcmShutdown(v) \/ LcmCancel(v)
             \/ LcmMigrate(v) \/ LcmLiveMigrate(v)
    BY <2>1, <2>2 DEF LcmSuspend, LcmStop, LcmShutdown, LcmCancel, LcmMigrate,
                      LcmLiveMigrate
  <2>3. CASE LcmDeploy(v) \/ LcmRestore(v) \/ LcmRestart(v) \/ LcmDelete(v)
    BY <2>3 DEF LcmDeploy, LcmRestore, LcmRestart, LcmDelete
  <2>4. CASE \/ LcmSaveSuccess(v) \/ LcmSaveFailure(v) \/ LcmDeploySuccess(v)
             \/ LcmDeployFailure(v) \/ LcmShutdownSuccess(v)
             \/ LcmShutdownFailure(v) \/ LcmPrologSuccess(v)
             \/ LcmPrologFailure(v)
    BY <2>4 DEF LcmSaveSuccess, LcmSaveFailure, LcmDeploySuccess,
                LcmDeployFailure, LcmShutdownSuccess, LcmShutdownFailure,
                LcmPrologSuccess, LcmPrologFailure
  <2>5. CASE \/ LcmEpilogSuccess(v) \/ LcmEpilogFailure(v)
             \/ LcmCancelSuccess(v) \/ LcmCancelFailure(v)
             \/ LcmMonitorFailure(v) \/ LcmMonitorSuspend(v)
             \/ LcmMonitorDone(v)
    BY <2>5 DEF LcmEpilogSuccess, LcmEpilogFailure, LcmCancelSuccess,
                LcmCancelFailure, LcmMonitorFailure, LcmMonitorSuspend,
                LcmMonitorDone
  <2> QED
    BY <1>2, <2>2, <2>3, <2>4, <2>5 DEF LcmStep
<1>3. CASE VmmStep(v)
  <2>1. \E action : VmmTakes(v, action)
    BY <1>3 DEF VmmStep, VmmDeploy, VmmSave, VmmShutdown, VmmCancel,
                VmmCancelPrevious, VmmMigrate, VmmRestore, VmmPoll,
                VmmDriverCancel
  <2> QED
    BY <2>1 DEF VmmTakes
<1>4. CASE TmStep(v)
  <2>1. \E action : TmTakes(v, action)
    BY <1>4 DEF TmStep, TmProlog, TmEpilog, TmEpilogDelete,
                TmEpilogDeletePrevious, TmSend, TmDriverCancel
  <2> QED
    BY <2>1 DEF TmTakes
<1>5. CASE DriverStep(v)
  BY <1>5 DEF DriverStep, VmmAnswer, PollAnswer, TmAnswer, Answered
<1> QED
  BY <1>1, <1>2, <1>3, <1>4, <1>5 DEF CancelTrigger, VmmTimer

\* How a request changes the state and the leases of its VM.
LEMMA RequestStates ==
  ASSUME NEW v \in VMs, Request(v)
  PROVE  \/ KeepsStates
         \/ /\ state[v] = "INIT"
            /\ \E s \in {"PENDING", "HOLD"} : Becomes(v, s)
            /\ leases' = [leases EXCEPT ![v] = @ + 1]
         \/ /\ state[v] \in {"PENDING", "HOLD", "STOPPED", "SUSPENDED"}
            /\ \E s \in {"PENDING", "HOLD", "ACTIVE"} : Becomes(v, s)
            /\ leases' = leases
         \/ /\ state[v] \in Disposable
            /\ Becomes(v, "DONE")
            /\ leases' = [leases EXCEPT ![v] = @ - 1]
<1> USE DEF KeepsStates, Becomes, stateVars
<1>1. ASSUME NEW first \in {"PENDING", "HOLD"}, Allocate(v, first)
      PROVE  /\ state[v] = "INIT"
             /\ \E s \in {"PENDING", "HOLD"} : Becomes(v, s)
             /\ leases' = [leases EXCEPT ![v] = @ + 1]
  BY <1>1 DEF Allocate
<1>2. ASSUME NEW h \in Hosts, Deploy(v, h)
      PROVE  \/ KeepsStates
             \/ /\ state[v] = "PENDING"
                /\ Becomes(v, "ACTIVE")
                /\ leases' = leases
  BY <1>2 DEF Deploy, HistoryNotWritten
<1>3. ASSUME NEW h \in Hosts, NEW live \in BOOLEAN, Migrate(v, h, live)
      PROVE  KeepsStates
  BY <1>3 DEF Migrate, AskLcm, HistoryNotWritten
<1>4. CASE Stop(v) \/ Suspend(v) \/ Shutdown(v) \/ Cancel(v) \/ Restart(v)
           \/ FinalizeActive(v)
  BY <1>4 DEF Stop, Suspend, Shutdown, RunningAction, Cancel, Restart,
              FinalizeActive, AskLcm
<1>5. CASE Hold(v) \/ Release(v) \/ ResumeStopped(v)
  BY <1>5 DEF Hold, Release, ResumeStopped, ChangeState
<1>6. CASE ResumeSuspended(v)
  BY <1>6 DEF ResumeSuspended
<1>7. CASE FinalizeIdle(v)
  BY <1>7 DEF FinalizeIdle
<1> QED
  BY <1>1, <1>2, <1>3, <1>4, <1>5, <1>6, <1>7 DEF Request

\* How the Dispatch Manager does.
LEMMA DmStates ==
  ASSUME NEW v \in VMs, DmStep(v)
  PROVE  \/ KeepsStates
         \/ /\ state[v] = "ACTIVE"
            /\ \E s \in {"SUSPENDED", "STOPPED"} : Becomes(v, s)
            /\ leases' = leases
         \/ /\ state[v] = "ACTIVE"
            /\ Becomes(v, "DONE")
            /\ leases' = [leases EXCEPT ![v] = @ - 1]
         \/ Becomes(v, "FAILED") /\ leases' = leases
BY DEF DmStep, DmSuspendSuccess, DmStopSuccess, DmDone, DmFailed, Become,
       NotActive, IsActive, KeepsStates, Becomes, stateVars

\* Every step, of whatever VM, keeps states and leases or is one of those.
LEMMA NextStates ==
  ASSUME [Next]_vars
  PROVE  \/ KeepsStates
         \/ \E v \in VMs : Request(v) \/ DmStep(v)
<1>1. UNCHANGED vars => KeepsStates
  BY DEF vars, KeepsStates
<1> QED
  BY <1>1, OthersKeepStates DEF Next, ManagerStep

-----------------------------------------------------------------------------
LEMMA StepNoRevival ==
  ASSUME TypeOK, [Next]_vars, NEW v \in VMs, state[v] \in Finished
  PROVE  state'[v] \in Finished
<1>1. CASE KeepsStates
  BY <1>1 DEF KeepsStates
<1>2. ASSUME NEW w \in VMs, NEW s, Becomes(w, s),
             s \in Finished \/ state[w] \notin Finished
      PROVE  state'[v] \in Finished
  BY <1>2 DEF Becomes, TypeOK
<1>3. ASSUME NEW w \in VMs, Request(w) \/ DmStep(w)
      PROVE  state'[v] \in Finished
  BY <1>1, <1>2, <1>3, RequestStates, DmStates DEF Finished
<1> QED
  BY <1>1, <1>3, NextStates

\* Whatever is still queued or answered late for a VM that has failed or is
\* done, no handler and no request makes it anything else again.
THEOREM NeverRevived == Spec => NoRevival
<1>1. TypeOK /\ [Next]_vars
        => [\A v \in VMs : state[v] \in {"FAILED", "DONE"}
                             => state'[v] \in {"FAILED", "DONE"}]_vars
  BY StepNoRevival DEF Finished
<1> QED
  BY <1>1, TypeCorrect, PTL DEF Spec, NoRevival

-----------------------------------------------------------------------------
LEMMA StepNoLeaseLeaks == TypeOK /\ NoLeaseLeaks /\ [Next]_vars => NoLeaseLeaks'
<1> SUFFICES ASSUME TypeOK, NoLeaseLeaks, [Next]_vars
             PROVE  NoLeaseLeaks'
  OBVIOUS
<1>1. CASE KeepsStates
  BY <1>1 DEF KeepsStates, NoLeaseLeaks
<1>2. ASSUME NEW w \in VMs, NEW s, NEW n \in Int, Becomes(w, s),
             leases' = [leases EXCEPT ![w] = n],
             n <= IF s \in {"INIT", "DONE"} THEN 0 ELSE 1
      PROVE  NoLeaseLeaks'
  BY <1>2 DEF Becomes, TypeOK, NoLeaseLeaks
<1>3. ASSUME NEW w \in VMs, Request(w) \/ DmStep(w)
      PROVE  NoLeaseLeaks'
  <2>1. /\ leases[w] \in Int
        /\ leases[w] <= 1
        /\ state[w] \in {"INIT", "DONE"} => leases[w] <= 0
        /\ leases = [leases EXCEPT ![w] = leases[w]]
    BY DEF TypeOK, NoLeaseLeaks
  <2>2. CASE /\ state[w] = "INIT"
             /\ \E s \in {"PENDING", "HOLD"} : Becomes(w, s)
             /\ leases' = [leases EXCEPT ![w] = @ + 1]
    <3> DEFINE n == leases[w] + 1
    <3>1. n \in Int /\ n <= 1
      BY <2>1, <2>2
    <3>2. leases' = [leases EXCEPT ![w] = n]
      BY <2>2
    <3> HIDE DEF n
    <3> QED
      BY <1>2, <2>2, <3>1, <3>2
  <2>3. CASE /\ \E s \in {"PENDING", "HOLD", "ACTIVE", "SUSPENDED", "STOPPED",
                          "FAILED"} : Becomes(w, s)
             /\ leases' = leases
    BY <1>2, <2>1, <2>3
  <2>4. CASE /\ Becomes(w, "DONE")
             /\ leases' = [leases EXCEPT ![w] = @ - 1]
    <3> DEFINE n == leases[w] - 1
    <3>1. n \in Int /\ n <= 0
      BY <2>1
    <3>2. leases' = [leases EXCEPT ![w] = n]
      BY <2>4
    <3> HIDE DEF n
    <3> QED
      BY <1>2, <2>4, <3>1, <3>2
  <2>5. CASE Request(w)
    BY <1>1, <2>2, <2>3, <2>4, <2>5, RequestStates
  <2>6. CASE DmStep(w)
    BY <1>1, <2>3, <2>4, <2>6, DmStates
  <2> QED
    BY <1>3, <2>5, <2>6
<1> QED
  BY <1>1, <1>3, NextStates

\* A VM holds its leases once, and none of them when it is done, whatever
\* order its end and late failures are handled in.
THEOREM LeasesNeverLeak == Spec => []NoLeaseLeaks
<1>1. Init => NoLeaseLeaks
  BY DEF Init, NoLeaseLeaks
<1> QED
  BY <1>1, StepNoLeaseLeaks, TypeCorrect, PTL DEF Spec

-----------------------------------------------------------------------------
(* Where a VM stands                                                       *)
(*                                                                         *)
(* When clients and drivers find the managers settled, a VM is at one      *)
(* place at a time: at rest, in one entry of one queue, in the hands of    *)
(* one driver, on its way out, or over.  What is charged for it, where it  *)
(* runs and whether it holds its leases follow from the place.             *)

\* A restart sends a VM in BOOT a second DEPLOY, and a record that could not
\* be written leaves a VM on a host it does not run on.
Steady == FastManagers /\ ~ DbFails /\ "restart" \notin Api

\* The one entry of q for v asks for op.
Only(q, v, op) ==
  \E i \in DOMAIN q : /\ q[i] = [op |-> op, vm |-> v]
                      /\ \A j \in DOMAIN q : q[j].vm = v => j = i

\* Nothing but ops is asked for v.
Just(q, v, ops) == \A i \in DOMAIN q : q[i].vm = v => q[i].op \in ops

\* At most one element of s is in P.
Lone(s, P) == \A i, j \in DOMAIN s : s[i] \in P /\ s[j] \in P => i = j

\* The entries of p for w are those of q.
SameFor(q, p, w) ==
  /\ Mentions(p, w) <=> Mentions(q, w)
  /\ \A op : Only(p, w, op) <=> Only(q, w, op)
  /\ \A ops : Just(p, w, ops) <=> Just(q, w, ops)
  /\ \A ops : Asked(p, ops, w) <=> Asked(q, ops, w)

LEMMA TriggerIs ==
  ASSUME NEW A, NEW q \in Seq(Entries(A)), NEW a \in A, NEW v \in VMs
  PROVE  LET p == Trigger(q, a, v) IN
         /\ DOMAIN q = 1..Len(q) /\ Len(q) \in Nat
         /\ DOMAIN p = 1..(Len(q) + 1)
         /\ p[Len(q) + 1] = [op |-> a, vm |-> v]
         /\ \A i \in DOMAIN q : p[i] = q[i]
BY DEF Trigger

LEMMA TriggerFor ==
  ASSUME NEW A, NEW q \in Seq(Entries(A)), NEW a \in A, NEW v \in VMs
  PROVE  /\ Mentions(Trigger(q, a, v), v)
         /\ ~ Mentions(q, v) => Only(Trigger(q, a, v), v, a)
         /\ \A ops : a \in ops /\ Just(q, v, ops) => Just(Trigger(q, a, v), v, ops)
         /\ \A w \in VMs \ {v} : SameFor(q, Trigger(q, a, v), w)
<1> DEFINE p == Trigger(q, a, v)
           n == Len(q) + 1
<1>1. /\ DOMAIN q = 1..Len(q) /\ Len(q) \in Nat /\ DOMAIN p = 1..n
      /\ p[n] = [op |-> a, vm |-> v] /\ \A i \in DOMAIN q : p[i] = q[i]
  BY TriggerIs
<1> HIDE DEF p
<1>2. n \in DOMAIN p /\ n \notin DOMAIN q /\ \A i \in DOMAIN p : i = n \/ i \in DOMAIN q
  BY <1>1
<1>3. \A i \in DOMAIN q : i \in DOMAIN p
  BY <1>1
<1> HIDE DEF n
<1>4. Mentions(p, v)
  BY <1>1, <1>2 DEF Mentions
<1>5. ~ Mentions(q, v) => Only(p, v, a)
  BY <1>1, <1>2 DEF Mentions, Only
<1>6. ASSUME NEW ops, a \in ops, Just(q, v, ops) PROVE Just(p, v, ops)
  BY <1>1, <1>2, <1>6 DEF Just
<1>7. ASSUME NEW w \in VMs \ {v} PROVE SameFor(q, p, w)
  <2>1. \A i \in DOMAIN p : p[i].vm = w => i \in DOMAIN q /\ p[i] = q[i]
    BY <1>1, <1>2
  <2>2. Mentions(p, w) <=> Mentions(q, w)
    BY <1>1, <1>3, <2>1 DEF Mentions
  <2>3. ASSUME NEW op PROVE Only(p, w, op) <=> Only(q, w, op)
    BY <1>1, <1>3, <2>1 DEF Only
  <2>4. ASSUME NEW ops PROVE Just(p, w, ops) <=> Just(q, w, ops)
    BY <1>1, <1>3, <2>1 DEF Just
  <2>5. ASSUME NEW ops PROVE Asked(p, ops, w) <=> Asked(q, ops, w)
    BY <1>1, <1>3, <2>1 DEF Asked
  <2> QED
    BY <2>2, <2>3, <2>4, <2>5 DEF SameFor
<1> QED
  BY <1>4, <1>5, <1>6, <1>7 DEF p

LEMMA TailFor ==
  ASSUME NEW A, NEW q \in Seq(Entries(A)), NEW a, NEW v \in VMs, IsNext(q, a, v)
  PROVE  /\ Mentions(q, v)
         /\ \A op : Only(q, v, op) => op = a /\ ~ Mentions(Tail(q), v)
         /\ \A ops : Just(q, v, ops) => a \in ops /\ Just(Tail(q), v, ops)
         /\ \A w \in VMs \ {v} : SameFor(q, Tail(q), w)
<1> DEFINE p == Tail(q)
<1>1. /\ Len(q) \in Nat \ {0} /\ DOMAIN q = 1..Len(q) /\ q[1] = [op |-> a, vm |-> v]
      /\ DOMAIN p = 1..(Len(q) - 1) /\ \A i \in 1..(Len(q) - 1) : p[i] = q[i + 1]
  BY EmptySeq, HeadTailProperties DEF IsNext
<1> HIDE DEF p
<1>2. \A i \in DOMAIN p : i + 1 \in DOMAIN q /\ p[i] = q[i + 1] /\ i + 1 # 1
  BY <1>1
<1>3. \A i \in DOMAIN q : i = 1 \/ (i - 1 \in DOMAIN p /\ p[i - 1] = q[i])
  BY <1>1
<1>4. 1 \in DOMAIN q /\ \A i, j \in DOMAIN p : i + 1 = j + 1 => i = j
  BY <1>1
<1>5. Mentions(q, v)
  BY <1>1, <1>4 DEF Mentions
<1>6. ASSUME NEW op, Only(q, v, op) PROVE op = a /\ ~ Mentions(p, v)
  <2>1. PICK i \in DOMAIN q : q[i] = [op |-> op, vm |-> v] /\ \A j \in DOMAIN q : q[j].vm = v => j = i
    BY <1>6 DEF Only
  <2>2. i = 1
    BY <1>1, <1>4, <2>1
  <2>3. op = a
    BY <1>1, <2>1, <2>2
  <2>4. ASSUME NEW j \in DOMAIN p PROVE p[j].vm # v
    BY <1>2, <2>1, <2>2
  <2> QED
    BY <2>3, <2>4 DEF Mentions
<1>7. ASSUME NEW ops, Just(q, v, ops) PROVE a \in ops /\ Just(p, v, ops)
  BY <1>1, <1>2, <1>4, <1>7 DEF Just
<1>8. ASSUME NEW w \in VMs \ {v} PROVE SameFor(q, p, w)
  <2>1. \A i \in DOMAIN q : q[i].vm = w => i - 1 \in DOMAIN p /\ p[i - 1] = q[i] /\ i # 1
    BY <1>1, <1>3
  <2>2. Mentions(p, w) <=> Mentions(q, w)
    BY <1>2, <2>1 DEF Mentions
  <2>3. ASSUME NEW op PROVE Only(p, w, op) <=> Only(q, w, op)
    <3>1. ASSUME Only(p, w, op) PROVE Only(q, w, op)
      <4>1. PICK i \in DOMAIN p : p[i] = [op |-> op, vm |-> w] /\ \A j \in DOMAIN p : p[j].vm = w => j = i
        BY <3>1 DEF Only
      <4>2. ASSUME NEW j \in DOMAIN q, q[j].vm = w PROVE j = i + 1
        <5>1. j - 1 \in DOMAIN p /\ p[j - 1] = q[j]
          BY <2>1, <4>2
        <5>2. j - 1 = i
          BY <4>1, <4>2, <5>1
        <5> QED
          BY <1>1, <5>2
      <4> QED
        BY <1>2, <4>1, <4>2 DEF Only
    <3>2. ASSUME Only(q, w, op) PROVE Only(p, w, op)
      <4>1. PICK i \in DOMAIN q : q[i] = [op |-> op, vm |-> w] /\ \A j \in DOMAIN q : q[j].vm = w => j = i
        BY <3>2 DEF Only
      <4>2. i - 1 \in DOMAIN p /\ p[i - 1] = q[i]
        BY <2>1, <4>1
      <4>3. ASSUME NEW j \in DOMAIN p, p[j].vm = w PROVE j = i - 1
        <5>1. j + 1 = i
          BY <1>2, <4>1, <4>3
        <5> QED
          BY <1>1, <5>1
      <4> QED
        BY <4>1, <4>2, <4>3 DEF Only
    <3> QED
      BY <3>1, <3>2
  <2>4. ASSUME NEW ops PROVE Just(p, w, ops) <=> Just(q, w, ops)
    BY <1>2, <2>1 DEF Just
  <2>5. ASSUME NEW ops PROVE Asked(p, ops, w) <=> Asked(q, ops, w)
    BY <1>2, <2>1 DEF Asked
  <2> QED
    BY <2>2, <2>3, <2>4, <2>5 DEF SameFor
<1> QED
  BY <1>5, <1>6, <1>7, <1>8 DEF p

\* What the one entry for a VM says of the queue.
LEMMA OnlyFor ==
  ASSUME NEW q, NEW v
  PROVE  /\ \A op : Only(q, v, op) => Mentions(q, v) /\ \A ops : Asked(q, ops, v) <=> op \in ops
         /\ ~ Mentions(q, v) => (\A ops : ~ Asked(q, ops, v) /\ Just(q, v, ops)) /\ \A op : ~ Only(q, v, op)
         /\ SameFor(q, q, v)
         /\ \A op, ops : Only(q, v, op) /\ op \in ops => Just(q, v, ops)
<1>1. ASSUME NEW op, Only(q, v, op)
      PROVE  Mentions(q, v) /\ \A ops : Asked(q, ops, v) <=> op \in ops
  <2>1. PICK i \in DOMAIN q : q[i] = [op |-> op, vm |-> v] /\ \A j \in DOMAIN q : q[j].vm = v => j = i
    BY <1>1 DEF Only
  <2> QED
    BY <2>1 DEF Mentions, Asked
<1>2. ~ Mentions(q, v) => (\A ops : ~ Asked(q, ops, v) /\ Just(q, v, ops)) /\ \A op : ~ Only(q, v, op)
  BY DEF Mentions, Asked, Just, Only
<1>3. SameFor(q, q, v)
  BY DEF SameFor
<1>4. ASSUME NEW op, NEW ops, Only(q, v, op), op \in ops PROVE Just(q, v, ops)
  BY <1>4 DEF Only, Just
<1> QED
  BY <1>1, <1>2, <1>3, <1>4

\* What is left when an element is taken out of a sequence.
LEMMA RemoveAtFor ==
  ASSUME NEW S, NEW s \in Seq(S), NEW i \in DOMAIN s
  PROVE  /\ \A j \in DOMAIN RemoveAt(s, i) :
              \E k \in DOMAIN s : k # i /\ RemoveAt(s, i)[j] = s[k]
         /\ \A P : Lone(s, P) => Lone(RemoveAt(s, i), P)
         /\ \A P : Lone(s, P) /\ s[i] \in P
                     => \A j \in DOMAIN RemoveAt(s, i) : RemoveAt(s, i)[j] \notin P
         /\ Len(RemoveAt(s, i)) = Len(s) - 1
<1> DEFINE a == SubSeq(s, 1, i - 1)
           b == SubSeq(s, i + 1, Len(s))
           r == RemoveAt(s, i)
           K(j) == IF j < i THEN j ELSE j + 1
<1>1. i \in 1..Len(s) /\ Len(s) \in Nat /\ DOMAIN s = 1..Len(s)
  BY LenProperties
<1>2. a \in Seq(S) /\ Len(a) = i - 1 /\ \A j \in 1..(i - 1) : a[j] = s[j]
  BY <1>1, SubSeqProperties
<1>3. b \in Seq(S) /\ Len(b) = Len(s) - i /\ \A j \in 1..(Len(s) - i) : b[j] = s[i + j]
  BY <1>1, SubSeqProperties
<1>4. r = a \o b
  BY DEF RemoveAt
<1> HIDE DEF a, b, r
<1>5. /\ r \in Seq(S) /\ Len(r) = Len(a) + Len(b)
      /\ \A j \in 1..(Len(a) + Len(b)) : r[j] = IF j <= Len(a) THEN a[j] ELSE b[j - Len(a)]
  BY <1>2, <1>3, <1>4, ConcatProperties
<1>6. Len(a) + Len(b) = Len(s) - 1 /\ DOMAIN r = 1..(Len(s) - 1)
  BY <1>1, <1>2, <1>3, <1>5, LenProperties
<1>7. \A j \in DOMAIN r : K(j) \in DOMAIN s /\ K(j) # i /\ r[j] = s[K(j)]
  <2> TAKE j \in DOMAIN r
  <2>1. j \in 1..(Len(s) - 1)
    BY <1>6
  <2>2. CASE j < i
    BY <1>1, <1>2, <1>5, <1>6, <2>1, <2>2
  <2>3. CASE ~ (j < i)
    <3>1. j - (i - 1) \in 1..(Len(s) - i) /\ i + (j - (i - 1)) = j + 1 /\ ~ (j <= i - 1)
      BY <1>1, <2>1, <2>3
    <3>2. r[j] = b[j - (i - 1)]
      BY <1>2, <1>5, <1>6, <2>1, <3>1
    <3>3. b[j - (i - 1)] = s[i + (j - (i - 1))]
      BY <1>3, <3>1
    <3> QED
      BY <1>1, <2>1, <2>3, <3>1, <3>2, <3>3
  <2> QED
    BY <2>2, <2>3
<1>8. \A j, k \in DOMAIN r : K(j) = K(k) => j = k
  BY <1>1, <1>6
<1> HIDE DEF K
<1>9. ASSUME NEW P, Lone(s, P) PROVE Lone(r, P)
  BY <1>7, <1>8, <1>9 DEF Lone
<1>10. ASSUME NEW P, Lone(s, P), s[i] \in P PROVE \A j \in DOMAIN r : r[j] \notin P
  BY <1>7, <1>10 DEF Lone
<1> QED
  BY <1>5, <1>6, <1>7, <1>9, <1>10 DEF r

\* And when one is added.
LEMMA AppendFor ==
  ASSUME NEW S, NEW s \in Seq(S), NEW e
  PROVE  /\ \A i \in DOMAIN Append(s, e) : Append(s, e)[i] = e \/ \E k \in DOMAIN s : Append(s, e)[i] = s[k]
         /\ \A P : Lone(s, P) /\ e \notin P => Lone(Append(s, e), P)
         /\ \A P : (\A k \in DOMAIN s : s[k] \notin P) => Lone(Append(s, e), P)
         /\ Len(Append(s, e)) = Len(s) + 1
<1> DEFINE r == Append(s, e)
           n == Len(s) + 1
<1>1. /\ Len(s) \in Nat /\ DOMAIN s = 1..Len(s) /\ DOMAIN r = 1..n /\ Len(r) = n
      /\ r[n] = e /\ \A i \in 1..Len(s) : r[i] = s[i]
  OBVIOUS
<1> HIDE DEF r
<1>2. \A i \in DOMAIN r : (i = n /\ r[i] = e) \/ (i \in DOMAIN s /\ r[i] = s[i])
  BY <1>1
<1> HIDE DEF n
<1>3. ASSUME NEW P, Lone(s, P), e \notin P PROVE Lone(r, P)
  BY <1>2, <1>3 DEF Lone
<1>4. ASSUME NEW P, \A k \in DOMAIN s : s[k] \notin P PROVE Lone(r, P)
  BY <1>2, <1>4 DEF Lone
<1> QED
  BY <1>1, <1>2, <1>3, <1>4 DEF r, n

-----------------------------------------------------------------------------
(* The places                                                              *)

Here(v)  == cur[v].hid
There(v) == prev[v].hid

Polls   == {c \in Commands : c.op = "POLL"}
Orders  == Commands \ Polls
Placing == {c \in Commands : c.op \in {"DEPLOY", "RESTORE", "MIGRATE"}}

\* The states in which the files of a VM are moved, and the scripts that do.
Filing == {"PROLOG", "PROLOG_MIGRATE", "PROLOG_RESUME", "EPILOG", "EPILOG_STOP"}
FileScripts == {"PROLOG", "PROLOG_MIGR", "PROLOG_RESUME", "EPILOG", "EPILOG_STOP"}

Saving   == {"SAVE_STOP", "SAVE_SUSPEND", "SAVE_MIGRATE"}
TwoHosts == {"MIGRATE", "SAVE_MIGRATE"}

\* What the Virtual Machine Manager is asked for in a state.
Serves(s, op) ==
  \/ s = "BOOT" /\ op \in {"DEPLOY", "RESTORE"}
  \/ s \in Saving /\ op = "SAVE"
  \/ s \in {"MIGRATE", "SHUTDOWN", "CANCEL"} /\ op = s

\* The state in which the Life-cycle Manager is asked for a.
Awaits(s, a) ==
  \/ s = "LCM_INIT" /\ a \in {"DEPLOY", "RESTORE"}
  \/ s = "RUNNING" /\ a \in {"SUSPEND", "STOP", "SHUTDOWN", "CANCEL", "MIGRATE", "LIVE_MIGRATE"}
  \/ s \in {"RUNNING", "UNKNOWN"} /\ a \in {"MONITOR_SUSPEND", "MONITOR_FAILURE", "MONITOR_DONE"}
  \/ s \in Saving /\ a \in {"SAVE_SUCCESS", "SAVE_FAILURE"}
  \/ s \in {"BOOT", "MIGRATE"} /\ a \in {"DEPLOY_SUCCESS", "DEPLOY_FAILURE"}
  \/ s = "SHUTDOWN" /\ a \in {"SHUTDOWN_SUCCESS", "SHUTDOWN_FAILURE"}
  \/ s = "CANCEL" /\ a \in {"CANCEL_SUCCESS", "CANCEL_FAILURE"}
  \/ s \in Filing /\ a \in {"PROLOG_SUCCESS", "PROLOG_FAILURE", "EPILOG_SUCCESS", "EPILOG_FAILURE"}
  \/ s \notin Ignored /\ a = "DELETE"

\* The command the driver works on is the one the state asks for.
Fits(v, c) ==
  /\ Serves(lcm[v], c.op)
  /\ c.at = IF lcm[v] \in TwoHosts THEN There(v) ELSE Here(v)
  /\ lcm[v] = "MIGRATE" => c.to = Here(v)

NoWork(v) ==
  /\ \A i \in DOMAIN commands[v] : commands[v][i] \in Polls
  /\ transfers[v] = <<>>

AtWork(v) ==
  /\ \A i \in DOMAIN commands[v] : commands[v][i] \in Polls \/ Fits(v, commands[v][i])
  /\ Lone(commands[v], Orders)
  /\ transfers[v] = <<>> \/ (lcm[v] \in Filing /\ Len(transfers[v]) = 1)

\* Where an active VM can have a domain.
Home(v) ==
  {h \in Hosts \cup {NoHost} :
     /\ lcm[v] \notin Filing \cup {"LCM_INIT"}
     /\ h = IF lcm[v] \in TwoHosts THEN There(v) ELSE Here(v)}

\* The same, when the Life-cycle Manager is still to be told a.
HomeBefore(v, a) ==
  CASE a \in {"SAVE_SUCCESS", "SHUTDOWN_SUCCESS", "CANCEL_SUCCESS"} -> {}
    [] a \in LcmMoves -> {There(v)}
    [] a \in {"RESTORE", "DEPLOY_SUCCESS"} -> {Here(v)}
    [] OTHER -> Home(v)

NotQueued(v) ==
  /\ ~ Mentions(dmq, v) /\ ~ Mentions(vmmq, v) /\ ~ Mentions(tmq, v)

Resting(v) ==
  /\ state[v] \in {"INIT", "PENDING", "HOLD", "STOPPED", "SUSPENDED"}
  /\ lcm[v] = "LCM_INIT"
  /\ Settled(v) /\ NoWork(v)
  /\ domains[v] \subseteq IF state[v] = "SUSPENDED" THEN {Here(v)} ELSE {}

\* The Life-cycle Manager is asked for a.
AskedFor(v, a) ==
  /\ IsActive(v) /\ Only(lcmq, v, a) /\ NotQueued(v) /\ v \notin cancelling
  /\ Awaits(lcm[v], a)
  /\ domains[v] \subseteq HomeBefore(v, a)
  /\ AtWork(v) /\ (a # "DELETE" => NoWork(v))

\* It is about to be, by cancel.
Cancelling(v) ==
  /\ IsActive(v) /\ lcm[v] = "RUNNING"
  /\ ~ Mentions(lcmq, v) /\ NotQueued(v) /\ v \in cancelling
  /\ NoWork(v) /\ domains[v] \subseteq {Here(v)}

\* The Virtual Machine Manager is.
Ordering(v) ==
  /\ IsActive(v)
  /\ ~ Mentions(lcmq, v) /\ ~ Mentions(dmq, v) /\ ~ Mentions(tmq, v) /\ v \notin cancelling
  /\ \E op \in VmmActions : /\ Only(vmmq, v, op)
                            /\ Serves(lcm[v], op) \/ (op = "POLL" /\ lcm[v] = "RUNNING")
  /\ NoWork(v) /\ domains[v] \subseteq Home(v)

\* The Transfer Manager is.
Moving(v) ==
  /\ IsActive(v) /\ lcm[v] \in Filing
  /\ ~ Mentions(lcmq, v) /\ ~ Mentions(dmq, v) /\ ~ Mentions(vmmq, v) /\ v \notin cancelling
  /\ \E script \in FileScripts : Only(tmq, v, script)
  /\ NoWork(v) /\ domains[v] = {}

\* A driver works for the VM, or the VM runs.
Waiting(v) ==
  /\ IsActive(v) /\ lcm[v] \notin Ignored
  /\ Settled(v) /\ AtWork(v)
  /\ domains[v] \subseteq Home(v)

\* The Dispatch Manager is told that the VM has left its host.
Leaving(v) ==
  /\ IsActive(v)
  /\ ~ Mentions(lcmq, v) /\ ~ Mentions(vmmq, v) /\ ~ Mentions(tmq, v) /\ v \notin cancelling
  /\ \E a \in {"SUSPEND_SUCCESS", "STOP_SUCCESS", "DONE"} :
       /\ Only(dmq, v, a)
       /\ domains[v] \subseteq IF a = "STOP_SUCCESS" THEN {} ELSE {Here(v)}
  /\ NoWork(v)

\* What is left of a VM that is deleted or has failed: commands and scripts
\* that clean up, and what its drivers still work on.
Remains(v) ==
  /\ ~ Mentions(lcmq, v) /\ v \notin cancelling
  /\ Just(vmmq, v, {"DRIVER_CANCEL", "CANCEL", "CANCEL_PREVIOUS"})
  /\ Just(tmq, v, {"DRIVER_CANCEL", "EPILOG_DELETE", "EPILOG_DELETE_PREVIOUS"})
  /\ \E h \in Hosts \cup {NoHost} : domains[v] \subseteq {h}
  /\ Lone(commands[v], Placing)
  /\ \A i \in DOMAIN commands[v] :
       commands[v][i].op \in {"DEPLOY", "RESTORE"} => domains[v] \subseteq {commands[v][i].at}

Ending(v) ==
  /\ IsActive(v) /\ lcm[v] \in {"DELETE", "FAILURE"}
  /\ \E a \in {"DONE", "FAILED"} : Only(dmq, v, a)
  /\ Remains(v)

Over(v) ==
  /\ state[v] \in {"DONE", "FAILED"} /\ lcm[v] = "LCM_INIT"
  /\ ~ Mentions(dmq, v)
  /\ Remains(v)

Placed(v) ==
  \/ Resting(v) \/ (\E a \in LcmActions : AskedFor(v, a)) \/ Cancelling(v)
  \/ Ordering(v) \/ Moving(v) \/ Waiting(v) \/ Leaving(v)
  \/ Ending(v) \/ Over(v)

-----------------------------------------------------------------------------
(* The other VMs                                                           *)

Untouched(w) ==
  /\ state'[w] = state[w] /\ lcm'[w] = lcm[w] /\ leases'[w] = leases[w]
  /\ cur'[w] = cur[w] /\ prev'[w] = prev[w]
  /\ commands'[w] = commands[w] /\ transfers'[w] = transfers[w] /\ domains'[w] = domains[w]
  /\ w \in cancelling' <=> w \in cancelling
  /\ SameFor(dmq, dmq', w) /\ SameFor(lcmq, lcmq', w)
  /\ SameFor(vmmq, vmmq', w) /\ SameFor(tmq, tmq', w)

Apart(v) == \A w \in VMs \ {v} : Untouched(w)

\* A VM that is not touched stays where it is, and is charged as before.
LEMMA UntouchedStays ==
  ASSUME NEW w, Untouched(w)
  PROVE  /\ Placed(w) => Placed(w)'
         /\ Charged(w)' = Charged(w) /\ Here(w)' = Here(w) /\ There(w)' = There(w)
<1>1. /\ IsActive(w)' <=> IsActive(w)
      /\ Here(w)' = Here(w) /\ There(w)' = There(w)
      /\ Settled(w)' <=> Settled(w)
      /\ NotQueued(w)' <=> NotQueued(w)
  BY DEF Untouched, SameFor, IsActive, Here, There, Settled, NotQueued
<1>2. NoWork(w)' <=> NoWork(w)
  BY DEF Untouched, NoWork, Polls
<1>3. AtWork(w)' <=> AtWork(w)
  BY <1>1 DEF Untouched, AtWork, Polls, Orders, Fits, Lone
<1>4. Home(w)' = Home(w) /\ \A a : HomeBefore(w, a)' = HomeBefore(w, a)
  BY <1>1 DEF Untouched, Home, HomeBefore
<1>5. Resting(w) => Resting(w)'
  BY <1>1, <1>2 DEF Untouched, Resting
<1>6. ASSUME NEW a, AskedFor(w, a) PROVE AskedFor(w, a)'
  BY <1>1, <1>2, <1>3, <1>4, <1>6 DEF Untouched, SameFor, AskedFor
<1>7. Cancelling(w) => Cancelling(w)'
  BY <1>1, <1>2 DEF Untouched, SameFor, Cancelling
<1>8. Ordering(w) => Ordering(w)'
  BY <1>1, <1>2, <1>4 DEF Untouched, SameFor, Ordering
<1>9. Moving(w) => Moving(w)'
  BY <1>1, <1>2 DEF Untouched, SameFor, Moving
<1>10. Waiting(w) => Waiting(w)'
  BY <1>1, <1>3, <1>4 DEF Untouched, Waiting
<1>11. Leaving(w) => Leaving(w)'
  BY <1>1, <1>2 DEF Untouched, SameFor, Leaving
<1>12. Remains(w) => Remains(w)'
  BY <1>1 DEF Untouched, SameFor, Remains, Lone
<1>13. Ending(w) => Ending(w)'
  BY <1>1, <1>12 DEF Untouched, SameFor, Ending
<1>14. Over(w) => Over(w)'
  BY <1>1, <1>12 DEF Untouched, SameFor, Over
<1>15. Charged(w)' = Charged(w)
  <2>1. Uncharged(w)' <=> Uncharged(w)
    BY <1>1 DEF Untouched, SameFor, Uncharged
  <2>2. \A as : Asked(lcmq', as, w) <=> Asked(lcmq, as, w)
    BY DEF Untouched, SameFor
  <2>3. Asked(lcmq, {"MIGRATE", "LIVE_MIGRATE"}, w)' <=> Asked(lcmq, {"MIGRATE", "LIVE_MIGRATE"}, w)
    BY <2>2 DEF Asked
  <2> QED
    BY <2>1, <2>3 DEF Untouched, Charged
<1> QED
  BY <1>1, <1>5, <1>6, <1>7, <1>8, <1>9, <1>10, <1>11, <1>13, <1>14, <1>15 DEF Placed

-----------------------------------------------------------------------------
(* What is charged                                                         *)

At(x, h) == IF x = h THEN 1 ELSE 0

\* What v is charged for at host h.
Load(v, h) ==
  (IF "cur" \in Charged(v) THEN At(Here(v), h) ELSE 0)
    + (IF "prev" \in Charged(v) THEN At(There(v), h) ELSE 0)

\* The counters of the hosts follow what v is charged for.
Booked(v) == \A h \in Hosts : usage'[h] - usage[h] = Load(v, h)' - Load(v, h)

CapacityInv == \A h \in Hosts : IsFiniteSet(Charges(h)) /\ usage[h] = Cardinality(Charges(h))

LEMMA CapacityFor ==
  ASSUME NEW u \in [Hosts -> Int], NEW x, NEW h \in Hosts
  PROVE  /\ AddCapacity(u, x)[h] = u[h] + At(x, h)
         /\ DelCapacity(u, x)[h] = u[h] - At(x, h)
<1>1. CASE x = h
  BY <1>1 DEF AddCapacity, DelCapacity, At
<1>2. CASE x # h
  BY <1>2 DEF AddCapacity, DelCapacity, At
<1> QED
  BY <1>1, <1>2

LEMMA TwoMore ==
  ASSUME NEW R, IsFiniteSet(R), NEW a, NEW b, a \notin R, b \notin R, a # b,
         NEW p \in BOOLEAN, NEW q \in BOOLEAN
  PROVE  LET C == R \cup (IF p THEN {a} ELSE {}) \cup (IF q THEN {b} ELSE {}) IN
         /\ IsFiniteSet(C)
         /\ Cardinality(C) = Cardinality(R) + (IF p THEN 1 ELSE 0) + (IF q THEN 1 ELSE 0)
<1> DEFINE D == R \cup (IF p THEN {a} ELSE {})
           C == D \cup (IF q THEN {b} ELSE {})
<1>1. Cardinality(R) \in Nat
  BY FS_CardinalityType
<1>2. IsFiniteSet(D) /\ Cardinality(D) = Cardinality(R) + (IF p THEN 1 ELSE 0)
  <2>1. CASE p
    <3>1. D = R \cup {a}
      BY <2>1
    <3> QED
      BY <2>1, <3>1, FS_AddElement
  <2>2. CASE ~ p
    <3>1. D = R
      BY <2>2
    <3> QED
      BY <1>1, <2>2, <3>1
  <2> QED
    BY <2>1, <2>2
<1>3. b \notin D
  OBVIOUS
<1>4. Cardinality(D) \in Nat
  BY <1>2, FS_CardinalityType
<1> HIDE DEF D
<1>5. IsFiniteSet(C) /\ Cardinality(C) = Cardinality(D) + (IF q THEN 1 ELSE 0)
  <2>1. CASE q
    <3>1. C = D \cup {b}
      BY <2>1
    <3> QED
      BY <1>2, <1>3, <2>1, <3>1, FS_AddElement
  <2>2. CASE ~ q
    <3>1. C = D
      BY <2>2
    <3> QED
      BY <1>2, <1>4, <2>2, <3>1
  <2> QED
    BY <2>1, <2>2
<1> QED
  BY <1>2, <1>5 DEF D

\* The counters stay exact when those of one VM are booked.
LEMMA Booking ==
  ASSUME TypeOK, TypeOK', CapacityInv, NEW v \in VMs, Apart(v), Booked(v)
  PROVE  CapacityInv'
<1> SUFFICES ASSUME NEW h \in Hosts
             PROVE  IsFiniteSet(Charges(h))' /\ usage'[h] = Cardinality(Charges(h))'
  BY DEF CapacityInv
<1> DEFINE R == {c \in Charges(h) : c[1] # v}
           a == <<v, "cur">>
           b == <<v, "prev">>
           p == "cur" \in Charged(v) /\ Here(v) = h
           q == "prev" \in Charged(v) /\ There(v) = h
           E(r, x, y) == r \cup (IF x THEN {a} ELSE {}) \cup (IF y THEN {b} ELSE {})
<1>1. \A w : Charged(w) \subseteq {"cur", "prev"}
  BY DEF Charged
<1>2. a # b /\ a \notin R /\ b \notin R
  OBVIOUS
<1>3. Charges(h) = E(R, p, q)
  <2>1. ASSUME NEW c PROVE c \in Charges(h) <=> c \in E(R, p, q)
    <3>1. CASE c \in VMs \X {"cur", "prev"} /\ c[1] # v
      BY <3>1
    <3>2. CASE c = a
      BY <1>2, <3>2 DEF Charges, HostOf, Here
    <3>3. CASE c = b
      BY <1>2, <3>3 DEF Charges, HostOf, There
    <3>4. CASE c \notin VMs \X {"cur", "prev"}
      BY <3>4 DEF Charges
    <3>5. c \in VMs \X {"cur", "prev"} /\ c[1] = v => c = a \/ c = b
      OBVIOUS
    <3> QED
      BY <3>1, <3>2, <3>3, <3>4, <3>5
  <2> QED
    BY <2>1
<1>4. Charges(h)' = E(R, p', q')
  <2>1. ASSUME NEW c PROVE c \in Charges(h)' <=> c \in E(R, p', q')
    <3>1. CASE c \in VMs \X {"cur", "prev"} /\ c[1] # v
      <4>1. c[1] \in VMs \ {v}
        BY <3>1
      <4>2. /\ Charged(c[1])' = Charged(c[1])
            /\ Here(c[1])' = Here(c[1]) /\ There(c[1])' = There(c[1])
        BY <4>1, UntouchedStays DEF Apart
      <4> QED
        BY <3>1, <4>2 DEF Charges, HostOf, Here, There
    <3>2. CASE c = a
      BY <1>2, <3>2 DEF Charges, HostOf, Here
    <3>3. CASE c = b
      BY <1>2, <3>3 DEF Charges, HostOf, There
    <3>4. CASE c \notin VMs \X {"cur", "prev"}
      BY <3>4 DEF Charges
    <3>5. c \in VMs \X {"cur", "prev"} /\ c[1] = v => c = a \/ c = b
      OBVIOUS
    <3> QED
      BY <3>1, <3>2, <3>3, <3>4, <3>5
  <2> QED
    BY <2>1
<1>5. IsFiniteSet(R)
  <2>1. R \subseteq Charges(h)
    OBVIOUS
  <2> QED
    BY <2>1, FS_Subset DEF CapacityInv
<1> HIDE DEF R, a, b
<1>6. \A x, y \in BOOLEAN :
        /\ IsFiniteSet(E(R, x, y))
        /\ Cardinality(E(R, x, y)) = Cardinality(R) + (IF x THEN 1 ELSE 0) + (IF y THEN 1 ELSE 0)
  BY <1>2, <1>5, TwoMore
<1>7. p \in BOOLEAN /\ q \in BOOLEAN /\ p' \in BOOLEAN /\ q' \in BOOLEAN
  OBVIOUS
<1>8. Load(v, h) = (IF p THEN 1 ELSE 0) + (IF q THEN 1 ELSE 0)
  BY DEF Load, At
<1>9. Load(v, h)' = (IF p' THEN 1 ELSE 0) + (IF q' THEN 1 ELSE 0)
  BY DEF Load, At
<1>10. Cardinality(R) \in Nat /\ usage[h] \in Int /\ usage'[h] \in Int
  BY <1>5, FS_CardinalityType DEF TypeOK
<1>11. usage[h] = Cardinality(E(R, p, q))
  BY <1>3 DEF CapacityInv
<1>12. usage'[h] - usage[h] = Load(v, h)' - Load(v, h)
  BY DEF Booked
<1>13. usage'[h] = Cardinality(E(R, p', q'))
  <2> DEFINE n == IF p THEN 1 ELSE 0
             m == IF q THEN 1 ELSE 0
             k == IF p' THEN 1 ELSE 0
             l == IF q' THEN 1 ELSE 0
  <2>1. n \in Nat /\ m \in Nat /\ k \in Nat /\ l \in Nat
    OBVIOUS
  <2>2. usage'[h] - usage[h] = (k + l) - (n + m)
    BY <1>8, <1>9, <1>12
  <2>3. usage[h] = Cardinality(R) + n + m /\ Cardinality(E(R, p', q')) = Cardinality(R) + k + l
    <3> HIDE DEF E, p, q
    <3> QED
      BY <1>6, <1>7, <1>11
  <2> HIDE DEF n, m, k, l, E, p, q
  <2> QED
    BY <1>10, <2>1, <2>2, <2>3
<1> HIDE DEF E, p, q
<1>14. IsFiniteSet(E(R, p', q'))
  BY <1>6, <1>7
<1> QED
  BY <1>4, <1>13, <1>14

\* What is charged, told by what it depends on.
LoadOf(out, moving, s, c, p, h) ==
  IF out \/ s \in Ignored THEN 0
  ELSE IF moving THEN At(p, h)
  ELSE At(c, h) + IF s \in TwoHosts THEN At(p, h) ELSE 0

LEMMA LoadIs ==
  ASSUME NEW v, NEW h
  PROVE  /\ Load(v, h) = LoadOf(~ IsActive(v) \/ Mentions(dmq, v), Asked(lcmq, LcmMoves, v),
                                lcm[v], Here(v), There(v), h)
         /\ Load(v, h)' = LoadOf(~ IsActive(v)' \/ Mentions(dmq', v), Asked(lcmq', LcmMoves, v),
                                 lcm'[v], Here(v)', There(v)', h)
<1>1. \A x : At(x, h) \in Nat
  BY DEF At
<1>2. Uncharged(v) <=> ~ IsActive(v) \/ Mentions(dmq, v) \/ lcm[v] \in Ignored
  BY DEF Uncharged
<1>3. Uncharged(v)' <=> ~ IsActive(v)' \/ Mentions(dmq', v) \/ lcm'[v] \in Ignored
  BY DEF Uncharged, Mentions
<1>4. Asked(lcmq, {"MIGRATE", "LIVE_MIGRATE"}, v)' <=> Asked(lcmq', LcmMoves, v)
  BY DEF Asked, LcmMoves
<1>5. Charged(v) = IF Uncharged(v) THEN {}
                   ELSE IF Asked(lcmq, LcmMoves, v) THEN {"prev"}
                   ELSE IF lcm[v] \in TwoHosts THEN {"cur", "prev"} ELSE {"cur"}
  BY DEF Charged, LcmMoves, TwoHosts
<1>6. Charged(v)' = IF Uncharged(v)' THEN {}
                    ELSE IF Asked(lcmq', LcmMoves, v) THEN {"prev"}
                    ELSE IF lcm'[v] \in TwoHosts THEN {"cur", "prev"} ELSE {"cur"}
  BY <1>4 DEF Charged, LcmMoves, TwoHosts
<1>7. Load(v, h) = (IF "cur" \in Charged(v) THEN At(Here(v), h) ELSE 0)
                     + (IF "prev" \in Charged(v) THEN At(There(v), h) ELSE 0)
  BY DEF Load
<1>8. Load(v, h)' = (IF "cur" \in Charged(v)' THEN At(Here(v)', h) ELSE 0)
                      + (IF "prev" \in Charged(v)' THEN At(There(v)', h) ELSE 0)
  BY DEF Load, At
<1> HIDE DEF Charged, Uncharged, Load
<1>9. \A x, y \in Nat : x + 0 = x /\ 0 + y = y
  OBVIOUS
<1>10. Load(v, h) = LoadOf(~ IsActive(v) \/ Mentions(dmq, v), Asked(lcmq, LcmMoves, v),
                           lcm[v], Here(v), There(v), h)
  BY <1>1, <1>2, <1>5, <1>7, <1>9 DEF LoadOf
<1>11. Load(v, h)' = LoadOf(~ IsActive(v)' \/ Mentions(dmq', v), Asked(lcmq', LcmMoves, v),
                            lcm'[v], Here(v)', There(v)', h)
  BY <1>1, <1>3, <1>6, <1>8, <1>9 DEF LoadOf
<1> QED
  BY <1>10, <1>11

\* The entries of p for the VMs other than v are those of q.
Elsewhere(q, p, v) == \A w \in VMs \ {v} : SameFor(q, p, w)

LEMMA ElsewhereSame == ASSUME NEW q, NEW v PROVE Elsewhere(q, q, v)
BY OnlyFor DEF Elsewhere

LEMMA ElsewhereTrigger ==
  ASSUME NEW A, NEW q \in Seq(Entries(A)), NEW a \in A, NEW v \in VMs
  PROVE  Elsewhere(q, Trigger(q, a, v), v)
BY TriggerFor DEF Elsewhere

LEMMA ElsewhereTwice ==
  ASSUME NEW q, NEW p, NEW r, NEW v, Elsewhere(q, p, v), Elsewhere(p, r, v)
  PROVE  Elsewhere(q, r, v)
<1> SUFFICES ASSUME NEW w \in VMs \ {v} PROVE SameFor(q, r, w)
  BY DEF Elsewhere
<1>1. SameFor(q, p, w) /\ SameFor(p, r, w)
  BY DEF Elsewhere
<1> QED
  BY <1>1 DEF SameFor

-----------------------------------------------------------------------------
(* The Life-cycle Manager                                                  *)

\* A VM whose entry the Life-cycle Manager comes to is waiting for it.
LEMMA LcmComesTo ==
  ASSUME TypeOK, NEW v \in VMs, NEW a, Placed(v), IsNext(lcmq, a, v)
  PROVE  AskedFor(v, a)
<1>1. lcmq \in Seq(Entries(LcmActions))
  BY DEF TypeOK
<1>2. Mentions(lcmq, v) /\ \A op : Only(lcmq, v, op) => op = a
  BY <1>1, TailFor
<1>3. PICK b \in LcmActions : AskedFor(v, b)
  BY <1>2 DEF Placed, Resting, Settled, Cancelling, Ordering, Moving, Waiting, Leaving,
              Ending, Over, Remains
<1>4. b = a
  BY <1>2, <1>3 DEF AskedFor
<1> QED
  BY <1>3, <1>4

\* What the Life-cycle Manager leaves when it takes an entry.
LcmLeaves(v, a) ==
  /\ ~ Mentions(lcmq', v) /\ Elsewhere(lcmq, lcmq', v)
  /\ v \notin cancelling' /\ cancelling' = cancelling
  /\ state' = state /\ state[v] = "ACTIVE"
  /\ leases' = leases
  /\ domains' = domains /\ commands' = commands /\ transfers' = transfers
  /\ domains[v] \subseteq Hosts \cup {NoHost}
  /\ NotQueued(v)

LEMMA LcmTaken ==
  ASSUME TypeOK, NEW v \in VMs, NEW a, AskedFor(v, a), LcmTakes(v, a)
  PROVE  /\ LcmLeaves(v, a)
         /\ \A h : Load(v, h) = LoadOf(FALSE, a \in LcmMoves, lcm[v], Here(v), There(v), h)
         /\ \A h : Load(v, h)' = LoadOf(Mentions(dmq', v), FALSE, lcm'[v], Here(v)', There(v)', h)
<1>1. /\ lcmq \in Seq(Entries(LcmActions)) /\ IsNext(lcmq, a, v) /\ lcmq' = Tail(lcmq)
      /\ Only(lcmq, v, a) /\ NotQueued(v) /\ IsActive(v)
      /\ UNCHANGED <<state, leases, commands, transfers, domains, cancelling>>
      /\ v \notin cancelling
  BY DEF TypeOK, AskedFor, LcmTakes, driverVars, clientVars
<1>2. ~ Mentions(lcmq', v) /\ Elsewhere(lcmq, lcmq', v)
  BY <1>1, TailFor DEF Elsewhere
<1>3. Asked(lcmq, LcmMoves, v) <=> a \in LcmMoves
  BY <1>1, OnlyFor
<1>4. ~ Asked(lcmq', LcmMoves, v)
  BY <1>2, OnlyFor
<1>5. ~ Mentions(dmq, v)
  BY <1>1 DEF NotQueued
<1>6. IsActive(v) /\ IsActive(v)'
  BY <1>1 DEF IsActive
<1>7. LcmLeaves(v, a)
  BY <1>1, <1>2 DEF LcmLeaves, IsActive, TypeOK
<1>8. ASSUME NEW h
      PROVE  Load(v, h) = LoadOf(FALSE, a \in LcmMoves, lcm[v], Here(v), There(v), h)
  BY <1>3, <1>5, <1>6, LoadIs DEF LoadOf
<1>9. ASSUME NEW h
      PROVE  Load(v, h)' = LoadOf(Mentions(dmq', v), FALSE, lcm'[v], Here(v)', There(v)', h)
  BY <1>4, <1>6, LoadIs DEF LoadOf
<1> QED
  BY <1>7, <1>8, <1>9

\* The records of the other VMs are left alone.
RecordsElsewhere(v) == \A w \in VMs \ {v} : cur'[w] = cur[w] /\ prev'[w] = prev[w]

LEMMA LcmApart ==
  ASSUME NEW v \in VMs, NEW a, LcmLeaves(v, a), RecordsElsewhere(v),
         \A w \in VMs \ {v} : lcm'[w] = lcm[w],
         Elsewhere(dmq, dmq', v), Elsewhere(vmmq, vmmq', v), Elsewhere(tmq, tmq', v)
  PROVE  Apart(v)
BY DEF LcmLeaves, RecordsElsewhere, Elsewhere, Apart, Untouched

\* It asks the Virtual Machine Manager for a command.
LEMMA LcmOrders ==
  ASSUME TypeOK, NEW v \in VMs, NEW a, LcmLeaves(v, a), NoWork(v), RecordsElsewhere(v),
         NEW s, SetLcm(v, s), UNCHANGED <<dmq, tmq>>,
         NEW op \in VmmActions, vmmq' = Trigger(vmmq, op, v),
         Serves(s, op) \/ (op = "POLL" /\ s = "RUNNING"), domains[v] \subseteq Home(v)'
  PROVE  Apart(v) /\ Placed(v)' /\ lcm'[v] = s /\ ~ Mentions(dmq', v)
<1>1. lcm'[v] = s /\ \A w \in VMs \ {v} : lcm'[w] = lcm[w]
  BY DEF TypeOK, SetLcm
<1>2. vmmq \in Seq(Entries(VmmActions))
  BY DEF TypeOK
<1>3. Only(vmmq', v, op)
  BY <1>2, TriggerFor DEF LcmLeaves, NotQueued
<1>4. Elsewhere(vmmq, vmmq', v) /\ Elsewhere(dmq, dmq', v) /\ Elsewhere(tmq, tmq', v)
  BY <1>2, ElsewhereTrigger, ElsewhereSame
<1>5. ~ Mentions(dmq', v) /\ ~ Mentions(tmq', v)
  BY DEF LcmLeaves, NotQueued
<1>6. Ordering(v)'
  <2>1. IsActive(v)' /\ NoWork(v)' /\ domains'[v] \subseteq Home(v)'
    BY DEF LcmLeaves, IsActive, NoWork
  <2> HIDE DEF NoWork, Home
  <2> QED
    BY <1>1, <1>3, <1>5, <2>1 DEF LcmLeaves, Ordering, Mentions
<1> QED
  BY <1>1, <1>4, <1>5, <1>6, LcmApart DEF Placed

\* Or the Transfer Manager for a script.
LEMMA LcmMovesFiles ==
  ASSUME TypeOK, NEW v \in VMs, NEW a, LcmLeaves(v, a), NoWork(v), RecordsElsewhere(v),
         NEW s \in Filing, SetLcm(v, s), UNCHANGED <<dmq, vmmq>>,
         NEW script \in FileScripts, tmq' = Trigger(tmq, script, v), domains[v] = {}
  PROVE  Apart(v) /\ Placed(v)' /\ lcm'[v] = s /\ ~ Mentions(dmq', v)
<1>1. lcm'[v] = s /\ \A w \in VMs \ {v} : lcm'[w] = lcm[w]
  BY DEF TypeOK, SetLcm
<1>2. tmq \in Seq(Entries(TmActions)) /\ script \in TmActions
  BY DEF TypeOK, FileScripts, TmActions
<1>3. Only(tmq', v, script)
  BY <1>2, TriggerFor DEF LcmLeaves, NotQueued
<1>4. Elsewhere(tmq, tmq', v) /\ Elsewhere(dmq, dmq', v) /\ Elsewhere(vmmq, vmmq', v)
  BY <1>2, ElsewhereTrigger, ElsewhereSame
<1>5. ~ Mentions(dmq', v) /\ ~ Mentions(vmmq', v)
  BY DEF LcmLeaves, NotQueued
<1>6. Moving(v)'
  <2>1. IsActive(v)' /\ NoWork(v)' /\ domains'[v] = {}
    BY DEF LcmLeaves, IsActive, NoWork
  <2> HIDE DEF NoWork
  <2> QED
    BY <1>1, <1>3, <1>5, <2>1 DEF LcmLeaves, Moving, Mentions
<1> QED
  BY <1>1, <1>4, <1>5, <1>6, LcmApart DEF Placed

\* Or tells the Dispatch Manager that the VM has left its host.
LEMMA LcmTells ==
  ASSUME TypeOK, NEW v \in VMs, NEW a, LcmLeaves(v, a), NoWork(v), RecordsElsewhere(v),
         UNCHANGED <<lcm, vmmq, tmq>>,
         NEW outcome \in {"SUSPEND_SUCCESS", "STOP_SUCCESS", "DONE"},
         dmq' = Trigger(dmq, outcome, v),
         domains[v] \subseteq IF outcome = "STOP_SUCCESS" THEN {} ELSE {Here(v)'}
  PROVE  Apart(v) /\ Placed(v)' /\ Mentions(dmq', v)
<1>1. dmq \in Seq(Entries(DmActions)) /\ outcome \in DmActions
  BY DEF TypeOK, DmActions
<1>2. Only(dmq', v, outcome) /\ Mentions(dmq', v)
  BY <1>1, TriggerFor DEF LcmLeaves, NotQueued
<1>3. Elsewhere(tmq, tmq', v) /\ Elsewhere(dmq, dmq', v) /\ Elsewhere(vmmq, vmmq', v)
  BY <1>1, ElsewhereTrigger, ElsewhereSame
<1>4. ~ Mentions(tmq', v) /\ ~ Mentions(vmmq', v)
  BY DEF LcmLeaves, NotQueued
<1>5. Leaving(v)'
  <2>1. IsActive(v)' /\ NoWork(v)' /\ domains'[v] = domains[v]
    BY DEF LcmLeaves, IsActive, NoWork
  <2> HIDE DEF NoWork
  <2> QED
    BY <1>2, <1>4, <2>1 DEF LcmLeaves, Leaving, Mentions
<1> QED
  BY <1>2, <1>3, <1>5, LcmApart DEF Placed

\* Or it has nothing to ask for.
LEMMA LcmWaits ==
  ASSUME TypeOK, NEW v \in VMs, NEW a, LcmLeaves(v, a), NoWork(v), RecordsElsewhere(v),
         NEW s, SetLcm(v, s), s \notin Ignored, UNCHANGED <<dmq, vmmq, tmq>>,
         domains[v] \subseteq Home(v)'
  PROVE  Apart(v) /\ Placed(v)' /\ lcm'[v] = s /\ ~ Mentions(dmq', v)
<1>1. lcm'[v] = s /\ \A w \in VMs \ {v} : lcm'[w] = lcm[w]
  BY DEF TypeOK, SetLcm
<1>2. Elsewhere(tmq, tmq', v) /\ Elsewhere(dmq, dmq', v) /\ Elsewhere(vmmq, vmmq', v)
  BY ElsewhereSame
<1>3. ~ Mentions(dmq', v) /\ ~ Mentions(tmq', v) /\ ~ Mentions(vmmq', v)
  BY DEF LcmLeaves, NotQueued
<1>4. Waiting(v)'
  <2>1. IsActive(v)' /\ domains'[v] \subseteq Home(v)' /\ Settled(v)'
    BY <1>3 DEF LcmLeaves, IsActive, Settled, Mentions
  <2>2. AtWork(v)'
    BY <1>1 DEF LcmLeaves, AtWork, NoWork, Lone, Polls, Orders
  <2> HIDE DEF Home, Settled, AtWork
  <2> QED
    BY <1>1, <2>1, <2>2 DEF Waiting
<1> QED
  BY <1>1, <1>2, <1>3, <1>4, LcmApart DEF Placed

\* Or the VM has failed: what is left of it is cleaned up.
LEMMA LcmFails ==
  ASSUME TypeOK, NEW v \in VMs, NEW a, LcmLeaves(v, a), NoWork(v), FailureAction(v),
         \E h \in Hosts \cup {NoHost} : domains[v] \subseteq {h}
  PROVE  Apart(v) /\ Placed(v)' /\ lcm'[v] = "FAILURE" /\ Here(v)' = Here(v)
<1>1. lcm'[v] = "FAILURE" /\ \A w \in VMs \ {v} : lcm'[w] = lcm[w]
  BY DEF TypeOK, FailureAction, SetLcm
<1>2. RecordsElsewhere(v) /\ Here(v)' = Here(v)
  BY DEF TypeOK, Records, FailureAction, LeaveHost, SetReason, RecordsElsewhere, Here
<1>3. /\ dmq \in Seq(Entries(DmActions)) /\ tmq \in Seq(Entries(TmActions))
      /\ "FAILED" \in DmActions /\ "EPILOG_DELETE" \in TmActions
  BY DEF TypeOK, DmActions, TmActions
<1>4. /\ dmq' = Trigger(dmq, "FAILED", v) /\ tmq' = Trigger(tmq, "EPILOG_DELETE", v)
      /\ vmmq' = vmmq
  BY DEF FailureAction, LeaveHost
<1>5. Only(dmq', v, "FAILED")
  BY <1>3, <1>4, TriggerFor DEF LcmLeaves, NotQueued
<1>6. Only(tmq', v, "EPILOG_DELETE") /\ ~ Mentions(vmmq', v)
  BY <1>3, <1>4, TriggerFor DEF LcmLeaves, NotQueued
<1>7. Elsewhere(tmq, tmq', v) /\ Elsewhere(dmq, dmq', v) /\ Elsewhere(vmmq, vmmq', v)
  BY <1>3, <1>4, ElsewhereTrigger, ElsewhereSame
<1>8. Just(tmq', v, {"DRIVER_CANCEL", "EPILOG_DELETE", "EPILOG_DELETE_PREVIOUS"})
  BY <1>6 DEF Only, Just
<1>9. Just(vmmq', v, {"DRIVER_CANCEL", "CANCEL", "CANCEL_PREVIOUS"})
  BY <1>6, OnlyFor
<1>10. Remains(v)'
  <2>1. \A i \in DOMAIN commands'[v] : commands'[v][i].op = "POLL"
    BY DEF NoWork, LcmLeaves, Polls
  <2> QED
    BY <1>8, <1>9, <2>1 DEF LcmLeaves, Remains, Just, Mentions, Lone, Placing
<1>11. Ending(v)'
  <2>1. IsActive(v)'
    BY DEF LcmLeaves, IsActive
  <2> HIDE DEF Remains
  <2> QED
    BY <1>1, <1>5, <1>10, <2>1 DEF Ending
<1> QED
  BY <1>1, <1>2, <1>7, <1>11, LcmApart DEF Placed

-----------------------------------------------------------------------------
(* Its handlers                                                            *)

\* A step of v leaves the other VMs alone, leaves v at a place, and books what
\* it changes for v.
Keeps(v) == Apart(v) /\ Placed(v)' /\ Booked(v)

LEMMA LoadOfType ==
  ASSUME NEW h
  PROVE  \A out, moving, s, c, p : LoadOf(out, moving, s, c, p, h) \in Int
BY DEF LoadOf, At

LEMMA AtType == ASSUME NEW x, NEW h PROVE At(x, h) \in Int
BY DEF At

\* What v is charged for once a handler of the Life-cycle Manager has taken a,
\* and before.
LoadAfter(v, h) == LoadOf(Mentions(dmq', v), FALSE, lcm'[v], Here(v)', There(v)', h)
LoadBefore(v, a, h) == LoadOf(FALSE, a \in LcmMoves, lcm[v], Here(v), There(v), h)

LEMMA LcmBooked ==
  ASSUME TypeOK, NEW v \in VMs, NEW a, AskedFor(v, a), LcmTakes(v, a),
         \A h \in Hosts :
           usage'[h] = usage[h] + LoadAfter(v, h) - LoadBefore(v, a, h)
  PROVE  Booked(v)
<1> SUFFICES ASSUME NEW h \in Hosts
             PROVE  usage'[h] - usage[h] = Load(v, h)' - Load(v, h)
  BY DEF Booked
<1> DEFINE x == LoadAfter(v, h)
           y == LoadBefore(v, a, h)
<1>1. Load(v, h)' = x /\ Load(v, h) = y
  BY LcmTaken DEF LoadAfter, LoadBefore
<1>2. x \in Int /\ y \in Int /\ usage[h] \in Int
  BY LoadOfType DEF TypeOK, LoadAfter, LoadBefore
<1>3. usage'[h] = usage[h] + x - y
  OBVIOUS
<1> HIDE DEF x, y
<1> QED
  BY <1>1, <1>2, <1>3

\* deploy: its files are moved to the host, which is charged.
LEMMA LcmDeployKeeps ==
  ASSUME TypeOK, NEW v \in VMs, AskedFor(v, "DEPLOY"), LcmDeploy(v)
  PROVE  Keeps(v)
<1>1. LcmTakes(v, "DEPLOY") /\ LcmLeaves(v, "DEPLOY")
  BY LcmTaken DEF LcmDeploy
<1>2. lcm[v] = "LCM_INIT" /\ NoWork(v) /\ domains[v] = {}
  BY DEF AskedFor, Awaits, HomeBefore, LcmMoves, Home, Filing, Saving
<1>3. PICK s \in {"PROLOG", "PROLOG_RESUME"} :
        /\ SetLcm(v, s) /\ tmq' = Trigger(tmq, s, v)
        /\ usage' = AddCapacity(usage, cur[v].hid)
        /\ UNCHANGED <<historyVars, dmq, vmmq>>
  BY <1>1 DEF LcmDeploy, LcmLeaves, IsActive
<1>4. RecordsElsewhere(v) /\ Here(v)' = Here(v) /\ There(v)' = There(v)
  BY <1>3 DEF historyVars, RecordsElsewhere, Here, There
<1>5. Apart(v) /\ Placed(v)' /\ lcm'[v] = s /\ ~ Mentions(dmq', v)
  BY <1>1, <1>2, <1>3, <1>4, LcmMovesFiles DEF Filing, FileScripts
<1>6. ASSUME NEW h \in Hosts
      PROVE  usage'[h] = usage[h] + LoadAfter(v, h) - LoadBefore(v, "DEPLOY", h)
  <2>1. usage'[h] = usage[h] + At(Here(v), h) /\ At(Here(v), h) \in Int /\ usage[h] \in Int
    <3>1. cur[v].hid = Here(v) /\ usage \in [Hosts -> Int]
      BY DEF Here, TypeOK
    <3>2. AddCapacity(usage, Here(v))[h] = usage[h] + At(Here(v), h)
      BY <3>1, CapacityFor
    <3> QED
      BY <1>3, <3>1, <3>2, AtType
  <2>2. LoadAfter(v, h) = At(Here(v), h)
    BY <1>4, <1>5, <2>1 DEF LoadAfter, LoadBefore, LoadOf, Ignored, TwoHosts
  <2>3. LoadBefore(v, "DEPLOY", h) = 0
    BY <1>2 DEF LoadAfter, LoadBefore, LoadOf, Ignored
  <2> QED
    BY <2>1, <2>2, <2>3
<1> QED
  BY <1>1, <1>5, <1>6, LcmBooked DEF Keeps

\* suspend, stop, shutdown and cancel.
LEMMA LcmCommandKeeps ==
  ASSUME TypeOK, NEW v \in VMs,
         \/ LcmSuspend(v) /\ AskedFor(v, "SUSPEND")
         \/ LcmStop(v) /\ AskedFor(v, "STOP")
         \/ LcmShutdown(v) /\ AskedFor(v, "SHUTDOWN")
         \/ LcmCancel(v) /\ AskedFor(v, "CANCEL")
  PROVE  Keeps(v)
<1>1. PICK a \in {"SUSPEND", "STOP", "SHUTDOWN", "CANCEL"}, s \in Saving \cup {"SHUTDOWN", "CANCEL"},
           op \in {"SAVE", "SHUTDOWN", "CANCEL"} :
        LcmCommand(v, a, s, op) /\ AskedFor(v, a) /\ Serves(s, op) /\ s \notin TwoHosts
  BY DEF LcmSuspend, LcmStop, LcmShutdown, LcmCancel, Saving, Serves, TwoHosts
<1>2. LcmTakes(v, a) /\ LcmLeaves(v, a)
  BY <1>1, LcmTaken DEF LcmCommand
<1>3. lcm[v] = "RUNNING" /\ NoWork(v) /\ domains[v] \subseteq {Here(v)}
  BY <1>1 DEF AskedFor, Awaits, HomeBefore, LcmMoves, Home, Filing, TwoHosts, Saving
<1>4. SetLcm(v, s) /\ vmmq' = Trigger(vmmq, op, v) /\ UNCHANGED <<historyVars, usage, dmq, tmq>>
  BY <1>1, <1>2, <1>3 DEF LcmCommand, LcmLeaves, IsRunning, IsActive
<1>5. RecordsElsewhere(v) /\ Here(v)' = Here(v) /\ There(v)' = There(v) /\ usage' = usage
  BY <1>4 DEF historyVars, RecordsElsewhere, Here, There
<1>6. domains[v] \subseteq Home(v)'
  <2>1. lcm'[v] = s
    BY <1>4 DEF TypeOK, SetLcm
  <2> QED
    BY <1>1, <1>2, <1>3, <1>5, <2>1 DEF LcmLeaves, Home, Filing, Saving
<1>7. op \in VmmActions
  BY DEF VmmActions
<1>8. Apart(v) /\ Placed(v)' /\ lcm'[v] = s /\ ~ Mentions(dmq', v)
  BY <1>1, <1>2, <1>3, <1>4, <1>5, <1>6, <1>7, LcmOrders
<1>9. ASSUME NEW h \in Hosts
      PROVE  usage'[h] = usage[h] + LoadAfter(v, h) - LoadBefore(v, a, h)
  <2>1. At(Here(v), h) \in Int /\ usage[h] \in Int
    BY DEF TypeOK, At
  <2>2. LoadAfter(v, h) = At(Here(v), h)
    BY <1>1, <1>5, <1>8, <2>1 DEF LoadAfter, LoadBefore, LoadOf, Ignored, Saving
  <2>3. LoadBefore(v, a, h) = At(Here(v), h)
    BY <1>3, <2>1 DEF LoadAfter, LoadBefore, LoadOf, Ignored, LcmMoves, TwoHosts
  <2> QED
    BY <1>5, <2>1, <2>2, <2>3
<1> QED
  BY <1>1, <1>2, <1>8, <1>9, LcmBooked DEF Keeps

\* Both migrations: the host the VM goes to is charged as well.
LEMMA LcmMoveKeeps ==
  ASSUME TypeOK, NEW v \in VMs,
         \/ LcmMigrate(v) /\ AskedFor(v, "MIGRATE")
         \/ LcmLiveMigrate(v) /\ AskedFor(v, "LIVE_MIGRATE")
  PROVE  Keeps(v)
<1>1. PICK a \in LcmMoves, s \in TwoHosts, op \in {"SAVE", "MIGRATE"} :
        LcmMove(v, a, s, op) /\ AskedFor(v, a) /\ Serves(s, op)
  BY DEF LcmMigrate, LcmLiveMigrate, LcmMoves, Saving, Serves, TwoHosts
<1>2. LcmTakes(v, a) /\ LcmLeaves(v, a)
  BY <1>1, LcmTaken DEF LcmMove
<1>3. lcm[v] = "RUNNING" /\ NoWork(v) /\ domains[v] \subseteq {There(v)}
  BY <1>1 DEF AskedFor, Awaits, HomeBefore, LcmMoves, Saving
<1>4. /\ SetLcm(v, s) /\ vmmq' = Trigger(vmmq, op, v) /\ UNCHANGED <<historyVars, dmq, tmq>>
      /\ usage' = AddCapacity(usage, cur[v].hid)
  BY <1>1, <1>2, <1>3 DEF LcmMove, LcmLeaves, IsRunning, IsActive
<1>5. RecordsElsewhere(v) /\ Here(v)' = Here(v) /\ There(v)' = There(v)
  BY <1>4 DEF historyVars, RecordsElsewhere, Here, There
<1>6. domains[v] \subseteq Home(v)'
  <2>1. lcm'[v] = s
    BY <1>4 DEF TypeOK, SetLcm
  <2> QED
    BY <1>1, <1>2, <1>3, <1>5, <2>1 DEF LcmLeaves, Home, Filing, TwoHosts
<1>7. op \in VmmActions
  BY DEF VmmActions
<1>8. Apart(v) /\ Placed(v)' /\ lcm'[v] = s /\ ~ Mentions(dmq', v)
  BY <1>1, <1>2, <1>3, <1>4, <1>5, <1>6, <1>7, LcmOrders
<1>9. ASSUME NEW h \in Hosts
      PROVE  usage'[h] = usage[h] + LoadAfter(v, h) - LoadBefore(v, a, h)
  <2>1. /\ At(Here(v), h) \in Int /\ At(There(v), h) \in Int /\ usage[h] \in Int
        /\ usage'[h] = usage[h] + At(Here(v), h)
    <3>1. cur[v].hid = Here(v) /\ usage \in [Hosts -> Int]
      BY DEF Here, TypeOK
    <3>2. AddCapacity(usage, Here(v))[h] = usage[h] + At(Here(v), h)
      BY <3>1, CapacityFor
    <3> QED
      BY <1>4, <3>1, <3>2, AtType
  <2>2. LoadAfter(v, h) = At(Here(v), h) + At(There(v), h)
    BY <1>1, <1>5, <1>8, <2>1 DEF LoadAfter, LoadBefore, LoadOf, Ignored, TwoHosts
  <2>3. LoadBefore(v, a, h) = At(There(v), h)
    BY <1>1, <1>3, <2>1 DEF LoadAfter, LoadBefore, LoadOf, Ignored
  <2> QED
    BY <2>1, <2>2, <2>3
<1> QED
  BY <1>1, <1>2, <1>8, <1>9, LcmBooked DEF Keeps

\* What the charge comes to, whatever the handler.
LEMMA LoadValues ==
  ASSUME NEW v, NEW a, NEW h
  PROVE  /\ lcm[v] \in Ignored => LoadBefore(v, a, h) = 0
         /\ a \notin LcmMoves /\ lcm[v] \notin Ignored \cup TwoHosts
              => LoadBefore(v, a, h) = At(Here(v), h)
         /\ a \notin LcmMoves /\ lcm[v] \in TwoHosts
              => LoadBefore(v, a, h) = At(Here(v), h) + At(There(v), h)
         /\ Mentions(dmq', v) \/ lcm'[v] \in Ignored => LoadAfter(v, h) = 0
         /\ ~ Mentions(dmq', v) /\ lcm'[v] \notin Ignored \cup TwoHosts
              => LoadAfter(v, h) = At(Here(v)', h)
<1>1. \A x : At(x, h) \in Int
  BY AtType
<1>2. TwoHosts \cap Ignored = {}
  BY DEF TwoHosts, Ignored
<1> QED
  BY <1>1, <1>2 DEF LoadBefore, LoadAfter, LoadOf

\* What a handler that changes no counter, or takes a host's back, books.
LEMMA LcmBooks ==
  ASSUME TypeOK, NEW v \in VMs, NEW a, AskedFor(v, a), LcmTakes(v, a), a \notin LcmMoves,
         \/ /\ lcm[v] \notin Ignored \cup TwoHosts /\ lcm'[v] \notin Ignored \cup TwoHosts
            /\ ~ Mentions(dmq', v) /\ usage' = usage /\ Here(v)' = Here(v)
         \/ /\ lcm[v] \notin Ignored \cup TwoHosts
            /\ Mentions(dmq', v) \/ lcm'[v] \in Ignored
            /\ usage' = DelCapacity(usage, Here(v))
         \/ /\ lcm[v] \in TwoHosts /\ lcm'[v] \notin Ignored \cup TwoHosts
            /\ ~ Mentions(dmq', v)
            /\ \/ usage' = DelCapacity(usage, Here(v)) /\ Here(v)' = There(v)
               \/ usage' = DelCapacity(usage, There(v)) /\ Here(v)' = Here(v)
  PROVE  Booked(v)
<1>1. usage \in [Hosts -> Int]
  BY DEF TypeOK
<1> SUFFICES ASSUME NEW h \in Hosts
             PROVE  usage'[h] = usage[h] + LoadAfter(v, h) - LoadBefore(v, a, h)
  BY LcmBooked
<1>2. \A x : DelCapacity(usage, x)[h] = usage[h] - At(x, h)
  BY <1>1, CapacityFor
<1>3. usage[h] \in Int /\ \A x : At(x, h) \in Int
  BY <1>1, AtType
<1>4. CASE /\ lcm[v] \notin Ignored \cup TwoHosts /\ lcm'[v] \notin Ignored \cup TwoHosts
           /\ ~ Mentions(dmq', v) /\ usage' = usage /\ Here(v)' = Here(v)
  <2>1. LoadAfter(v, h) = At(Here(v), h) /\ LoadBefore(v, a, h) = At(Here(v), h)
    BY <1>4, LoadValues
  <2> QED
    BY <1>3, <1>4, <2>1
<1>5. CASE /\ lcm[v] \notin Ignored \cup TwoHosts
           /\ Mentions(dmq', v) \/ lcm'[v] \in Ignored
           /\ usage' = DelCapacity(usage, Here(v))
  <2>1. LoadAfter(v, h) = 0 /\ LoadBefore(v, a, h) = At(Here(v), h)
    BY <1>5, LoadValues
  <2> QED
    BY <1>2, <1>3, <1>5, <2>1
<1>6. CASE /\ lcm[v] \in TwoHosts /\ lcm'[v] \notin Ignored \cup TwoHosts
           /\ ~ Mentions(dmq', v)
           /\ \/ usage' = DelCapacity(usage, Here(v)) /\ Here(v)' = There(v)
              \/ usage' = DelCapacity(usage, There(v)) /\ Here(v)' = Here(v)
  <2>1. LoadAfter(v, h) = At(Here(v)', h) /\ LoadBefore(v, a, h) = At(Here(v), h) + At(There(v), h)
    BY <1>6, LoadValues
  <2>2. \/ usage'[h] = usage[h] - At(Here(v), h) /\ Here(v)' = There(v)
        \/ usage'[h] = usage[h] - At(There(v), h) /\ Here(v)' = Here(v)
    BY <1>2, <1>6
  <2> QED
    BY <1>3, <2>1, <2>2
<1> QED
  BY <1>4, <1>5, <1>6

\* It leaves the records of the hosts and the counters alone, and asks for a
\* command, for a script or for nothing.
LEMMA LcmOrderKeeps ==
  ASSUME TypeOK, NEW v \in VMs, NEW a, AskedFor(v, a), LcmTakes(v, a),
         a \notin LcmMoves \cup {"DELETE"}, lcm[v] \notin Ignored \cup TwoHosts,
         NEW s, SetLcm(v, s), s \notin Ignored \cup TwoHosts, UNCHANGED <<historyVars, usage, dmq, tmq>>,
         NEW op \in VmmActions, vmmq' = Trigger(vmmq, op, v),
         Serves(s, op) \/ (op = "POLL" /\ s = "RUNNING"),
         s \notin Filing, domains[v] \subseteq {Here(v)}
  PROVE  Keeps(v)
<1>1. LcmLeaves(v, a) /\ NoWork(v)
  BY LcmTaken DEF AskedFor
<1>2. RecordsElsewhere(v) /\ Here(v)' = Here(v) /\ usage' = usage
  BY DEF historyVars, RecordsElsewhere, Here
<1>3. domains[v] \subseteq Home(v)'
  <2>1. lcm'[v] = s
    BY DEF TypeOK, SetLcm
  <2> QED
    BY <1>1, <1>2, <2>1 DEF LcmLeaves, Home, Ignored
<1>4. Apart(v) /\ Placed(v)' /\ lcm'[v] = s /\ ~ Mentions(dmq', v)
  BY <1>1, <1>2, <1>3, LcmOrders
<1>5. Booked(v)
  BY <1>2, <1>4, LcmBooks
<1> QED
  BY <1>4, <1>5 DEF Keeps

LEMMA LcmFilesKeep ==
  ASSUME TypeOK, NEW v \in VMs, NEW a, AskedFor(v, a), LcmTakes(v, a),
         a \notin LcmMoves \cup {"DELETE"}, lcm[v] \notin Ignored \cup TwoHosts,
         NEW s \in Filing, SetLcm(v, s), RecordsElsewhere(v), Here(v)' = Here(v),
         UNCHANGED <<usage, dmq, vmmq>>,
         NEW script \in FileScripts, tmq' = Trigger(tmq, script, v), domains[v] = {}
  PROVE  Keeps(v)
<1>1. LcmLeaves(v, a) /\ NoWork(v)
  BY LcmTaken DEF AskedFor
<1>2. Apart(v) /\ Placed(v)' /\ lcm'[v] = s /\ ~ Mentions(dmq', v)
  BY <1>1, LcmMovesFiles
<1>3. Booked(v)
  BY <1>2, LcmBooks DEF Filing, Ignored, TwoHosts
<1> QED
  BY <1>2, <1>3 DEF Keeps

LEMMA LcmWaitKeeps ==
  ASSUME TypeOK, NEW v \in VMs, NEW a, AskedFor(v, a), LcmTakes(v, a),
         a \notin LcmMoves \cup {"DELETE"}, lcm[v] \notin Ignored \cup TwoHosts,
         NEW s, SetLcm(v, s), s \notin Ignored \cup TwoHosts,
         UNCHANGED <<historyVars, usage, dmq, vmmq, tmq>>,
         domains[v] \subseteq IF s \in Filing THEN {} ELSE {Here(v)}
  PROVE  Keeps(v)
<1>1. LcmLeaves(v, a) /\ NoWork(v)
  BY LcmTaken DEF AskedFor
<1>2. RecordsElsewhere(v) /\ Here(v)' = Here(v) /\ usage' = usage
  BY DEF historyVars, RecordsElsewhere, Here
<1>3. domains[v] \subseteq Home(v)'
  <2>1. lcm'[v] = s
    BY DEF TypeOK, SetLcm
  <2> QED
    BY <1>1, <1>2, <2>1 DEF LcmLeaves, Home, Ignored
<1>4. Apart(v) /\ Placed(v)' /\ lcm'[v] = s /\ ~ Mentions(dmq', v)
  BY <1>1, <1>2, <1>3, LcmWaits
<1>5. Booked(v)
  BY <1>2, <1>4, LcmBooks
<1> QED
  BY <1>4, <1>5 DEF Keeps

\* The VM leaves its host.
LEMMA LcmLeaveKeeps ==
  ASSUME TypeOK, NEW v \in VMs, NEW a, AskedFor(v, a), LcmTakes(v, a),
         a \notin LcmMoves \cup {"DELETE"}, lcm[v] \notin Ignored \cup TwoHosts,
         NEW r, NEW outcome \in {"SUSPEND_SUCCESS", "STOP_SUCCESS", "DONE"},
         LeaveHost(v, r, outcome), UNCHANGED <<lcm, vmmq, tmq>>,
         domains[v] \subseteq IF outcome = "STOP_SUCCESS" THEN {} ELSE {Here(v)}
  PROVE  Keeps(v)
<1>1. LcmLeaves(v, a) /\ NoWork(v)
  BY LcmTaken DEF AskedFor
<1>2. RecordsElsewhere(v) /\ Here(v)' = Here(v)
  BY DEF TypeOK, Records, LeaveHost, SetReason, RecordsElsewhere, Here
<1>3. usage' = DelCapacity(usage, Here(v)) /\ dmq' = Trigger(dmq, outcome, v)
  BY DEF LeaveHost, Here
<1>4. Apart(v) /\ Placed(v)' /\ Mentions(dmq', v)
  BY <1>1, <1>2, <1>3, LcmTells
<1>5. Booked(v)
  BY <1>3, <1>4, LcmBooks
<1> QED
  BY <1>4, <1>5 DEF Keeps

\* The VM fails.
LEMMA LcmFailKeeps ==
  ASSUME TypeOK, NEW v \in VMs, NEW a, AskedFor(v, a), LcmTakes(v, a),
         a \notin LcmMoves \cup {"DELETE"}, lcm[v] \notin Ignored \cup TwoHosts,
         FailureAction(v), domains[v] \subseteq {Here(v)}
  PROVE  Keeps(v)
<1>1. LcmLeaves(v, a) /\ NoWork(v)
  BY LcmTaken DEF AskedFor
<1>2. Here(v) \in Hosts \cup {NoHost}
  BY DEF TypeOK, Records, Here
<1>3. Apart(v) /\ Placed(v)' /\ lcm'[v] = "FAILURE" /\ Here(v)' = Here(v)
  BY <1>1, <1>2, LcmFails
<1>4. usage' = DelCapacity(usage, Here(v))
  BY DEF FailureAction, LeaveHost, Here
<1>5. Booked(v)
  BY <1>3, <1>4, LcmBooks DEF Ignored
<1> QED
  BY <1>3, <1>5 DEF Keeps

\* A migration fails: the VM is on the host it was on, with a record on top
\* that says so.
LEMMA MigrationFailedKeeps ==
  ASSUME TypeOK, RecordsExist, NEW v \in VMs, NEW a, AskedFor(v, a), LcmTakes(v, a),
         a \notin LcmMoves \cup {"DELETE"}, lcm[v] \in TwoHosts,
         MigrationFailed(v), domains[v] \subseteq {There(v)}
  PROVE  Keeps(v)
<1>1. LcmLeaves(v, a) /\ NoWork(v)
  BY LcmTaken DEF AskedFor
<1>2. HasPreviousHistory(v)
  BY DEF RecordsExist, NeedsPreviousRecord, TwoHosts
<1>3. RecordsElsewhere(v) /\ Here(v)' = There(v)
  BY <1>2 DEF TypeOK, Records, MigrationFailed, CpPreviousHistory, PushRecord, NewRecord,
              RecordsElsewhere, Here, There
<1>4. /\ usage' = DelCapacity(usage, Here(v)) /\ UNCHANGED <<dmq, tmq>>
      /\ vmmq' = Trigger(vmmq, "POLL", v) /\ SetLcm(v, "RUNNING") /\ "POLL" \in VmmActions
  BY DEF MigrationFailed, BackToRunning, Here, VmmActions
<1>5. domains[v] \subseteq Home(v)'
  <2>1. lcm'[v] = "RUNNING"
    BY <1>4 DEF TypeOK, SetLcm
  <2> QED
    BY <1>1, <1>3, <2>1 DEF LcmLeaves, Home, Filing, TwoHosts
<1>6. Apart(v) /\ Placed(v)' /\ lcm'[v] = "RUNNING" /\ ~ Mentions(dmq', v)
  BY <1>1, <1>3, <1>4, <1>5, LcmOrders
<1>7. "RUNNING" \notin Ignored \cup TwoHosts
  BY DEF Ignored, TwoHosts
<1>8. Booked(v)
  BY <1>3, <1>4, <1>6, <1>7, LcmBooks
<1> QED
  BY <1>6, <1>8 DEF Keeps

\* resume: a copy of the record, and the file that was saved is restored.
LEMMA LcmRestoreKeeps ==
  ASSUME TypeOK, NEW v \in VMs, AskedFor(v, "RESTORE"), LcmRestore(v)
  PROVE  Keeps(v)
<1>1. LcmTakes(v, "RESTORE") /\ LcmLeaves(v, "RESTORE")
  BY LcmTaken DEF LcmRestore
<1>2. lcm[v] = "LCM_INIT" /\ NoWork(v) /\ domains[v] \subseteq {Here(v)}
  BY DEF AskedFor, Awaits, HomeBefore, LcmMoves, Saving, Filing
<1>3. /\ SetLcm(v, "BOOT") /\ CpHistory(v) /\ usage' = AddCapacity(usage, Here(v))
      /\ vmmq' = Trigger(vmmq, "RESTORE", v) /\ UNCHANGED <<dmq, tmq>>
  BY <1>1 DEF LcmRestore, LcmLeaves, IsActive, Here
<1>4. RecordsElsewhere(v) /\ Here(v)' = Here(v)
  <2>1. CASE HasHistory(v)
    BY <1>3, <2>1 DEF TypeOK, Records, CpHistory, AddHistory, PushRecord, NewRecord,
                      RecordsElsewhere, Here
  <2>2. CASE ~ HasHistory(v)
    BY <1>3, <2>2 DEF CpHistory, historyVars, RecordsElsewhere, Here
  <2> QED
    BY <2>1, <2>2
<1>5. domains[v] \subseteq Home(v)'
  <2>1. lcm'[v] = "BOOT"
    BY <1>3 DEF TypeOK, SetLcm
  <2> QED
    BY <1>1, <1>2, <1>4, <2>1 DEF LcmLeaves, Home, Filing, TwoHosts
<1>6. "RESTORE" \in VmmActions /\ Serves("BOOT", "RESTORE")
  BY DEF VmmActions, Serves
<1>7. Apart(v) /\ Placed(v)' /\ lcm'[v] = "BOOT" /\ ~ Mentions(dmq', v)
  BY <1>1, <1>2, <1>3, <1>4, <1>5, <1>6, LcmOrders
<1>8. ASSUME NEW h \in Hosts
      PROVE  usage'[h] = usage[h] + LoadAfter(v, h) - LoadBefore(v, "RESTORE", h)
  <2>1. lcm[v] \in Ignored /\ lcm'[v] \notin Ignored \cup TwoHosts
    BY <1>2, <1>7 DEF Ignored, TwoHosts
  <2>2. LoadAfter(v, h) = At(Here(v), h) /\ LoadBefore(v, "RESTORE", h) = 0
    BY <1>4, <1>7, <2>1, LoadValues
  <2>3. usage \in [Hosts -> Int]
    BY DEF TypeOK
  <2>4. AddCapacity(usage, Here(v))[h] = usage[h] + At(Here(v), h)
    BY <2>3, CapacityFor
  <2> QED
    BY <1>3, <2>2, <2>3, <2>4, AtType
<1> QED
  BY <1>1, <1>7, <1>8, LcmBooked DEF Keeps

LEMMA LcmSaveSuccessKeeps ==
  ASSUME TypeOK, NEW v \in VMs, AskedFor(v, "SAVE_SUCCESS"), LcmSaveSuccess(v)
  PROVE  Keeps(v)
<1> DEFINE a == "SAVE_SUCCESS"
<1>1. LcmTakes(v, a) /\ LcmLeaves(v, a) /\ NoWork(v)
  BY LcmTaken DEF LcmSaveSuccess, AskedFor
<1>2. lcm[v] \in Saving /\ domains[v] = {} /\ a \notin LcmMoves \cup {"DELETE"}
  BY DEF AskedFor, Awaits, HomeBefore, LcmMoves, Saving
<1>3. CASE lcm[v] = "SAVE_MIGRATE"
  <2>1. /\ SetLcm(v, "PROLOG_MIGRATE") /\ SetPreviousReason(v, "USER")
        /\ usage' = DelCapacity(usage, There(v))
        /\ tmq' = Trigger(tmq, "PROLOG_MIGR", v) /\ UNCHANGED <<cur, dmq, vmmq>>
    BY <1>3 DEF LcmSaveSuccess, There
  <2>2. RecordsElsewhere(v) /\ Here(v)' = Here(v)
    BY <2>1 DEF TypeOK, SetPreviousReason, RecordsElsewhere, Here
  <2>3. Apart(v) /\ Placed(v)' /\ lcm'[v] = "PROLOG_MIGRATE" /\ ~ Mentions(dmq', v)
    BY <1>1, <1>2, <2>1, <2>2, LcmMovesFiles DEF Filing, FileScripts
  <2>4. lcm[v] \in TwoHosts /\ lcm'[v] \notin Ignored \cup TwoHosts
    BY <1>3, <2>3 DEF Ignored, TwoHosts
  <2>5. Booked(v)
    BY <1>1, <1>2, <2>1, <2>2, <2>3, <2>4, LcmBooks
  <2> QED
    BY <2>3, <2>5 DEF Keeps
<1>4. CASE lcm[v] = "SAVE_SUSPEND"
  <2>1. LeaveHost(v, "STOP_RESUME", "SUSPEND_SUCCESS") /\ UNCHANGED <<lcm, vmmq, tmq>>
    BY <1>4 DEF LcmSaveSuccess
  <2>2. lcm[v] \notin Ignored \cup TwoHosts
    BY <1>4 DEF Ignored, TwoHosts
  <2> QED
    BY <1>1, <1>2, <2>1, <2>2, LcmLeaveKeeps
<1>5. CASE lcm[v] = "SAVE_STOP"
  <2>1. /\ SetLcm(v, "EPILOG_STOP") /\ SetReason(v, "STOP_RESUME")
        /\ tmq' = Trigger(tmq, "EPILOG_STOP", v) /\ UNCHANGED <<prev, usage, dmq, vmmq>>
    BY <1>5 DEF LcmSaveSuccess
  <2>2. RecordsElsewhere(v) /\ Here(v)' = Here(v)
    BY <2>1 DEF TypeOK, Records, SetReason, RecordsElsewhere, Here
  <2>3. lcm[v] \notin Ignored \cup TwoHosts
    BY <1>5 DEF Ignored, TwoHosts
  <2> QED
    BY <1>1, <1>2, <2>1, <2>2, <2>3, LcmFilesKeep DEF Filing, FileScripts
<1> QED
  BY <1>2, <1>3, <1>4, <1>5 DEF Saving

\* What the answers of the Virtual Machine Manager find.
LEMMA VmmAnswerFinds ==
  ASSUME NEW v, NEW a, AskedFor(v, a),
         a \in {"SAVE_FAILURE", "DEPLOY_FAILURE", "SHUTDOWN_SUCCESS", "SHUTDOWN_FAILURE",
                "CANCEL_SUCCESS", "CANCEL_FAILURE"}
  PROVE  /\ a \notin LcmMoves \cup {"DELETE"}
         /\ lcm[v] \in {"SHUTDOWN", "CANCEL", "BOOT", "SAVE_STOP", "SAVE_SUSPEND"} \cup TwoHosts
         /\ a \in {"SHUTDOWN_SUCCESS", "SHUTDOWN_FAILURE"} => lcm[v] = "SHUTDOWN"
         /\ a \in {"CANCEL_SUCCESS", "CANCEL_FAILURE"} => lcm[v] = "CANCEL"
         /\ a = "SAVE_FAILURE" => lcm[v] \in Saving
         /\ a = "DEPLOY_FAILURE" => lcm[v] \in {"BOOT", "MIGRATE"}
         /\ lcm[v] \in TwoHosts \/ lcm[v] \notin Ignored \cup TwoHosts \cup Filing
         /\ domains[v] \subseteq IF lcm[v] \in TwoHosts THEN {There(v)} ELSE {Here(v)}
         /\ a \in {"SHUTDOWN_SUCCESS", "CANCEL_SUCCESS"} => domains[v] = {}
<1>1. Awaits(lcm[v], a) /\ domains[v] \subseteq HomeBefore(v, a)
  BY DEF AskedFor
<1>2. /\ a \in {"SHUTDOWN_SUCCESS", "SHUTDOWN_FAILURE"} => lcm[v] = "SHUTDOWN"
      /\ a \in {"CANCEL_SUCCESS", "CANCEL_FAILURE"} => lcm[v] = "CANCEL"
      /\ a = "SAVE_FAILURE" => lcm[v] \in Saving
      /\ a = "DEPLOY_FAILURE" => lcm[v] \in {"BOOT", "MIGRATE"}
  BY <1>1 DEF Awaits
<1>3. /\ lcm[v] \in {"SHUTDOWN", "CANCEL", "BOOT", "SAVE_STOP", "SAVE_SUSPEND"} \cup TwoHosts
      /\ lcm[v] \in TwoHosts \/ lcm[v] \notin Ignored \cup TwoHosts \cup Filing
  BY <1>2 DEF Saving, TwoHosts, Ignored, Filing
<1>4. /\ a \in {"SHUTDOWN_SUCCESS", "CANCEL_SUCCESS"} => HomeBefore(v, a) = {}
      /\ a \notin {"SHUTDOWN_SUCCESS", "CANCEL_SUCCESS"} => HomeBefore(v, a) = Home(v)
      /\ a \notin LcmMoves \cup {"DELETE"}
  BY DEF HomeBefore, LcmMoves
<1>5. Home(v) \subseteq IF lcm[v] \in TwoHosts THEN {There(v)} ELSE {Here(v)}
  BY DEF Home
<1> QED
  BY <1>1, <1>2, <1>3, <1>4, <1>5

LEMMA LcmVmmAnswerKeeps ==
  ASSUME TypeOK, RecordsExist, NEW v \in VMs,
         \/ AskedFor(v, "SAVE_FAILURE") /\ LcmSaveFailure(v)
         \/ AskedFor(v, "DEPLOY_FAILURE") /\ LcmDeployFailure(v)
         \/ AskedFor(v, "SHUTDOWN_SUCCESS") /\ LcmShutdownSuccess(v)
         \/ AskedFor(v, "SHUTDOWN_FAILURE") /\ LcmShutdownFailure(v)
         \/ AskedFor(v, "CANCEL_SUCCESS") /\ LcmCancelSuccess(v)
         \/ AskedFor(v, "CANCEL_FAILURE") /\ LcmCancelFailure(v)
  PROVE  Keeps(v)
<1>1. ASSUME NEW a \in {"SAVE_FAILURE", "SHUTDOWN_FAILURE", "CANCEL_FAILURE"},
             AskedFor(v, a), LcmTakes(v, a), BackToRunning(v), UNCHANGED <<historyVars, usage>>,
             lcm[v] \notin TwoHosts
      PROVE  Keeps(v)
  <2>1. /\ a \notin LcmMoves \cup {"DELETE"} /\ lcm[v] \notin Ignored \cup TwoHosts
        /\ domains[v] \subseteq {Here(v)}
    BY <1>1, VmmAnswerFinds
  <2>2. /\ SetLcm(v, "RUNNING") /\ vmmq' = Trigger(vmmq, "POLL", v)
        /\ UNCHANGED <<historyVars, usage, dmq, tmq>>
    BY <1>1 DEF BackToRunning
  <2>3. "RUNNING" \notin Ignored \cup TwoHosts /\ "RUNNING" \notin Filing /\ "POLL" \in VmmActions
    BY DEF Ignored, TwoHosts, Filing, VmmActions
  <2> QED
    BY <1>1, <2>1, <2>2, <2>3, LcmOrderKeeps
<1>2. CASE AskedFor(v, "SAVE_FAILURE") /\ LcmSaveFailure(v)
  <2>1. /\ lcm[v] \in Saving /\ "SAVE_FAILURE" \notin LcmMoves \cup {"DELETE"}
        /\ lcm[v] \in TwoHosts => domains[v] \subseteq {There(v)}
    BY <1>2, VmmAnswerFinds
  <2>2. CASE lcm[v] \in TwoHosts
    <3>1. LcmTakes(v, "SAVE_FAILURE") /\ MigrationFailed(v)
      BY <1>2, <2>1, <2>2 DEF LcmSaveFailure, Saving, TwoHosts
    <3> QED
      BY <1>2, <2>1, <2>2, <3>1, MigrationFailedKeeps
  <2>3. CASE lcm[v] \notin TwoHosts
    <3>1. /\ LcmTakes(v, "SAVE_FAILURE") /\ BackToRunning(v) /\ UNCHANGED <<historyVars, usage>>
      BY <1>2, <2>1, <2>3 DEF LcmSaveFailure, Saving, TwoHosts
    <3> QED
      BY <1>1, <1>2, <2>3, <3>1
  <2> QED
    BY <2>2, <2>3
<1>3. CASE AskedFor(v, "DEPLOY_FAILURE") /\ LcmDeployFailure(v)
  <2>1. /\ lcm[v] \in {"BOOT", "MIGRATE"} /\ "DEPLOY_FAILURE" \notin LcmMoves \cup {"DELETE"}
        /\ lcm[v] \in TwoHosts => domains[v] \subseteq {There(v)}
        /\ lcm[v] \notin TwoHosts => domains[v] \subseteq {Here(v)}
        /\ lcm[v] \notin TwoHosts => lcm[v] \notin Ignored \cup TwoHosts
    BY <1>3, VmmAnswerFinds
  <2>2. CASE lcm[v] = "MIGRATE"
    <3>1. LcmTakes(v, "DEPLOY_FAILURE") /\ MigrationFailed(v) /\ lcm[v] \in TwoHosts
      BY <1>3, <2>2 DEF LcmDeployFailure, TwoHosts
    <3> QED
      BY <1>3, <2>1, <3>1, MigrationFailedKeeps
  <2>3. CASE lcm[v] = "BOOT"
    <3>1. LcmTakes(v, "DEPLOY_FAILURE") /\ FailureAction(v) /\ lcm[v] \notin TwoHosts
      BY <1>3, <2>3 DEF LcmDeployFailure, TwoHosts
    <3> QED
      BY <1>3, <2>1, <3>1, LcmFailKeeps
  <2> QED
    BY <2>1, <2>2, <2>3
<1>4. CASE AskedFor(v, "SHUTDOWN_SUCCESS") /\ LcmShutdownSuccess(v)
  <2>1. /\ "SHUTDOWN_SUCCESS" \notin LcmMoves \cup {"DELETE"} /\ lcm[v] = "SHUTDOWN"
        /\ domains[v] = {}
    BY <1>4, VmmAnswerFinds
  <2>2. lcm[v] \notin Ignored \cup TwoHosts
    BY <2>1 DEF Ignored, TwoHosts
  <2>3. /\ LcmTakes(v, "SHUTDOWN_SUCCESS") /\ SetLcm(v, "EPILOG") /\ tmq' = Trigger(tmq, "EPILOG", v)
        /\ UNCHANGED <<usage, dmq, vmmq>> /\ RecordsElsewhere(v) /\ Here(v)' = Here(v)
    BY <1>4 DEF LcmShutdownSuccess, historyVars, RecordsElsewhere, Here
  <2> QED
    BY <1>4, <2>1, <2>2, <2>3, LcmFilesKeep DEF Filing, FileScripts
<1>5. CASE AskedFor(v, "CANCEL_SUCCESS") /\ LcmCancelSuccess(v)
  <2>1. /\ "CANCEL_SUCCESS" \notin LcmMoves \cup {"DELETE"} /\ lcm[v] = "CANCEL"
        /\ domains[v] = {}
    BY <1>5, VmmAnswerFinds
  <2>2. lcm[v] \notin Ignored \cup TwoHosts
    BY <2>1 DEF Ignored, TwoHosts
  <2>3. LcmTakes(v, "CANCEL_SUCCESS") /\ LeaveHost(v, "CANCEL", "DONE") /\ UNCHANGED <<lcm, vmmq, tmq>>
    BY <1>5 DEF LcmCancelSuccess
  <2> QED
    BY <1>5, <2>1, <2>2, <2>3, LcmLeaveKeeps
<1>6. CASE AskedFor(v, "SHUTDOWN_FAILURE") /\ LcmShutdownFailure(v)
  <2>1. lcm[v] \notin TwoHosts
    BY <1>6, VmmAnswerFinds DEF TwoHosts
  <2> QED
    BY <1>1, <1>6, <2>1 DEF LcmShutdownFailure
<1>7. CASE AskedFor(v, "CANCEL_FAILURE") /\ LcmCancelFailure(v)
  <2>1. lcm[v] \notin TwoHosts
    BY <1>7, VmmAnswerFinds DEF TwoHosts
  <2> QED
    BY <1>1, <1>7, <2>1 DEF LcmCancelFailure
<1> QED
  BY <1>2, <1>3, <1>4, <1>5, <1>6, <1>7

\* The VM is deployed, restored or migrated.
LEMMA LcmDeploySuccessKeeps ==
  ASSUME TypeOK, NEW v \in VMs, AskedFor(v, "DEPLOY_SUCCESS"), LcmDeploySuccess(v)
  PROVE  Keeps(v)
<1> DEFINE a == "DEPLOY_SUCCESS"
<1>1. LcmTakes(v, a) /\ LcmLeaves(v, a) /\ NoWork(v)
  BY LcmTaken DEF LcmDeploySuccess, AskedFor
<1>2. /\ lcm[v] \in {"BOOT", "MIGRATE"} /\ a \notin LcmMoves \cup {"DELETE"}
      /\ domains[v] \subseteq {Here(v)}
  BY DEF AskedFor, Awaits, HomeBefore, LcmMoves, Saving, Filing
<1>3. SetLcm(v, "RUNNING") /\ UNCHANGED <<cur, dmq, vmmq, tmq>>
  BY DEF LcmDeploySuccess
<1>4. CASE lcm[v] = "MIGRATE"
  <2>1. SetPreviousReason(v, "USER") /\ usage' = DelCapacity(usage, There(v))
    BY <1>4 DEF LcmDeploySuccess, There
  <2>2. RecordsElsewhere(v) /\ Here(v)' = Here(v)
    BY <1>3, <2>1 DEF TypeOK, SetPreviousReason, RecordsElsewhere, Here
  <2>3. domains[v] \subseteq Home(v)'
    <3>1. lcm'[v] = "RUNNING"
      BY <1>3 DEF TypeOK, SetLcm
    <3> QED
      BY <1>1, <1>2, <2>2, <3>1 DEF LcmLeaves, Home, Filing, TwoHosts
  <2>4. "RUNNING" \notin Ignored \cup TwoHosts /\ lcm[v] \in TwoHosts
    BY <1>4 DEF Ignored, TwoHosts
  <2>5. Apart(v) /\ Placed(v)' /\ lcm'[v] = "RUNNING" /\ ~ Mentions(dmq', v)
    BY <1>1, <1>3, <2>2, <2>3, <2>4, LcmWaits
  <2>6. Booked(v)
    BY <1>1, <1>2, <2>1, <2>2, <2>4, <2>5, LcmBooks
  <2> QED
    BY <2>5, <2>6 DEF Keeps
<1>5. CASE lcm[v] = "BOOT"
  <2>1. UNCHANGED <<historyVars, usage, dmq, vmmq, tmq>>
    BY <1>3, <1>5 DEF LcmDeploySuccess, historyVars
  <2>2. /\ "RUNNING" \notin Ignored \cup TwoHosts /\ lcm[v] \notin Ignored \cup TwoHosts
        /\ "RUNNING" \notin Filing
    BY <1>5 DEF Ignored, TwoHosts, Filing
  <2> QED
    BY <1>1, <1>2, <1>3, <2>1, <2>2, LcmWaitKeeps
<1> QED
  BY <1>2, <1>4, <1>5

\* What the answers of the Transfer Manager find.
LEMMA TmAnswerFinds ==
  ASSUME NEW v, NEW a, AskedFor(v, a),
         a \in {"PROLOG_SUCCESS", "PROLOG_FAILURE", "EPILOG_SUCCESS", "EPILOG_FAILURE"}
  PROVE  /\ a \notin LcmMoves \cup {"DELETE"}
         /\ lcm[v] \in Filing /\ lcm[v] \notin Ignored \cup TwoHosts
         /\ domains[v] = {}
<1>1. lcm[v] \in Filing /\ a \notin LcmMoves \cup {"DELETE"}
  BY DEF AskedFor, Awaits, LcmMoves
<1>2. HomeBefore(v, a) = {}
  BY <1>1 DEF HomeBefore, LcmMoves, Home
<1> QED
  BY <1>1, <1>2 DEF AskedFor, Filing, Ignored, TwoHosts

LEMMA LcmTmAnswerKeeps ==
  ASSUME TypeOK, NEW v \in VMs,
         \/ AskedFor(v, "PROLOG_SUCCESS") /\ LcmPrologSuccess(v)
         \/ AskedFor(v, "PROLOG_FAILURE") /\ LcmPrologFailure(v)
         \/ AskedFor(v, "EPILOG_SUCCESS") /\ LcmEpilogSuccess(v)
         \/ AskedFor(v, "EPILOG_FAILURE") /\ LcmEpilogFailure(v)
  PROVE  Keeps(v)
<1>1. PICK a \in {"PROLOG_SUCCESS", "PROLOG_FAILURE", "EPILOG_SUCCESS", "EPILOG_FAILURE"} :
        /\ AskedFor(v, a) /\ LcmTakes(v, a)
        /\ a = "PROLOG_SUCCESS" => LcmPrologSuccess(v)
        /\ a = "EPILOG_SUCCESS" => LcmEpilogSuccess(v)
        /\ a \in {"PROLOG_FAILURE", "EPILOG_FAILURE"} => FailureAction(v)
  BY DEF LcmPrologSuccess, LcmPrologFailure, LcmEpilogSuccess, LcmEpilogFailure
<1>2. /\ a \notin LcmMoves \cup {"DELETE"} /\ lcm[v] \in Filing
      /\ lcm[v] \notin Ignored \cup TwoHosts /\ domains[v] = {}
  BY <1>1, TmAnswerFinds
<1>3. CASE FailureAction(v)
  BY <1>1, <1>2, <1>3, LcmFailKeeps
<1>4. CASE UNCHANGED lcmVars
  <2>1. SetLcm(v, lcm[v]) /\ UNCHANGED <<historyVars, usage, dmq, vmmq, tmq>>
    BY <1>4 DEF TypeOK, SetLcm, lcmVars, historyVars
  <2> QED
    BY <1>1, <1>2, <2>1, LcmWaitKeeps
<1>5. CASE a = "PROLOG_SUCCESS" /\ ~ UNCHANGED lcmVars
  <2>1. PICK op \in {"DEPLOY", "RESTORE"} :
          /\ SetLcm(v, "BOOT") /\ vmmq' = Trigger(vmmq, op, v)
          /\ UNCHANGED <<historyVars, usage, dmq, tmq>>
    BY <1>1, <1>5 DEF LcmPrologSuccess
  <2>2. /\ "BOOT" \notin Ignored \cup TwoHosts /\ "BOOT" \notin Filing
        /\ op \in VmmActions /\ Serves("BOOT", op)
    BY DEF Ignored, TwoHosts, Filing, VmmActions, Serves
  <2> QED
    BY <1>1, <1>2, <2>1, <2>2, LcmOrderKeeps
<1>6. CASE a = "EPILOG_SUCCESS" /\ ~ UNCHANGED lcmVars
  <2>1. PICK outcome \in {"SUSPEND_SUCCESS", "STOP_SUCCESS", "DONE"} :
          LeaveHost(v, cur[v].reason, outcome) /\ UNCHANGED <<lcm, vmmq, tmq>>
    BY <1>1, <1>6 DEF LcmEpilogSuccess
  <2> QED
    BY <1>1, <1>2, <2>1, LcmLeaveKeeps
<1> QED
  BY <1>1, <1>3, <1>4, <1>5, <1>6

\* What a poll of the hypervisor has found.
LEMMA LcmMonitorKeeps ==
  ASSUME TypeOK, NEW v \in VMs,
         \/ AskedFor(v, "MONITOR_FAILURE") /\ LcmMonitorFailure(v)
         \/ AskedFor(v, "MONITOR_SUSPEND") /\ LcmMonitorSuspend(v)
         \/ AskedFor(v, "MONITOR_DONE") /\ LcmMonitorDone(v)
  PROVE  Keeps(v)
<1>1. PICK a \in {"MONITOR_FAILURE", "MONITOR_SUSPEND", "MONITOR_DONE"} :
        /\ AskedFor(v, a) /\ LcmTakes(v, a)
        /\ a = "MONITOR_FAILURE" => FailureAction(v)
        /\ a = "MONITOR_SUSPEND" => LeaveHost(v, "STOP_RESUME", "SUSPEND_SUCCESS")
                                      /\ UNCHANGED <<lcm, vmmq, tmq>>
        /\ a = "MONITOR_DONE" => SetLcm(v, "UNKNOWN")
                                   /\ UNCHANGED <<historyVars, usage, dmq, vmmq, tmq>>
  BY DEF LcmMonitorFailure, LcmMonitorSuspend, LcmMonitorDone
<1>2. /\ lcm[v] \in {"RUNNING", "UNKNOWN"} /\ a \notin LcmMoves \cup {"DELETE"}
      /\ lcm[v] \notin Ignored \cup TwoHosts
  BY <1>1 DEF AskedFor, Awaits, LcmMoves, Ignored, TwoHosts, Saving, Filing
<1>3. domains[v] \subseteq {Here(v)}
  BY <1>1, <1>2 DEF AskedFor, HomeBefore, Home
<1>4. "UNKNOWN" \notin Ignored \cup TwoHosts /\ "UNKNOWN" \notin Filing
  BY DEF Ignored, TwoHosts, Filing
<1>5. CASE a = "MONITOR_FAILURE"
  BY <1>1, <1>2, <1>3, <1>5, LcmFailKeeps
<1>6. CASE a = "MONITOR_SUSPEND"
  BY <1>1, <1>2, <1>3, <1>6, LcmLeaveKeeps
<1>7. CASE a = "MONITOR_DONE"
  BY <1>1, <1>2, <1>3, <1>4, <1>7, LcmWaitKeeps
<1> QED
  BY <1>5, <1>6, <1>7

\* delete: what the clean-up is asked for.
LEMMA DeleteAsks ==
  ASSUME TypeOK, NEW v \in VMs, NotQueued(v)
  PROVE  /\ Just(DeleteCommands(v), v, {"DRIVER_CANCEL", "CANCEL", "CANCEL_PREVIOUS"})
         /\ Elsewhere(vmmq, DeleteCommands(v), v)
         /\ Just(DeleteTransfers(v), v, {"DRIVER_CANCEL", "EPILOG_DELETE", "EPILOG_DELETE_PREVIOUS"})
         /\ Elsewhere(tmq, DeleteTransfers(v), v)
<1> DEFINE VC == {"DRIVER_CANCEL", "CANCEL", "CANCEL_PREVIOUS"}
           TC == {"DRIVER_CANCEL", "EPILOG_DELETE", "EPILOG_DELETE_PREVIOUS"}
           V(q) == q \in Seq(Entries(VmmActions)) /\ Just(q, v, VC) /\ Elsewhere(vmmq, q, v)
           T(q) == q \in Seq(Entries(TmActions)) /\ Just(q, v, TC) /\ Elsewhere(tmq, q, v)
<1>1. V(vmmq) /\ T(tmq)
  BY OnlyFor, ElsewhereSame DEF TypeOK, NotQueued
<1>2. VC \subseteq VmmActions /\ TC \subseteq TmActions
  BY DEF VmmActions, TmActions
<1>3. ASSUME NEW q, V(q), NEW c \in VC PROVE V(Trigger(q, c, v))
  <2>1. Elsewhere(q, Trigger(q, c, v), v)
    BY <1>2, <1>3, ElsewhereTrigger
  <2>2. Elsewhere(vmmq, Trigger(q, c, v), v)
    BY <1>3, <2>1, ElsewhereTwice
  <2>3. Just(Trigger(q, c, v), v, VC)
    BY <1>2, <1>3, TriggerFor
  <2>4. Trigger(q, c, v) \in Seq(Entries(VmmActions))
    BY <1>2, <1>3, TriggerType
  <2> QED
    BY <2>2, <2>3, <2>4
<1>4. ASSUME NEW q, T(q), NEW c \in TC PROVE T(Trigger(q, c, v))
  <2>1. Elsewhere(q, Trigger(q, c, v), v)
    BY <1>2, <1>4, ElsewhereTrigger
  <2>2. Elsewhere(tmq, Trigger(q, c, v), v)
    BY <1>4, <2>1, ElsewhereTwice
  <2>3. Just(Trigger(q, c, v), v, TC)
    BY <1>2, <1>4, TriggerFor
  <2>4. Trigger(q, c, v) \in Seq(Entries(TmActions))
    BY <1>2, <1>4, TriggerType
  <2> QED
    BY <2>2, <2>3, <2>4
<1> HIDE DEF V, T
<1>5. V(DeleteCommands(v))
  <2>1. \A q : V(q) => V(Trigger(q, "DRIVER_CANCEL", v)) /\ V(Trigger(q, "CANCEL", v))
                         /\ V(Trigger(q, "CANCEL_PREVIOUS", v))
    BY <1>3
  <2>2. /\ V(Trigger(Trigger(Trigger(vmmq, "DRIVER_CANCEL", v), "CANCEL", v), "CANCEL_PREVIOUS", v))
        /\ V(Trigger(Trigger(vmmq, "DRIVER_CANCEL", v), "CANCEL_PREVIOUS", v))
        /\ V(Trigger(Trigger(vmmq, "DRIVER_CANCEL", v), "CANCEL", v))
    BY <1>1, <2>1
  <2>3. CASE lcm[v] = "MIGRATE"
    BY <2>2, <2>3 DEF DeleteCommands
  <2>4. CASE lcm[v] = "SAVE_MIGRATE"
    BY <2>2, <2>4 DEF DeleteCommands
  <2>5. CASE lcm[v] \in DeletesAtHypervisor \ {"MIGRATE"}
    BY <2>2, <2>5 DEF DeleteCommands, DeletesAtHypervisor
  <2>6. CASE lcm[v] \notin DeletesAtHypervisor \cup {"SAVE_MIGRATE"}
    BY <1>1, <2>6 DEF DeleteCommands, DeletesAtHypervisor
  <2> QED
    BY <2>3, <2>4, <2>5, <2>6
<1>6. T(DeleteTransfers(v))
  <2>1. \A q : T(q) => T(Trigger(q, "DRIVER_CANCEL", v)) /\ T(Trigger(q, "EPILOG_DELETE", v))
                         /\ T(Trigger(q, "EPILOG_DELETE_PREVIOUS", v))
    BY <1>4
  <2>2. /\ T(Trigger(tmq, "EPILOG_DELETE", v)) /\ T(Trigger(tmq, "EPILOG_DELETE_PREVIOUS", v))
        /\ T(Trigger(Trigger(tmq, "DRIVER_CANCEL", v), "EPILOG_DELETE", v))
        /\ T(Trigger(Trigger(Trigger(tmq, "DRIVER_CANCEL", v), "EPILOG_DELETE", v),
                     "EPILOG_DELETE_PREVIOUS", v))
    BY <1>1, <2>1
  <2>3. CASE lcm[v] \in DeletesAtHypervisor
    BY <2>2, <2>3 DEF DeleteTransfers, DeletesAtHypervisor
  <2>4. CASE lcm[v] = "SAVE_MIGRATE"
    BY <2>2, <2>4 DEF DeleteTransfers, DeletesAtHypervisor
  <2>5. CASE lcm[v] = "PROLOG_MIGRATE"
    BY <2>2, <2>5 DEF DeleteTransfers, DeletesAtHypervisor
  <2>6. CASE lcm[v] \notin DeletesAtHypervisor \cup {"SAVE_MIGRATE", "PROLOG_MIGRATE"}
    BY <2>2, <2>6 DEF DeleteTransfers, DeletesAtHypervisor
  <2> QED
    BY <2>3, <2>4, <2>5, <2>6
<1> QED
  BY <1>5, <1>6 DEF V, T

\* What is going on for a VM that is deleted is what remains of it.
LEMMA WorkRemains ==
  ASSUME TypeOK, NEW v \in VMs, AtWork(v), domains[v] \subseteq Home(v)
  PROVE  /\ \E h \in Hosts \cup {NoHost} : domains[v] \subseteq {h}
         /\ Lone(commands[v], Placing)
         /\ \A i \in DOMAIN commands[v] :
              commands[v][i].op \in {"DEPLOY", "RESTORE"} => domains[v] \subseteq {commands[v][i].at}
<1>1. Here(v) \in Hosts \cup {NoHost} /\ There(v) \in Hosts \cup {NoHost}
  BY DEF TypeOK, Records, Here, There
<1>2. Home(v) \subseteq {IF lcm[v] \in TwoHosts THEN There(v) ELSE Here(v)}
  BY DEF Home
<1>3. Placing \subseteq Orders
  BY DEF Placing, Orders, Polls
<1>4. Lone(commands[v], Placing)
  BY <1>3 DEF AtWork, Lone
<1>5. ASSUME NEW i \in DOMAIN commands[v], commands[v][i].op \in {"DEPLOY", "RESTORE"}
      PROVE  domains[v] \subseteq {commands[v][i].at}
  <2>1. Fits(v, commands[v][i])
    BY <1>5 DEF AtWork, Polls
  <2>2. lcm[v] = "BOOT"
    BY <1>5, <2>1 DEF Fits, Serves
  <2>3. commands[v][i].at = Here(v) /\ lcm[v] \notin TwoHosts
    BY <2>1, <2>2 DEF Fits, TwoHosts
  <2> QED
    BY <1>2, <2>3
<1>6. \E h \in Hosts \cup {NoHost} : domains[v] \subseteq {h}
  BY <1>1, <1>2
<1> QED
  BY <1>4, <1>5, <1>6

LEMMA LcmDeleteKeeps ==
  ASSUME TypeOK, NEW v \in VMs, AskedFor(v, "DELETE"), LcmDelete(v)
  PROVE  Keeps(v)
<1> DEFINE a == "DELETE"
<1>1. LcmTakes(v, a) /\ LcmLeaves(v, a)
  BY LcmTaken DEF LcmDelete
<1>2. lcm[v] \notin Ignored /\ AtWork(v) /\ domains[v] \subseteq Home(v) /\ a \notin LcmMoves
  BY DEF AskedFor, Awaits, HomeBefore, LcmMoves, Saving, Filing
<1>3. /\ SetLcm(v, "DELETE") /\ SetReason(v, "USER")
      /\ dmq' = Trigger(dmq, "DONE", v)
      /\ vmmq' = DeleteCommands(v) /\ tmq' = DeleteTransfers(v)
      /\ SetPreviousReason(v, "USER") \/ UNCHANGED prev
      /\ lcm[v] \in TwoHosts => usage' = DelCapacity(DelCapacity(usage, Here(v)), There(v))
      /\ lcm[v] \notin TwoHosts => usage' = DelCapacity(usage, Here(v))
  BY <1>2 DEF LcmDelete, TwoHosts, Here, There
<1>4. RecordsElsewhere(v)
  BY <1>3 DEF TypeOK, Records, SetReason, SetPreviousReason, RecordsElsewhere
<1>5. lcm'[v] = "DELETE" /\ \A w \in VMs \ {v} : lcm'[w] = lcm[w]
  BY <1>3 DEF TypeOK, SetLcm
<1>6. dmq \in Seq(Entries(DmActions)) /\ "DONE" \in DmActions
  BY DEF TypeOK, DmActions
<1>7. Only(dmq', v, "DONE") /\ Mentions(dmq', v) /\ Elsewhere(dmq, dmq', v)
  BY <1>1, <1>3, <1>6, TriggerFor, ElsewhereTrigger DEF LcmLeaves, NotQueued
<1>8. /\ Just(vmmq', v, {"DRIVER_CANCEL", "CANCEL", "CANCEL_PREVIOUS"})
      /\ Just(tmq', v, {"DRIVER_CANCEL", "EPILOG_DELETE", "EPILOG_DELETE_PREVIOUS"})
      /\ Elsewhere(vmmq, vmmq', v) /\ Elsewhere(tmq, tmq', v)
  BY <1>1, <1>3, DeleteAsks DEF LcmLeaves
<1>9. Remains(v)'
  <2>1. /\ \E h \in Hosts \cup {NoHost} : domains[v] \subseteq {h}
        /\ Lone(commands[v], Placing)
        /\ \A i \in DOMAIN commands[v] :
             commands[v][i].op \in {"DEPLOY", "RESTORE"} => domains[v] \subseteq {commands[v][i].at}
    BY <1>2, WorkRemains
  <2> QED
    BY <1>1, <1>8, <2>1 DEF LcmLeaves, Remains, Just, Mentions, Lone, Placing
<1>10. Ending(v)'
  <2>1. IsActive(v)'
    BY <1>1 DEF LcmLeaves, IsActive
  <2> HIDE DEF Remains
  <2> QED
    BY <1>5, <1>7, <1>9, <2>1 DEF Ending
<1>11. Apart(v) /\ Placed(v)'
  BY <1>1, <1>4, <1>5, <1>7, <1>8, <1>10, LcmApart DEF Placed
<1>12. Booked(v)
  <2>1. CASE lcm[v] \notin TwoHosts
    BY <1>1, <1>2, <1>3, <1>7, <2>1, LcmBooks
  <2>2. CASE lcm[v] \in TwoHosts
    <3>1. ASSUME NEW h \in Hosts
          PROVE  usage'[h] = usage[h] + LoadAfter(v, h) - LoadBefore(v, a, h)
      <4>1. LoadAfter(v, h) = 0 /\ LoadBefore(v, a, h) = At(Here(v), h) + At(There(v), h)
        BY <1>2, <1>7, <2>2, LoadValues
      <4>2. usage \in [Hosts -> Int] /\ DelCapacity(usage, Here(v)) \in [Hosts -> Int]
        BY CapacityType DEF TypeOK
      <4>3. /\ DelCapacity(usage, Here(v))[h] = usage[h] - At(Here(v), h)
            /\ usage'[h] = DelCapacity(usage, Here(v))[h] - At(There(v), h)
        BY <1>3, <2>2, <4>2, CapacityFor
      <4>4. usage[h] \in Int /\ At(Here(v), h) \in Int /\ At(There(v), h) \in Int
        BY <4>2, AtType
      <4> QED
        BY <4>1, <4>3, <4>4
    <3> QED
      BY <1>1, <3>1, LcmBooked
  <2> QED
    BY <2>1, <2>2
<1> QED
  BY <1>11, <1>12 DEF Keeps

\* Every handler of the Life-cycle Manager.
LEMMA LcmKeeps ==
  ASSUME TypeOK, RecordsExist, NEW v \in VMs, Placed(v), LcmStep(v)
  PROVE  Keeps(v)
<1>1. ASSUME NEW a, LcmTakes(v, a) PROVE AskedFor(v, a)
  BY <1>1, LcmComesTo DEF LcmTakes
<1>2. CASE LcmDeploy(v)
  BY <1>1, <1>2, LcmDeployKeeps DEF LcmDeploy
<1>3. CASE LcmSuspend(v) \/ LcmStop(v) \/ LcmShutdown(v) \/ LcmCancel(v)
  BY <1>1, <1>3, LcmCommandKeeps DEF LcmSuspend, LcmStop, LcmShutdown, LcmCancel, LcmCommand
<1>4. CASE LcmMigrate(v) \/ LcmLiveMigrate(v)
  BY <1>1, <1>4, LcmMoveKeeps DEF LcmMigrate, LcmLiveMigrate, LcmMove
<1>5. CASE LcmRestore(v)
  BY <1>1, <1>5, LcmRestoreKeeps DEF LcmRestore
<1>6. CASE LcmRestart(v)
  <2>1. Awaits(lcm[v], "RESTART")
    BY <1>1, <1>6 DEF LcmRestart, AskedFor
  <2> QED
    BY <2>1 DEF Awaits
<1>7. CASE LcmDelete(v)
  BY <1>1, <1>7, LcmDeleteKeeps DEF LcmDelete
<1>8. CASE LcmSaveSuccess(v)
  BY <1>1, <1>8, LcmSaveSuccessKeeps DEF LcmSaveSuccess
<1>9. CASE \/ LcmSaveFailure(v) \/ LcmDeployFailure(v) \/ LcmShutdownSuccess(v)
           \/ LcmShutdownFailure(v) \/ LcmCancelSuccess(v) \/ LcmCancelFailure(v)
  BY <1>1, <1>9, LcmVmmAnswerKeeps
     DEF LcmSaveFailure, LcmDeployFailure, LcmShutdownSuccess, LcmShutdownFailure,
         LcmCancelSuccess, LcmCancelFailure
<1>10. CASE LcmDeploySuccess(v)
  BY <1>1, <1>10, LcmDeploySuccessKeeps DEF LcmDeploySuccess
<1>11. CASE LcmPrologSuccess(v) \/ LcmPrologFailure(v) \/ LcmEpilogSuccess(v) \/ LcmEpilogFailure(v)
  BY <1>1, <1>11, LcmTmAnswerKeeps
     DEF LcmPrologSuccess, LcmPrologFailure, LcmEpilogSuccess, LcmEpilogFailure
<1>12. CASE LcmMonitorFailure(v) \/ LcmMonitorSuspend(v) \/ LcmMonitorDone(v)
  BY <1>1, <1>12, LcmMonitorKeeps DEF LcmMonitorFailure, LcmMonitorSuspend, LcmMonitorDone
<1> QED
  BY <1>2, <1>3, <1>4, <1>5, <1>6, <1>7, <1>8, <1>9, <1>10, <1>11, <1>12 DEF LcmStep

-----------------------------------------------------------------------------
(* The Virtual Machine Manager, the Transfer Manager and their drivers     *)

\* They change what is going on for a VM, and not what is charged for it.
LEMMA DriverKeeps ==
  ASSUME TypeOK, NEW v \in VMs, UNCHANGED <<state, cur, prev, leases, usage, dmq, cancelling>>,
         \A w \in VMs \ {v} : /\ lcm'[w] = lcm[w] /\ commands'[w] = commands[w]
                              /\ transfers'[w] = transfers[w] /\ domains'[w] = domains[w],
         lcm'[v] = lcm[v] \/ {lcm[v], lcm'[v]} \subseteq {"RUNNING", "UNKNOWN"},
         \/ lcmq' = lcmq
         \/ /\ ~ Mentions(lcmq, v)
            /\ \E a \in LcmActions \ LcmMoves : lcmq' = Trigger(lcmq, a, v),
         Elsewhere(vmmq, vmmq', v), Elsewhere(tmq, tmq', v), Placed(v)'
  PROVE  Keeps(v)
<1>1. /\ Elsewhere(lcmq, lcmq', v) /\ Elsewhere(dmq, dmq', v)
      /\ Asked(lcmq', LcmMoves, v) <=> Asked(lcmq, LcmMoves, v)
  <2>1. lcmq \in Seq(Entries(LcmActions)) /\ Elsewhere(dmq, dmq', v)
    BY ElsewhereSame DEF TypeOK
  <2>2. CASE lcmq' = lcmq
    BY <2>1, <2>2, ElsewhereSame
  <2>3. ASSUME NEW a \in LcmActions \ LcmMoves, lcmq' = Trigger(lcmq, a, v), ~ Mentions(lcmq, v)
        PROVE  /\ Elsewhere(lcmq, lcmq', v)
               /\ Asked(lcmq', LcmMoves, v) <=> Asked(lcmq, LcmMoves, v)
    <3>1. Only(lcmq', v, a) /\ Elsewhere(lcmq, lcmq', v)
      BY <2>1, <2>3, TriggerFor, ElsewhereTrigger
    <3>2. ~ Asked(lcmq', LcmMoves, v) /\ ~ Asked(lcmq, LcmMoves, v)
      BY <2>3, <3>1, OnlyFor
    <3> QED
      BY <3>1, <3>2
  <2> QED
    BY <2>1, <2>2, <2>3
<1>2. Apart(v)
  BY <1>1 DEF Apart, Untouched, Elsewhere
<1>3. Booked(v)
  <2> SUFFICES ASSUME NEW h \in Hosts PROVE usage'[h] - usage[h] = Load(v, h)' - Load(v, h)
    BY DEF Booked
  <2>1. /\ IsActive(v)' <=> IsActive(v)
        /\ Here(v)' = Here(v) /\ There(v)' = There(v)
        /\ Mentions(dmq', v) <=> Mentions(dmq, v)
        /\ lcm'[v] = lcm[v] \/ (lcm'[v] \notin Ignored \cup TwoHosts /\ lcm[v] \notin Ignored \cup TwoHosts)
    BY DEF IsActive, Here, There, Ignored, TwoHosts
  <2>2. Load(v, h)' = Load(v, h)
    BY <1>1, <2>1, LoadIs DEF LoadOf
  <2>3. Load(v, h) \in Int /\ usage'[h] = usage[h] /\ usage[h] \in Int
    BY LoadIs, LoadOfType DEF TypeOK
  <2> HIDE DEF Load
  <2> QED
    BY <2>2, <2>3
<1> QED
  BY <1>2, <1>3 DEF Keeps

\* Of what remains of a VM a command is answered or killed: the VM has a domain
\* on one host at most all the same.
LEMMA RemainsAfter ==
  ASSUME TypeOK, NEW v \in VMs, Remains(v), NEW i \in DOMAIN commands[v],
         commands'[v] = RemoveAt(commands[v], i),
         domains'[v] \in {domains[v], Effect(commands[v][i], domains[v])},
         ~ Mentions(lcmq', v), v \notin cancelling',
         Just(vmmq', v, {"DRIVER_CANCEL", "CANCEL", "CANCEL_PREVIOUS"}),
         Just(tmq', v, {"DRIVER_CANCEL", "EPILOG_DELETE", "EPILOG_DELETE_PREVIOUS"})
  PROVE  Remains(v)'
<1> DEFINE c == commands[v][i]
           D == Hosts \cup {NoHost}
<1>1. commands[v] \in Seq(Commands) /\ c \in Commands
  BY DEF TypeOK
<1>2. c.at \in D /\ c.to \in D
  BY <1>1 DEF Commands
<1>3. Lone(commands[v], Placing)
  BY DEF Remains
<1>4. /\ Lone(commands'[v], Placing)
      /\ c \in Placing => \A j \in DOMAIN commands'[v] : commands'[v][j] \notin Placing
      /\ \A j \in DOMAIN commands'[v] : \E k \in DOMAIN commands[v] : commands'[v][j] = commands[v][k]
  BY <1>1, <1>3, RemoveAtFor
<1>5. PICK h \in D : domains[v] \subseteq {h}
  BY DEF Remains
<1>6. \A j \in DOMAIN commands'[v] : commands'[v][j] \in Commands
  BY <1>1, <1>4
<1>7. CASE c \in Placing
  <2>1. \A j \in DOMAIN commands'[v] : commands'[v][j].op \notin {"DEPLOY", "RESTORE"}
    BY <1>4, <1>6, <1>7 DEF Placing
  <2>2. \E x \in D : domains'[v] \subseteq {x}
    <3>1. CASE c.op \in {"DEPLOY", "RESTORE"}
      <4>1. domains[v] \subseteq {c.at}
        BY <3>1 DEF Remains
      <4>2. Effect(c, domains[v]) \subseteq {c.at}
        BY <3>1, <4>1 DEF Effect
      <4> QED
        BY <1>2, <4>1, <4>2
    <3>2. CASE c.op = "MIGRATE"
      <4>1. Effect(c, domains[v]) \subseteq {h} \/ Effect(c, domains[v]) \subseteq {c.to}
        BY <1>5, <3>2 DEF Effect
      <4> QED
        BY <1>2, <1>5, <4>1
    <3> QED
      BY <1>7, <3>1, <3>2 DEF Placing
  <2> QED
    BY <1>4, <2>1, <2>2 DEF Remains, Just, Mentions, Lone, Placing
<1>8. CASE c \notin Placing
  <2>1. c.op \in {"SAVE", "SHUTDOWN", "CANCEL", "POLL"}
    BY <1>1, <1>8 DEF Placing, Commands
  <2>2. domains'[v] \subseteq domains[v]
    BY <2>1 DEF Effect
  <2>3. \A j \in DOMAIN commands'[v] :
          commands'[v][j].op \in {"DEPLOY", "RESTORE"} => domains'[v] \subseteq {commands'[v][j].at}
    BY <1>4, <2>2 DEF Remains
  <2>4. \E x \in D : domains'[v] \subseteq {x}
    BY <1>5, <2>2
  <2> QED
    BY <1>4, <2>3, <2>4 DEF Remains, Just, Mentions, Lone, Placing
<1> QED
  BY <1>7, <1>8

LEMMA VmmComesTo ==
  ASSUME TypeOK, NEW v \in VMs, NEW a, Placed(v), IsNext(vmmq, a, v)
  PROVE  /\ \/ /\ Ordering(v) /\ ~ Mentions(Tail(vmmq), v)
               /\ Serves(lcm[v], a) \/ (a = "POLL" /\ lcm[v] = "RUNNING")
            \/ /\ Ending(v) \/ Over(v)
               /\ a \in {"DRIVER_CANCEL", "CANCEL", "CANCEL_PREVIOUS"}
               /\ Just(Tail(vmmq), v, {"DRIVER_CANCEL", "CANCEL", "CANCEL_PREVIOUS"})
         /\ Elsewhere(vmmq, Tail(vmmq), v)
<1>1. vmmq \in Seq(Entries(VmmActions))
  BY DEF TypeOK
<1>2. /\ Mentions(vmmq, v)
      /\ \A op : Only(vmmq, v, op) => op = a /\ ~ Mentions(Tail(vmmq), v)
      /\ \A ops : Just(vmmq, v, ops) => a \in ops /\ Just(Tail(vmmq), v, ops)
      /\ Elsewhere(vmmq, Tail(vmmq), v)
  BY <1>1, TailFor DEF Elsewhere
<1>3. Ordering(v) \/ Ending(v) \/ Over(v)
  BY <1>2 DEF Placed, Resting, Settled, AskedFor, NotQueued, Cancelling, Moving, Waiting, Leaving
<1>4. CASE Ordering(v)
  <2>1. PICK op \in VmmActions : /\ Only(vmmq, v, op)
                                 /\ Serves(lcm[v], op) \/ (op = "POLL" /\ lcm[v] = "RUNNING")
    BY <1>4 DEF Ordering
  <2>2. op = a /\ ~ Mentions(Tail(vmmq), v)
    BY <1>2, <2>1
  <2> QED
    BY <1>2, <1>4, <2>1, <2>2
<1>5. CASE Ending(v) \/ Over(v)
  <2>1. Just(vmmq, v, {"DRIVER_CANCEL", "CANCEL", "CANCEL_PREVIOUS"})
    BY <1>5 DEF Ending, Over, Remains
  <2> QED
    BY <1>2, <1>5, <2>1
<1> QED
  BY <1>3, <1>4, <1>5

\* The command goes to the driver, which is what the VM then waits for, or it
\* cannot be sent and the Life-cycle Manager is told.
LEMMA VmmSends ==
  ASSUME TypeOK, NEW v \in VMs, NEW a, Ordering(v), VmmTakes(v, a),
         ~ Mentions(Tail(vmmq), v), Elsewhere(vmmq, Tail(vmmq), v),
         NEW c \in Commands, c \in Polls \/ Fits(v, c), NEW found, NEW refusal,
         VmmSend(v, c, found, refusal),
         \/ refusal = lcmq
         \/ \E b \in {"SAVE_FAILURE", "DEPLOY_FAILURE", "SHUTDOWN_FAILURE", "CANCEL_FAILURE"} :
              Awaits(lcm[v], b) /\ refusal = Trigger(lcmq, b, v)
  PROVE  Keeps(v)
<1>1. /\ UNCHANGED <<state, lcm, cur, prev, leases, usage, dmq, tmq, transfers, cancelling, domains>>
      /\ vmmq' = Tail(vmmq)
  BY DEF VmmTakes, VmmSend, stateVars, historyVars, clientVars
<1>2. /\ IsActive(v) /\ ~ Mentions(lcmq, v) /\ ~ Mentions(dmq, v) /\ ~ Mentions(tmq, v)
      /\ v \notin cancelling /\ NoWork(v) /\ domains[v] \subseteq Home(v)
      /\ ~ Mentions(vmmq', v)
  BY <1>1 DEF Ordering
<1>3. lcm[v] \notin Ignored
  <2>1. \E op : Serves(lcm[v], op) \/ lcm[v] = "RUNNING"
    BY DEF Ordering
  <2> QED
    BY <2>1 DEF Serves, Saving, Ignored
<1>4. Elsewhere(vmmq, vmmq', v) /\ Elsewhere(tmq, tmq', v)
  BY <1>1, ElsewhereSame
<1>5. /\ IsActive(v)' /\ ~ Mentions(dmq', v) /\ ~ Mentions(tmq', v) /\ v \notin cancelling'
      /\ domains'[v] = domains[v] /\ Home(v)' = Home(v) /\ transfers'[v] = <<>>
      /\ \A b : HomeBefore(v, b)' = HomeBefore(v, b)
  <2>1. Home(v)' = Home(v) /\ Here(v)' = Here(v) /\ There(v)' = There(v)
    BY <1>1 DEF Home, Here, There
  <2> HIDE DEF Home
  <2> QED
    BY <1>1, <1>2, <2>1 DEF IsActive, HomeBefore, NoWork
<1>6. commands[v] \in Seq(Commands) /\ commands \in [VMs -> Seq(Commands)]
  BY DEF TypeOK
<1>7. CASE lcmq' = lcmq /\ (commands' = commands \/ commands' = Sent(v, c))
  <2>1. \A w \in VMs \ {v} : commands'[w] = commands[w]
    BY <1>6, <1>7 DEF Sent
  <2>2. commands'[v] = commands[v] \/ commands'[v] = Append(commands[v], c)
    BY <1>6, <1>7 DEF Sent
  <2>3. /\ \A i \in DOMAIN commands'[v] : commands'[v][i] \in Polls \/ commands'[v][i] = c
        /\ Lone(commands'[v], Orders)
    <3>1. \A i \in DOMAIN commands[v] : commands[v][i] \in Polls
      BY <1>2 DEF NoWork
    <3>2. CASE commands'[v] = commands[v]
      BY <3>1, <3>2 DEF Lone, Orders
    <3>3. CASE commands'[v] = Append(commands[v], c)
      <4>1. \A k \in DOMAIN commands[v] : commands[v][k] \notin Orders
        BY <3>1 DEF Orders
      <4> QED
        BY <1>6, <3>1, <3>3, <4>1, AppendFor
    <3> QED
      BY <2>2, <3>2, <3>3
  <2>4. AtWork(v)'
    <3>1. \A i \in DOMAIN commands'[v] : commands'[v][i] \in Polls \/ Fits(v, commands'[v][i])
      BY <2>3
    <3>2. Here(v)' = Here(v) /\ There(v)' = There(v) /\ lcm' = lcm
      BY <1>1 DEF Here, There
    <3> QED
      BY <1>5, <2>3, <3>1, <3>2 DEF AtWork, Fits, Polls, Orders, Lone
  <2>5. Settled(v)'
    BY <1>2, <1>5, <1>7 DEF Settled, Mentions
  <2>6. Waiting(v)'
    <3> HIDE DEF AtWork, Settled, Home
    <3> QED
      BY <1>1, <1>2, <1>3, <1>5, <2>4, <2>5 DEF Waiting, Ignored
  <2> QED
    BY <1>1, <1>4, <1>7, <2>1, <2>6, DriverKeeps DEF Placed
<1>8. ASSUME NEW b \in {"SAVE_FAILURE", "DEPLOY_FAILURE", "SHUTDOWN_FAILURE", "CANCEL_FAILURE"},
             Awaits(lcm[v], b), lcmq' = Trigger(lcmq, b, v), commands' = commands
      PROVE  Keeps(v)
  <2>1. b \in LcmActions \ LcmMoves /\ lcmq \in Seq(Entries(LcmActions))
    BY DEF LcmActions, LcmMoves, TypeOK
  <2>2. Only(lcmq', v, b)
    BY <1>2, <1>8, <2>1, TriggerFor
  <2>3. HomeBefore(v, b) = Home(v)
    BY DEF HomeBefore, LcmMoves
  <2>4. NoWork(v)'
    BY <1>1, <1>2, <1>8 DEF NoWork, Polls
  <2>5. AtWork(v)'
    BY <2>4 DEF NoWork, AtWork, Lone, Orders, Polls
  <2>6. AskedFor(v, b)'
    <3>1. domains'[v] \subseteq HomeBefore(v, b)' /\ NotQueued(v)'
      BY <1>2, <1>5, <2>3 DEF NotQueued, Mentions
    <3> HIDE DEF NoWork, AtWork, HomeBefore, NotQueued
    <3> QED
      BY <1>1, <1>5, <1>8, <2>2, <2>4, <2>5, <3>1 DEF AskedFor
  <2>7. Placed(v)'
    BY <2>1, <2>6 DEF Placed
  <2> QED
    BY <1>1, <1>2, <1>4, <1>8, <2>1, <2>7, DriverKeeps
<1> QED
  BY <1>7, <1>8 DEF VmmSend

\* Or a command that places nothing is added to what remains.
LEMMA RemainsMore ==
  ASSUME TypeOK, NEW v \in VMs, Remains(v), domains'[v] = domains[v],
         \/ commands'[v] = commands[v]
         \/ \E c \in Commands \ Placing : commands'[v] = Append(commands[v], c),
         ~ Mentions(lcmq', v), v \notin cancelling',
         Just(vmmq', v, {"DRIVER_CANCEL", "CANCEL", "CANCEL_PREVIOUS"}),
         Just(tmq', v, {"DRIVER_CANCEL", "EPILOG_DELETE", "EPILOG_DELETE_PREVIOUS"})
  PROVE  Remains(v)'
<1>1. /\ Lone(commands'[v], Placing)
      /\ \A j \in DOMAIN commands'[v] :
           commands'[v][j].op \in {"DEPLOY", "RESTORE"}
             => \E k \in DOMAIN commands[v] : commands'[v][j] = commands[v][k]
  <2>1. CASE commands'[v] = commands[v]
    BY <2>1 DEF Remains
  <2>2. ASSUME NEW c \in Commands \ Placing, commands'[v] = Append(commands[v], c)
        PROVE  /\ Lone(commands'[v], Placing)
               /\ \A j \in DOMAIN commands'[v] :
                    commands'[v][j].op \in {"DEPLOY", "RESTORE"}
                      => \E k \in DOMAIN commands[v] : commands'[v][j] = commands[v][k]
    <3>1. commands[v] \in Seq(Commands) /\ Lone(commands[v], Placing)
      BY DEF TypeOK, Remains
    <3>2. c.op \notin {"DEPLOY", "RESTORE"}
      BY DEF Placing
    <3> QED
      BY <2>2, <3>1, <3>2, AppendFor
  <2> QED
    BY <2>1, <2>2
<1>2. \A j \in DOMAIN commands'[v] :
        commands'[v][j].op \in {"DEPLOY", "RESTORE"} => domains'[v] \subseteq {commands'[v][j].at}
  BY <1>1 DEF Remains
<1>3. \E h \in Hosts \cup {NoHost} : domains'[v] \subseteq {h}
  BY DEF Remains
<1> QED
  BY <1>1, <1>2, <1>3 DEF Remains, Just, Mentions, Lone, Placing

\* What remains of a VM remains of it at the same place.
LEMMA StillOver ==
  ASSUME NEW v, Ending(v) \/ Over(v), UNCHANGED <<state, lcm, dmq>>, Remains(v)'
  PROVE  Placed(v)'
<1>1. Ending(v) => Ending(v)'
  <2> HIDE DEF Remains
  <2> QED
    BY DEF Ending, IsActive, Only
<1>2. Over(v) => Over(v)'
  <2> HIDE DEF Remains
  <2> QED
    BY DEF Over, Mentions
<1> QED
  BY <1>1, <1>2 DEF Placed

\* The clean-up of a VM that is deleted or has failed.
LEMMA VmmCleans ==
  ASSUME TypeOK, NEW v \in VMs, NEW a, Ending(v) \/ Over(v), VmmTakes(v, a),
         Just(Tail(vmmq), v, {"DRIVER_CANCEL", "CANCEL", "CANCEL_PREVIOUS"}),
         Elsewhere(vmmq, Tail(vmmq), v), UNCHANGED lcmq,
         \/ /\ UNCHANGED domains
            /\ \/ UNCHANGED commands
               \/ \E c \in Commands \ Placing : commands' = Sent(v, c)
         \/ \E i \in DOMAIN commands[v] :
              /\ commands' = [commands EXCEPT ![v] = RemoveAt(@, i)]
              /\ \/ domains' = [domains EXCEPT ![v] = Effect(commands[v][i], @)]
                 \/ UNCHANGED domains
  PROVE  Keeps(v)
<1>1. /\ UNCHANGED <<state, lcm, cur, prev, leases, usage, dmq, tmq, transfers, cancelling>>
      /\ vmmq' = Tail(vmmq)
  BY DEF VmmTakes, stateVars, historyVars, clientVars
<1>2. Remains(v)
  BY DEF Ending, Over
<1>3. /\ ~ Mentions(lcmq', v) /\ v \notin cancelling'
      /\ Just(vmmq', v, {"DRIVER_CANCEL", "CANCEL", "CANCEL_PREVIOUS"})
      /\ Just(tmq', v, {"DRIVER_CANCEL", "EPILOG_DELETE", "EPILOG_DELETE_PREVIOUS"})
  BY <1>1, <1>2 DEF Remains
<1>4. /\ commands \in [VMs -> Seq(Commands)]
      /\ domains \in [VMs -> SUBSET (Hosts \cup {NoHost})]
  BY DEF TypeOK
<1>5. \A w \in VMs \ {v} : commands'[w] = commands[w] /\ domains'[w] = domains[w]
  BY <1>4 DEF Sent
<1>6. Remains(v)'
  <2>1. CASE UNCHANGED <<domains, commands>>
    BY <1>2, <1>3, <2>1, RemainsMore
  <2>2. ASSUME NEW c \in Commands \ Placing, commands' = Sent(v, c), UNCHANGED domains
        PROVE  Remains(v)'
    <3>1. commands'[v] = Append(commands[v], c)
      BY <1>4, <2>2 DEF Sent
    <3> QED
      BY <1>2, <1>3, <2>2, <3>1, RemainsMore
  <2>3. ASSUME NEW i \in DOMAIN commands[v], commands' = [commands EXCEPT ![v] = RemoveAt(@, i)],
               \/ domains' = [domains EXCEPT ![v] = Effect(commands[v][i], @)]
               \/ UNCHANGED domains
        PROVE  Remains(v)'
    <3>1. /\ commands'[v] = RemoveAt(commands[v], i)
          /\ domains'[v] \in {domains[v], Effect(commands[v][i], domains[v])}
      BY <1>4, <2>3
    <3> QED
      BY <1>2, <1>3, <3>1, RemainsAfter
  <2> QED
    BY <2>1, <2>2, <2>3
<1>7. Placed(v)'
  BY <1>1, <1>6, StillOver
<1>8. Elsewhere(vmmq, vmmq', v) /\ Elsewhere(tmq, tmq', v)
  BY <1>1, ElsewhereSame
<1> QED
  BY <1>1, <1>5, <1>7, <1>8, DriverKeeps

LEMMA VmmKeeps ==
  ASSUME TypeOK, NEW v \in VMs, Placed(v), VmmStep(v)
  PROVE  Keeps(v)
<1>1. Here(v) \in Hosts \cup {NoHost} /\ There(v) \in Hosts \cup {NoHost}
  BY DEF TypeOK, Records, Here, There
<1>2. \A op \in {"DEPLOY", "SAVE", "SHUTDOWN", "CANCEL", "MIGRATE", "RESTORE", "POLL"} :
        \A x, y \in Hosts \cup {NoHost} :
          /\ Command(op, x, y) \in Commands
          /\ Command(op, x, y).op = op /\ Command(op, x, y).at = x /\ Command(op, x, y).to = y
  BY DEF Command, Commands
<1>3. ASSUME NEW a, VmmTakes(v, a)
      PROVE  /\ \/ /\ Ordering(v) /\ ~ Mentions(Tail(vmmq), v)
                   /\ Serves(lcm[v], a) \/ (a = "POLL" /\ lcm[v] = "RUNNING")
                \/ /\ Ending(v) \/ Over(v)
                   /\ a \in {"DRIVER_CANCEL", "CANCEL", "CANCEL_PREVIOUS"}
                   /\ Just(Tail(vmmq), v, {"DRIVER_CANCEL", "CANCEL", "CANCEL_PREVIOUS"})
             /\ Elsewhere(vmmq, Tail(vmmq), v)
  BY <1>3, VmmComesTo DEF VmmTakes
<1>4. ASSUME NEW a, NEW b, VmmTakes(v, a),
             a \in {"DEPLOY", "RESTORE", "SHUTDOWN"},
             b = IF a = "SHUTDOWN" THEN "SHUTDOWN_FAILURE" ELSE "DEPLOY_FAILURE",
             NEW found, VmmSend(v, Command(a, Here(v), Here(v)), found, Trigger(lcmq, b, v))
      PROVE  Keeps(v)
  <2>1. Ordering(v) /\ ~ Mentions(Tail(vmmq), v) /\ Serves(lcm[v], a) /\ Elsewhere(vmmq, Tail(vmmq), v)
    BY <1>3, <1>4
  <2>2. Awaits(lcm[v], b) /\ lcm[v] \notin TwoHosts
    BY <1>4, <2>1 DEF Serves, Awaits, TwoHosts, Saving
  <2>3. Fits(v, Command(a, Here(v), Here(v)))
    BY <1>1, <1>2, <1>4, <2>1, <2>2 DEF Fits, TwoHosts
  <2>4. Command(a, Here(v), Here(v)) \in Commands
    BY <1>1, <1>2, <1>4
  <2>5. b \in {"SAVE_FAILURE", "DEPLOY_FAILURE", "SHUTDOWN_FAILURE", "CANCEL_FAILURE"}
    BY <1>4
  <2> HIDE DEF VmmSend
  <2> QED
    BY <1>4, <2>1, <2>2, <2>3, <2>4, <2>5, VmmSends
<1>5. CASE VmmDeploy(v)
  BY <1>4, <1>5 DEF VmmDeploy, Here
<1>6. CASE VmmRestore(v)
  BY <1>4, <1>6 DEF VmmRestore, Here
<1>7. CASE VmmShutdown(v)
  BY <1>4, <1>7 DEF VmmShutdown, Here
<1>8. CASE VmmSave(v)
  <2> DEFINE x == IF lcm[v] = "SAVE_MIGRATE" THEN There(v) ELSE Here(v)
  <2>1. /\ VmmTakes(v, "SAVE")
        /\ \E found : VmmSend(v, Command("SAVE", x, x), found, Trigger(lcmq, "SAVE_FAILURE", v))
    BY <1>8 DEF VmmSave, Here, There
  <2>2. Ordering(v) /\ ~ Mentions(Tail(vmmq), v) /\ Serves(lcm[v], "SAVE") /\ Elsewhere(vmmq, Tail(vmmq), v)
    BY <1>3, <2>1
  <2>3. Awaits(lcm[v], "SAVE_FAILURE") /\ (lcm[v] \in TwoHosts <=> lcm[v] = "SAVE_MIGRATE")
    BY <2>2 DEF Serves, Awaits, TwoHosts, Saving
  <2>4. Fits(v, Command("SAVE", x, x)) /\ Command("SAVE", x, x) \in Commands
    BY <1>1, <1>2, <2>2, <2>3 DEF Fits, TwoHosts
  <2> HIDE DEF x
  <2> QED
    BY <2>1, <2>2, <2>3, <2>4, VmmSends
<1>9. CASE VmmMigrate(v)
  <2> DEFINE c == Command("MIGRATE", There(v), Here(v))
  <2>1. /\ VmmTakes(v, "MIGRATE")
        /\ \E found : VmmSend(v, c, found, Trigger(lcmq, "DEPLOY_FAILURE", v))
    BY <1>9 DEF VmmMigrate, Here, There
  <2>2. Ordering(v) /\ ~ Mentions(Tail(vmmq), v) /\ Serves(lcm[v], "MIGRATE") /\ Elsewhere(vmmq, Tail(vmmq), v)
    BY <1>3, <2>1
  <2>3. Awaits(lcm[v], "DEPLOY_FAILURE") /\ lcm[v] = "MIGRATE" /\ lcm[v] \in TwoHosts
    BY <2>2 DEF Serves, Awaits, TwoHosts, Saving
  <2>4. Fits(v, c) /\ c \in Commands
    BY <1>1, <1>2, <2>2, <2>3 DEF Fits
  <2> HIDE DEF c
  <2> QED
    BY <2>1, <2>2, <2>3, <2>4, VmmSends
<1>10. CASE VmmPoll(v)
  <2> DEFINE c == Command("POLL", Here(v), Here(v))
  <2>1. VmmTakes(v, "POLL") /\ \E found : VmmSend(v, c, found, lcmq)
    BY <1>10 DEF VmmPoll, Here
  <2>2. Ordering(v) /\ ~ Mentions(Tail(vmmq), v) /\ Elsewhere(vmmq, Tail(vmmq), v)
    BY <1>3, <2>1
  <2>3. c \in Polls /\ c \in Commands
    BY <1>1, <1>2 DEF Polls
  <2> HIDE DEF c
  <2> QED
    BY <2>1, <2>2, <2>3, VmmSends
<1>11. CASE VmmCancel(v)
  <2> DEFINE c == Command("CANCEL", Here(v), Here(v))
             r == IF lcm[v] = "CANCEL" THEN Trigger(lcmq, "CANCEL_FAILURE", v) ELSE lcmq
  <2>1. VmmTakes(v, "CANCEL") /\ \E found : VmmSend(v, c, found, r)
    BY <1>11 DEF VmmCancel, Here
  <2>2. c \in Commands /\ c \notin Placing
    BY <1>1, <1>2 DEF Placing
  <2>3. CASE Ordering(v) /\ ~ Mentions(Tail(vmmq), v) /\ Serves(lcm[v], "CANCEL")
    <3>1. lcm[v] = "CANCEL" /\ lcm[v] \notin TwoHosts /\ Awaits(lcm[v], "CANCEL_FAILURE")
      BY <2>3 DEF Serves, TwoHosts, Awaits, Saving
    <3>2. Fits(v, c)
      BY <1>1, <1>2, <2>3, <3>1 DEF Fits
    <3>3. r = Trigger(lcmq, "CANCEL_FAILURE", v)
      BY <3>1
    <3> HIDE DEF c, r
    <3> QED
      BY <1>3, <2>1, <2>2, <2>3, <3>1, <3>2, <3>3, VmmSends
  <2>4. CASE /\ Ending(v) \/ Over(v)
             /\ Just(Tail(vmmq), v, {"DRIVER_CANCEL", "CANCEL", "CANCEL_PREVIOUS"})
    <3>1. r = lcmq
      BY <2>4 DEF Ending, Over
    <3>2. UNCHANGED <<lcmq, domains>> /\ (UNCHANGED commands \/ commands' = Sent(v, c))
      BY <2>1, <3>1 DEF VmmSend
    <3> HIDE DEF c, r
    <3> QED
      BY <1>3, <2>1, <2>2, <2>4, <3>2, VmmCleans
  <2> QED
    BY <1>3, <2>1, <2>3, <2>4
<1>12. CASE VmmCancelPrevious(v)
  <2> DEFINE c == Command("CANCEL", There(v), There(v))
  <2>1. VmmTakes(v, "CANCEL_PREVIOUS") /\ \E found : VmmSend(v, c, found, lcmq)
    BY <1>12 DEF VmmCancelPrevious, There
  <2>2. c \in Commands /\ c \notin Placing
    BY <1>1, <1>2 DEF Placing
  <2>3. ~ Serves(lcm[v], "CANCEL_PREVIOUS")
    BY DEF Serves
  <2>4. UNCHANGED <<lcmq, domains>> /\ (UNCHANGED commands \/ commands' = Sent(v, c))
    BY <2>1 DEF VmmSend
  <2> HIDE DEF c
  <2> QED
    BY <1>3, <2>1, <2>2, <2>3, <2>4, VmmCleans
<1>13. CASE VmmDriverCancel(v)
  <2>1. VmmTakes(v, "DRIVER_CANCEL") /\ ~ Serves(lcm[v], "DRIVER_CANCEL")
    BY <1>13 DEF VmmDriverCancel, Serves
  <2>2. /\ UNCHANGED lcmq
        /\ \/ UNCHANGED <<commands, domains>>
           \/ \E i \in DOMAIN commands[v] :
                /\ commands' = [commands EXCEPT ![v] = RemoveAt(@, i)]
                /\ \/ domains' = [domains EXCEPT ![v] = Effect(commands[v][i], @)]
                   \/ UNCHANGED domains
    BY <1>13 DEF VmmDriverCancel
  <2>3. /\ Ending(v) \/ Over(v)
        /\ Just(Tail(vmmq), v, {"DRIVER_CANCEL", "CANCEL", "CANCEL_PREVIOUS"})
        /\ Elsewhere(vmmq, Tail(vmmq), v)
    BY <1>3, <2>1
  <2> QED
    BY <2>1, <2>2, <2>3, VmmCleans
<1> QED
  BY <1>5, <1>6, <1>7, <1>8, <1>9, <1>10, <1>11, <1>12, <1>13 DEF VmmStep

\* Where a VM is found by those who find the managers settled.
LEMMA SettledAt ==
  ASSUME NEW v, Placed(v), Settled(v)
  PROVE  Resting(v) \/ Waiting(v) \/ Over(v)
BY OnlyFor DEF Placed, Settled, AskedFor, Cancelling, Ordering, Moving, Leaving, Ending

\* The timer polls the VM.
LEMMA TimerKeeps ==
  ASSUME TypeOK, FastManagers, NEW v \in VMs, Placed(v), VmmTimer(v)
  PROVE  Keeps(v)
<1> DEFINE c == Command("POLL", Here(v), Here(v))
<1>1. /\ UNCHANGED <<state, lcm, cur, prev, leases, usage, dmq, lcmq, vmmq, tmq, transfers,
                     domains, cancelling>>
      /\ commands' = Sent(v, c) /\ IsActive(v) /\ Settled(v)
  BY DEF VmmTimer, Admitted, Here, stateVars, historyVars, queueVars, clientVars
<1>2. c \in Commands /\ c \notin Orders
  BY DEF TypeOK, Records, Command, Commands, Here, Orders, Polls
<1>3. Waiting(v)
  BY <1>1, SettledAt DEF Resting, Over, IsActive
<1>4. commands \in [VMs -> Seq(Commands)] /\ commands[v] \in Seq(Commands)
  BY DEF TypeOK
<1>5. commands'[v] = Append(commands[v], c) /\ \A w \in VMs \ {v} : commands'[w] = commands[w]
  BY <1>1, <1>4 DEF Sent
<1>6. c \in Polls
  BY <1>2 DEF Orders
<1> HIDE DEF c
<1>7. /\ Lone(commands'[v], Orders)
      /\ \A i \in DOMAIN commands'[v] :
           commands'[v][i] \in Polls \/ \E k \in DOMAIN commands[v] : commands'[v][i] = commands[v][k]
  BY <1>2, <1>3, <1>4, <1>5, <1>6, AppendFor DEF Waiting, AtWork
<1>8. \A i \in DOMAIN commands'[v] : commands'[v][i] \in Polls \/ Fits(v, commands'[v][i])
  BY <1>3, <1>7 DEF Waiting, AtWork
<1>9. AtWork(v)'
  BY <1>1, <1>3, <1>7, <1>8 DEF Waiting, AtWork, Fits, Here, There, Lone, Orders, Polls
<1>10. Waiting(v)'
  <2>1. Settled(v)' /\ IsActive(v)' /\ Home(v)' = Home(v)
    BY <1>1, <1>3 DEF Waiting, Settled, Mentions, IsActive, Home, Here, There
  <2> HIDE DEF Settled, Home, AtWork
  <2> QED
    BY <1>1, <1>3, <1>9, <2>1 DEF Waiting
<1>11. Elsewhere(vmmq, vmmq', v) /\ Elsewhere(tmq, tmq', v)
  BY <1>1, ElsewhereSame
<1> QED
  BY <1>1, <1>5, <1>10, <1>11, DriverKeeps DEF Placed

\* The only command that is not a poll, once it is answered.
LEMMA OrderAnswered ==
  ASSUME TypeOK, NEW v \in VMs, AtWork(v), NEW i \in DOMAIN commands[v],
         commands[v][i] \notin Polls, commands'[v] = RemoveAt(commands[v], i),
         UNCHANGED transfers
  PROVE  Fits(v, commands[v][i]) /\ NoWork(v)'
<1>1. commands[v] \in Seq(Commands)
  BY DEF TypeOK
<1>2. Fits(v, commands[v][i]) /\ Lone(commands[v], Orders) /\ commands[v][i] \in Orders
  BY <1>1 DEF AtWork, Orders
<1>3. \A j \in DOMAIN commands'[v] :
        commands'[v][j] \notin Orders /\ \E k \in DOMAIN commands[v] : commands'[v][j] = commands[v][k]
  BY <1>1, <1>2, RemoveAtFor
<1>4. \A j \in DOMAIN commands'[v] : commands'[v][j] \in Polls
  BY <1>1, <1>3 DEF Orders
<1>5. lcm[v] \notin Filing
  BY <1>2 DEF Fits, Serves, Filing, Saving
<1> QED
  BY <1>2, <1>4, <1>5 DEF NoWork, AtWork, Polls

\* The driver has carried the command out, or has failed.
LEMMA EffectAtHome ==
  ASSUME TypeOK, NEW v \in VMs, NEW c \in Commands, Fits(v, c), domains[v] \subseteq Home(v),
         NEW ok \in BOOLEAN
  PROVE  /\ Awaits(lcm[v], Answer(c.op, ok))
         /\ (IF ok THEN Effect(c, domains[v]) ELSE domains[v]) \subseteq HomeBefore(v, Answer(c.op, ok))
         /\ Answer(c.op, ok) \in LcmActions \ (LcmMoves \cup {"DELETE"})
<1>1. Home(v) \subseteq {c.at} /\ Serves(lcm[v], c.op)
  BY DEF Fits, Home
<1>2. CASE lcm[v] = "BOOT" /\ c.op \in {"DEPLOY", "RESTORE"}
  <2>1. /\ Answer(c.op, ok) = IF ok THEN "DEPLOY_SUCCESS" ELSE "DEPLOY_FAILURE"
        /\ c.at = Here(v)
    BY <1>2 DEF Answer, Fits, TwoHosts
  <2>2. HomeBefore(v, "DEPLOY_SUCCESS") = {Here(v)} /\ HomeBefore(v, "DEPLOY_FAILURE") = Home(v)
    BY DEF HomeBefore, LcmMoves
  <2>3. Effect(c, domains[v]) \subseteq {Here(v)}
    BY <1>1, <1>2, <2>1 DEF Effect
  <2>4. /\ Awaits("BOOT", "DEPLOY_SUCCESS") /\ Awaits("BOOT", "DEPLOY_FAILURE")
        /\ {"DEPLOY_SUCCESS", "DEPLOY_FAILURE"} \subseteq LcmActions \ (LcmMoves \cup {"DELETE"})
    BY DEF Awaits, LcmActions, LcmMoves
  <2> QED
    BY <1>2, <2>1, <2>2, <2>3, <2>4
<1>3. CASE lcm[v] = "MIGRATE" /\ c.op = "MIGRATE"
  <2>1. /\ Answer(c.op, ok) = IF ok THEN "DEPLOY_SUCCESS" ELSE "DEPLOY_FAILURE"
        /\ c.at = There(v) /\ c.to = Here(v)
    BY <1>3 DEF Answer, Fits, TwoHosts
  <2>2. HomeBefore(v, "DEPLOY_SUCCESS") = {Here(v)} /\ HomeBefore(v, "DEPLOY_FAILURE") = Home(v)
    BY DEF HomeBefore, LcmMoves
  <2>3. Effect(c, domains[v]) \subseteq {Here(v)}
    BY <1>1, <1>3, <2>1 DEF Effect
  <2>4. /\ Awaits("MIGRATE", "DEPLOY_SUCCESS") /\ Awaits("MIGRATE", "DEPLOY_FAILURE")
        /\ {"DEPLOY_SUCCESS", "DEPLOY_FAILURE"} \subseteq LcmActions \ (LcmMoves \cup {"DELETE"})
    BY DEF Awaits, LcmActions, LcmMoves
  <2> QED
    BY <1>3, <2>1, <2>2, <2>3, <2>4
<1>4. CASE \/ lcm[v] \in Saving /\ c.op = "SAVE"
           \/ lcm[v] = "SHUTDOWN" /\ c.op = "SHUTDOWN"
           \/ lcm[v] = "CANCEL" /\ c.op = "CANCEL"
  <2> DEFINE yes == CASE c.op = "SAVE" -> "SAVE_SUCCESS" [] c.op = "SHUTDOWN" -> "SHUTDOWN_SUCCESS"
                      [] c.op = "CANCEL" -> "CANCEL_SUCCESS"
             no == CASE c.op = "SAVE" -> "SAVE_FAILURE" [] c.op = "SHUTDOWN" -> "SHUTDOWN_FAILURE"
                      [] c.op = "CANCEL" -> "CANCEL_FAILURE"
  <2>1. Answer(c.op, ok) = IF ok THEN yes ELSE no
    BY <1>4 DEF Answer
  <2>2. /\ yes \in {"SAVE_SUCCESS", "SHUTDOWN_SUCCESS", "CANCEL_SUCCESS"}
        /\ no \in {"SAVE_FAILURE", "SHUTDOWN_FAILURE", "CANCEL_FAILURE"}
        /\ Awaits(lcm[v], yes) /\ Awaits(lcm[v], no)
    BY <1>4 DEF Awaits
  <2> HIDE DEF yes, no
  <2>3. HomeBefore(v, yes) = {} /\ HomeBefore(v, no) = Home(v)
    BY <2>2 DEF HomeBefore, LcmMoves
  <2>4. Effect(c, domains[v]) = {}
    BY <1>1, <1>4 DEF Effect
  <2>5. {yes, no} \subseteq LcmActions \ (LcmMoves \cup {"DELETE"})
    BY <2>2 DEF LcmActions, LcmMoves
  <2> QED
    BY <2>1, <2>2, <2>3, <2>4, <2>5
<1> QED
  BY <1>1, <1>2, <1>3, <1>4 DEF Serves

\* The Life-cycle Manager is asked for b, and nothing else goes on.
LEMMA AskedNow ==
  ASSUME TypeOK, NEW v \in VMs, NEW b \in LcmActions, lcmq' = Trigger(lcmq, b, v),
         ~ Mentions(lcmq, v), ~ Mentions(dmq', v), ~ Mentions(vmmq', v), ~ Mentions(tmq', v),
         v \notin cancelling', IsActive(v)', Awaits(lcm'[v], b),
         domains'[v] \subseteq HomeBefore(v, b)', AtWork(v)', b # "DELETE" => NoWork(v)'
  PROVE  Placed(v)'
<1>1. Only(lcmq', v, b)
  BY TriggerFor DEF TypeOK
<1>2. NotQueued(v)'
  BY DEF NotQueued, Mentions
<1>3. AskedFor(v, b)'
  <2> HIDE DEF HomeBefore, AtWork, NoWork, NotQueued
  <2> QED
    BY <1>1, <1>2 DEF AskedFor
<1> QED
  BY <1>3 DEF Placed

LEMMA NoWorkAtWork ==
  ASSUME NEW v
  PROVE  (NoWork(v) => AtWork(v)) /\ (NoWork(v)' => AtWork(v)')
BY DEF NoWork, AtWork, Lone, Orders, Polls

\* The driver of the hypervisor answers.
LEMMA VmmAnswerKeeps ==
  ASSUME TypeOK, FastManagers, NEW v \in VMs, Placed(v), VmmAnswer(v)
  PROVE  Keeps(v)
<1>1. PICK i \in DOMAIN commands[v], ok \in BOOLEAN :
        /\ commands[v][i].op # "POLL" /\ Answered(v, i)
        /\ domains' = [domains EXCEPT ![v] = IF ok THEN Effect(commands[v][i], @) ELSE @]
        /\ lcmq' = IF lcm[v] \in Ignored THEN lcmq
                   ELSE Trigger(lcmq, Answer(commands[v][i].op, ok), v)
        /\ UNCHANGED lcm
  BY DEF VmmAnswer
<1> DEFINE c == commands[v][i]
<1>2. /\ UNCHANGED <<state, lcm, cur, prev, leases, usage, dmq, vmmq, tmq, transfers, cancelling>>
      /\ commands' = [commands EXCEPT ![v] = RemoveAt(@, i)] /\ Settled(v)
  BY <1>1 DEF Answered, Admitted, historyVars, clientVars
<1>3. /\ commands \in [VMs -> Seq(Commands)] /\ c \in Commands
      /\ domains \in [VMs -> SUBSET (Hosts \cup {NoHost})]
  BY DEF TypeOK
<1>4. /\ \A w \in VMs \ {v} : commands'[w] = commands[w] /\ domains'[w] = domains[w]
      /\ commands'[v] = RemoveAt(commands[v], i)
      /\ domains'[v] = IF ok THEN Effect(c, domains[v]) ELSE domains[v]
  BY <1>1, <1>2, <1>3
<1>5. Elsewhere(vmmq, vmmq', v) /\ Elsewhere(tmq, tmq', v)
  BY <1>2, ElsewhereSame
<1>6. c \notin Polls
  BY <1>1 DEF Polls
<1>7. CASE Resting(v)
  BY <1>6, <1>7 DEF Resting, NoWork
<1>8. CASE Over(v)
  <2>1. lcmq' = lcmq /\ Remains(v)
    BY <1>1, <1>8 DEF Over, Ignored
  <2>2. /\ ~ Mentions(lcmq', v) /\ v \notin cancelling'
        /\ Just(vmmq', v, {"DRIVER_CANCEL", "CANCEL", "CANCEL_PREVIOUS"})
        /\ Just(tmq', v, {"DRIVER_CANCEL", "EPILOG_DELETE", "EPILOG_DELETE_PREVIOUS"})
    BY <1>2, <2>1 DEF Remains
  <2>3. Remains(v)'
    BY <1>4, <2>1, <2>2, RemainsAfter
  <2>4. Placed(v)'
    BY <1>2, <1>8, <2>3, StillOver
  <2> QED
    BY <1>2, <1>4, <1>5, <2>1, <2>4, DriverKeeps
<1>9. CASE Waiting(v)
  <2>1. AtWork(v) /\ IsActive(v) /\ domains[v] \subseteq Home(v) /\ lcm[v] \notin Ignored
    BY <1>9 DEF Waiting
  <2>2. Fits(v, c) /\ NoWork(v)'
    BY <1>2, <1>4, <1>6, <2>1, OrderAnswered
  <2>3. PICK b \in LcmActions \ (LcmMoves \cup {"DELETE"}) :
          /\ b = Answer(c.op, ok)
          /\ Awaits(lcm[v], b) /\ domains'[v] \subseteq HomeBefore(v, b)
    BY <1>3, <1>4, <2>1, <2>2, EffectAtHome
  <2>4. lcmq' = Trigger(lcmq, b, v)
    BY <1>1, <2>1, <2>3
  <2> HIDE DEF c
  <2>5. /\ HomeBefore(v, b)' = HomeBefore(v, b) /\ IsActive(v)'
        /\ ~ Mentions(lcmq, v) /\ ~ Mentions(dmq', v) /\ ~ Mentions(vmmq', v) /\ ~ Mentions(tmq', v)
        /\ v \notin cancelling'
    BY <1>2, <2>1 DEF HomeBefore, Home, Here, There, IsActive, Settled
  <2>6. Placed(v)'
    BY <1>2, <2>2, <2>3, <2>4, <2>5, AskedNow, NoWorkAtWork
  <2> QED
    BY <1>2, <1>4, <1>5, <2>3, <2>4, <2>5, <2>6, DriverKeeps
<1> QED
  BY <1>2, <1>7, <1>8, <1>9, SettledAt

\* A poll of the timer, or of a command that failed, is answered.
LEMMA PollAnswerKeeps ==
  ASSUME TypeOK, FastManagers, NEW v \in VMs, Placed(v), PollAnswer(v)
  PROVE  Keeps(v)
<1>1. PICK i \in DOMAIN commands[v], s \in {"-", "a", "p", "e", "d"} :
        /\ commands[v][i].op = "POLL" /\ Answered(v, i) /\ UNCHANGED domains
        /\ lcm' = IF s = "a" /\ lcm[v] = "UNKNOWN" THEN [lcm EXCEPT ![v] = "RUNNING"] ELSE lcm
        /\ lcmq' = IF s \in {"p", "e", "d"} /\ lcm[v] \in {"RUNNING", "UNKNOWN"}
                   THEN Trigger(lcmq, Found(s), v) ELSE lcmq
  BY DEF PollAnswer
<1>2. /\ UNCHANGED <<state, cur, prev, leases, usage, dmq, vmmq, tmq, transfers, cancelling, domains>>
      /\ commands' = [commands EXCEPT ![v] = RemoveAt(@, i)] /\ Settled(v)
  BY <1>1 DEF Answered, Admitted, historyVars, clientVars
<1>3. /\ commands \in [VMs -> Seq(Commands)] /\ lcm \in [VMs -> LcmStates]
      /\ commands[v] \in Seq(Commands)
  BY DEF TypeOK
<1>4. /\ \A w \in VMs \ {v} : commands'[w] = commands[w] /\ lcm'[w] = lcm[w]
      /\ commands'[v] = RemoveAt(commands[v], i)
      /\ lcm'[v] = IF s = "a" /\ lcm[v] = "UNKNOWN" THEN "RUNNING" ELSE lcm[v]
  BY <1>1, <1>2, <1>3
<1>5. Elsewhere(vmmq, vmmq', v) /\ Elsewhere(tmq, tmq', v)
  BY <1>2, ElsewhereSame
<1>6. /\ \A j \in DOMAIN commands'[v] : \E k \in DOMAIN commands[v] : commands'[v][j] = commands[v][k]
      /\ Lone(commands[v], Orders) => Lone(commands'[v], Orders)
  BY <1>3, <1>4, RemoveAtFor
<1>7. NoWork(v) => NoWork(v)'
  BY <1>2, <1>6 DEF NoWork, Polls
<1>8. CASE Resting(v)
  <2>1. lcm' = lcm /\ lcmq' = lcmq
    BY <1>1, <1>8 DEF Resting
  <2>2. Settled(v)' /\ Here(v)' = Here(v)
    BY <1>2, <2>1 DEF Settled, Mentions, Here
  <2>3. Resting(v)'
    <3> HIDE DEF Settled, NoWork
    <3> QED
      BY <1>2, <1>7, <1>8, <2>1, <2>2 DEF Resting
  <2> QED
    BY <1>2, <1>4, <1>5, <2>1, <2>3, DriverKeeps DEF Placed
<1>9. CASE Over(v)
  <2>1. lcmq' = lcmq /\ lcm' = lcm /\ Remains(v)
    BY <1>1, <1>9 DEF Over
  <2>2. /\ ~ Mentions(lcmq', v) /\ v \notin cancelling'
        /\ Just(vmmq', v, {"DRIVER_CANCEL", "CANCEL", "CANCEL_PREVIOUS"})
        /\ Just(tmq', v, {"DRIVER_CANCEL", "EPILOG_DELETE", "EPILOG_DELETE_PREVIOUS"})
    BY <1>2, <2>1 DEF Remains
  <2>3. Remains(v)'
    BY <1>2, <1>4, <2>1, <2>2, RemainsAfter
  <2>4. Placed(v)'
    BY <1>2, <1>9, <2>1, <2>3, StillOver
  <2> QED
    BY <1>2, <1>4, <1>5, <2>1, <2>4, DriverKeeps
<1>10. CASE Waiting(v)
  <2>1. AtWork(v) /\ IsActive(v) /\ domains[v] \subseteq Home(v) /\ lcm[v] \notin Ignored
    BY <1>10 DEF Waiting
  <2>2. lcm[v] \in {"RUNNING", "UNKNOWN"} => NoWork(v)
    BY <2>1 DEF AtWork, NoWork, Fits, Serves, Saving, Filing
  <2>3. /\ IsActive(v)' /\ Here(v)' = Here(v) /\ There(v)' = There(v)
        /\ ~ Mentions(lcmq, v) /\ ~ Mentions(dmq', v) /\ ~ Mentions(vmmq', v) /\ ~ Mentions(tmq', v)
        /\ v \notin cancelling'
    BY <1>2, <2>1 DEF Here, There, IsActive, Settled
  <2>4. CASE s \in {"p", "e", "d"} /\ lcm[v] \in {"RUNNING", "UNKNOWN"}
    <3>1. PICK b \in {"MONITOR_SUSPEND", "MONITOR_FAILURE", "MONITOR_DONE"} : b = Found(s)
      BY <2>4 DEF Found
    <3>2. lcmq' = Trigger(lcmq, b, v) /\ lcm' = lcm
      BY <1>1, <2>4, <3>1
    <3>3. b \in LcmActions \ (LcmMoves \cup {"DELETE"}) /\ Awaits(lcm[v], b)
      BY <2>4, <3>1 DEF LcmActions, LcmMoves, Awaits
    <3>4. HomeBefore(v, b)' = Home(v)
      BY <2>3, <3>1, <3>2 DEF HomeBefore, Home, LcmMoves
    <3>5. NoWork(v)' /\ AtWork(v)'
      BY <1>7, <2>2, <2>4, NoWorkAtWork
    <3>6. domains'[v] \subseteq HomeBefore(v, b)'
      BY <1>2, <2>1, <3>4
    <3>7. Placed(v)'
      BY <1>2, <2>3, <3>2, <3>3, <3>5, <3>6, AskedNow
    <3> QED
      BY <1>2, <1>4, <1>5, <2>3, <3>2, <3>3, <3>7, DriverKeeps
  <2>5. CASE ~ (s \in {"p", "e", "d"} /\ lcm[v] \in {"RUNNING", "UNKNOWN"})
    <3>1. lcmq' = lcmq
      BY <1>1, <2>5
    <3>2. CASE lcm' = lcm
      <4>1. \A j \in DOMAIN commands'[v] : commands'[v][j] \in Polls \/ Fits(v, commands'[v][j])
        BY <1>6, <2>1 DEF AtWork
      <4>2. AtWork(v)'
        BY <1>2, <1>6, <2>1, <2>3, <3>2, <4>1 DEF AtWork, Fits, Polls, Orders, Lone
      <4>3. Settled(v)' /\ Home(v)' = Home(v)
        BY <2>3, <3>1, <3>2 DEF Settled, Mentions, Home
      <4>4. Waiting(v)'
        <5> HIDE DEF AtWork, Settled, Home
        <5> QED
          BY <1>2, <2>1, <2>3, <3>2, <4>2, <4>3 DEF Waiting
      <4> QED
        BY <1>2, <1>4, <1>5, <3>1, <4>4, DriverKeeps DEF Placed
    <3>3. CASE lcm' # lcm
      <4>1. lcm[v] = "UNKNOWN" /\ lcm'[v] = "RUNNING"
        BY <1>1, <1>4, <3>3
      <4>2. AtWork(v)'
        BY <1>7, <2>2, <4>1, NoWorkAtWork
      <4>3. Settled(v)' /\ Home(v)' = Home(v)
        BY <2>3, <3>1, <4>1 DEF Settled, Mentions, Home, Filing, TwoHosts
      <4>4. Waiting(v)'
        <5> HIDE DEF AtWork, Settled, Home
        <5> QED
          BY <1>2, <2>1, <2>3, <4>1, <4>2, <4>3 DEF Waiting, Ignored
      <4> QED
        BY <1>2, <1>4, <1>5, <3>1, <4>1, <4>4, DriverKeeps DEF Placed
    <3> QED
      BY <3>2, <3>3
  <2> QED
    BY <2>4, <2>5
<1> QED
  BY <1>2, <1>8, <1>9, <1>10, SettledAt

\* The Transfer Manager.
LEMMA TmComesTo ==
  ASSUME TypeOK, NEW v \in VMs, NEW a, Placed(v), IsNext(tmq, a, v)
  PROVE  /\ \/ Moving(v) /\ ~ Mentions(Tail(tmq), v) /\ a \in FileScripts
            \/ /\ Ending(v) \/ Over(v)
               /\ a \in {"DRIVER_CANCEL", "EPILOG_DELETE", "EPILOG_DELETE_PREVIOUS"}
               /\ Just(Tail(tmq), v, {"DRIVER_CANCEL", "EPILOG_DELETE", "EPILOG_DELETE_PREVIOUS"})
         /\ Elsewhere(tmq, Tail(tmq), v)
<1>1. tmq \in Seq(Entries(TmActions))
  BY DEF TypeOK
<1>2. /\ Mentions(tmq, v)
      /\ \A op : Only(tmq, v, op) => op = a /\ ~ Mentions(Tail(tmq), v)
      /\ \A ops : Just(tmq, v, ops) => a \in ops /\ Just(Tail(tmq), v, ops)
      /\ Elsewhere(tmq, Tail(tmq), v)
  BY <1>1, TailFor DEF Elsewhere
<1>3. Moving(v) \/ Ending(v) \/ Over(v)
  BY <1>2 DEF Placed, Resting, Settled, AskedFor, NotQueued, Cancelling, Ordering, Waiting, Leaving
<1>4. CASE Moving(v)
  <2>1. PICK op \in FileScripts : Only(tmq, v, op)
    BY <1>4 DEF Moving
  <2>2. op = a /\ ~ Mentions(Tail(tmq), v)
    BY <1>2, <2>1
  <2> QED
    BY <1>2, <1>4, <2>1, <2>2
<1>5. CASE Ending(v) \/ Over(v)
  <2>1. Just(tmq, v, {"DRIVER_CANCEL", "EPILOG_DELETE", "EPILOG_DELETE_PREVIOUS"})
    BY <1>5 DEF Ending, Over, Remains
  <2> QED
    BY <1>2, <1>5, <2>1
<1> QED
  BY <1>3, <1>4, <1>5

\* The script goes to the driver, or the Life-cycle Manager is told.
LEMMA TmSends ==
  ASSUME TypeOK, NEW v \in VMs, NEW a, NEW script, Moving(v), TmTakes(v, a),
         ~ Mentions(Tail(tmq), v), Elsewhere(tmq, Tail(tmq), v),
         \/ transfers' = [transfers EXCEPT ![v] = Append(@, script)] /\ UNCHANGED lcmq
         \/ /\ UNCHANGED transfers
            /\ \E b \in {"PROLOG_FAILURE", "EPILOG_FAILURE"} : lcmq' = Trigger(lcmq, b, v)
  PROVE  Keeps(v)
<1>1. /\ UNCHANGED <<state, lcm, cur, prev, leases, usage, dmq, vmmq, commands, cancelling, domains>>
      /\ tmq' = Tail(tmq)
  BY DEF TmTakes, stateVars, historyVars, clientVars
<1>2. /\ IsActive(v) /\ ~ Mentions(lcmq, v) /\ ~ Mentions(dmq, v) /\ ~ Mentions(vmmq, v)
      /\ v \notin cancelling /\ NoWork(v) /\ domains[v] = {} /\ lcm[v] \in Filing
  BY DEF Moving
<1>3. Elsewhere(vmmq, vmmq', v) /\ Elsewhere(tmq, tmq', v)
  BY <1>1, ElsewhereSame
<1>4. IsActive(v)' /\ ~ Mentions(dmq', v) /\ ~ Mentions(vmmq', v) /\ ~ Mentions(tmq', v)
  BY <1>1, <1>2 DEF IsActive
<1>5. transfers \in [VMs -> Seq(Scripts)] /\ transfers[v] = <<>>
  BY <1>2 DEF TypeOK, NoWork
<1>6. CASE transfers' = [transfers EXCEPT ![v] = Append(@, script)] /\ lcmq' = lcmq
  <2>1. transfers'[v] = Append(<<>>, script) /\ \A w \in VMs \ {v} : transfers'[w] = transfers[w]
    BY <1>5, <1>6
  <2>2. Len(transfers'[v]) = 1
    BY <2>1
  <2>3. AtWork(v)'
    BY <1>1, <1>2, <2>2 DEF AtWork, NoWork, Lone, Orders, Polls
  <2>4. Settled(v)'
    BY <1>1, <1>2, <1>4, <1>6 DEF Settled, Mentions
  <2>5. Waiting(v)'
    <3> HIDE DEF AtWork, Settled
    <3> QED
      BY <1>1, <1>2, <1>4, <2>3, <2>4 DEF Waiting, Filing, Ignored
  <2> QED
    BY <1>1, <1>3, <1>6, <2>1, <2>5, DriverKeeps DEF Placed
<1>7. ASSUME NEW b \in {"PROLOG_FAILURE", "EPILOG_FAILURE"},
             lcmq' = Trigger(lcmq, b, v), transfers' = transfers
      PROVE  Keeps(v)
  <2>1. b \in LcmActions \ (LcmMoves \cup {"DELETE"}) /\ Awaits(lcm'[v], b)
    BY <1>1, <1>2 DEF LcmActions, LcmMoves, Awaits
  <2>2. NoWork(v)' /\ domains'[v] = {}
    BY <1>1, <1>2, <1>7 DEF NoWork, Polls
  <2>3. Placed(v)'
    BY <1>1, <1>2, <1>4, <1>7, <2>1, <2>2, AskedNow, NoWorkAtWork
  <2> QED
    BY <1>1, <1>2, <1>3, <1>7, <2>1, <2>3, DriverKeeps
<1> QED
  BY <1>6, <1>7

\* The clean-up of a VM that is deleted or has failed.
LEMMA TmCleans ==
  ASSUME TypeOK, NEW v \in VMs, NEW a, Ending(v) \/ Over(v), TmTakes(v, a),
         Just(Tail(tmq), v, {"DRIVER_CANCEL", "EPILOG_DELETE", "EPILOG_DELETE_PREVIOUS"}),
         Elsewhere(tmq, Tail(tmq), v), UNCHANGED lcmq,
         \A w \in VMs \ {v} : transfers'[w] = transfers[w]
  PROVE  Keeps(v)
<1>1. /\ UNCHANGED <<state, lcm, cur, prev, leases, usage, dmq, vmmq, commands, cancelling, domains>>
      /\ tmq' = Tail(tmq)
  BY DEF TmTakes, stateVars, historyVars, clientVars
<1>2. Remains(v)
  BY DEF Ending, Over
<1>3. /\ ~ Mentions(lcmq', v) /\ v \notin cancelling'
      /\ Just(vmmq', v, {"DRIVER_CANCEL", "CANCEL", "CANCEL_PREVIOUS"})
      /\ Just(tmq', v, {"DRIVER_CANCEL", "EPILOG_DELETE", "EPILOG_DELETE_PREVIOUS"})
  BY <1>1, <1>2 DEF Remains
<1>4. Remains(v)'
  BY <1>1, <1>2, <1>3, RemainsMore
<1>5. Placed(v)'
  BY <1>1, <1>4, StillOver
<1>6. Elsewhere(vmmq, vmmq', v) /\ Elsewhere(tmq, tmq', v)
  BY <1>1, ElsewhereSame
<1> QED
  BY <1>1, <1>5, <1>6, DriverKeeps

LEMMA TmKeeps ==
  ASSUME TypeOK, NEW v \in VMs, Placed(v), TmStep(v)
  PROVE  Keeps(v)
<1>1. transfers \in [VMs -> Seq(Scripts)]
  BY DEF TypeOK
<1>2. ASSUME NEW a, TmTakes(v, a)
      PROVE  /\ \/ Moving(v) /\ ~ Mentions(Tail(tmq), v) /\ a \in FileScripts
                \/ /\ Ending(v) \/ Over(v)
                   /\ a \in {"DRIVER_CANCEL", "EPILOG_DELETE", "EPILOG_DELETE_PREVIOUS"}
                   /\ Just(Tail(tmq), v, {"DRIVER_CANCEL", "EPILOG_DELETE", "EPILOG_DELETE_PREVIOUS"})
             /\ Elsewhere(tmq, Tail(tmq), v)
  BY <1>2, TmComesTo DEF TmTakes
<1>3. ASSUME NEW a \in {"DRIVER_CANCEL", "EPILOG_DELETE", "EPILOG_DELETE_PREVIOUS"},
             TmTakes(v, a), UNCHANGED lcmq, \A w \in VMs \ {v} : transfers'[w] = transfers[w]
      PROVE  Keeps(v)
  <2>1. a \notin FileScripts
    BY DEF FileScripts
  <2> QED
    BY <1>2, <1>3, <2>1, TmCleans
<1>4. ASSUME NEW script \in TmActions, TmProlog(v, script) \/ TmEpilog(v, script)
      PROVE  Keeps(v)
  <2>1. script \notin {"DRIVER_CANCEL", "EPILOG_DELETE", "EPILOG_DELETE_PREVIOUS"}
    BY <1>4 DEF TmProlog, TmEpilog
  <2>2. /\ TmTakes(v, script)
        /\ \/ transfers' = [transfers EXCEPT ![v] = Append(@, script)] /\ UNCHANGED lcmq
           \/ /\ UNCHANGED transfers
              /\ \E b \in {"PROLOG_FAILURE", "EPILOG_FAILURE"} : lcmq' = Trigger(lcmq, b, v)
    BY <1>4 DEF TmProlog, TmEpilog, TmSend
  <2>3. Moving(v) /\ ~ Mentions(Tail(tmq), v) /\ Elsewhere(tmq, Tail(tmq), v)
    BY <1>2, <2>1, <2>2
  <2> QED
    BY <2>2, <2>3, TmSends
<1>5. CASE TmEpilogDelete(v)
  BY <1>1, <1>3, <1>5 DEF TmEpilogDelete, TmSend
<1>6. CASE TmEpilogDeletePrevious(v)
  BY <1>1, <1>3, <1>6 DEF TmEpilogDeletePrevious, TmSend
<1>7. CASE TmDriverCancel(v)
  BY <1>1, <1>3, <1>7 DEF TmDriverCancel
<1> QED
  BY <1>4, <1>5, <1>6, <1>7 DEF TmStep

\* The transfer driver answers.
LEMMA TmAnswerKeeps ==
  ASSUME TypeOK, FastManagers, NEW v \in VMs, Placed(v), TmAnswer(v)
  PROVE  Keeps(v)
<1>1. PICK i \in DOMAIN transfers[v], ok \in BOOLEAN :
        /\ Settled(v) /\ transfers' = [transfers EXCEPT ![v] = RemoveAt(@, i)]
        /\ lcmq' =
             CASE lcm[v] \in {"PROLOG", "PROLOG_MIGRATE", "PROLOG_RESUME"} ->
                    Trigger(lcmq, IF ok THEN "PROLOG_SUCCESS" ELSE "PROLOG_FAILURE", v)
               [] lcm[v] \in {"EPILOG", "EPILOG_STOP"} ->
                    Trigger(lcmq, IF ok THEN "EPILOG_SUCCESS" ELSE "EPILOG_FAILURE", v)
               [] OTHER -> lcmq
        /\ UNCHANGED <<state, lcm, cur, prev, leases, usage, dmq, vmmq, tmq, commands, domains,
                       cancelling>>
  BY DEF TmAnswer, Admitted, stateVars, historyVars, clientVars
<1>2. transfers \in [VMs -> Seq(Scripts)] /\ transfers[v] \in Seq(Scripts)
  BY DEF TypeOK
<1>3. /\ transfers'[v] = RemoveAt(transfers[v], i)
      /\ \A w \in VMs \ {v} : transfers'[w] = transfers[w]
  BY <1>1, <1>2
<1>4. transfers[v] # <<>>
  OBVIOUS
<1>5. Elsewhere(vmmq, vmmq', v) /\ Elsewhere(tmq, tmq', v)
  BY <1>1, ElsewhereSame
<1>6. CASE Resting(v)
  BY <1>4, <1>6 DEF Resting, NoWork
<1>7. CASE Over(v)
  <2>1. lcmq' = lcmq /\ Remains(v)
    BY <1>1, <1>7 DEF Over
  <2>2. /\ ~ Mentions(lcmq', v) /\ v \notin cancelling'
        /\ Just(vmmq', v, {"DRIVER_CANCEL", "CANCEL", "CANCEL_PREVIOUS"})
        /\ Just(tmq', v, {"DRIVER_CANCEL", "EPILOG_DELETE", "EPILOG_DELETE_PREVIOUS"})
    BY <1>1, <2>1 DEF Remains
  <2>3. Remains(v)'
    BY <1>1, <2>1, <2>2, RemainsMore
  <2>4. Placed(v)'
    BY <1>1, <1>7, <2>3, StillOver
  <2> QED
    BY <1>1, <1>3, <1>5, <2>1, <2>4, DriverKeeps
<1>8. CASE Waiting(v)
  <2>1. IsActive(v) /\ AtWork(v) /\ domains[v] \subseteq Home(v) /\ lcm[v] \in Filing /\ Len(transfers[v]) = 1
    BY <1>4, <1>8 DEF Waiting, AtWork
  <2>2. domains[v] = {}
    BY <2>1 DEF Home
  <2>3. PICK b \in {"PROLOG_SUCCESS", "PROLOG_FAILURE", "EPILOG_SUCCESS", "EPILOG_FAILURE"} :
          lcmq' = Trigger(lcmq, b, v)
    BY <1>1, <2>1 DEF Filing
  <2>4. b \in LcmActions \ (LcmMoves \cup {"DELETE"}) /\ Awaits(lcm'[v], b)
    BY <1>1, <2>1 DEF LcmActions, LcmMoves, Awaits
  <2>5. transfers'[v] = <<>>
    <3>1. Len(transfers'[v]) = 0
      BY <1>2, <1>3, <2>1, RemoveAtFor
    <3>2. transfers'[v] \in Seq(Scripts)
      BY <1>2, <1>3, RemoveAtType
    <3> QED
      BY <3>1, <3>2
  <2>6. NoWork(v)' /\ AtWork(v)'
    <3>1. \A j \in DOMAIN commands[v] : commands[v][j] \in Polls
      BY <2>1 DEF AtWork, Fits, Serves, Filing, Saving
    <3>2. NoWork(v)'
      BY <1>1, <2>5, <3>1 DEF NoWork, Polls
    <3> QED
      BY <3>2, NoWorkAtWork
  <2>7. /\ ~ Mentions(lcmq, v) /\ ~ Mentions(dmq', v) /\ ~ Mentions(vmmq', v) /\ ~ Mentions(tmq', v)
        /\ v \notin cancelling' /\ IsActive(v)'
    BY <1>1, <2>1 DEF Settled, IsActive
  <2>8. Placed(v)'
    BY <1>1, <2>2, <2>3, <2>4, <2>6, <2>7, AskedNow
  <2> QED
    BY <1>1, <1>3, <1>5, <2>3, <2>4, <2>7, <2>8, DriverKeeps
<1> QED
  BY <1>1, <1>6, <1>7, <1>8, SettledAt

-----------------------------------------------------------------------------
(* The requests and the Dispatch Manager                                   *)

\* The Life-cycle Manager is asked for a, and what is charged stays the same.
LEMMA AsksKeep ==
  ASSUME TypeOK, NEW v \in VMs, NEW a \in LcmActions, lcmq' = Trigger(lcmq, a, v),
         UNCHANGED <<lcm, leases, usage, dmq, vmmq, tmq, commands, transfers, domains>>,
         RecordsElsewhere(v),
         \A w \in VMs \ {v} : state'[w] = state[w] /\ (w \in cancelling' <=> w \in cancelling),
         ~ Mentions(lcmq, v), ~ Mentions(dmq, v), ~ Mentions(vmmq, v), ~ Mentions(tmq, v),
         v \notin cancelling', IsActive(v)', Awaits(lcm[v], a),
         domains[v] \subseteq HomeBefore(v, a)', AtWork(v)', a # "DELETE" => NoWork(v),
         \A h : LoadOf(~ IsActive(v), FALSE, lcm[v], Here(v), There(v), h)
                  = LoadOf(FALSE, a \in LcmMoves, lcm[v], Here(v)', There(v)', h)
  PROVE  Keeps(v)
<1>1. lcmq \in Seq(Entries(LcmActions))
  BY DEF TypeOK
<1>2. Only(lcmq', v, a) /\ Elsewhere(lcmq, lcmq', v)
  BY <1>1, TriggerFor, ElsewhereTrigger
<1>3. Elsewhere(vmmq, vmmq', v) /\ Elsewhere(tmq, tmq', v) /\ Elsewhere(dmq, dmq', v)
  BY ElsewhereSame
<1>4. Apart(v)
  BY <1>2, <1>3 DEF Apart, Untouched, Elsewhere, RecordsElsewhere
<1>5. NoWork(v) => NoWork(v)'
  BY DEF NoWork, Polls
<1>6. Placed(v)'
  <2> HIDE DEF NoWork, AtWork, HomeBefore, IsActive
  <2> QED
    BY <1>5, AskedNow
<1>7. Booked(v)
  <2> SUFFICES ASSUME NEW h \in Hosts PROVE usage'[h] - usage[h] = Load(v, h)' - Load(v, h)
    BY DEF Booked
  <2>1. ~ Asked(lcmq, LcmMoves, v) /\ (Asked(lcmq', LcmMoves, v) <=> a \in LcmMoves)
    BY <1>2, OnlyFor
  <2>2. ~ Mentions(dmq', v) /\ lcm' = lcm
    OBVIOUS
  <2>3. Load(v, h)' = Load(v, h)
    BY <2>1, <2>2, LoadIs DEF LoadOf
  <2>4. Load(v, h) \in Int /\ usage'[h] = usage[h] /\ usage[h] \in Int
    BY LoadIs, LoadOfType DEF TypeOK
  <2> HIDE DEF Load
  <2> QED
    BY <2>3, <2>4
<1> QED
  BY <1>4, <1>6, <1>7 DEF Keeps

\* cancel comes to its trigger.
LEMMA CancelTriggerKeeps ==
  ASSUME TypeOK, NEW v \in VMs, Placed(v), CancelTrigger(v)
  PROVE  Keeps(v)
<1>1. /\ UNCHANGED <<state, lcm, cur, prev, leases, usage, dmq, vmmq, tmq, commands, transfers, domains>>
      /\ v \in cancelling /\ cancelling' = cancelling \ {v} /\ lcmq' = Trigger(lcmq, "CANCEL", v)
  BY DEF CancelTrigger, stateVars, historyVars, driverVars
<1>2. Cancelling(v)
  BY <1>1 DEF Placed, Resting, Settled, AskedFor, Ordering, Moving, Waiting, Leaving, Ending, Over, Remains
<1>3. RecordsElsewhere(v) /\ Here(v)' = Here(v) /\ There(v)' = There(v)
  BY <1>1 DEF RecordsElsewhere, Here, There
<1>4. /\ IsActive(v) /\ IsActive(v)' /\ lcm[v] = "RUNNING" /\ NoWork(v) /\ domains[v] \subseteq {Here(v)}
      /\ ~ Mentions(lcmq, v) /\ ~ Mentions(dmq, v) /\ ~ Mentions(vmmq, v) /\ ~ Mentions(tmq, v)
  BY <1>1, <1>2 DEF Cancelling, NotQueued, IsActive
<1>5. "CANCEL" \in LcmActions \ LcmMoves /\ Awaits("RUNNING", "CANCEL")
  BY DEF LcmActions, LcmMoves, Awaits
<1>6. domains[v] \subseteq HomeBefore(v, "CANCEL")'
  BY <1>1, <1>3, <1>4 DEF HomeBefore, Home, LcmMoves, Filing, TwoHosts, TypeOK
<1>7. AtWork(v)'
  BY <1>1, <1>4, NoWorkAtWork DEF NoWork, Polls
<1>8. \A h : LoadOf(~ IsActive(v), FALSE, lcm[v], Here(v), There(v), h)
               = LoadOf(FALSE, "CANCEL" \in LcmMoves, lcm[v], Here(v)', There(v)', h)
  BY <1>3, <1>4, <1>5 DEF LoadOf
<1>9. \A w \in VMs \ {v} : state'[w] = state[w] /\ (w \in cancelling' <=> w \in cancelling)
  BY <1>1
<1> HIDE DEF Placed, CancelTrigger
<1> QED
  BY <1>1, <1>3, <1>4, <1>5, <1>6, <1>7, <1>8, <1>9, AsksKeep

\* A VM that has no work and no domain but where its record says leaves nothing
\* that could place it.
LEMMA NothingPlaces ==
  ASSUME NEW v, NoWork(v), NEW h \in Hosts \cup {NoHost}, domains[v] \subseteq {h},
         commands'[v] = commands[v], domains'[v] = domains[v],
         ~ Mentions(lcmq', v), v \notin cancelling',
         Just(vmmq', v, {"DRIVER_CANCEL", "CANCEL", "CANCEL_PREVIOUS"}),
         Just(tmq', v, {"DRIVER_CANCEL", "EPILOG_DELETE", "EPILOG_DELETE_PREVIOUS"})
  PROVE  Remains(v)'
<1>1. \A i \in DOMAIN commands'[v] : commands'[v][i].op = "POLL"
  BY DEF NoWork, Polls
<1>2. Lone(commands'[v], Placing)
  BY <1>1 DEF Lone, Placing
<1> QED
  BY <1>1, <1>2 DEF Remains, Just, Mentions, Lone, Placing

\* A VM is not charged before, and not after.
LEMMA IdleKeeps ==
  ASSUME TypeOK, NEW v \in VMs, UNCHANGED <<cur, prev, usage, lcmq, vmmq, commands, transfers, domains>>,
         \A w \in VMs \ {v} : /\ state'[w] = state[w] /\ lcm'[w] = lcm[w] /\ leases'[w] = leases[w]
                              /\ w \in cancelling' <=> w \in cancelling,
         Elsewhere(dmq, dmq', v), Elsewhere(tmq, tmq', v),
         ~ IsActive(v) \/ Mentions(dmq, v) \/ lcm[v] \in Ignored,
         ~ IsActive(v)' \/ Mentions(dmq', v) \/ lcm'[v] \in Ignored,
         Placed(v)'
  PROVE  Keeps(v)
<1>1. Elsewhere(lcmq, lcmq', v) /\ Elsewhere(vmmq, vmmq', v)
  BY ElsewhereSame
<1>2. Apart(v)
  BY <1>1 DEF Apart, Untouched, Elsewhere
<1>3. Booked(v)
  <2> SUFFICES ASSUME NEW h \in Hosts PROVE usage'[h] - usage[h] = Load(v, h)' - Load(v, h)
    BY DEF Booked
  <2>1. Load(v, h)' = 0 /\ Load(v, h) = 0
    BY LoadIs DEF LoadOf
  <2>2. usage'[h] = usage[h] /\ usage[h] \in Int
    BY DEF TypeOK
  <2> HIDE DEF Load
  <2> QED
    BY <2>1, <2>2
<1> QED
  BY <1>2, <1>3 DEF Keeps

\* The Dispatch Manager.
LEMMA DmComesTo ==
  ASSUME TypeOK, NEW v \in VMs, NEW a, Placed(v), DmTakes(v, a)
  PROVE  /\ ~ Mentions(dmq', v) /\ Mentions(dmq, v) /\ Elsewhere(dmq, dmq', v)
         /\ \/ /\ Leaving(v) /\ a \in {"SUSPEND_SUCCESS", "STOP_SUCCESS", "DONE"}
               /\ domains[v] \subseteq IF a = "STOP_SUCCESS" THEN {} ELSE {Here(v)}
            \/ Ending(v) /\ a \in {"DONE", "FAILED"}
<1>1. dmq \in Seq(Entries(DmActions)) /\ IsNext(dmq, a, v) /\ dmq' = Tail(dmq)
  BY DEF TypeOK, DmTakes
<1>2. /\ Mentions(dmq, v) /\ Elsewhere(dmq, dmq', v)
      /\ \A op : Only(dmq, v, op) => op = a /\ ~ Mentions(dmq', v)
  BY <1>1, TailFor DEF Elsewhere
<1>3. Leaving(v) \/ Ending(v)
  BY <1>2 DEF Placed, Resting, Settled, AskedFor, NotQueued, Cancelling, Ordering, Moving, Waiting, Over
<1>4. CASE Leaving(v)
  <2>1. PICK op \in {"SUSPEND_SUCCESS", "STOP_SUCCESS", "DONE"} :
          Only(dmq, v, op) /\ domains[v] \subseteq IF op = "STOP_SUCCESS" THEN {} ELSE {Here(v)}
    BY <1>4 DEF Leaving
  <2>2. op = a /\ ~ Mentions(dmq', v)
    BY <1>2, <2>1
  <2> QED
    BY <1>2, <1>4, <2>1, <2>2
<1>5. CASE Ending(v)
  <2>1. PICK op \in {"DONE", "FAILED"} : Only(dmq, v, op)
    BY <1>5 DEF Ending
  <2>2. op = a /\ ~ Mentions(dmq', v)
    BY <1>2, <2>1
  <2> QED
    BY <1>2, <1>5, <2>1, <2>2
<1> QED
  BY <1>3, <1>4, <1>5

LEMMA DmKeeps ==
  ASSUME TypeOK, NEW v \in VMs, Placed(v), DmStep(v)
  PROVE  Keeps(v)
<1>1. state \in [VMs -> VmStates] /\ lcm \in [VMs -> LcmStates] /\ leases \in [VMs -> Int]
  BY DEF TypeOK
<1>2. PICK a : /\ DmTakes(v, a)
               /\ \/ a = "SUSPEND_SUCCESS" /\ ((IsActive(v) /\ Become(v, "SUSPENDED")) \/ ~ IsActive(v))
                  \/ a = "STOP_SUCCESS" /\ ((IsActive(v) /\ Become(v, "STOPPED")) \/ ~ IsActive(v))
                  \/ a = "DONE" /\ ((IsActive(v) /\ Become(v, "DONE")) \/ ~ IsActive(v))
                  \/ a = "FAILED" /\ Become(v, "FAILED")
               /\ \A w \in VMs \ {v} : leases'[w] = leases[w]
  BY <1>1 DEF DmStep, DmSuspendSuccess, DmStopSuccess, DmDone, DmFailed, NotActive
<1>3. /\ UNCHANGED <<cur, prev, usage, lcmq, vmmq, tmq, commands, transfers, domains, cancelling>>
  BY <1>2 DEF DmTakes, historyVars, driverVars, clientVars
<1>4. /\ ~ Mentions(dmq', v) /\ Mentions(dmq, v) /\ Elsewhere(dmq, dmq', v)
      /\ \/ /\ Leaving(v) /\ a \in {"SUSPEND_SUCCESS", "STOP_SUCCESS", "DONE"}
            /\ domains[v] \subseteq IF a = "STOP_SUCCESS" THEN {} ELSE {Here(v)}
         \/ Ending(v) /\ a \in {"DONE", "FAILED"}
  BY <1>2, DmComesTo
<1>5. IsActive(v)
  BY <1>4 DEF Leaving, Ending
<1>6. PICK s \in {"SUSPENDED", "STOPPED", "DONE", "FAILED"} :
        /\ Become(v, s)
        /\ s = "SUSPENDED" <=> a = "SUSPEND_SUCCESS"
        /\ s = "STOPPED" <=> a = "STOP_SUCCESS"
  BY <1>2, <1>5
<1>7. /\ state'[v] = s /\ lcm'[v] = "LCM_INIT"
      /\ \A w \in VMs \ {v} : state'[w] = state[w] /\ lcm'[w] = lcm[w]
  BY <1>1, <1>6 DEF Become
<1>8. Elsewhere(tmq, tmq', v)
  BY <1>3, ElsewhereSame
<1>9. Here(v)' = Here(v) /\ Here(v) \in Hosts \cup {NoHost}
  BY <1>3 DEF Here, TypeOK, Records
<1>10. Placed(v)'
  <2>1. CASE Leaving(v) /\ a \in {"SUSPEND_SUCCESS", "STOP_SUCCESS"}
    <3>1. NoWork(v)' /\ Settled(v)'
      BY <1>3, <1>4, <2>1 DEF Leaving, NoWork, Polls, Settled, Mentions
    <3>2. domains'[v] \subseteq IF state'[v] = "SUSPENDED" THEN {Here(v)'} ELSE {}
      BY <1>3, <1>4, <1>6, <1>7, <1>9, <2>1 DEF Ending, Leaving
    <3>3. Resting(v)'
      <4> HIDE DEF NoWork, Settled
      <4> QED
        BY <1>6, <1>7, <2>1, <3>1, <3>2 DEF Resting
    <3> QED
      BY <3>3 DEF Placed
  <2>2. CASE a \in {"DONE", "FAILED"}
    <3>1. Remains(v)'
      <4>1. CASE Ending(v)
        <5>1. Remains(v)
          BY <4>1 DEF Ending
        <5>2. /\ ~ Mentions(lcmq', v) /\ v \notin cancelling'
              /\ Just(vmmq', v, {"DRIVER_CANCEL", "CANCEL", "CANCEL_PREVIOUS"})
              /\ Just(tmq', v, {"DRIVER_CANCEL", "EPILOG_DELETE", "EPILOG_DELETE_PREVIOUS"})
          BY <1>3, <5>1 DEF Remains
        <5> QED
          BY <1>3, <5>1, <5>2, RemainsMore
      <4>2. CASE Leaving(v)
        <5>1. /\ NoWork(v) /\ ~ Mentions(lcmq, v) /\ ~ Mentions(vmmq, v) /\ ~ Mentions(tmq, v)
              /\ v \notin cancelling
          BY <4>2 DEF Leaving
        <5>2. domains[v] \subseteq {Here(v)}
          BY <4>2 DEF Leaving
        <5>3. /\ Just(vmmq', v, {"DRIVER_CANCEL", "CANCEL", "CANCEL_PREVIOUS"})
              /\ Just(tmq', v, {"DRIVER_CANCEL", "EPILOG_DELETE", "EPILOG_DELETE_PREVIOUS"})
          BY <1>3, <5>1, OnlyFor
        <5> QED
          BY <1>3, <1>9, <5>1, <5>2, <5>3, NothingPlaces
      <4> QED
        BY <1>4, <4>1, <4>2
    <3>2. s \in {"DONE", "FAILED"}
      BY <1>6, <2>2
    <3>3. Over(v)'
      <4> HIDE DEF Remains
      <4> QED
        BY <1>4, <1>7, <3>1, <3>2 DEF Over, Mentions
    <3> QED
      BY <3>3 DEF Placed
  <2> QED
    BY <1>4, <2>1, <2>2
<1>11. ~ IsActive(v)'
  BY <1>7 DEF IsActive
<1> QED
  BY <1>2, <1>3, <1>4, <1>7, <1>8, <1>10, <1>11, IdleKeeps

\* What a request finds.
LEMMA RequestFinds ==
  ASSUME FastManagers, NEW v \in VMs, Placed(v), NEW operation, Accepted(v, operation)
  PROVE  /\ Settled(v)
         /\ ~ Mentions(dmq, v) /\ ~ Mentions(lcmq, v) /\ ~ Mentions(vmmq, v) /\ ~ Mentions(tmq, v)
         /\ v \notin cancelling
         /\ IsActive(v) => Waiting(v)
         /\ state[v] \in {"PENDING", "HOLD", "STOPPED", "SUSPENDED"} => Resting(v)
         /\ state[v] = "FAILED" => Over(v)
<1>1. Settled(v)
  BY DEF Accepted, Admitted
<1>2. Resting(v) \/ Waiting(v) \/ Over(v)
  BY <1>1, SettledAt
<1>3. Waiting(v) => state[v] = "ACTIVE"
  BY DEF Waiting, IsActive
<1> QED
  BY <1>1, <1>2, <1>3 DEF Settled, Resting, Over, IsActive

\* A VM that is running has work for nobody.
LEMMA RunningIdles ==
  ASSUME NEW v, Waiting(v), lcm[v] = "RUNNING"
  PROVE  NoWork(v) /\ domains[v] \subseteq {Here(v)}
BY DEF Waiting, AtWork, NoWork, Fits, Serves, Saving, Filing, Home, TwoHosts

\* Requests that only change the state of a VM at rest.
LEMMA StateKeeps ==
  ASSUME TypeOK, NEW v \in VMs, Resting(v), state[v] # "SUSPENDED",
         NEW s \in {"PENDING", "HOLD"}, state' = [state EXCEPT ![v] = s],
         \A w \in VMs \ {v} : leases'[w] = leases[w],
         UNCHANGED <<lcm, cur, prev, usage, dmq, lcmq, vmmq, tmq, commands, transfers, domains, cancelling>>
  PROVE  Keeps(v)
<1>1. state'[v] = s /\ \A w \in VMs \ {v} : state'[w] = state[w]
  BY DEF TypeOK
<1>2. NoWork(v)' /\ Settled(v)' /\ domains'[v] = {}
  BY DEF Resting, NoWork, Polls, Settled, Mentions
<1>3. Resting(v)'
  <2> HIDE DEF NoWork, Settled
  <2> QED
    BY <1>1, <1>2 DEF Resting
<1>4. ~ IsActive(v) /\ ~ IsActive(v)'
  BY <1>1 DEF Resting, IsActive
<1>5. Elsewhere(tmq, tmq', v) /\ Elsewhere(dmq, dmq', v)
  BY ElsewhereSame
<1>6. Placed(v)'
  BY <1>3 DEF Placed
<1> QED
  BY <1>1, <1>4, <1>5, <1>6, IdleKeeps

\* finalize of a VM that is not active.
LEMMA FinalizeIdleKeeps ==
  ASSUME TypeOK, FastManagers, NEW v \in VMs, Placed(v), FinalizeIdle(v)
  PROVE  Keeps(v)
<1>1. /\ UNCHANGED <<cur, prev, usage, dmq, lcmq, vmmq, commands, transfers, domains, cancelling>>
      /\ state[v] \in Disposable
      /\ tmq' = Trigger(tmq, "EPILOG_DELETE", v) \/ tmq' = tmq
  BY DEF FinalizeIdle, historyVars, driverVars
<1>2. /\ state'[v] = "DONE" /\ lcm'[v] = "LCM_INIT"
      /\ \A w \in VMs \ {v} : /\ state'[w] = state[w] /\ lcm'[w] = lcm[w] /\ leases'[w] = leases[w]
                              /\ w \in cancelling' <=> w \in cancelling
  BY <1>1 DEF FinalizeIdle, TypeOK
<1>3. /\ ~ Mentions(dmq, v) /\ ~ Mentions(lcmq, v) /\ ~ Mentions(vmmq, v) /\ ~ Mentions(tmq, v)
      /\ v \notin cancelling
      /\ Resting(v) \/ Over(v)
  BY <1>1, RequestFinds DEF FinalizeIdle, Disposable
<1>4. tmq \in Seq(Entries(TmActions)) /\ "EPILOG_DELETE" \in TmActions
  BY DEF TypeOK, TmActions
<1>5. Elsewhere(dmq, dmq', v) /\ Elsewhere(tmq, tmq', v)
  BY <1>1, <1>4, ElsewhereSame, ElsewhereTrigger
<1>6. /\ Just(vmmq', v, {"DRIVER_CANCEL", "CANCEL", "CANCEL_PREVIOUS"})
      /\ Just(tmq', v, {"DRIVER_CANCEL", "EPILOG_DELETE", "EPILOG_DELETE_PREVIOUS"})
  BY <1>1, <1>3, <1>4, OnlyFor, TriggerFor
<1>7. Remains(v)'
  <2>1. CASE Resting(v)
    <3>1. NoWork(v) /\ domains[v] \subseteq {Here(v)} /\ Here(v) \in Hosts \cup {NoHost}
      BY <2>1 DEF Resting, TypeOK, Records, Here
    <3> QED
      BY <1>1, <1>3, <1>6, <3>1, NothingPlaces
  <2>2. CASE Over(v)
    <3>1. Remains(v)
      BY <2>2 DEF Over
    <3> QED
      BY <1>1, <1>3, <1>6, <3>1, RemainsMore
  <2> QED
    BY <1>3, <2>1, <2>2
<1>8. Over(v)'
  <2> HIDE DEF Remains
  <2> QED
    BY <1>1, <1>2, <1>3, <1>7 DEF Over, Mentions
<1>9. ~ IsActive(v) /\ ~ IsActive(v)'
  BY <1>1, <1>2 DEF IsActive, Disposable
<1>10. Placed(v)'
  BY <1>8 DEF Placed
<1> QED
  BY <1>1, <1>2, <1>5, <1>9, <1>10, IdleKeeps

\* deploy of a VM that is PENDING, and resume of one that is SUSPENDED.
LEMMA ActivateKeeps ==
  ASSUME TypeOK, FastManagers, NEW v \in VMs, Resting(v),
         NEW a \in {"DEPLOY", "RESTORE"}, a = "DEPLOY" <=> state[v] # "SUSPENDED",
         a = "RESTORE" => Here(v)' = Here(v), RecordsElsewhere(v),
         state' = [state EXCEPT ![v] = "ACTIVE"], lcmq' = Trigger(lcmq, a, v),
         UNCHANGED <<lcm, leases, usage, dmq, vmmq, tmq, driverVars, cancelling>>
  PROVE  Keeps(v)
<1>1. UNCHANGED <<commands, transfers, domains>>
  BY DEF driverVars
<1>2. state'[v] = "ACTIVE" /\ \A w \in VMs \ {v} : state'[w] = state[w]
  BY DEF TypeOK
<1>3. /\ lcm[v] = "LCM_INIT" /\ NoWork(v) /\ v \notin cancelling
      /\ ~ Mentions(dmq, v) /\ ~ Mentions(lcmq, v) /\ ~ Mentions(vmmq, v) /\ ~ Mentions(tmq, v)
      /\ domains[v] \subseteq IF a = "RESTORE" THEN {Here(v)} ELSE {}
      /\ ~ IsActive(v)
  BY DEF Resting, Settled, IsActive
<1>4. a \in LcmActions \ LcmMoves /\ a # "DELETE" /\ Awaits("LCM_INIT", a) /\ IsActive(v)'
  BY <1>2 DEF LcmActions, LcmMoves, Awaits, IsActive
<1>5. domains[v] \subseteq HomeBefore(v, a)'
  BY <1>3 DEF HomeBefore, Home, LcmMoves
<1>6. AtWork(v)'
  BY <1>1, <1>3, NoWorkAtWork DEF NoWork, Polls
<1>7. \A h : LoadOf(~ IsActive(v), FALSE, lcm[v], Here(v), There(v), h)
               = LoadOf(FALSE, a \in LcmMoves, lcm[v], Here(v)', There(v)', h)
  BY <1>3 DEF LoadOf, Ignored
<1>8. v \notin cancelling' /\ \A w \in VMs \ {v} : w \in cancelling' <=> w \in cancelling
  BY <1>3
<1>9. Awaits(lcm[v], a)
  BY <1>3, <1>4
<1> HIDE DEF Resting, IsActive, NoWork, AtWork, Awaits, HomeBefore, LoadOf, Here, There, RecordsElsewhere
<1> QED
  BY <1>1, <1>2, <1>3, <1>4, <1>5, <1>6, <1>7, <1>8, <1>9, AsksKeep

\* The requests of a VM that is running, migrations included.
LEMMA RunningKeeps ==
  ASSUME TypeOK, NEW v \in VMs, Waiting(v), lcm[v] = "RUNNING",
         NEW a \in {"STOP", "SUSPEND", "SHUTDOWN", "MIGRATE", "LIVE_MIGRATE"},
         IF a \in LcmMoves THEN There(v)' = Here(v) ELSE Here(v)' = Here(v),
         RecordsElsewhere(v), AskLcm(v, a)
  PROVE  Keeps(v)
<1>1. /\ UNCHANGED <<state, lcm, leases, usage, dmq, vmmq, tmq, commands, transfers, domains, cancelling>>
      /\ lcmq' = Trigger(lcmq, a, v)
  BY DEF AskLcm, stateVars, driverVars
<1>2. NoWork(v) /\ domains[v] \subseteq {Here(v)}
  BY RunningIdles
<1>3. /\ v \notin cancelling /\ IsActive(v) /\ IsActive(v)'
      /\ ~ Mentions(dmq, v) /\ ~ Mentions(lcmq, v) /\ ~ Mentions(vmmq, v) /\ ~ Mentions(tmq, v)
  BY <1>1 DEF Waiting, Settled, IsActive
<1>4. a \in LcmActions /\ a # "DELETE" /\ Awaits(lcm[v], a)
  BY DEF LcmActions, Awaits
<1>5. domains[v] \subseteq HomeBefore(v, a)'
  <2>1. CASE a \in LcmMoves
    BY <1>2, <2>1 DEF HomeBefore, LcmMoves
  <2>2. CASE a \notin LcmMoves
    <3>1. HomeBefore(v, a)' = Home(v)'
      BY <2>2 DEF HomeBefore
    <3>2. domains[v] \subseteq Home(v)'
      BY <1>1, <1>2, <2>2 DEF Home, Filing, TwoHosts, TypeOK
    <3> QED
      BY <3>1, <3>2
  <2> QED
    BY <2>1, <2>2
<1>6. AtWork(v)'
  BY <1>1, <1>2, NoWorkAtWork DEF NoWork, Polls
<1>7. \A h : LoadOf(~ IsActive(v), FALSE, lcm[v], Here(v), There(v), h)
               = LoadOf(FALSE, a \in LcmMoves, lcm[v], Here(v)', There(v)', h)
  BY <1>3, AtType DEF LoadOf, Ignored, TwoHosts
<1>8. v \notin cancelling' /\ \A w \in VMs \ {v} : state'[w] = state[w] /\ (w \in cancelling' <=> w \in cancelling)
  BY <1>1, <1>3
<1> HIDE DEF Waiting, IsActive, NoWork, AtWork, Awaits, HomeBefore, LoadOf, Here, There, RecordsElsewhere
<1> QED
  BY <1>1, <1>2, <1>3, <1>4, <1>5, <1>6, <1>7, <1>8, AsksKeep

\* cancel, up to its unlock.
LEMMA CancelKeeps ==
  ASSUME TypeOK, FastManagers, NEW v \in VMs, Placed(v), Cancel(v)
  PROVE  Keeps(v)
<1>1. /\ UNCHANGED <<state, lcm, cur, prev, leases, usage, dmq, lcmq, vmmq, tmq, commands, transfers, domains>>
      /\ cancelling' = cancelling \cup {v}
      /\ IsActive(v) /\ lcm[v] = "RUNNING" /\ Waiting(v)
  BY RequestFinds DEF Cancel, IsRunning, stateVars, historyVars, queueVars, driverVars
<1>2. NoWork(v) /\ domains[v] \subseteq {Here(v)}
  BY <1>1, RunningIdles
<1>3. ~ Mentions(dmq, v) /\ ~ Mentions(lcmq, v) /\ ~ Mentions(vmmq, v) /\ ~ Mentions(tmq, v)
  BY <1>1 DEF Waiting, Settled
<1>4. Cancelling(v)'
  <2>1. NoWork(v)' /\ IsActive(v)' /\ NotQueued(v)' /\ Here(v)' = Here(v)
    BY <1>1, <1>2, <1>3 DEF NoWork, Polls, IsActive, NotQueued, Mentions, Here
  <2> HIDE DEF NoWork, NotQueued, Here
  <2> QED
    BY <1>1, <1>2, <1>3, <2>1 DEF Cancelling, Mentions
<1>5. Elsewhere(dmq, dmq', v) /\ Elsewhere(lcmq, lcmq', v) /\ Elsewhere(vmmq, vmmq', v) /\ Elsewhere(tmq, tmq', v)
  BY <1>1, ElsewhereSame
<1>6. Apart(v)
  BY <1>1, <1>5 DEF Apart, Untouched, Elsewhere
<1>7. Booked(v)
  <2> SUFFICES ASSUME NEW h \in Hosts PROVE usage'[h] - usage[h] = Load(v, h)' - Load(v, h)
    BY DEF Booked
  <2>1. Load(v, h)' = Load(v, h)
    BY <1>1, LoadIs DEF Here, There, IsActive
  <2>2. usage'[h] = usage[h] /\ usage[h] \in Int /\ Load(v, h) \in Int
    BY <1>1, LoadIs, LoadOfType DEF TypeOK
  <2> HIDE DEF Load
  <2> QED
    BY <2>1, <2>2
<1> QED
  BY <1>4, <1>6, <1>7 DEF Keeps, Placed

\* finalize of a VM that is active.
LEMMA FinalizeActiveKeeps ==
  ASSUME TypeOK, FastManagers, NEW v \in VMs, Placed(v), FinalizeActive(v)
  PROVE  Keeps(v)
<1>1. /\ UNCHANGED <<state, lcm, cur, prev, leases, usage, dmq, vmmq, tmq, commands, transfers, domains, cancelling>>
      /\ lcmq' = Trigger(lcmq, "DELETE", v) /\ Waiting(v)
  BY RequestFinds DEF FinalizeActive, AskLcm, stateVars, historyVars, driverVars
<1>2. /\ v \notin cancelling /\ IsActive(v) /\ IsActive(v)' /\ AtWork(v) /\ domains[v] \subseteq Home(v)
      /\ ~ Mentions(dmq, v) /\ ~ Mentions(lcmq, v) /\ ~ Mentions(vmmq, v) /\ ~ Mentions(tmq, v)
      /\ lcm[v] \notin Ignored
  BY <1>1 DEF Waiting, Settled, IsActive
<1>3. "DELETE" \in LcmActions \ LcmMoves /\ Awaits(lcm[v], "DELETE")
  BY <1>2 DEF LcmActions, LcmMoves, Awaits
<1>4. Here(v)' = Here(v) /\ There(v)' = There(v) /\ RecordsElsewhere(v)
  BY <1>1 DEF Here, There, RecordsElsewhere
<1>5. domains[v] \subseteq HomeBefore(v, "DELETE")'
  BY <1>1, <1>2, <1>4 DEF HomeBefore, Home, LcmMoves
<1>6. AtWork(v)'
  BY <1>1, <1>2, <1>4 DEF AtWork, Fits, Polls, Orders, Lone
<1>7. \A h : LoadOf(~ IsActive(v), FALSE, lcm[v], Here(v), There(v), h)
               = LoadOf(FALSE, "DELETE" \in LcmMoves, lcm[v], Here(v)', There(v)', h)
  BY <1>2, <1>3, <1>4 DEF LoadOf
<1>8. v \notin cancelling' /\ \A w \in VMs \ {v} : state'[w] = state[w] /\ (w \in cancelling' <=> w \in cancelling)
  BY <1>1, <1>2
<1> HIDE DEF Waiting, IsActive, NoWork, AtWork, Awaits, HomeBefore, LoadOf, Here, There, RecordsElsewhere, Placed, FinalizeActive
<1> QED
  BY <1>1, <1>2, <1>3, <1>4, <1>5, <1>6, <1>7, <1>8, AsksKeep

\* Every request, restarts and lost records apart.
LEMMA RequestKeeps ==
  ASSUME Steady, TypeOK, RecordsExist, NEW v \in VMs, Placed(v), Request(v)
  PROVE  Keeps(v)
<1>1. FastManagers /\ ~ DbFails /\ "restart" \notin Api
  BY DEF Steady
<1>2. \A h : NewRecord(h).hid = h
  BY DEF NewRecord
<1>3. ASSUME NEW first \in {"PENDING", "HOLD"}, Allocate(v, first) PROVE Keeps(v)
  <2>1. state[v] = "INIT" /\ Resting(v)
    BY <1>3 DEF Allocate, Placed, Resting, AskedFor, Cancelling, Ordering, Moving, Waiting, Leaving,
                Ending, Over, IsActive
  <2>2. /\ state' = [state EXCEPT ![v] = first] /\ \A w \in VMs \ {v} : leases'[w] = leases[w]
        /\ UNCHANGED <<lcm, cur, prev, usage, dmq, lcmq, vmmq, tmq, commands, transfers, domains, cancelling>>
    BY <1>3 DEF Allocate, TypeOK, historyVars, queueVars, driverVars, clientVars
  <2> QED
    BY <2>1, <2>2, StateKeeps
<1>4. ASSUME NEW h \in Hosts, Deploy(v, h) PROVE Keeps(v)
  <2>1. Resting(v) /\ state[v] = "PENDING"
    BY <1>1, <1>4, RequestFinds DEF Deploy
  <2>2. /\ state' = [state EXCEPT ![v] = "ACTIVE"] /\ lcmq' = Trigger(lcmq, "DEPLOY", v)
        /\ UNCHANGED <<lcm, leases, usage, dmq, vmmq, tmq, driverVars, cancelling>>
        /\ AddHistory(v, h)
    BY <1>1, <1>4 DEF Deploy, HistoryNotWritten
  <2>3. RecordsElsewhere(v)
    BY <2>2 DEF AddHistory, PushRecord, RecordsElsewhere, TypeOK
  <2> QED
    BY <1>1, <2>1, <2>2, <2>3, ActivateKeeps
<1>5. ASSUME NEW h \in Hosts, NEW live \in BOOLEAN, Migrate(v, h, live) PROVE Keeps(v)
  <2>1. Waiting(v) /\ lcm[v] = "RUNNING" /\ IsActive(v)
    BY <1>1, <1>5, RequestFinds DEF Migrate, IsRunning
  <2>2. HasHistory(v)
    BY <2>1 DEF RecordsExist, NeedsRecord, IsActive
  <2>3. PICK a \in LcmMoves : AskLcm(v, a)
    BY <1>1, <1>5 DEF Migrate, HistoryNotWritten, LcmMoves
  <2>4. AddHistory(v, h)
    BY <1>5 DEF Migrate
  <2>5. RecordsElsewhere(v) /\ There(v)' = Here(v)
    BY <2>2, <2>4 DEF AddHistory, PushRecord, RecordsElsewhere, TypeOK, Records, Here, There
  <2>6. a \in {"STOP", "SUSPEND", "SHUTDOWN", "MIGRATE", "LIVE_MIGRATE"}
    BY DEF LcmMoves
  <2> QED
    BY <2>1, <2>3, <2>5, <2>6, RunningKeeps
<1>6. ASSUME NEW operation, NEW a \in {"STOP", "SUSPEND", "SHUTDOWN"}, RunningAction(v, operation, a)
      PROVE  Keeps(v)
  <2>1. Waiting(v) /\ lcm[v] = "RUNNING"
    BY <1>1, <1>6, RequestFinds DEF RunningAction, IsRunning
  <2>2. AskLcm(v, a) /\ Here(v)' = Here(v) /\ RecordsElsewhere(v) /\ a \notin LcmMoves
    BY <1>6 DEF RunningAction, historyVars, Here, RecordsElsewhere, LcmMoves
  <2> QED
    BY <2>1, <2>2, RunningKeeps
<1>7. CASE Stop(v) \/ Suspend(v) \/ Shutdown(v)
  BY <1>6, <1>7 DEF Stop, Suspend, Shutdown
<1>8. CASE Cancel(v)
  BY <1>1, <1>8, CancelKeeps
<1>9. CASE Restart(v)
  BY <1>1, <1>9 DEF Restart, Accepted
<1>10. ASSUME NEW operation, NEW from \in {"PENDING", "HOLD", "STOPPED"}, NEW to \in {"PENDING", "HOLD"},
              ChangeState(v, operation, from, to)
       PROVE  Keeps(v)
  <2>1. Resting(v) /\ state[v] # "SUSPENDED"
    BY <1>1, <1>10, RequestFinds DEF ChangeState
  <2>2. /\ state' = [state EXCEPT ![v] = to] /\ \A w \in VMs \ {v} : leases'[w] = leases[w]
        /\ UNCHANGED <<lcm, cur, prev, usage, dmq, lcmq, vmmq, tmq, commands, transfers, domains, cancelling>>
    BY <1>10 DEF ChangeState, historyVars, queueVars, driverVars
  <2> QED
    BY <2>1, <2>2, StateKeeps
<1>11. CASE Hold(v) \/ Release(v) \/ ResumeStopped(v)
  BY <1>10, <1>11 DEF Hold, Release, ResumeStopped
<1>12. CASE ResumeSuspended(v)
  <2>1. Resting(v) /\ state[v] = "SUSPENDED"
    BY <1>1, <1>12, RequestFinds DEF ResumeSuspended
  <2>2. /\ state' = [state EXCEPT ![v] = "ACTIVE"] /\ lcmq' = Trigger(lcmq, "RESTORE", v)
        /\ UNCHANGED <<lcm, leases, usage, dmq, vmmq, tmq, driverVars, cancelling>>
        /\ UNCHANGED <<cur, prev>>
    BY <1>12 DEF ResumeSuspended, historyVars
  <2>3. RecordsElsewhere(v) /\ Here(v)' = Here(v)
    BY <2>2 DEF RecordsElsewhere, Here
  <2> QED
    BY <1>1, <2>1, <2>2, <2>3, ActivateKeeps
<1>13. CASE FinalizeIdle(v)
  BY <1>1, <1>13, FinalizeIdleKeeps
<1>14. CASE FinalizeActive(v)
  BY <1>1, <1>14, FinalizeActiveKeeps
<1> QED
  BY <1>3, <1>4, <1>5, <1>7, <1>8, <1>9, <1>11, <1>12, <1>13, <1>14 DEF Request

-----------------------------------------------------------------------------
(* Every step                                                              *)

Places == \A v \in VMs : Placed(v)

LEMMA NextKeeps ==
  ASSUME Steady, TypeOK, RecordsExist, Places, Next
  PROVE  \E v \in VMs : Keeps(v)
<1>1. FastManagers
  BY DEF Steady
<1>2. PICK v \in VMs : \/ Request(v) \/ CancelTrigger(v) \/ ManagerStep(v)
                       \/ VmmTimer(v) \/ DriverStep(v)
  BY DEF Next
<1>3. Placed(v)
  BY DEF Places
<1>4. CASE Request(v)
  BY <1>3, <1>4, RequestKeeps
<1>5. CASE CancelTrigger(v)
  BY <1>3, <1>5, CancelTriggerKeeps
<1>6. CASE ManagerStep(v)
  BY <1>3, <1>6, DmKeeps, LcmKeeps, VmmKeeps, TmKeeps DEF ManagerStep
<1>7. CASE VmmTimer(v)
  BY <1>1, <1>3, <1>7, TimerKeeps
<1>8. CASE DriverStep(v)
  BY <1>1, <1>3, <1>8, VmmAnswerKeeps, PollAnswerKeeps, TmAnswerKeeps DEF DriverStep
<1> QED
  BY <1>2, <1>4, <1>5, <1>6, <1>7, <1>8

LEMMA StepPlaces ==
  ASSUME Steady, TypeOK, RecordsExist, Places, CapacityInv, [Next]_vars
  PROVE  Places' /\ CapacityInv'
<1>1. CASE Next
  <2>1. PICK v \in VMs : Keeps(v)
    BY <1>1, NextKeeps
  <2>2. \A w \in VMs \ {v} : Placed(w)'
    BY <2>1, UntouchedStays DEF Places, Keeps, Apart
  <2>3. Places'
    BY <2>1, <2>2 DEF Places, Keeps
  <2>4. CapacityInv'
    BY <2>1, StepType, Booking DEF Keeps
  <2> QED
    BY <2>3, <2>4
<1>2. CASE UNCHANGED vars
  <2>1. \A w \in VMs : Untouched(w)
    BY <1>2, OnlyFor DEF vars, Untouched
  <2>2. Places'
    BY <2>1, UntouchedStays DEF Places
  <2>3. \A h \in Hosts : Charges(h)' = Charges(h)
    <3>1. \A w \in VMs : Charged(w)' = Charged(w) /\ Here(w)' = Here(w) /\ There(w)' = There(w)
      BY <2>1, UntouchedStays
    <3>2. TAKE h \in Hosts
    <3> HIDE DEF Charged
    <3> QED
      BY <3>1 DEF Charges, HostOf, Here, There
  <2>4. CapacityInv'
    BY <1>2, <2>3 DEF vars, CapacityInv
  <2> QED
    BY <2>2, <2>4
<1> QED
  BY <1>1, <1>2

LEMMA InitPlaces ==
  ASSUME Init PROVE Places /\ CapacityInv
<1>1. ASSUME NEW v \in VMs PROVE Placed(v)
  <2>1. /\ state[v] = "INIT" /\ lcm[v] = "LCM_INIT" /\ domains[v] = {} /\ commands[v] = <<>>
        /\ transfers[v] = <<>>
    BY DEF Init
  <2>2. Settled(v)
    BY DEF Init, Settled, Mentions
  <2>3. NoWork(v)
    BY <2>1 DEF NoWork
  <2> QED
    BY <2>1, <2>2, <2>3 DEF Placed, Resting
<1>2. ASSUME NEW h \in Hosts PROVE Charges(h) = {} /\ usage[h] = 0
  <2>1. \A v \in VMs : Charged(v) = {}
    BY DEF Init, Charged, Uncharged, IsActive
  <2> QED
    BY <2>1 DEF Init, Charges
<1> QED
  BY <1>1, <1>2, FS_EmptySet DEF Places, CapacityInv

\* Every VM is at one of the places, and every host is charged for the VMs that
\* are on it or moved to or from it, whatever is interleaved with what.
THEOREM PlacesHold == Steady => (Spec => [](Places /\ CapacityInv))
<1> SUFFICES ASSUME Steady PROVE Spec => [](Places /\ CapacityInv)
  OBVIOUS
<1>1. Init => Places /\ CapacityInv
  BY InitPlaces
<1>2. TypeOK /\ RecordsExist /\ Places /\ CapacityInv /\ [Next]_vars => Places' /\ CapacityInv'
  BY StepPlaces
<1> QED
  BY <1>1, <1>2, TypeCorrect, RecordsAlwaysExist, PTL DEF Spec

\* The running VMs a host counts are the VMs that are on it or on their way to
\* or from it: add_capacity and del_capacity are called in pairs.
THEOREM CapacityIsExact == Steady => (Spec => []CapacityExact)
<1>1. CapacityInv => CapacityExact
  BY DEF CapacityInv, CapacityExact
<1> QED
  BY <1>1, PlacesHold, PTL

\* Wherever a VM stands it has a domain on one host at most.
LEMMA OnePlace ==
  ASSUME TypeOK, NEW v \in VMs, Placed(v)
  PROVE  \E h \in Hosts \cup {NoHost} : domains[v] \subseteq {h}
<1>1. Here(v) \in Hosts \cup {NoHost} /\ There(v) \in Hosts \cup {NoHost}
  BY DEF TypeOK, Records, Here, There
<1>2. Home(v) \subseteq {Here(v)} \/ Home(v) \subseteq {There(v)}
  BY DEF Home
<1>3. \A a : HomeBefore(v, a) \subseteq {Here(v)} \/ HomeBefore(v, a) \subseteq {There(v)}
  BY <1>2 DEF HomeBefore
<1>4. domains[v] \subseteq {Here(v)} \/ domains[v] \subseteq {There(v)}
      \/ \E h \in Hosts \cup {NoHost} : domains[v] \subseteq {h}
  <2> HIDE DEF Home, HomeBefore
  <2> QED
    BY <1>2, <1>3 DEF Placed, Resting, AskedFor, Cancelling, Ordering, Moving, Waiting, Leaving,
                      Ending, Over, Remains
<1> QED
  BY <1>1, <1>4

\* No VM runs on two hosts at once, migrations and deletions included.
THEOREM OneDomainEach == Steady => (Spec => []OneDomain)
<1>1. TypeOK /\ Places => OneDomain
  <2> SUFFICES ASSUME TypeOK, Places, NEW v \in VMs PROVE Cardinality(domains[v]) <= 1
    BY DEF OneDomain
  <2>1. PICK h : domains[v] \subseteq {h}
    BY OnePlace DEF Places
  <2>2. IsFiniteSet({h}) /\ Cardinality({h}) = 1
    BY FS_Singleton
  <2>3. Cardinality(domains[v]) <= Cardinality({h})
    BY <2>1, <2>2, FS_Subset
  <2> QED
    BY <2>2, <2>3
<1> QED
  BY <1>1, PlacesHold, TypeCorrect, PTL

\* A VM that runs is charged to the host it runs on.
THEOREM RunningIsCharged == Steady => (Spec => []DomainsCharged)
<1>1. TypeOK /\ Places => DomainsCharged
  <2> SUFFICES ASSUME TypeOK, Places, NEW v \in VMs, IsActive(v), Settled(v)
               PROVE  domains[v] \subseteq HostsOf(v)
    BY DEF DomainsCharged
  <2>1. Waiting(v)
    BY SettledAt DEF Places, Resting, Over, IsActive
  <2>2. domains[v] \subseteq Home(v) /\ ~ Uncharged(v)
    BY <2>1 DEF Waiting, Uncharged, Settled
  <2>3. ~ Asked(lcmq, {"MIGRATE", "LIVE_MIGRATE"}, v)
    BY OnlyFor DEF Settled
  <2>4. Charged(v) = IF lcm[v] \in TwoHosts THEN {"cur", "prev"} ELSE {"cur"}
    BY <2>2, <2>3 DEF Charged, TwoHosts
  <2>5. Home(v) \subseteq HostsOf(v)
    BY <2>4 DEF Home, HostsOf, HostOf, Here, There
  <2> QED
    BY <2>2, <2>5
<1> QED
  BY <1>1, PlacesHold, TypeCorrect, PTL

\* The leases of a VM are given back once, with its end.
LEMMA StepLeases ==
  ASSUME TypeOK, Places, LeasesHeldOnce, [Next]_vars
  PROVE  LeasesHeldOnce'
<1>1. CASE KeepsStates
  BY <1>1 DEF KeepsStates, LeasesHeldOnce
<1>2. ASSUME NEW w \in VMs, NEW s, NEW n, Becomes(w, s), leases' = [leases EXCEPT ![w] = n],
             n = IF s \in {"INIT", "DONE"} THEN 0 ELSE 1
      PROVE  LeasesHeldOnce'
  BY <1>2 DEF Becomes, TypeOK, LeasesHeldOnce
<1>3. ASSUME NEW w \in VMs, Request(w) \/ DmStep(w) PROVE LeasesHeldOnce'
  <2>1. /\ leases[w] = IF state[w] \in {"INIT", "DONE"} THEN 0 ELSE 1
        /\ leases = [leases EXCEPT ![w] = leases[w]]
        /\ 0 + 1 = 1 /\ 1 - 1 = 0
    BY DEF TypeOK, LeasesHeldOnce
  <2>2. CASE Request(w)
    <3>1. CASE /\ state[w] = "INIT" /\ \E s \in {"PENDING", "HOLD"} : Becomes(w, s)
               /\ leases' = [leases EXCEPT ![w] = @ + 1]
      <4>1. leases' = [leases EXCEPT ![w] = 1]
        BY <2>1, <3>1
      <4> QED
        BY <1>2, <3>1, <4>1
    <3>2. CASE /\ state[w] \in {"PENDING", "HOLD", "STOPPED", "SUSPENDED"}
               /\ \E s \in {"PENDING", "HOLD", "ACTIVE"} : Becomes(w, s)
               /\ leases' = leases
      BY <1>2, <2>1, <3>2
    <3>3. CASE /\ state[w] \in Disposable /\ Becomes(w, "DONE")
               /\ leases' = [leases EXCEPT ![w] = @ - 1]
      <4>1. leases' = [leases EXCEPT ![w] = 0]
        BY <2>1, <3>3 DEF Disposable
      <4> QED
        BY <1>2, <3>3, <4>1
    <3> QED
      BY <1>1, <2>2, <3>1, <3>2, <3>3, RequestStates
  <2>3. CASE DmStep(w)
    <3>1. PICK a : DmTakes(w, a)
      BY <2>3 DEF DmStep, DmSuspendSuccess, DmStopSuccess, DmDone, DmFailed
    <3>2. state[w] = "ACTIVE"
      BY <3>1, DmComesTo DEF Places, Leaving, Ending, IsActive
    <3>3. CASE /\ \E s \in {"SUSPENDED", "STOPPED", "FAILED"} : Becomes(w, s)
               /\ leases' = leases
      BY <1>2, <2>1, <3>2, <3>3
    <3>4. CASE Becomes(w, "DONE") /\ leases' = [leases EXCEPT ![w] = @ - 1]
      <4>1. leases' = [leases EXCEPT ![w] = 0]
        BY <2>1, <3>2, <3>4
      <4> QED
        BY <1>2, <3>4, <4>1
    <3> QED
      BY <1>1, <2>3, <3>3, <3>4, DmStates
  <2> QED
    BY <1>3, <2>2, <2>3
<1> QED
  BY <1>1, <1>3, NextStates

\* A VM holds its leases from its creation to its end, and gives them back once.
THEOREM LeasesOnce == Steady => (Spec => []LeasesHeldOnce)
<1>1. Init => LeasesHeldOnce
  BY DEF Init, LeasesHeldOnce
<1>2. TypeOK /\ Places /\ LeasesHeldOnce /\ [Next]_vars => LeasesHeldOnce'
  BY StepLeases
<1> QED
  BY <1>1, <1>2, PlacesHold, TypeCorrect, PTL DEF Spec

-----------------------------------------------------------------------------
(* The life cycle clients are promised                                     *)
(*                                                                         *)
(* Every step of oned is a step of VmLifeCycle, or shows nothing there.    *)

LcmStarts == {"DEPLOY", "RESTORE"}

\* What clients see of a VM, told by what it depends on.
HostsFor(out, moving, s, c, p) ==
  IF out \/ s \in Ignored THEN {}
  ELSE IF moving THEN {p}
  ELSE IF s \in TwoHosts THEN {c, p} ELSE {c}

StatusOf(s, starting, hosts) ==
  IF s # "ACTIVE" THEN s
  ELSE IF starting THEN "DISPATCHED"
  ELSE IF hosts # {} THEN "PLACED" ELSE "LEFT"

LEMMA LifeIs ==
  ASSUME NEW v
  PROVE  /\ HostsOf(v) = HostsFor(~ IsActive(v) \/ Mentions(dmq, v), Asked(lcmq, LcmMoves, v),
                                  lcm[v], Here(v), There(v))
         /\ HostsOf(v)' = HostsFor(~ IsActive(v)' \/ Mentions(dmq', v), Asked(lcmq', LcmMoves, v),
                                   lcm'[v], Here(v)', There(v)')
         /\ Status(v) = StatusOf(state[v], Asked(lcmq, LcmStarts, v), HostsOf(v))
         /\ Status(v)' = StatusOf(state'[v], Asked(lcmq', LcmStarts, v), HostsOf(v)')
<1>1. Uncharged(v) <=> ~ IsActive(v) \/ Mentions(dmq, v) \/ lcm[v] \in Ignored
  BY DEF Uncharged
<1>2. Uncharged(v)' <=> ~ IsActive(v)' \/ Mentions(dmq', v) \/ lcm'[v] \in Ignored
  BY DEF Uncharged, Mentions
<1>3. /\ Asked(lcmq, {"MIGRATE", "LIVE_MIGRATE"}, v)' <=> Asked(lcmq', LcmMoves, v)
      /\ Asked(lcmq, {"DEPLOY", "RESTORE"}, v)' <=> Asked(lcmq', LcmStarts, v)
  BY DEF Asked, LcmMoves, LcmStarts
<1>4. Charged(v) = IF Uncharged(v) THEN {}
                   ELSE IF Asked(lcmq, LcmMoves, v) THEN {"prev"}
                   ELSE IF lcm[v] \in TwoHosts THEN {"cur", "prev"} ELSE {"cur"}
  BY DEF Charged, LcmMoves, TwoHosts
<1>5. Charged(v)' = IF Uncharged(v)' THEN {}
                    ELSE IF Asked(lcmq', LcmMoves, v) THEN {"prev"}
                    ELSE IF lcm'[v] \in TwoHosts THEN {"cur", "prev"} ELSE {"cur"}
  BY <1>3 DEF Charged, LcmMoves, TwoHosts
<1>6. /\ HostsOf(v) = {IF r = "cur" THEN Here(v) ELSE There(v) : r \in Charged(v)}
      /\ HostsOf(v)' = {IF r = "cur" THEN Here(v)' ELSE There(v)' : r \in Charged(v)'}
  BY DEF HostsOf, HostOf, Here, There
<1>7. /\ HostsOf(v) = {} <=> Charged(v) = {}
      /\ HostsOf(v)' = {} <=> Charged(v)' = {}
  BY <1>6
<1>8. /\ IsActive(v) <=> state[v] = "ACTIVE"
      /\ IsActive(v)' <=> state'[v] = "ACTIVE"
  BY DEF IsActive
<1>9. /\ Status(v) = StatusOf(state[v], Asked(lcmq, LcmStarts, v), HostsOf(v))
      /\ Status(v)' = StatusOf(state'[v], Asked(lcmq', LcmStarts, v), HostsOf(v)')
  <2> HIDE DEF Charged, HostsOf, IsActive
  <2> QED
    BY <1>3, <1>7, <1>8 DEF Status, StatusOf, LcmStarts
<1>10. \A x, y : /\ {IF r = "cur" THEN x ELSE y : r \in {}} = {}
                 /\ {IF r = "cur" THEN x ELSE y : r \in {"prev"}} = {y}
                 /\ {IF r = "cur" THEN x ELSE y : r \in {"cur"}} = {x}
                 /\ {IF r = "cur" THEN x ELSE y : r \in {"cur", "prev"}} = {x, y}
  OBVIOUS
<1>11. HostsOf(v) = HostsFor(~ IsActive(v) \/ Mentions(dmq, v), Asked(lcmq, LcmMoves, v),
                             lcm[v], Here(v), There(v))
  <2> HIDE DEF Charged, HostsOf, Uncharged
  <2> QED
    BY <1>1, <1>4, <1>6, <1>10 DEF HostsFor
<1>12. HostsOf(v)' = HostsFor(~ IsActive(v)' \/ Mentions(dmq', v), Asked(lcmq', LcmMoves, v),
                              lcm'[v], Here(v)', There(v)')
  <2> HIDE DEF Charged, HostsOf, Uncharged
  <2> QED
    BY <1>2, <1>5, <1>6, <1>10 DEF HostsFor
<1> QED
  BY <1>9, <1>11, <1>12

Held(v) == leases[v] > 0

\* A step shows nothing of v, or is a step of its life.
ShowsNothing(v) ==
  /\ Status(v)' = Status(v) /\ HostsOf(v)' = HostsOf(v) /\ Held(v)' = Held(v)

ShowsStatus(v, from, to) ==
  Status(v) \in from /\ Status(v)' = to /\ HostsOf(v)' = HostsOf(v)

Shows(v) ==
  \/ ShowsNothing(v)
  \/ /\ \E first \in {"PENDING", "HOLD"} : ShowsStatus(v, {"INIT"}, first)
     /\ Held(v)' = TRUE
  \/ /\ \/ ShowsStatus(v, {"PENDING"}, "HOLD")
        \/ ShowsStatus(v, {"HOLD", "STOPPED"}, "PENDING")
        \/ ShowsStatus(v, {"PENDING", "SUSPENDED"}, "DISPATCHED")
        \/ \E s \in {"STOPPED", "SUSPENDED", "FAILED"} : ShowsStatus(v, {"LEFT"}, s)
     /\ Held(v)' = Held(v)
  \/ /\ ShowsStatus(v, {"LEFT"} \cup LifeCycle!Idle, "DONE")
     /\ Held(v)' = FALSE
  \/ /\ Status(v) = "DISPATCHED" /\ Status(v)' = "PLACED"
     /\ \E h \in Hosts : HostsOf(v)' = {h}
     /\ Held(v)' = Held(v)
  \/ /\ Status(v) = "PLACED" /\ Status(v)' = "PLACED"
     /\ \/ \E x, y \in Hosts : HostsOf(v) = {x} /\ HostsOf(v)' = {x, y}
        \/ \E h \in HostsOf(v) : HostsOf(v)' = {h}
     /\ Held(v)' = Held(v)
  \/ /\ Status(v) = "PLACED" /\ Status(v)' = "LEFT"
     /\ HostsOf(v)' = {}
     /\ Held(v)' = Held(v)

\* Of the other VMs it shows nothing.
LEMMA UntouchedShowsNothing ==
  ASSUME NEW w, Untouched(w)
  PROVE  ShowsNothing(w)
<1>1. Charged(w)' = Charged(w) /\ Here(w)' = Here(w) /\ There(w)' = There(w)
  BY UntouchedStays
<1>2. HostsOf(w)' = HostsOf(w)
  <2> HIDE DEF Charged
  <2> QED
    BY <1>1 DEF HostsOf, HostOf, Here, There
<1>3. \A as : Asked(lcmq', as, w) <=> Asked(lcmq, as, w)
  BY DEF Untouched, SameFor
<1>4. Status(w)' = Status(w)
  <2>1. state'[w] = state[w]
    BY DEF Untouched
  <2>2. StatusOf(state'[w], Asked(lcmq', LcmStarts, w), HostsOf(w)')
          = StatusOf(state[w], Asked(lcmq, LcmStarts, w), HostsOf(w))
    BY <1>2, <1>3, <2>1 DEF StatusOf
  <2> QED
    BY <2>2, LifeIs
<1> QED
  BY <1>2, <1>4 DEF ShowsNothing, Held, Untouched

LEMMA ShownStep ==
  ASSUME NEW v \in VMs, Apart(v), Shows(v)
  PROVE  [LifeCycle!Next]_(LifeCycle!lifeVars)
<1> DEFINE status == [w \in VMs |-> Status(w)]
           placed == [w \in VMs |-> HostsOf(w)]
           held   == [w \in VMs |-> leases[w] > 0]
<1>1. \A w \in VMs \ {v} : /\ Status(w)' = Status(w) /\ HostsOf(w)' = HostsOf(w)
                           /\ Held(w)' = Held(w)
  BY UntouchedShowsNothing DEF Apart, ShowsNothing
<1>2. /\ status' = [status EXCEPT ![v] = Status(v)']
      /\ placed' = [placed EXCEPT ![v] = HostsOf(v)']
      /\ held' = [held EXCEPT ![v] = Held(v)']
  <2> HIDE DEF Status, HostsOf
  <2> QED
    BY <1>1 DEF Held
<1>3. status[v] = Status(v) /\ placed[v] = HostsOf(v) /\ held[v] = Held(v)
  BY DEF Held
<1>4. CASE ShowsNothing(v)
  <2>1. /\ status' = status /\ placed' = placed /\ held' = held
    <3> HIDE DEF Status, HostsOf
    <3> QED
      BY <1>1, <1>4 DEF ShowsNothing, Held
  <2> QED
    BY <2>1 DEF LifeCycle!lifeVars
<1>5. ASSUME NEW from, NEW to, ShowsStatus(v, from, to)
      PROVE  /\ LifeCycle!Move(v, from, to)
             /\ placed' = placed
  <2>1. /\ Status(v) \in from /\ Status(v)' = to /\ HostsOf(v)' = HostsOf(v)
    BY <1>5 DEF ShowsStatus
  <2>2. placed' = placed
    <3> HIDE DEF HostsOf
    <3> QED
      BY <1>1, <2>1
  <2>3. status' = [status EXCEPT ![v] = to] /\ status[v] \in from
    BY <1>2, <1>3, <2>1
  <2> HIDE DEF placed
  <2> QED
    BY <2>2, <2>3 DEF LifeCycle!Move
<1>6. Held(v)' = Held(v) => held' = held
  BY <1>1 DEF Held
<1>7. Status(v)' = Status(v) => status' = status
  <2> HIDE DEF Status
  <2> QED
    BY <1>1
<1>8. CASE /\ \E first \in {"PENDING", "HOLD"} : ShowsStatus(v, {"INIT"}, first)
           /\ Held(v)' = TRUE
  <2>1. LifeCycle!Submit(v)
    BY <1>2, <1>5, <1>8 DEF LifeCycle!Submit
  <2> QED
    BY <2>1 DEF LifeCycle!Next
<1>9. CASE /\ ShowsStatus(v, {"PENDING"}, "HOLD") \/ ShowsStatus(v, {"HOLD", "STOPPED"}, "PENDING")
           /\ Held(v)' = Held(v)
  <2>1. LifeCycle!Queue(v)
    BY <1>5, <1>6, <1>9 DEF LifeCycle!Queue
  <2> QED
    BY <2>1 DEF LifeCycle!Next
<1>10. CASE ShowsStatus(v, {"PENDING", "SUSPENDED"}, "DISPATCHED") /\ Held(v)' = Held(v)
  <2>1. LifeCycle!Dispatch(v)
    BY <1>5, <1>6, <1>10 DEF LifeCycle!Dispatch
  <2> QED
    BY <2>1 DEF LifeCycle!Next
<1>11. CASE /\ \E s \in {"STOPPED", "SUSPENDED", "FAILED"} : ShowsStatus(v, {"LEFT"}, s)
            /\ Held(v)' = Held(v)
  <2>1. LifeCycle!End(v)
    BY <1>5, <1>6, <1>11 DEF LifeCycle!End
  <2> QED
    BY <2>1 DEF LifeCycle!Next
<1>12. CASE ShowsStatus(v, {"LEFT"} \cup LifeCycle!Idle, "DONE") /\ Held(v)' = FALSE
  <2>1. ShowsStatus(v, {"LEFT"}, "DONE") \/ ShowsStatus(v, LifeCycle!Idle, "DONE")
    BY <1>12 DEF ShowsStatus
  <2>2. LifeCycle!End(v) \/ LifeCycle!Discard(v)
    BY <1>2, <1>5, <1>12, <2>1 DEF LifeCycle!End, LifeCycle!Discard
  <2> QED
    BY <2>2 DEF LifeCycle!Next
<1>13. CASE /\ Status(v) = "DISPATCHED" /\ Status(v)' = "PLACED"
            /\ \E h \in Hosts : HostsOf(v)' = {h}
            /\ Held(v)' = Held(v)
  <2>1. LifeCycle!Place(v)
    BY <1>2, <1>3, <1>6, <1>13 DEF LifeCycle!Place, LifeCycle!Move
  <2> QED
    BY <2>1 DEF LifeCycle!Next
<1>14. ASSUME NEW x \in Hosts, NEW y \in Hosts, Status(v) = "PLACED", Status(v)' = "PLACED",
              HostsOf(v) = {x}, HostsOf(v)' = {x, y}, Held(v)' = Held(v)
       PROVE  LifeCycle!Next
  <2>1. LifeCycle!Reserve(v)
    <3>1. status[v] = "PLACED" /\ placed[v] = {x}
      BY <1>3, <1>14
    <3>2. placed' = [placed EXCEPT ![v] = {x, y}]
      BY <1>2, <1>14
    <3>3. status' = status /\ held' = held
      BY <1>6, <1>7, <1>14
    <3> QED
      BY <3>1, <3>2, <3>3 DEF LifeCycle!Reserve
  <2> QED
    BY <2>1 DEF LifeCycle!Next
<1>15. ASSUME NEW h \in HostsOf(v), Status(v) = "PLACED", Status(v)' = "PLACED",
              HostsOf(v)' = {h}, Held(v)' = Held(v)
       PROVE  LifeCycle!Next
  <2>1. LifeCycle!Settle(v)
    BY <1>2, <1>3, <1>6, <1>7, <1>15 DEF LifeCycle!Settle
  <2> QED
    BY <2>1 DEF LifeCycle!Next
<1>16. CASE /\ Status(v) = "PLACED" /\ Status(v)' = "LEFT"
            /\ HostsOf(v)' = {}
            /\ Held(v)' = Held(v)
  <2>1. LifeCycle!Leave(v)
    BY <1>2, <1>3, <1>6, <1>16 DEF LifeCycle!Leave, LifeCycle!Move
  <2> QED
    BY <2>1 DEF LifeCycle!Next
<1> HIDE DEF status, placed, held
<1> QED
  BY <1>4, <1>8, <1>9, <1>10, <1>11, <1>12, <1>13, <1>14, <1>15, <1>16 DEF Shows

\* Asking for something else does not change whether something is asked for.
LEMMA TriggerAsked ==
  ASSUME NEW A, NEW q \in Seq(Entries(A)), NEW a \in A, NEW v \in VMs, NEW ops, a \notin ops
  PROVE  Asked(Trigger(q, a, v), ops, v) <=> Asked(q, ops, v)
<1> DEFINE p == Trigger(q, a, v)
           n == Len(q) + 1
<1>1. /\ DOMAIN q = 1..Len(q) /\ Len(q) \in Nat /\ DOMAIN p = 1..n
      /\ p[n] = [op |-> a, vm |-> v] /\ \A i \in DOMAIN q : p[i] = q[i]
  BY TriggerIs
<1> HIDE DEF p
<1>2. \A i \in DOMAIN p : i = n \/ i \in DOMAIN q
  BY <1>1
<1>3. \A i \in DOMAIN q : i \in DOMAIN p
  BY <1>1
<1> HIDE DEF n
<1> QED
  BY <1>1, <1>2, <1>3 DEF Asked, p

\* The Life-cycle Manager is asked for something that does not show yet.
Quiet == LcmActions \ (LcmMoves \cup LcmStarts)

LEMMA QuietShowsNothing ==
  ASSUME TypeOK, NEW v \in VMs, UNCHANGED <<state, cur, prev, leases, dmq>>,
         lcm'[v] = lcm[v] \/ {lcm[v], lcm'[v]} \subseteq {"RUNNING", "UNKNOWN"},
         lcmq' = lcmq \/ \E b \in Quiet : lcmq' = Trigger(lcmq, b, v)
  PROVE  ShowsNothing(v)
<1>1. lcmq \in Seq(Entries(LcmActions))
  BY DEF TypeOK
<1>2. /\ Asked(lcmq', LcmMoves, v) <=> Asked(lcmq, LcmMoves, v)
      /\ Asked(lcmq', LcmStarts, v) <=> Asked(lcmq, LcmStarts, v)
  <2>1. ASSUME NEW b \in Quiet, lcmq' = Trigger(lcmq, b, v)
        PROVE  /\ Asked(lcmq', LcmMoves, v) <=> Asked(lcmq, LcmMoves, v)
               /\ Asked(lcmq', LcmStarts, v) <=> Asked(lcmq, LcmStarts, v)
    <3>1. b \in LcmActions /\ b \notin LcmMoves /\ b \notin LcmStarts
      BY DEF Quiet
    <3> QED
      BY <1>1, <2>1, <3>1, TriggerAsked
  <2> QED
    BY <2>1
<1>3. /\ IsActive(v)' <=> IsActive(v)
      /\ Here(v)' = Here(v) /\ There(v)' = There(v)
      /\ Mentions(dmq', v) <=> Mentions(dmq, v)
      /\ lcm'[v] \in Ignored <=> lcm[v] \in Ignored
      /\ lcm'[v] \in TwoHosts <=> lcm[v] \in TwoHosts
  BY DEF IsActive, Here, There, Ignored, TwoHosts
<1>4. HostsFor(~ IsActive(v)' \/ Mentions(dmq', v), Asked(lcmq', LcmMoves, v),
               lcm'[v], Here(v)', There(v)')
        = HostsFor(~ IsActive(v) \/ Mentions(dmq, v), Asked(lcmq, LcmMoves, v),
                   lcm[v], Here(v), There(v))
  BY <1>2, <1>3 DEF HostsFor
<1>5. HostsOf(v)' = HostsOf(v)
  BY <1>4, LifeIs
<1>6. StatusOf(state'[v], Asked(lcmq', LcmStarts, v), HostsOf(v)')
        = StatusOf(state[v], Asked(lcmq, LcmStarts, v), HostsOf(v))
  BY <1>2, <1>5 DEF StatusOf
<1>7. Status(v)' = Status(v)
  BY <1>6, LifeIs
<1> QED
  BY <1>5, <1>7 DEF ShowsNothing, Held

\* The drivers, their managers and the end of cancel show nothing.
LEMMA DriversShowNothing ==
  ASSUME TypeOK, NEW v \in VMs,
         CancelTrigger(v) \/ VmmStep(v) \/ TmStep(v) \/ VmmTimer(v) \/ DriverStep(v)
  PROVE  ShowsNothing(v)
<1>1. /\ {"CANCEL", "DEPLOY_FAILURE", "SAVE_FAILURE", "SHUTDOWN_FAILURE", "CANCEL_FAILURE"} \subseteq Quiet
      /\ {"DEPLOY_SUCCESS", "SAVE_SUCCESS", "SHUTDOWN_SUCCESS", "CANCEL_SUCCESS"} \subseteq Quiet
      /\ {"PROLOG_SUCCESS", "PROLOG_FAILURE", "EPILOG_SUCCESS", "EPILOG_FAILURE"} \subseteq Quiet
      /\ {"MONITOR_SUSPEND", "MONITOR_FAILURE", "MONITOR_DONE"} \subseteq Quiet
  BY DEF Quiet, LcmActions, LcmMoves, LcmStarts
<1> DEFINE Said == lcmq' = lcmq \/ \E b \in Quiet : lcmq' = Trigger(lcmq, b, v)
           Still == UNCHANGED <<state, cur, prev, leases, dmq>>
<1>2. CASE CancelTrigger(v)
  <2>1. Still /\ Said /\ UNCHANGED lcm
    BY <1>1, <1>2 DEF CancelTrigger, stateVars, historyVars
  <2> QED
    BY <2>1, QuietShowsNothing
<1>3. CASE VmmTimer(v)
  <2>1. Still /\ Said /\ UNCHANGED lcm
    BY <1>3 DEF VmmTimer, stateVars, historyVars, queueVars
  <2> QED
    BY <2>1, QuietShowsNothing
<1>4. CASE VmmStep(v)
  <2>1. Still /\ UNCHANGED lcm
    <3>1. PICK a : VmmTakes(v, a)
      BY <1>4 DEF VmmStep, VmmDeploy, VmmSave, VmmShutdown, VmmCancel, VmmCancelPrevious, VmmMigrate,
                  VmmRestore, VmmPoll, VmmDriverCancel
    <3> QED
      BY <3>1 DEF VmmTakes, stateVars, historyVars
  <2>2. Said
    BY <1>1, <1>4 DEF VmmStep, VmmDeploy, VmmSave, VmmShutdown, VmmCancel, VmmCancelPrevious, VmmMigrate,
                      VmmRestore, VmmPoll, VmmDriverCancel, VmmSend
  <2> QED
    BY <2>1, <2>2, QuietShowsNothing
<1>5. CASE TmStep(v)
  <2>1. Still /\ UNCHANGED lcm
    <3>1. PICK a : TmTakes(v, a)
      BY <1>5 DEF TmStep, TmProlog, TmEpilog, TmEpilogDelete, TmEpilogDeletePrevious, TmDriverCancel, TmSend
    <3> QED
      BY <3>1 DEF TmTakes, stateVars, historyVars
  <2>2. Said
    BY <1>1, <1>5 DEF TmStep, TmProlog, TmEpilog, TmEpilogDelete, TmEpilogDeletePrevious, TmDriverCancel, TmSend
  <2> QED
    BY <2>1, <2>2, QuietShowsNothing
<1>6. CASE VmmAnswer(v)
  <2>1. PICK i \in DOMAIN commands[v], ok \in BOOLEAN :
          /\ Answered(v, i) /\ UNCHANGED lcm
          /\ lcmq' = lcmq \/ lcmq' = Trigger(lcmq, Answer(commands[v][i].op, ok), v)
    BY <1>6 DEF VmmAnswer
  <2>2. Answer(commands[v][i].op, ok) \in Quiet
    BY <1>1 DEF Answer
  <2>3. Still /\ Said
    BY <2>1, <2>2 DEF Answered, historyVars
  <2> QED
    BY <2>1, <2>3, QuietShowsNothing
<1>7. CASE PollAnswer(v)
  <2>1. PICK i \in DOMAIN commands[v], s \in {"-", "a", "p", "e", "d"} :
          /\ Answered(v, i)
          /\ lcm' = IF s = "a" /\ lcm[v] = "UNKNOWN" THEN [lcm EXCEPT ![v] = "RUNNING"] ELSE lcm
          /\ lcmq' = IF s \in {"p", "e", "d"} /\ lcm[v] \in {"RUNNING", "UNKNOWN"}
                     THEN Trigger(lcmq, Found(s), v) ELSE lcmq
    BY <1>7 DEF PollAnswer
  <2>2. s \in {"p", "e", "d"} => Found(s) \in Quiet
    BY <1>1 DEF Found
  <2>3. Still /\ Said
    BY <2>1, <2>2 DEF Answered, historyVars
  <2>4. lcm'[v] = lcm[v] \/ {lcm[v], lcm'[v]} \subseteq {"RUNNING", "UNKNOWN"}
    BY <2>1 DEF TypeOK
  <2> QED
    BY <2>3, <2>4, QuietShowsNothing
<1>8. CASE TmAnswer(v)
  <2>1. Still /\ UNCHANGED lcm
    BY <1>8 DEF TmAnswer, stateVars, historyVars
  <2>2. Said
    <3>1. PICK ok \in BOOLEAN :
            lcmq' =
              CASE lcm[v] \in {"PROLOG", "PROLOG_MIGRATE", "PROLOG_RESUME"} ->
                     Trigger(lcmq, IF ok THEN "PROLOG_SUCCESS" ELSE "PROLOG_FAILURE", v)
                [] lcm[v] \in {"EPILOG", "EPILOG_STOP"} ->
                     Trigger(lcmq, IF ok THEN "EPILOG_SUCCESS" ELSE "EPILOG_FAILURE", v)
                [] OTHER -> lcmq
      BY <1>8 DEF TmAnswer
    <3>2. CASE lcm[v] \in {"PROLOG", "PROLOG_MIGRATE", "PROLOG_RESUME"}
      BY <1>1, <3>1, <3>2
    <3>3. CASE lcm[v] \in {"EPILOG", "EPILOG_STOP"}
      BY <1>1, <3>1, <3>3
    <3>4. CASE lcm[v] \notin {"PROLOG", "PROLOG_MIGRATE", "PROLOG_RESUME", "EPILOG", "EPILOG_STOP"}
      BY <3>1, <3>4
    <3> QED
      BY <3>2, <3>3, <3>4
  <2> QED
    BY <2>1, <2>2, QuietShowsNothing
<1> QED
  BY <1>2, <1>3, <1>4, <1>5, <1>6, <1>7, <1>8 DEF DriverStep

-----------------------------------------------------------------------------
(* What the Life-cycle Manager shows                                       *)

\* What a handler of the Life-cycle Manager that has taken a does to the hosts
\* that are charged: nothing, gives them back, gives one of two back, charges
\* another one, or charges the first.
LcmEffect(v, a) ==
  \/ /\ a \notin LcmMoves \cup LcmStarts
     /\ \/ /\ {lcm[v], lcm'[v]} \cap (Ignored \cup TwoHosts) = {}
           /\ dmq' = dmq /\ Here(v)' = Here(v)
        \/ /\ lcm[v] \notin Ignored
           /\ Mentions(dmq', v) \/ lcm'[v] \in Ignored
        \/ /\ lcm[v] \in TwoHosts /\ lcm'[v] \notin Ignored \cup TwoHosts
           /\ dmq' = dmq /\ Here(v)' \in {Here(v), There(v)}
  \/ /\ a \in LcmMoves /\ lcm[v] = "RUNNING" /\ lcm'[v] \in TwoHosts
     /\ dmq' = dmq /\ Here(v)' = Here(v) /\ There(v)' = There(v)
  \/ /\ a \in LcmStarts /\ lcm'[v] \notin Ignored \cup TwoHosts
     /\ dmq' = dmq /\ Here(v)' = Here(v)

LEMMA LcmEffectShows ==
  ASSUME TypeOK, RecordsExist, NEW v \in VMs, NEW a, AskedFor(v, a), LcmTakes(v, a), LcmEffect(v, a)
  PROVE  Shows(v)
<1>1. /\ lcmq \in Seq(Entries(LcmActions)) /\ lcmq' = Tail(lcmq) /\ IsNext(lcmq, a, v)
      /\ Only(lcmq, v, a) /\ NotQueued(v) /\ IsActive(v) /\ Awaits(lcm[v], a)
      /\ UNCHANGED <<state, leases>>
  BY DEF TypeOK, AskedFor, LcmTakes
<1>2. ~ Mentions(lcmq', v)
  BY <1>1, TailFor
<1>3. /\ Asked(lcmq, LcmMoves, v) <=> a \in LcmMoves
      /\ Asked(lcmq, LcmStarts, v) <=> a \in LcmStarts
      /\ ~ Asked(lcmq', LcmMoves, v) /\ ~ Asked(lcmq', LcmStarts, v)
  BY <1>1, <1>2, OnlyFor
<1>4. /\ ~ Mentions(dmq, v) /\ IsActive(v)' /\ state[v] = "ACTIVE" /\ state'[v] = "ACTIVE"
  BY <1>1 DEF NotQueued, IsActive
<1>5. /\ HostsOf(v) = HostsFor(FALSE, a \in LcmMoves, lcm[v], Here(v), There(v))
      /\ HostsOf(v)' = HostsFor(Mentions(dmq', v), FALSE, lcm'[v], Here(v)', There(v)')
  BY <1>1, <1>3, <1>4, LifeIs DEF HostsFor
<1>6. /\ Status(v) = StatusOf("ACTIVE", a \in LcmStarts, HostsOf(v))
      /\ Status(v)' = StatusOf("ACTIVE", FALSE, HostsOf(v)')
  BY <1>3, <1>4, LifeIs DEF StatusOf
<1>7. Held(v)' = Held(v)
  BY <1>1 DEF Held
<1>8. Here(v) \in Hosts
  BY <1>4 DEF RecordsExist, NeedsRecord, HasHistory, TypeOK, Records, Here
<1>9. Asked(lcmq, LcmMoves, v) => There(v) \in Hosts
  BY DEF RecordsExist, NeedsPreviousRecord, LcmMoves, HasPreviousHistory, TypeOK, Records, There
<1> HIDE DEF Here, There, HostsOf, Status, Held
<1>10. CASE a \in LcmStarts
  <2>1. Status(v) = "DISPATCHED"
    BY <1>6, <1>10 DEF StatusOf
  <2>2. HostsOf(v)' = {Here(v)}
    BY <1>4, <1>5, <1>10 DEF LcmEffect, HostsFor, LcmStarts, LcmMoves
  <2>3. Status(v)' = "PLACED"
    BY <1>6, <2>2 DEF StatusOf
  <2> QED
    BY <1>7, <1>8, <2>1, <2>2, <2>3 DEF Shows
<1>11. CASE a \in LcmMoves
  <2>1. a \notin LcmStarts
    BY <1>11 DEF LcmMoves, LcmStarts
  <2>2. lcm[v] = "RUNNING" /\ lcm'[v] \in TwoHosts /\ ~ Mentions(dmq', v)
        /\ Here(v)' = Here(v) /\ There(v)' = There(v)
    BY <1>4, <1>11, <2>1 DEF LcmEffect
  <2>3. HostsOf(v) = {There(v)} /\ HostsOf(v)' = {There(v), Here(v)}
    BY <1>5, <1>11, <2>2 DEF HostsFor, Ignored, TwoHosts
  <2>4. Status(v) = "PLACED" /\ Status(v)' = "PLACED"
    BY <1>6, <2>1, <2>3 DEF StatusOf
  <2> QED
    BY <1>3, <1>7, <1>8, <1>9, <1>11, <2>3, <2>4 DEF Shows
<1>12. CASE a \notin LcmMoves \cup LcmStarts
  <2>1. lcm[v] \notin Ignored => HostsOf(v) = IF lcm[v] \in TwoHosts THEN {Here(v), There(v)} ELSE {Here(v)}
    BY <1>5, <1>12 DEF HostsFor
  <2>2. lcm[v] \notin Ignored => Status(v) = "PLACED"
    BY <1>6, <1>12, <2>1 DEF StatusOf
  <2>3. CASE /\ {lcm[v], lcm'[v]} \cap (Ignored \cup TwoHosts) = {}
             /\ dmq' = dmq /\ Here(v)' = Here(v)
    <3>1. HostsOf(v)' = {Here(v)} /\ HostsOf(v) = {Here(v)}
      BY <1>4, <1>5, <2>1, <2>3 DEF HostsFor
    <3>2. Status(v)' = "PLACED" /\ Status(v) = "PLACED"
      BY <1>6, <2>2, <2>3, <3>1 DEF StatusOf
    <3> QED
      BY <1>7, <3>1, <3>2 DEF Shows, ShowsNothing
  <2>4. CASE lcm[v] \notin Ignored /\ (Mentions(dmq', v) \/ lcm'[v] \in Ignored)
    <3>1. HostsOf(v)' = {}
      BY <1>5, <2>4 DEF HostsFor
    <3>2. Status(v)' = "LEFT" /\ Status(v) = "PLACED"
      BY <1>6, <2>2, <2>4, <3>1 DEF StatusOf
    <3> QED
      BY <1>7, <3>1, <3>2 DEF Shows
  <2>5. CASE /\ lcm[v] \in TwoHosts /\ lcm'[v] \notin Ignored \cup TwoHosts
             /\ dmq' = dmq /\ Here(v)' \in {Here(v), There(v)}
    <3>1. lcm[v] \notin Ignored
      BY <2>5 DEF TwoHosts, Ignored
    <3>2. HostsOf(v)' = {Here(v)'} /\ HostsOf(v) = {Here(v), There(v)}
      BY <1>4, <1>5, <2>1, <2>5, <3>1 DEF HostsFor
    <3>3. Status(v)' = "PLACED" /\ Status(v) = "PLACED"
      BY <1>6, <2>2, <3>1, <3>2 DEF StatusOf
    <3> QED
      BY <1>7, <2>5, <3>2, <3>3 DEF Shows
  <2> QED
    BY <1>12, <2>3, <2>4, <2>5 DEF LcmEffect
<1> QED
  BY <1>10, <1>11, <1>12

\* The state of v, and the current record, after a handler.
LEMMA LcmSets ==
  ASSUME TypeOK, NEW v \in VMs
  PROVE  /\ \A s : SetLcm(v, s) => lcm'[v] = s
         /\ \A r : SetReason(v, r) => Here(v)' = Here(v)
         /\ UNCHANGED cur \/ UNCHANGED historyVars => Here(v)' = Here(v)
         /\ \A r, outcome : LeaveHost(v, r, outcome) /\ outcome \in DmActions => Mentions(dmq', v)
<1>1. \A s : SetLcm(v, s) => lcm'[v] = s
  BY DEF TypeOK, SetLcm
<1>2. \A r : SetReason(v, r) => Here(v)' = Here(v)
  BY DEF TypeOK, Records, SetReason, Here
<1>3. UNCHANGED cur \/ UNCHANGED historyVars => Here(v)' = Here(v)
  BY DEF historyVars, Here
<1>4. ASSUME NEW r, NEW outcome \in DmActions, LeaveHost(v, r, outcome) PROVE Mentions(dmq', v)
  <2>1. dmq \in Seq(Entries(DmActions)) /\ dmq' = Trigger(dmq, outcome, v)
    BY <1>4 DEF TypeOK, LeaveHost
  <2> QED
    BY <2>1, TriggerFor
<1> QED
  BY <1>1, <1>2, <1>3, <1>4

LEMMA FailureShows ==
  ASSUME TypeOK, NEW v \in VMs, NEW a, a \notin LcmMoves \cup LcmStarts, lcm[v] \notin Ignored,
         FailureAction(v)
  PROVE  LcmEffect(v, a)
BY LcmSets DEF FailureAction, LcmEffect, Ignored

LEMMA LeaveShows ==
  ASSUME TypeOK, NEW v \in VMs, NEW a, a \notin LcmMoves \cup LcmStarts, lcm[v] \notin Ignored,
         NEW r, NEW outcome \in DmActions, LeaveHost(v, r, outcome)
  PROVE  LcmEffect(v, a)
BY LcmSets DEF LcmEffect

\* The VM goes on on the host its record tells.
LEMMA StayShows ==
  ASSUME TypeOK, NEW v \in VMs, NEW a, a \notin LcmMoves \cup LcmStarts,
         lcm[v] \notin Ignored \cup TwoHosts, NEW s, s \notin Ignored \cup TwoHosts, SetLcm(v, s),
         dmq' = dmq, Here(v)' = Here(v)
  PROVE  LcmEffect(v, a)
<1>1. lcm'[v] = s
  BY LcmSets
<1> QED
  BY <1>1 DEF LcmEffect

\* A migration is over.
LEMMA SettleShows ==
  ASSUME TypeOK, NEW v \in VMs, NEW a, a \notin LcmMoves \cup LcmStarts,
         lcm[v] \in TwoHosts, NEW s, s \notin Ignored \cup TwoHosts, SetLcm(v, s),
         dmq' = dmq, Here(v)' \in {Here(v), There(v)}
  PROVE  LcmEffect(v, a)
<1>1. lcm'[v] = s
  BY LcmSets
<1> QED
  BY <1>1 DEF LcmEffect

LEMMA MigrationFailedShows ==
  ASSUME TypeOK, RecordsExist, NEW v \in VMs, NEW a, a \notin LcmMoves \cup LcmStarts,
         lcm[v] \in TwoHosts, MigrationFailed(v)
  PROVE  LcmEffect(v, a)
<1>1. HasPreviousHistory(v)
  BY DEF RecordsExist, NeedsPreviousRecord, TwoHosts
<1>2. Here(v)' = There(v)
  BY <1>1 DEF TypeOK, Records, MigrationFailed, CpPreviousHistory, PushRecord, NewRecord, Here, There
<1>3. SetLcm(v, "RUNNING") /\ dmq' = dmq /\ "RUNNING" \notin Ignored \cup TwoHosts
  BY DEF MigrationFailed, BackToRunning, Ignored, TwoHosts
<1> QED
  BY <1>2, <1>3, SettleShows

\* What clients, the scheduler and the Dispatch Manager ask for.
LEMMA LcmActionShows ==
  ASSUME TypeOK, NEW v \in VMs, NEW a, AskedFor(v, a), LcmTakes(v, a),
         \/ LcmDeploy(v) \/ LcmSuspend(v) \/ LcmStop(v) \/ LcmShutdown(v) \/ LcmCancel(v)
         \/ LcmMigrate(v) \/ LcmLiveMigrate(v) \/ LcmRestore(v) \/ LcmRestart(v) \/ LcmDelete(v)
  PROVE  LcmEffect(v, a)
<1>1. /\ lcmq # <<>> /\ Head(lcmq) = [op |-> a, vm |-> v]
      /\ \A b : LcmTakes(v, b) => b = a
  BY DEF LcmTakes, IsNext
<1>2. IsActive(v) /\ Awaits(lcm[v], a)
  BY DEF AskedFor
<1>3. CASE LcmDeploy(v)
  <2>1. a = "DEPLOY"
    BY <1>1, <1>3 DEF LcmDeploy
  <2>2. PICK s \in {"PROLOG", "PROLOG_RESUME"} : SetLcm(v, s) /\ UNCHANGED <<historyVars, dmq>>
    BY <1>2, <1>3 DEF LcmDeploy
  <2> QED
    BY <2>1, <2>2, LcmSets DEF LcmEffect, LcmStarts, Ignored, TwoHosts
<1>4. CASE LcmRestore(v)
  <2>1. a = "RESTORE"
    BY <1>1, <1>4 DEF LcmRestore
  <2>2. SetLcm(v, "BOOT") /\ CpHistory(v) /\ UNCHANGED dmq
    BY <1>2, <1>4 DEF LcmRestore
  <2>3. Here(v)' = Here(v)
    BY <2>2 DEF TypeOK, Records, CpHistory, AddHistory, PushRecord, NewRecord, historyVars, Here
  <2> QED
    BY <2>1, <2>2, <2>3, LcmSets DEF LcmEffect, LcmStarts, Ignored, TwoHosts
<1>5. ASSUME NEW b \in {"SUSPEND", "STOP", "SHUTDOWN", "CANCEL"},
             NEW s \in {"SAVE_SUSPEND", "SAVE_STOP", "SHUTDOWN", "CANCEL"}, NEW op, LcmCommand(v, b, s, op)
      PROVE  LcmEffect(v, a)
  <2>1. a = b
    BY <1>1, <1>5 DEF LcmCommand
  <2>2. lcm[v] = "RUNNING" /\ a \notin LcmMoves \cup LcmStarts
    BY <1>2, <2>1 DEF Awaits, LcmMoves, LcmStarts, Saving
  <2>3. SetLcm(v, s) /\ UNCHANGED <<historyVars, dmq>>
    BY <1>2, <1>5, <2>2 DEF LcmCommand, IsRunning
  <2>4. lcm[v] \notin Ignored \cup TwoHosts /\ s \notin Ignored \cup TwoHosts
    BY <2>2 DEF Ignored, TwoHosts
  <2>5. Here(v)' = Here(v)
    BY <2>3, LcmSets
  <2> QED
    BY <2>2, <2>3, <2>4, <2>5, StayShows
<1>6. CASE LcmSuspend(v) \/ LcmStop(v) \/ LcmShutdown(v) \/ LcmCancel(v)
  BY <1>5, <1>6 DEF LcmSuspend, LcmStop, LcmShutdown, LcmCancel
<1>7. ASSUME NEW b \in LcmMoves, NEW s \in TwoHosts, NEW op, LcmMove(v, b, s, op)
      PROVE  LcmEffect(v, a)
  <2>1. a = b
    BY <1>1, <1>7 DEF LcmMove
  <2>2. lcm[v] = "RUNNING"
    BY <1>2, <2>1 DEF Awaits, LcmMoves, Saving
  <2>3. SetLcm(v, s) /\ UNCHANGED <<historyVars, dmq>>
    BY <1>2, <1>7, <2>2 DEF LcmMove, IsRunning
  <2>4. Here(v)' = Here(v) /\ There(v)' = There(v) /\ lcm'[v] = s
    BY <2>3, LcmSets DEF historyVars, There
  <2> QED
    BY <2>1, <2>2, <2>3, <2>4 DEF LcmEffect
<1>8. CASE LcmMigrate(v) \/ LcmLiveMigrate(v)
  BY <1>7, <1>8 DEF LcmMigrate, LcmLiveMigrate, LcmMoves, TwoHosts
<1>9. CASE LcmRestart(v)
  <2>1. a = "RESTART"
    BY <1>1, <1>9 DEF LcmRestart
  <2> QED
    BY <1>2, <2>1 DEF Awaits
<1>10. CASE LcmDelete(v)
  <2>1. a = "DELETE"
    BY <1>1, <1>10 DEF LcmDelete
  <2>2. lcm[v] \notin Ignored /\ a \notin LcmMoves \cup LcmStarts
    BY <1>2, <2>1 DEF Awaits, Saving, Filing, LcmMoves, LcmStarts
  <2>3. SetLcm(v, "DELETE")
    BY <1>10, <2>2 DEF LcmDelete
  <2> QED
    BY <2>2, <2>3, LcmSets DEF LcmEffect, Ignored
<1> QED
  BY <1>3, <1>4, <1>6, <1>8, <1>9, <1>10

\* What the drivers answer.
LEMMA LcmAnswerShows ==
  ASSUME TypeOK, RecordsExist, NEW v \in VMs, NEW a, AskedFor(v, a), LcmTakes(v, a),
         \/ LcmSaveSuccess(v) \/ LcmSaveFailure(v) \/ LcmDeploySuccess(v) \/ LcmDeployFailure(v)
         \/ LcmShutdownSuccess(v) \/ LcmShutdownFailure(v) \/ LcmPrologSuccess(v)
         \/ LcmPrologFailure(v) \/ LcmEpilogSuccess(v) \/ LcmEpilogFailure(v)
         \/ LcmCancelSuccess(v) \/ LcmCancelFailure(v) \/ LcmMonitorFailure(v)
         \/ LcmMonitorSuspend(v) \/ LcmMonitorDone(v)
  PROVE  LcmEffect(v, a)
<1>1. /\ lcmq # <<>> /\ Head(lcmq) = [op |-> a, vm |-> v]
      /\ \A b : LcmTakes(v, b) => b = a
  BY DEF LcmTakes, IsNext
<1>2. IsActive(v) /\ Awaits(lcm[v], a)
  BY DEF AskedFor
<1>3. /\ {"RUNNING", "UNKNOWN", "BOOT", "EPILOG", "EPILOG_STOP"} \cap (Ignored \cup TwoHosts) = {}
      /\ {"SAVE_STOP", "SAVE_SUSPEND", "SHUTDOWN", "CANCEL"} \cap (Ignored \cup TwoHosts) = {}
      /\ Filing \cap (Ignored \cup TwoHosts) = {}
      /\ {"MIGRATE", "SAVE_MIGRATE"} = TwoHosts /\ TwoHosts \cap Ignored = {}
      /\ {"SUSPEND_SUCCESS", "STOP_SUCCESS", "DONE", "FAILED"} = DmActions
  BY DEF Ignored, TwoHosts, Filing, DmActions
<1>4. /\ a \in {"SAVE_SUCCESS", "SAVE_FAILURE"} => lcm[v] \in Saving
      /\ a \in {"DEPLOY_SUCCESS", "DEPLOY_FAILURE"} => lcm[v] \in {"BOOT", "MIGRATE"}
      /\ a \in {"SHUTDOWN_SUCCESS", "SHUTDOWN_FAILURE"} => lcm[v] = "SHUTDOWN"
      /\ a \in {"CANCEL_SUCCESS", "CANCEL_FAILURE"} => lcm[v] = "CANCEL"
      /\ a \in {"PROLOG_SUCCESS", "PROLOG_FAILURE", "EPILOG_SUCCESS", "EPILOG_FAILURE"}
           => lcm[v] \in Filing
      /\ a \in {"MONITOR_FAILURE", "MONITOR_SUSPEND", "MONITOR_DONE"}
           => lcm[v] \in {"RUNNING", "UNKNOWN"}
  BY <1>2 DEF Awaits
<1>5. ASSUME NEW b \in {"SAVE_SUCCESS", "SAVE_FAILURE", "DEPLOY_SUCCESS", "DEPLOY_FAILURE",
                        "SHUTDOWN_SUCCESS", "SHUTDOWN_FAILURE", "CANCEL_SUCCESS", "CANCEL_FAILURE",
                        "PROLOG_SUCCESS", "PROLOG_FAILURE", "EPILOG_SUCCESS", "EPILOG_FAILURE",
                        "MONITOR_FAILURE", "MONITOR_SUSPEND", "MONITOR_DONE"},
             LcmTakes(v, b)
      PROVE  a = b /\ a \notin LcmMoves \cup LcmStarts
  BY <1>1, <1>5 DEF LcmMoves, LcmStarts
<1>6. UNCHANGED historyVars \/ UNCHANGED cur => Here(v)' = Here(v)
  BY LcmSets
<1>7. CASE LcmSaveSuccess(v)
  <2>1. a = "SAVE_SUCCESS" /\ a \notin LcmMoves \cup LcmStarts
    BY <1>5, <1>7 DEF LcmSaveSuccess
  <2>2. CASE lcm[v] = "SAVE_MIGRATE"
    <3>1. SetLcm(v, "PROLOG_MIGRATE") /\ UNCHANGED <<cur, dmq>>
      BY <1>7, <2>2 DEF LcmSaveSuccess
    <3>2. "PROLOG_MIGRATE" \notin Ignored \cup TwoHosts
      BY DEF Ignored, TwoHosts
    <3> QED
      BY <1>3, <1>6, <2>1, <2>2, <3>1, <3>2, SettleShows
  <2>3. CASE lcm[v] = "SAVE_SUSPEND"
    BY <1>3, <1>7, <2>1, <2>3, LeaveShows DEF LcmSaveSuccess
  <2>4. CASE lcm[v] = "SAVE_STOP"
    <3>1. SetLcm(v, "EPILOG_STOP") /\ SetReason(v, "STOP_RESUME") /\ dmq' = dmq
      BY <1>7, <2>4 DEF LcmSaveSuccess
    <3>2. Here(v)' = Here(v)
      BY <3>1, LcmSets
    <3> QED
      BY <1>3, <2>1, <2>4, <3>1, <3>2, StayShows
  <2> QED
    BY <1>4, <2>1, <2>2, <2>3, <2>4 DEF Saving
<1>8. ASSUME a \notin LcmMoves \cup LcmStarts, lcm[v] \notin Ignored \cup TwoHosts,
             BackToRunning(v), UNCHANGED <<historyVars, usage>>
      PROVE  LcmEffect(v, a)
  <2>1. SetLcm(v, "RUNNING") /\ dmq' = dmq
    BY <1>8 DEF BackToRunning
  <2> QED
    BY <1>3, <1>6, <1>8, <2>1, StayShows
<1>9. CASE LcmSaveFailure(v)
  <2>1. a = "SAVE_FAILURE" /\ a \notin LcmMoves \cup LcmStarts
    BY <1>5, <1>9 DEF LcmSaveFailure
  <2>2. CASE lcm[v] = "SAVE_MIGRATE"
    BY <1>3, <1>9, <2>1, <2>2, MigrationFailedShows DEF LcmSaveFailure
  <2>3. CASE lcm[v] \in {"SAVE_SUSPEND", "SAVE_STOP"}
    <3>1. BackToRunning(v) /\ UNCHANGED <<historyVars, usage>> /\ lcm[v] \notin Ignored \cup TwoHosts
      BY <1>3, <1>9, <2>3 DEF LcmSaveFailure
    <3> QED
      BY <1>8, <2>1, <3>1
  <2> QED
    BY <1>4, <2>1, <2>2, <2>3 DEF Saving
<1>10. CASE LcmDeploySuccess(v)
  <2>1. a = "DEPLOY_SUCCESS" /\ a \notin LcmMoves \cup LcmStarts
    BY <1>5, <1>10 DEF LcmDeploySuccess
  <2>2. SetLcm(v, "RUNNING") /\ UNCHANGED <<cur, dmq>>
    BY <1>10 DEF LcmDeploySuccess
  <2>3. CASE lcm[v] = "MIGRATE"
    BY <1>3, <1>6, <2>1, <2>2, <2>3, SettleShows
  <2>4. CASE lcm[v] = "BOOT"
    BY <1>3, <1>6, <2>1, <2>2, <2>4, StayShows
  <2> QED
    BY <1>4, <2>1, <2>3, <2>4
<1>11. CASE LcmDeployFailure(v)
  <2>1. a = "DEPLOY_FAILURE" /\ a \notin LcmMoves \cup LcmStarts
    BY <1>5, <1>11 DEF LcmDeployFailure
  <2>2. CASE lcm[v] = "MIGRATE"
    BY <1>3, <1>11, <2>1, <2>2, MigrationFailedShows DEF LcmDeployFailure
  <2>3. CASE lcm[v] = "BOOT"
    BY <1>3, <1>11, <2>1, <2>3, FailureShows DEF LcmDeployFailure
  <2> QED
    BY <1>4, <2>1, <2>2, <2>3
<1>12. CASE LcmShutdownSuccess(v)
  <2>1. a = "SHUTDOWN_SUCCESS" /\ a \notin LcmMoves \cup LcmStarts
    BY <1>5, <1>12 DEF LcmShutdownSuccess
  <2>2. SetLcm(v, "EPILOG") /\ UNCHANGED <<historyVars, dmq>>
    BY <1>12 DEF LcmShutdownSuccess
  <2> QED
    BY <1>3, <1>4, <1>6, <2>1, <2>2, StayShows
<1>13. CASE LcmShutdownFailure(v)
  <2>1. a = "SHUTDOWN_FAILURE" /\ a \notin LcmMoves \cup LcmStarts
    BY <1>5, <1>13 DEF LcmShutdownFailure
  <2> QED
    BY <1>3, <1>4, <1>8, <1>13, <2>1 DEF LcmShutdownFailure
<1>14. CASE LcmCancelSuccess(v)
  <2>1. a = "CANCEL_SUCCESS" /\ a \notin LcmMoves \cup LcmStarts
    BY <1>5, <1>14 DEF LcmCancelSuccess
  <2> QED
    BY <1>3, <1>4, <1>14, <2>1, LeaveShows DEF LcmCancelSuccess
<1>15. CASE LcmCancelFailure(v)
  <2>1. a = "CANCEL_FAILURE" /\ a \notin LcmMoves \cup LcmStarts
    BY <1>5, <1>15 DEF LcmCancelFailure
  <2> QED
    BY <1>3, <1>4, <1>8, <1>15, <2>1 DEF LcmCancelFailure
<1>16. CASE LcmPrologSuccess(v)
  <2>1. a = "PROLOG_SUCCESS" /\ a \notin LcmMoves \cup LcmStarts
    BY <1>5, <1>16 DEF LcmPrologSuccess
  <2>2. lcm[v] \in Filing /\ lcm[v] \notin Ignored \cup TwoHosts
    BY <1>3, <1>4, <2>1
  <2>3. PICK s \in {"BOOT", lcm[v]} : SetLcm(v, s) /\ UNCHANGED <<historyVars, dmq>>
    BY <1>16 DEF LcmPrologSuccess, lcmVars, historyVars, SetLcm, TypeOK
  <2> QED
    BY <1>3, <1>6, <2>1, <2>2, <2>3, StayShows
<1>17. CASE LcmEpilogSuccess(v)
  <2>1. a = "EPILOG_SUCCESS" /\ a \notin LcmMoves \cup LcmStarts
    BY <1>5, <1>17 DEF LcmEpilogSuccess
  <2>2. lcm[v] \in Filing /\ lcm[v] \notin Ignored \cup TwoHosts
    BY <1>3, <1>4, <2>1
  <2>3. CASE UNCHANGED lcmVars
    <3>1. SetLcm(v, lcm[v]) /\ UNCHANGED <<historyVars, dmq>>
      BY <2>3 DEF lcmVars, historyVars, SetLcm, TypeOK
    <3> QED
      BY <1>6, <2>1, <2>2, <3>1, StayShows
  <2>4. CASE \E outcome \in DmActions : LeaveHost(v, cur[v].reason, outcome)
    BY <2>1, <2>2, <2>4, LeaveShows
  <2> QED
    BY <1>3, <1>17, <2>3, <2>4 DEF LcmEpilogSuccess
<1>18. CASE LcmPrologFailure(v) \/ LcmEpilogFailure(v) \/ LcmMonitorFailure(v)
  <2>1. PICK b \in {"PROLOG_FAILURE", "EPILOG_FAILURE", "MONITOR_FAILURE"} :
          LcmTakes(v, b) /\ FailureAction(v)
    BY <1>18 DEF LcmPrologFailure, LcmEpilogFailure, LcmMonitorFailure
  <2>2. a = b /\ a \notin LcmMoves \cup LcmStarts
    BY <1>5, <2>1
  <2> QED
    BY <1>3, <1>4, <2>1, <2>2, FailureShows
<1>19. CASE LcmMonitorSuspend(v)
  <2>1. a = "MONITOR_SUSPEND" /\ a \notin LcmMoves \cup LcmStarts
    BY <1>5, <1>19 DEF LcmMonitorSuspend
  <2> QED
    BY <1>3, <1>4, <1>19, <2>1, LeaveShows DEF LcmMonitorSuspend
<1>20. CASE LcmMonitorDone(v)
  <2>1. a = "MONITOR_DONE" /\ a \notin LcmMoves \cup LcmStarts
    BY <1>5, <1>20 DEF LcmMonitorDone
  <2>2. SetLcm(v, "UNKNOWN") /\ UNCHANGED <<historyVars, dmq>>
    BY <1>20 DEF LcmMonitorDone
  <2> QED
    BY <1>3, <1>4, <1>6, <2>1, <2>2, StayShows
<1> QED
  BY <1>7, <1>9, <1>10, <1>11, <1>12, <1>13, <1>14, <1>15, <1>16, <1>17, <1>18, <1>19, <1>20

LEMMA LcmShows ==
  ASSUME TypeOK, RecordsExist, NEW v \in VMs, Placed(v), LcmStep(v)
  PROVE  Shows(v)
<1>1. PICK a : LcmTakes(v, a)
  BY DEF LcmStep, LcmDeploy, LcmSuspend, LcmStop, LcmShutdown, LcmCancel, LcmCommand, LcmMigrate,
         LcmLiveMigrate, LcmMove, LcmRestore, LcmRestart, LcmDelete, LcmSaveSuccess, LcmSaveFailure,
         LcmDeploySuccess, LcmDeployFailure, LcmShutdownSuccess, LcmShutdownFailure, LcmPrologSuccess,
         LcmPrologFailure, LcmEpilogSuccess, LcmEpilogFailure, LcmCancelSuccess, LcmCancelFailure,
         LcmMonitorFailure, LcmMonitorSuspend, LcmMonitorDone
<1>2. AskedFor(v, a)
  BY <1>1, LcmComesTo DEF LcmTakes
<1>3. LcmEffect(v, a)
  BY <1>1, <1>2, LcmActionShows, LcmAnswerShows DEF LcmStep
<1> QED
  BY <1>1, <1>2, <1>3, LcmEffectShows

-----------------------------------------------------------------------------
(* What the Dispatch Manager and clients show                              *)

\* A VM that is not active is on no host, and its state shows.
LEMMA IdleIs ==
  ASSUME NEW v
  PROVE  /\ ~ IsActive(v) => HostsOf(v) = {} /\ Status(v) = state[v]
         /\ state'[v] # "ACTIVE" => HostsOf(v)' = {} /\ Status(v)' = state'[v]
<1>1. IsActive(v)' <=> state'[v] = "ACTIVE"
  BY DEF IsActive
<1>2. ~ IsActive(v) => HostsOf(v) = {} /\ Status(v) = state[v]
  BY LifeIs DEF HostsFor, StatusOf, IsActive
<1>3. state'[v] # "ACTIVE" => HostsOf(v)' = {} /\ Status(v)' = state'[v]
  BY <1>1, LifeIs DEF HostsFor, StatusOf
<1> QED
  BY <1>2, <1>3

LEMMA DmShows ==
  ASSUME TypeOK, LeasesHeldOnce, NEW v \in VMs, Placed(v), DmStep(v)
  PROVE  Shows(v)
<1>1. PICK a : DmTakes(v, a)
  BY DEF DmStep, DmSuspendSuccess, DmStopSuccess, DmDone, DmFailed
<1>2. Leaving(v) \/ Ending(v)
  BY <1>1, DmComesTo
<1>3. IsActive(v) /\ ~ Mentions(lcmq, v) /\ Mentions(dmq, v)
  BY <1>1, <1>2, DmComesTo DEF Leaving, Ending, Remains
<1>4. HostsOf(v) = {} /\ Status(v) = "LEFT"
  <2>1. HostsOf(v) = {}
    BY <1>3, LifeIs DEF HostsFor
  <2>2. ~ Asked(lcmq, LcmStarts, v)
    BY <1>3, OnlyFor
  <2> QED
    BY <1>3, <2>1, <2>2, LifeIs DEF StatusOf, IsActive
<1>5. leases[v] = 1 /\ leases \in [VMs -> Int] /\ state \in [VMs -> VmStates]
  BY <1>3 DEF LeasesHeldOnce, IsActive, TypeOK
<1>6. \/ state'[v] \in {"SUSPENDED", "STOPPED", "FAILED"} /\ leases'[v] = leases[v]
      \/ state'[v] = "DONE" /\ leases'[v] = leases[v] - 1
  BY <1>3, <1>5 DEF DmStep, DmSuspendSuccess, DmStopSuccess, DmDone, DmFailed, NotActive, Become
<1>7. HostsOf(v)' = {} /\ Status(v)' = state'[v]
  BY <1>6, IdleIs
<1>8. \/ state'[v] \in {"SUSPENDED", "STOPPED", "FAILED"} /\ Held(v)' = Held(v)
      \/ state'[v] = "DONE" /\ Held(v)' = FALSE
  BY <1>5, <1>6 DEF Held
<1> HIDE DEF HostsOf, Status, Held
<1> QED
  BY <1>4, <1>7, <1>8 DEF Shows, ShowsStatus

\* A request that changes the state of a VM that is not active.
LEMMA IdleShows ==
  ASSUME TypeOK, LeasesHeldOnce, NEW v \in VMs, ~ IsActive(v), NEW s, s # "ACTIVE",
         state' = [state EXCEPT ![v] = s],
         \/ state[v] = "INIT" /\ s \in {"PENDING", "HOLD"} /\ leases' = [leases EXCEPT ![v] = @ + 1]
         \/ state[v] = "PENDING" /\ s = "HOLD" /\ leases' = leases
         \/ state[v] \in {"HOLD", "STOPPED"} /\ s = "PENDING" /\ leases' = leases
         \/ state[v] \in Disposable /\ s = "DONE" /\ leases' = [leases EXCEPT ![v] = @ - 1]
  PROVE  Shows(v)
<1>1. state'[v] = s /\ leases \in [VMs -> Int]
  BY DEF TypeOK
<1>2. HostsOf(v)' = HostsOf(v) /\ Status(v) = state[v] /\ Status(v)' = s
  BY <1>1, IdleIs
<1>3. leases[v] = IF state[v] \in {"INIT", "DONE"} THEN 0 ELSE 1
  BY DEF LeasesHeldOnce
<1> HIDE DEF HostsOf, Status
<1>4. CASE state[v] = "INIT" /\ s \in {"PENDING", "HOLD"} /\ leases' = [leases EXCEPT ![v] = @ + 1]
  <2>1. Held(v)' = TRUE
    BY <1>1, <1>3, <1>4 DEF Held
  <2> QED
    BY <1>2, <1>4, <2>1 DEF Shows, ShowsStatus
<1>5. CASE /\ \/ state[v] = "PENDING" /\ s = "HOLD"
              \/ state[v] \in {"HOLD", "STOPPED"} /\ s = "PENDING"
           /\ leases' = leases
  <2>1. Held(v)' = Held(v)
    BY <1>5 DEF Held
  <2> QED
    BY <1>2, <1>5, <2>1 DEF Shows, ShowsStatus
<1>6. CASE state[v] \in Disposable /\ s = "DONE" /\ leases' = [leases EXCEPT ![v] = @ - 1]
  <2>1. Held(v)' = FALSE
    BY <1>1, <1>3, <1>6 DEF Held, Disposable
  <2>2. Disposable = LifeCycle!Idle
    BY DEF Disposable, LifeCycle!Idle
  <2> QED
    BY <1>2, <1>6, <2>1, <2>2 DEF Shows, ShowsStatus
<1> QED
  BY <1>4, <1>5, <1>6

\* deploy and resume: the VM is on its way to its host, and charged for none yet.
LEMMA ActivateShows ==
  ASSUME TypeOK, NEW v \in VMs, Resting(v), state[v] \in {"PENDING", "SUSPENDED"},
         NEW a \in LcmStarts, state' = [state EXCEPT ![v] = "ACTIVE"], lcmq' = Trigger(lcmq, a, v),
         UNCHANGED <<lcm, leases, dmq>>
  PROVE  Shows(v)
<1>1. /\ lcmq \in Seq(Entries(LcmActions)) /\ a \in LcmActions /\ state'[v] = "ACTIVE"
      /\ lcm[v] \in Ignored /\ lcm'[v] \in Ignored
      /\ ~ Mentions(dmq', v)
  BY DEF TypeOK, LcmStarts, LcmActions, Resting, Settled, Ignored
<1>2. Asked(lcmq', LcmStarts, v)
  <2>1. /\ Len(lcmq) \in Nat /\ DOMAIN lcmq' = 1..(Len(lcmq) + 1)
        /\ lcmq'[Len(lcmq) + 1] = [op |-> a, vm |-> v]
    BY <1>1, TriggerIs
  <2>2. Len(lcmq) + 1 \in DOMAIN lcmq'
    BY <2>1
  <2> QED
    BY <2>1, <2>2 DEF Asked
<1>3. HostsOf(v) = {} /\ Status(v) = state[v]
  BY IdleIs DEF IsActive
<1>4. HostsOf(v)' = {}
  BY <1>1, LifeIs DEF HostsFor
<1>5. Status(v)' = "DISPATCHED"
  BY <1>1, <1>2, LifeIs DEF StatusOf
<1>6. Held(v)' = Held(v)
  BY DEF Held
<1> HIDE DEF HostsOf, Status, Held
<1> QED
  BY <1>3, <1>4, <1>5, <1>6 DEF Shows, ShowsStatus

\* Both migrations: until the Life-cycle Manager takes them up, the host that
\* is charged is told by the record before the current one.
LEMMA MigrateShows ==
  ASSUME TypeOK, RecordsExist, NEW v \in VMs, Waiting(v), lcm[v] = "RUNNING", NEW h, AddHistory(v, h),
         NEW a \in LcmMoves, lcmq' = Trigger(lcmq, a, v), UNCHANGED <<state, lcm, leases, dmq>>
  PROVE  Shows(v)
<1>1. /\ IsActive(v) /\ IsActive(v)' /\ state'[v] = state[v]
      /\ ~ Mentions(dmq, v) /\ ~ Mentions(dmq', v) /\ ~ Mentions(lcmq, v)
  BY DEF Waiting, Settled, IsActive
<1>2. There(v)' = Here(v)
  <2>1. HasHistory(v)
    BY <1>1 DEF RecordsExist, NeedsRecord, IsActive
  <2> QED
    BY <2>1 DEF AddHistory, PushRecord, TypeOK, Records, Here, There
<1>3. /\ lcmq \in Seq(Entries(LcmActions)) /\ a \in LcmActions /\ a \notin LcmStarts
  BY DEF TypeOK, LcmMoves, LcmStarts, LcmActions
<1>4. /\ ~ Asked(lcmq, LcmMoves, v) /\ ~ Asked(lcmq, LcmStarts, v)
      /\ Asked(lcmq', LcmMoves, v) /\ ~ Asked(lcmq', LcmStarts, v)
  <2>1. Only(lcmq', v, a)
    BY <1>1, <1>3, TriggerFor
  <2> QED
    BY <1>1, <1>3, <2>1, OnlyFor
<1>5. "RUNNING" \notin Ignored \cup TwoHosts
  BY DEF Ignored, TwoHosts
<1>6. HostsOf(v) = {Here(v)}
  BY <1>1, <1>4, <1>5, LifeIs DEF HostsFor
<1>7. HostsOf(v)' = {Here(v)}
  <2>1. HostsOf(v)' = {There(v)'}
    BY <1>1, <1>4, <1>5, LifeIs DEF HostsFor
  <2> QED
    BY <1>2, <2>1
<1>8. Status(v)' = Status(v)
  <2>1. StatusOf(state'[v], Asked(lcmq', LcmStarts, v), HostsOf(v)')
          = StatusOf(state[v], Asked(lcmq, LcmStarts, v), HostsOf(v))
    BY <1>1, <1>4, <1>6, <1>7 DEF StatusOf
  <2> QED
    BY <2>1, LifeIs
<1>9. Held(v)' = Held(v)
  BY DEF Held
<1> HIDE DEF HostsOf, Status, Held
<1> QED
  BY <1>6, <1>7, <1>8, <1>9 DEF Shows, ShowsNothing

LEMMA RequestShows ==
  ASSUME Steady, TypeOK, RecordsExist, LeasesHeldOnce, NEW v \in VMs, Placed(v), Request(v)
  PROVE  Shows(v)
<1>1. FastManagers /\ ~ DbFails
  BY DEF Steady
<1>2. ASSUME NEW first \in {"PENDING", "HOLD"}, Allocate(v, first) PROVE Shows(v)
  BY <1>2, IdleShows DEF Allocate, IsActive
<1>3. ASSUME NEW h \in Hosts, Deploy(v, h) PROVE Shows(v)
  <2>1. Resting(v) /\ state[v] = "PENDING"
    BY <1>1, <1>3, RequestFinds DEF Deploy
  <2>2. /\ state' = [state EXCEPT ![v] = "ACTIVE"] /\ lcmq' = Trigger(lcmq, "DEPLOY", v)
        /\ UNCHANGED <<lcm, leases, dmq>>
    BY <1>1, <1>3 DEF Deploy, HistoryNotWritten
  <2> QED
    BY <2>1, <2>2, ActivateShows DEF LcmStarts
<1>4. ASSUME NEW h \in Hosts, NEW live \in BOOLEAN, Migrate(v, h, live) PROVE Shows(v)
  <2>1. Waiting(v) /\ lcm[v] = "RUNNING"
    BY <1>1, <1>4, RequestFinds DEF Migrate, IsRunning
  <2>2. PICK a \in LcmMoves : AskLcm(v, a)
    BY <1>1, <1>4 DEF Migrate, HistoryNotWritten, LcmMoves
  <2>3. lcmq' = Trigger(lcmq, a, v) /\ UNCHANGED <<state, lcm, leases, dmq>> /\ AddHistory(v, h)
    BY <1>4, <2>2 DEF AskLcm, stateVars, Migrate
  <2> QED
    BY <2>1, <2>3, MigrateShows
<1>5. ASSUME NEW a \in {"STOP", "SUSPEND", "SHUTDOWN", "RESTART", "DELETE"}, AskLcm(v, a),
             UNCHANGED historyVars
      PROVE  Shows(v)
  <2>1. a \in Quiet
    BY DEF Quiet, LcmActions, LcmMoves, LcmStarts
  <2>2. UNCHANGED <<state, lcm, cur, prev, leases, dmq>> /\ lcmq' = Trigger(lcmq, a, v)
    BY <1>5 DEF AskLcm, stateVars, historyVars
  <2> QED
    BY <2>1, <2>2, QuietShowsNothing DEF Shows
<1>6. CASE Stop(v) \/ Suspend(v) \/ Shutdown(v) \/ Restart(v) \/ FinalizeActive(v)
  BY <1>5, <1>6 DEF Stop, Suspend, Shutdown, RunningAction, Restart, FinalizeActive
<1>7. CASE Cancel(v)
  <2>1. UNCHANGED <<state, lcm, cur, prev, leases, dmq, lcmq>>
    BY <1>7 DEF Cancel, stateVars, historyVars, queueVars
  <2> QED
    BY <2>1, QuietShowsNothing DEF Shows
<1>8. CASE Hold(v) \/ Release(v) \/ ResumeStopped(v)
  BY <1>8, IdleShows DEF Hold, Release, ResumeStopped, ChangeState, IsActive
<1>9. CASE ResumeSuspended(v)
  <2>1. Resting(v) /\ state[v] = "SUSPENDED"
    BY <1>1, <1>9, RequestFinds DEF ResumeSuspended
  <2>2. /\ state' = [state EXCEPT ![v] = "ACTIVE"] /\ lcmq' = Trigger(lcmq, "RESTORE", v)
        /\ UNCHANGED <<lcm, leases, dmq>>
    BY <1>9 DEF ResumeSuspended
  <2> QED
    BY <2>1, <2>2, ActivateShows DEF LcmStarts
<1>10. CASE FinalizeIdle(v)
  <2>1. ~ IsActive(v)
    BY <1>10 DEF FinalizeIdle, Disposable, IsActive
  <2> QED
    BY <1>10, <2>1, IdleShows DEF FinalizeIdle
<1> QED
  BY <1>2, <1>3, <1>4, <1>6, <1>7, <1>8, <1>9, <1>10 DEF Request

\* Every step is one of the life cycle.
LEMMA StepShows ==
  ASSUME Steady, TypeOK, RecordsExist, Places, LeasesHeldOnce, [Next]_vars
  PROVE  [LifeCycle!Next]_(LifeCycle!lifeVars)
<1>1. CASE Next
  <2>1. FastManagers
    BY DEF Steady
  <2>2. PICK v \in VMs : \/ Request(v) \/ CancelTrigger(v) \/ ManagerStep(v)
                         \/ VmmTimer(v) \/ DriverStep(v)
    BY <1>1 DEF Next
  <2>3. Placed(v)
    BY DEF Places
  <2>4. Keeps(v) /\ Shows(v)
    <3>1. CASE Request(v)
      BY <2>3, <3>1, RequestKeeps, RequestShows
    <3>2. CASE CancelTrigger(v)
      BY <2>3, <3>2, CancelTriggerKeeps, DriversShowNothing DEF Shows
    <3>3. CASE DmStep(v)
      BY <2>3, <3>3, DmKeeps, DmShows
    <3>4. CASE LcmStep(v)
      BY <2>3, <3>4, LcmKeeps, LcmShows
    <3>5. CASE VmmStep(v) \/ TmStep(v)
      BY <2>3, <3>5, VmmKeeps, TmKeeps, DriversShowNothing DEF Shows
    <3>6. CASE VmmTimer(v)
      BY <2>1, <2>3, <3>6, TimerKeeps, DriversShowNothing DEF Shows
    <3>7. CASE DriverStep(v)
      <4>1. Keeps(v)
        BY <2>1, <2>3, <3>7, VmmAnswerKeeps, PollAnswerKeeps, TmAnswerKeeps DEF DriverStep
      <4> QED
        BY <3>7, <4>1, DriversShowNothing DEF Shows
    <3> QED
      BY <2>2, <3>1, <3>2, <3>3, <3>4, <3>5, <3>6, <3>7 DEF ManagerStep
  <2> QED
    BY <2>4, ShownStep DEF Keeps
<1>2. CASE UNCHANGED vars
  <2>1. \A w \in VMs : Status(w)' = Status(w) /\ HostsOf(w)' = HostsOf(w) /\ Held(w)' = Held(w)
    <3>1. \A w \in VMs : Untouched(w)
      BY <1>2, OnlyFor DEF vars, Untouched
    <3> QED
      BY <3>1, UntouchedShowsNothing DEF ShowsNothing
  <2>2. /\ [w \in VMs |-> Status(w)]' = [w \in VMs |-> Status(w)]
        /\ [w \in VMs |-> HostsOf(w)]' = [w \in VMs |-> HostsOf(w)]
        /\ [w \in VMs |-> leases[w] > 0]' = [w \in VMs |-> leases[w] > 0]
    <3> HIDE DEF Status, HostsOf
    <3> QED
      BY <2>1 DEF Held
  <2> HIDE DEF Status, HostsOf
  <2> QED
    BY <2>2 DEF LifeCycle!lifeVars
<1> QED
  BY <1>1, <1>2

LEMMA InitShows ==
  ASSUME Init PROVE LifeCycle!Init
<1>1. ASSUME NEW v \in VMs PROVE Status(v) = "INIT" /\ HostsOf(v) = {} /\ leases[v] = 0
  <2>1. ~ IsActive(v) /\ state[v] = "INIT" /\ leases[v] = 0
    BY DEF Init, IsActive
  <2> QED
    BY <2>1, IdleIs
<1>2. [v \in VMs |-> Status(v)] = [v \in VMs |-> "INIT"]
  <2> HIDE DEF Status
  <2> QED
    BY <1>1
<1>3. [v \in VMs |-> HostsOf(v)] = [v \in VMs |-> {}]
  <2> HIDE DEF HostsOf
  <2> QED
    BY <1>1
<1>4. [v \in VMs |-> leases[v] > 0] = [v \in VMs |-> FALSE]
  <2>1. \A v \in VMs : (leases[v] > 0) = FALSE
    BY <1>1
  <2> QED
    BY <2>1, Zenon
<1> HIDE DEF Status, HostsOf
<1> QED
  BY <1>2, <1>3, <1>4 DEF LifeCycle!Init

\* The managers implement the life cycle clients are promised: whatever oned
\* does, a VM takes its capacity once in an activation, gives all of it back
\* before the activation ends, and its leases back exactly when it is done.
\* (That an activation ends, the fairness of the life cycle, is checked by TLC.)
THEOREM LifeCycleKept ==
  Steady => (Spec => LifeCycle!Init /\ [][LifeCycle!Next]_(LifeCycle!lifeVars))
<1> SUFFICES ASSUME Steady PROVE Spec => LifeCycle!Init /\ [][LifeCycle!Next]_(LifeCycle!lifeVars)
  OBVIOUS
<1> DEFINE I == TypeOK /\ RecordsExist /\ Places /\ LeasesHeldOnce
           L == LifeCycle!Init
<1>1. Init => L
  BY InitShows
<1>2. I /\ [Next]_vars => [LifeCycle!Next]_(LifeCycle!lifeVars)
  BY StepShows
<1>3. Spec => []I
  <2>1. Steady
    OBVIOUS
  <2> QED
    BY <2>1, TypeCorrect, RecordsAlwaysExist, PlacesHold, LeasesOnce, PTL
<1> HIDE DEF I, L
<1>4. Spec => L /\ [][LifeCycle!Next]_(LifeCycle!lifeVars)
  BY <1>1, <1>2, <1>3, PTL DEF Spec
<1> QED
  BY <1>4 DEF L
=============================================================================
