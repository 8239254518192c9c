----------------------------- MODULE ActionLoop -----------------------------
(***************************************************************************)
(* The queue every manager is built on (src/common/ActionManager.cc): any  *)
(* thread triggers an action, one thread runs the loop, which waits on a   *)
(* condition variable until an action arrives or the period of the timer   *)
(* has gone by, and hands the action at the head to its listener.  One     *)
(* action per stretch of code that holds the mutex, one for do_action.     *)
(***************************************************************************)
EXTENDS Naturals, Sequences, FiniteSets

CONSTANTS
  Jobs,     \* what is triggered, timer and finalize apart; each job is
            \* triggered again only when its last request has been handled,
            \* which is the bound of the queue
  Periods   \* what managers give loop as its parameter timer: 0 disables it

ActionLoopAssumption ==
  Periods \subseteq Nat /\ "ACTION_TIMER" \notin Jobs /\ "ACTION_FINALIZE" \notin Jobs

ASSUME ActionLoopAssumption

VARIABLES
  timer,      \* the parameter of loop
  actions,    \* the queue
  thread,     \* "looping": about to lock; "waiting" on cond; "handling"; "ended"
  action,     \* what do_action is given last
  signalled,  \* cond has been signalled since the thread began to wait
  remaining   \* seconds to timeout, 0 once it is in the past

loopVars == <<timer, actions, thread, action, signalled, remaining>>

Requests == Jobs \cup {"ACTION_TIMER", "ACTION_FINALIZE"}
Queued == {actions[i] : i \in 1..Len(actions)}
InHand == IF thread = "handling" THEN {action} ELSE {}

LoopTypeOK ==
  /\ actions \in Seq(Requests)
  /\ thread \in {"looping", "waiting", "handling", "ended"}
  /\ action \in Requests
  /\ signalled \in BOOLEAN
  /\ timer \in Periods
  /\ remaining \in 0..timer

LoopInit ==
  /\ timer \in Periods
  /\ actions = <<>>
  /\ thread = "looping"
  /\ action \in Jobs
  /\ signalled = FALSE
  /\ remaining = timer

\* Mutant: trigger without pthread_cond_signal.
TriggerSilently(r) ==
  /\ r \notin Queued \cup InHand
  /\ actions' = Append(actions, r)
  /\ UNCHANGED <<timer, thread, action, signalled, remaining>>

\* A signal nobody waits for has no effect.
Trigger(r) ==
  /\ r \notin Queued \cup InHand
  /\ actions' = Append(actions, r)
  /\ signalled' = (signalled \/ thread = "waiting")
  /\ UNCHANGED <<timer, thread, action, remaining>>

-----------------------------------------------------------------------------
(* The thread                                                              *)

Wait ==
  /\ thread = "looping" /\ actions = <<>>
  /\ thread' = "waiting"
  /\ signalled' = FALSE
  /\ UNCHANGED <<timer, actions, action, remaining>>

\* Mutant: the timer is queued and the thread waits on instead of looking at the queue.
TimedOutWaitsOn ==
  /\ thread = "waiting" /\ timer # 0 /\ remaining = 0
  /\ actions' = Append(actions, "ACTION_TIMER")
  /\ UNCHANGED <<timer, thread, action, signalled, remaining>>

\* Mutant: what the wait returned is forgotten: only an empty wait restarts.
TimedOutUnnoticed ==
  /\ thread = "waiting" /\ timer # 0 /\ remaining = 0
  /\ thread' = "looping"
  /\ UNCHANGED <<timer, actions, action, signalled, remaining>>

\* The wait returns ETIMEDOUT.  A trigger that came first does not prevent it:
\* the timer is then queued behind that action.
TimedOut ==
  /\ thread = "waiting" /\ timer # 0 /\ remaining = 0
  /\ actions' = Append(actions, "ACTION_TIMER")
  /\ thread' = "looping"
  /\ UNCHANGED <<timer, action, signalled, remaining>>

\* A condition variable may wake its thread for nothing; the loop waits again.
\* Once timeout is in the past, a wait returns ETIMEDOUT.
SpuriousWake ==
  /\ thread = "waiting" /\ (timer = 0 \/ remaining > 0)
  /\ thread' = "looping"
  /\ UNCHANGED <<timer, actions, action, signalled, remaining>>

Take ==
  /\ thread = "looping" \/ (thread = "waiting" /\ signalled)
  /\ actions # <<>>
  /\ action' = Head(actions)
  /\ actions' = Tail(actions)
  /\ thread' = "handling"
  /\ UNCHANGED <<timer, signalled, remaining>>

\* do_action returns; what is still queued when the loop ends is dropped.
Done ==
  /\ thread = "handling"
  /\ thread' = IF action = "ACTION_FINALIZE" THEN "ended" ELSE "looping"
  /\ remaining' = IF action = "ACTION_TIMER" THEN timer ELSE remaining
  /\ UNCHANGED <<timer, actions, action, signalled>>

\* time(NULL)
Second ==
  /\ remaining > 0
  /\ remaining' = remaining - 1
  /\ UNCHANGED <<timer, actions, thread, action, signalled>>

LoopStep == Wait \/ TimedOut \/ Take \/ Done
TriggerStep == \E r \in Jobs \cup {"ACTION_FINALIZE"} : Trigger(r)

LoopNext == TriggerStep \/ LoopStep \/ SpuriousWake \/ Second

\* The thread is scheduled and time passes; nobody has to trigger anything,
\* and nothing is woken without a cause.
LoopSpec == LoopInit /\ [][LoopNext]_loopVars /\ WF_loopVars(LoopStep) /\ WF_loopVars(Second)

-----------------------------------------------------------------------------
(* Properties                                                              *)

\* The timer is never queued while it is queued or runs, however late its
\* handler is: two rounds of monitoring never follow each other at once.
OneTimer ==
  /\ Cardinality({i \in 1..Len(actions) : actions[i] = "ACTION_TIMER"}) <= 1
  /\ "ACTION_TIMER" \in InHand => "ACTION_TIMER" \notin Queued
  /\ "ACTION_TIMER" \in Queued => remaining = 0

\* No wake-up is lost: whatever is triggered is handed to the listener, unless
\* the loop has been told to end.
EachHandled ==
  \A r \in Requests : r \in Queued ~> (r \in InHand \/ thread = "ended")

\* The timer runs for ever, unless actions keep arriving or the loop ends.
TimerRuns ==
  \/ timer = 0
  \/ []<>(InHand = {"ACTION_TIMER"})
  \/ []<>(InHand \cap Jobs # {})
  \/ <>(thread = "ended")

=============================================================================
