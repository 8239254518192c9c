------------------------- MODULE InformationManager -------------------------
(***************************************************************************)
(* The Information Manager (src/im): a timer asks the information drivers  *)
(* for the hosts monitored longest ago, and the listener of the manager    *)
(* touches the hosts they answer for.  A host whose answer does not come   *)
(* is given up after a while; a driver that is started again has forgotten *)
(* what it was asked.  Hosts may be disabled, enabled and deleted at any   *)
(* time.                                                                   *)
(***************************************************************************)
EXTENDS MadManager, HostObject

CONSTANTS
  Hosts,           \* the oids of the hosts
  im_mad,          \* the driver each host names
  LIMIT,           \* how many hosts a round takes
  monitor_period, EXPIRES,  \* in periods of the timer: HOST_MONITORING_INTERVAL and 600 seconds
  MaxAsked,        \* bound: the timer waits for a host given up when asked so often
  MaxChanges       \* bound: how often users enable, disable or delete a host

InformationAssumption ==
  /\ Hosts \subseteq Nat /\ Hosts = Messages
  /\ LIMIT \in Nat \ {0} /\ MaxAsked \in Nat \ {0} /\ MaxChanges \in Nat
  /\ monitor_period \in Nat /\ EXPIRES \in Nat /\ monitor_period <= EXPIRES

ASSUME InformationAssumption

VARIABLES
  state,     \* the state of each host
  last,      \* the hosts of the pool, in the order of their last_mon_time
  age,       \* periods since then, no more than EXPIRES
  round,     \* the hosts discovered and not yet looked at
  changes

hostVars == <<state, last, age, round, changes>>
vars == <<madVars, hostVars>>

TypeOK ==
  /\ MadTypeOK
  /\ state \in [Hosts -> HostStates \cup {NONE}]
  /\ Range(last) = {h \in Hosts : state[h] # NONE} /\ IsInjective(last)
  /\ age \in [Hosts -> 0..EXPIRES]
  /\ round \subseteq Hosts
  /\ changes \in 0..MaxChanges

\* oned starts: its hosts may have been disabled before.
Init ==
  /\ MadInit
  /\ state \in [Hosts -> {"INIT", "DISABLED"}]
  /\ last = SetToSortSeq(Hosts, LAMBDA g, h : g < h)
  /\ age = [h \in Hosts |-> 0]
  /\ round = {} /\ changes = 0

\* last_monitored = time(0)
Now(h) ==
  /\ last' = Append(Remove(last, h), h)
  /\ age' = [age EXCEPT ![h] = 0]

Sets(h, s) == state' = [state EXCEPT ![h] = s]

-----------------------------------------------------------------------------
(* timer_action, in the thread of the manager                              *)

Asked(h) == requests[im_mad[h]][h] + answers[im_mad[h]][h]

\* HostPool::discover, one period after the round before.  A round itself takes
\* no time next to the period of the timer.
Discover ==
  /\ round = {}
  /\ \A h \in Hosts : Asked(h) >= MaxAsked => state[h] \in {"MONITORING", "DISABLED", NONE}
  /\ round' = Range(SubSeq(last, 1, IF Len(last) < LIMIT THEN Len(last) ELSE LIMIT))
  /\ age' = [h \in Hosts |-> IF age[h] < EXPIRES /\ state[h] # NONE THEN age[h] + 1 ELSE age[h]]
  /\ UNCHANGED <<madVars, state, last, changes>>

\* The map of the discovered hosts is ordered.
Next1 == CHOOSE h \in round : \A g \in round : h <= g

\* Mutant: a host that has not answered is not given up.
NeverExpires(h) == FALSE

Expires(h) == state[h] = "MONITORING" /\ age[h] >= EXPIRES

Due(h) ==
  /\ state[h] \notin {"MONITORING", "DISABLED", NONE}
  /\ age[h] >= monitor_period

Monitor(h) ==
  \/ HasMad(im_mad[h]) /\ Write(im_mad[h], h) /\ Sets(h, "MONITORING")
  \/ ~ HasMad(im_mad[h]) /\ Sets(h, "ERROR") /\ UNCHANGED requests

\* The turn of the loop for a host, which is locked during it.  Whether it is
\* due is decided by the state it had before it was given up.
LookAt ==
  /\ round # {}
  /\ LET h == Next1
     IN  /\ round' = round \ {h}
         /\ \/ Expires(h) /\ Sets(h, "INIT") /\ UNCHANGED requests
            \/ Due(h) /\ Monitor(h)
            \/ ~ Expires(h) /\ ~ Due(h) /\ UNCHANGED <<state, requests>>
  /\ UNCHANGED <<mads, fds, rd, wr, used, others, alive, answers, ready, deaths,
                 last, age, changes>>

-----------------------------------------------------------------------------
(* InformationManagerDriver::protocol, in the listener.  A host that is    *)
(* not there any more is only logged.  An answer the parser does not       *)
(* understand is a failure.                                                *)

Protocol(h, success) ==
  /\ Receive(h)
  /\ Sets(h, Touch(state[h], success))
  /\ IF state[h] = NONE THEN UNCHANGED <<last, age>> ELSE Now(h)
  /\ UNCHANGED <<round, changes>>

\* recover of the driver only logs.
Listen ==
  \/ Select /\ UNCHANGED hostVars
  \/ \E h \in Hosts, success \in BOOLEAN : Protocol(h, success)
  \/ Recover /\ UNCHANGED hostVars

-----------------------------------------------------------------------------
(* Users: RequestManagerHostEnable and RequestManagerHostDelete.           *)

HostEnable(h, enable) ==
  /\ state[h] # NONE
  /\ Sets(h, IF enable THEN "INIT" ELSE "DISABLED")
  /\ UNCHANGED <<madVars, last, age, round>>

HostDelete(h) ==
  /\ state[h] # NONE
  /\ Sets(h, NONE)
  /\ last' = Remove(last, h)
  /\ age' = [age EXCEPT ![h] = 0]
  /\ UNCHANGED <<madVars, round>>

Users ==
  /\ changes < MaxChanges /\ changes' = changes + 1
  /\ \E h \in Hosts : (\E enable \in BOOLEAN : HostEnable(h, enable)) \/ HostDelete(h)

-----------------------------------------------------------------------------

Processes ==
  \/ \E d \in Drivers : DriverAnswers(d) \/ DriverDies(d)
  \/ OthersOpen \/ OthersClose

Next ==
  \/ Discover \/ LookAt
  \/ Listen
  \/ Processes /\ UNCHANGED hostVars
  \/ Users

Spec == Init /\ [][Next]_vars

\* Both threads are scheduled, the timer runs, and drivers answer what they
\* are asked while they live.
Fairness ==
  /\ WF_vars(Discover) /\ WF_vars(LookAt) /\ WF_vars(Listen)
  /\ \A d \in Drivers : WF_vars(DriverAnswers(d) /\ UNCHANGED hostVars)

FairSpec == Spec /\ Fairness

-----------------------------------------------------------------------------
(* Properties                                                              *)

\* A host that is disabled stays so until a user changes it, whatever answers
\* are still to come and whoever gives up waiting for them.
OnlyUsersEnable ==
  [][\A h \in Hosts : isEnabled(state[h]) # isEnabled(state'[h]) => Users]_vars

\* A host that is MONITORING has been asked for, unless a driver has been
\* started again and has forgotten it: nothing else would ever make it
\* MONITORED before it is given up.
MonitoringIsAsked ==
  \A h \in Hosts : state[h] = "MONITORING" /\ deaths = 0 => Asked(h) > 0

\* Rounds take these hosts and touch nothing: they stay at the head.
Stuck == {h \in Hosts : state[h] = "DISABLED" \/ (state[h] # NONE /\ ~ HasMad(im_mad[h]))}

\* A host that is enabled is monitored again and again, although its driver
\* ends and forgets it, if its driver is there, the listener waits on the right
\* pipes, and there are fewer hosts rounds take in vain than a round takes. Ten
\* disabled hosts, or ten hosts whose driver has not been loaded, keep all
\* others from being monitored.
MonitoredAgain ==
  <>[](Cardinality(Stuck) < LIMIT /\ FdsArePipes) =>
    \A h \in Hosts : []<>(h \in Stuck \/ state[h] = NONE \/ age[h] = 0)
=============================================================================
