---------------------------- MODULE ThreadProofs ----------------------------
(***************************************************************************)
(* What the threads of oned share: the queue of a manager and the pools.   *)
(* The timer of a manager is never queued twice, for any jobs and any      *)
(* period; and whoever locks an object of a pool is alone with it, for any *)
(* number of threads and of objects, and any size of the cache.            *)
(***************************************************************************)
EXTENDS ActionLoop, ObjectPool, FiniteSetTheorems, SequenceTheorems, TLAPS

-----------------------------------------------------------------------------
(* The queue of a manager                                                  *)

IsTimer(i) == actions[i] = "ACTION_TIMER"

\* The entries for the timer, all one; a thread that waits has none behind it:
\* it looks at the queue before it waits, and only it queues the timer.
TimerOnce ==
  /\ \A i, j \in 1..Len(actions) : IsTimer(i) /\ IsTimer(j) => i = j
  /\ thread = "waiting" \/ "ACTION_TIMER" \in InHand => "ACTION_TIMER" \notin Queued
  /\ "ACTION_TIMER" \in Queued => remaining = 0

LoopInv == LoopTypeOK /\ TimerOnce

Timers == {i \in 1..Len(actions) : IsTimer(i)}

LEMMA InvOneTimer == LoopInv => OneTimer
<1> SUFFICES ASSUME LoopInv PROVE Cardinality(Timers) <= 1
  BY DEF LoopInv, TimerOnce, OneTimer, Timers, IsTimer
<1>1. \A i \in Timers : Timers = {i}
  BY DEF LoopInv, TimerOnce, Timers
<1>2. Cardinality({}) = 0 /\ \A i : Cardinality({i}) = 1
  BY FS_EmptySet, FS_Singleton
<1> QED
  BY <1>1, <1>2

LEMMA LoopInitInv == LoopInit => LoopInv
<1> SUFFICES ASSUME LoopInit PROVE LoopInv
  OBVIOUS
<1>1. timer \in Nat /\ Len(actions) = 0 /\ Queued = {} /\ InHand = {}
  BY ActionLoopAssumption DEF ActionLoopAssumption, LoopInit, Queued, InHand
<1>2. LoopTypeOK
  <2>1. actions \in Seq(Requests)
    BY EmptySeq DEF LoopInit
  <2>2. signalled \in BOOLEAN
    BY DEF LoopInit
  <2>3. action \in Requests /\ thread = "looping" /\ timer \in Periods /\ remaining \in 0..timer
    BY <1>1 DEF LoopInit, Requests
  <2> QED
    BY <2>1, <2>2, <2>3 DEF LoopTypeOK
<1> QED
  BY <1>1, <1>2 DEF LoopInit, LoopInv, TimerOnce

\* What is appended is behind all there is.
LEMMA AppendQueued ==
  ASSUME LoopTypeOK, NEW r \in Requests, actions' = Append(actions, r)
  PROVE  /\ actions' \in Seq(Requests) /\ Len(actions) \in Nat
         /\ Len(actions') = Len(actions) + 1
         /\ actions'[Len(actions) + 1] = r
         /\ \A i \in 1..Len(actions) : actions'[i] = actions[i]
         /\ Queued' = Queued \cup {r}
<1>1. /\ actions' \in Seq(Requests) /\ Len(actions) \in Nat
      /\ Len(actions') = Len(actions) + 1
      /\ actions'[Len(actions) + 1] = r
      /\ \A i \in 1..Len(actions) : actions'[i] = actions[i]
  BY AppendProperties DEF LoopTypeOK
<1> QED
  BY <1>1 DEF Queued

\* A job in the queue says nothing of the timer.
LEMMA TriggerInv ==
  ASSUME LoopInv, NEW r \in Jobs \cup {"ACTION_FINALIZE"}, Trigger(r)
  PROVE  LoopInv'
<1>1. r \in Requests /\ r # "ACTION_TIMER"
  BY ActionLoopAssumption DEF ActionLoopAssumption, Requests
<1>2. /\ actions' \in Seq(Requests) /\ Len(actions) \in Nat
      /\ Len(actions') = Len(actions) + 1
      /\ actions'[Len(actions) + 1] = r
      /\ \A i \in 1..Len(actions) : actions'[i] = actions[i]
      /\ Queued' = Queued \cup {r}
  BY <1>1, AppendQueued DEF LoopInv, Trigger
<1>3. \A i \in 1..Len(actions') : IsTimer(i)' => i \in 1..Len(actions) /\ IsTimer(i)
  BY <1>1, <1>2 DEF IsTimer
<1>4. LoopTypeOK'
  BY <1>2 DEF LoopInv, LoopTypeOK, Trigger
<1> QED
  BY <1>1, <1>2, <1>3, <1>4 DEF LoopInv, TimerOnce, InHand, Trigger

LEMMA TimedOutInv == LoopInv /\ TimedOut => LoopInv'
<1> SUFFICES ASSUME LoopInv, TimedOut PROVE LoopInv'
  OBVIOUS
<1>1. "ACTION_TIMER" \in Requests /\ "ACTION_TIMER" \notin Queued
  BY DEF Requests, LoopInv, TimerOnce, TimedOut
<1>2. /\ actions' \in Seq(Requests) /\ Len(actions) \in Nat
      /\ Len(actions') = Len(actions) + 1
      /\ \A i \in 1..Len(actions) : actions'[i] = actions[i]
  BY <1>1, AppendQueued DEF LoopInv, TimedOut
<1>3. \A i \in 1..Len(actions') : IsTimer(i)' => i = Len(actions) + 1
  BY <1>1, <1>2 DEF IsTimer, Queued
<1>4. LoopTypeOK'
  BY <1>2 DEF LoopInv, LoopTypeOK, TimedOut
<1> QED
  BY <1>3, <1>4 DEF LoopInv, TimerOnce, InHand, TimedOut

LEMMA TakeInv == LoopInv /\ Take => LoopInv'
<1> SUFFICES ASSUME LoopInv, Take PROVE LoopInv'
  OBVIOUS
<1>1. /\ actions' \in Seq(Requests) /\ Len(actions) \in Nat /\ Len(actions) > 0
      /\ Len(actions') = Len(actions) - 1
      /\ \A i \in 1..Len(actions') : actions'[i] = actions[i + 1]
      /\ action' = actions[1] /\ action' \in Requests
  BY HeadTailProperties, EmptySeq DEF LoopInv, LoopTypeOK, Take
<1>2. LoopTypeOK'
  BY <1>1 DEF LoopInv, LoopTypeOK, Take
<1>3. \A i \in 1..Len(actions') : i + 1 \in 1..Len(actions) /\ (IsTimer(i)' <=> IsTimer(i + 1))
  BY <1>1 DEF IsTimer
<1>4. \A i, j \in 1..Len(actions') : IsTimer(i)' /\ IsTimer(j)' => i = j
  BY <1>1, <1>3 DEF LoopInv, TimerOnce
<1>5. action' = "ACTION_TIMER" => "ACTION_TIMER" \notin Queued'
  <2> SUFFICES ASSUME IsTimer(1), NEW i \in 1..Len(actions'), IsTimer(i)'
               PROVE  FALSE
    BY <1>1 DEF Queued, IsTimer
  <2> QED
    BY <1>1, <1>3 DEF LoopInv, TimerOnce
<1>6. Queued' \subseteq Queued
  BY <1>1, <1>3 DEF Queued
<1> QED
  BY <1>2, <1>4, <1>5, <1>6 DEF LoopInv, TimerOnce, InHand, Take

LEMMA RestInv == LoopInv /\ (Wait \/ SpuriousWake \/ Done \/ Second) => LoopInv'
<1> SUFFICES ASSUME LoopInv, Wait \/ SpuriousWake \/ Done \/ Second PROVE LoopInv'
  OBVIOUS
<1>1. actions' = actions /\ Queued' = Queued
  BY DEF Wait, SpuriousWake, Done, Second, Queued
<1>2. LoopTypeOK'
  <2>1. timer \in Nat
    BY ActionLoopAssumption DEF ActionLoopAssumption, LoopInv, LoopTypeOK
  <2>2. remaining' \in 0..timer
    BY <2>1 DEF LoopInv, LoopTypeOK, Wait, SpuriousWake, Done, Second
  <2> QED
    BY <2>2 DEF LoopInv, LoopTypeOK, Wait, SpuriousWake, Done, Second
<1>3. \A i, j \in 1..Len(actions) : IsTimer(i)' /\ IsTimer(j)' => i = j
  BY <1>1 DEF LoopInv, TimerOnce, IsTimer
<1>4. /\ (thread = "waiting" \/ "ACTION_TIMER" \in InHand)' => "ACTION_TIMER" \notin Queued
      /\ "ACTION_TIMER" \in Queued => remaining' = 0
  <2>1. CASE Wait
    BY <2>1 DEF Wait, Queued, InHand, LoopInv, LoopTypeOK
  <2>2. CASE SpuriousWake
    BY <2>2 DEF SpuriousWake, InHand, LoopInv, TimerOnce
  <2>3. CASE Done
    BY <2>3 DEF Done, InHand, LoopInv, TimerOnce
  <2>4. CASE Second
    BY <2>4 DEF Second, InHand, LoopInv, TimerOnce
  <2> QED
    BY <2>1, <2>2, <2>3, <2>4
<1> QED
  BY <1>1, <1>2, <1>3, <1>4 DEF LoopInv, TimerOnce

LEMMA LoopNextInv == LoopInv /\ [LoopNext]_loopVars => LoopInv'
<1> SUFFICES ASSUME LoopInv, [LoopNext]_loopVars PROVE LoopInv'
  OBVIOUS
<1>1. CASE UNCHANGED loopVars
  BY <1>1 DEF loopVars, LoopInv, LoopTypeOK, TimerOnce, Queued, InHand, IsTimer
<1>2. CASE LoopNext
  BY <1>2, TriggerInv, TimedOutInv, TakeInv, RestInv DEF LoopNext, TriggerStep, LoopStep
<1> QED
  BY <1>1, <1>2

\* The timer is never queued while it is queued or runs: for any period and
\* any jobs, however late they keep its handler.
THEOREM TimerIsNeverQueuedTwice == LoopSpec => []OneTimer
BY LoopInitInv, LoopNextInv, InvOneTimer, PTL DEF LoopSpec

-----------------------------------------------------------------------------
(* A pool of objects                                                       *)

LEMMA OidsAreNaturals == 0 \in Oids /\ Oids \subseteq Nat
BY ObjectPoolAssumption DEF ObjectPoolAssumption

\* Only the thread that has locked the pool is in get.
InGet(t) == step[t] \in {"getting", "locking", "replacing"}
OneInGet == \A t \in Threads : InGet(t) <=> mutex = t

\* A thread that has found an object has it from the table: its oid is one that
\* allocate gave, and there is something to replace when it comes to that.
Found ==
  \A t \in Threads :
    /\ step[t] \in {"locking", "replacing", "using"} => oid[t] \in 0..lastOID
    /\ step[t] = "replacing" => oid_queue # <<>>
    /\ step[t] = "unlocked" => kind = "vms"

Has(t) == step[t] = "using" \/ (step[t] = "replacing" /\ olock[t])

\* What a thread has locked is its own, and neither that nor what it waits for
\* is deleted.
Held ==
  kind # "vms" =>
    \A t \in Threads :
      /\ Has(t) => owner[oid[t]] = t
      /\ Has(t) \/ step[t] = "locking" => live[t] /\ oid[t] \in pool

Inv == TypeOK /\ OneInGet /\ Found /\ Held

LEMMA InitInv == Init => Inv
<1> SUFFICES ASSUME Init PROVE Inv
  OBVIOUS
<1>1. TypeOK
  BY OidsAreNaturals DEF Init, TypeOK
<1>2. OneInGet /\ Found
  BY ObjectPoolAssumption DEF ObjectPoolAssumption, Init, OneInGet, InGet, Found
<1>3. Held
  BY DEF Init, Held, Has
<1> QED
  BY <1>1, <1>2, <1>3 DEF Inv

LEMMA InvAlone == Inv => UsersAreAlone
BY DEF Inv, Held, Has, UsersAreAlone

LEMMA LongerSeq ==
  ASSUME NEW S, NEW T, S \subseteq T, NEW q \in Seq(S)
  PROVE  q \in Seq(T)
OBVIOUS

LEMMA AppendType ==
  ASSUME NEW S, NEW q \in Seq(S), NEW o \in S
  PROVE  Append(q, o) \in Seq(S) /\ Append(q, o) # <<>>
BY AppendProperties

LEMMA HeadTailType ==
  ASSUME NEW S, NEW q \in Seq(S), q # <<>>
  PROVE  Head(q) \in S /\ Tail(q) \in Seq(S)
OBVIOUS

\* The oids that have been given.
LEMMA Given == ASSUME TypeOK PROVE lastOID \in Int /\ 0..lastOID \subseteq Oids
<1>1. lastOID \in Int
  BY OidsAreNaturals DEF TypeOK
<1>2. ASSUME NEW o \in 0..lastOID
      PROVE  o \in Oids
  BY <1>1, <1>2, ObjectPoolAssumption DEF ObjectPoolAssumption, TypeOK
<1> QED
  BY <1>1, <1>2

LEMMA AllocateInv == Inv /\ Allocate => Inv'
<1> SUFFICES ASSUME Inv, Allocate PROVE Inv'
  OBVIOUS
<1> USE DEF Inv
<1>1. lastOID' \in Int /\ lastOID <= lastOID' /\ lastOID' \in Oids \cup {-1}
  BY Given DEF Allocate, TypeOK
<1>2. 0..lastOID \subseteq 0..lastOID'
  BY <1>1, Given
<1>3. TypeOK'
  <2>1. oid_queue' \in Seq(0..lastOID')
    BY <1>2, LongerSeq DEF TypeOK, Allocate
  <2>2. rows' \subseteq 0..lastOID'
    BY <1>1, <1>2, Given DEF TypeOK, Allocate
  <2> QED
    BY <1>1, <1>2, <2>1, <2>2 DEF TypeOK, Allocate, threadVars
<1>4. Found'
  BY <1>2 DEF Found, Allocate, threadVars
<1>5. OneInGet' /\ Held'
  BY DEF OneInGet, InGet, Held, Has, Allocate, threadVars
<1> QED
  BY <1>3, <1>4, <1>5

LEMMA GetInv == ASSUME Inv, NEW t \in Threads, NEW o \in Oids, NEW lock \in BOOLEAN,
                       Get(t, o, lock)
                PROVE  Inv'
<1> USE DEF Inv, Get, Goes, poolVars
<1>1. TypeOK'
  BY DEF TypeOK
<1>2. \A u \in Threads : step'[u] = IF u = t THEN "getting" ELSE step[u]
  BY DEF TypeOK
<1>3. OneInGet'
  BY <1>2, ObjectPoolAssumption DEF ObjectPoolAssumption, OneInGet, InGet
<1>4. \A u \in Threads : step'[u] # "getting" =>
        u # t /\ oid'[u] = oid[u] /\ olock'[u] = olock[u]
  BY <1>2 DEF TypeOK
<1>5. Found'
  BY <1>2, <1>4 DEF Found
<1>6. Held'
  BY <1>2, <1>4 DEF Held, Has
<1> QED
  BY <1>1, <1>3, <1>5, <1>6

LEMMA FindInv == ASSUME Inv, NEW t \in Threads, Find(t)
                 PROVE  Inv'
<1> USE DEF Inv, Find, Goes, Returns, ReturnsNone, poolVars
<1>1. mutex = t /\ \A u \in Threads \ {t} : ~ InGet(u)
  BY DEF OneInGet, InGet
<1>2. TypeOK'
  BY DEF TypeOK
<1>3. \A u \in Threads : u # t => step'[u] = step[u] /\ live'[u] = live[u]
  BY DEF TypeOK
<1>4. \/ step'[t] \in {"idle", "reading"} /\ mutex' = NoThread
      \/ step'[t] = "locking" /\ mutex' = t /\ live'[t] /\ oid[t] \in pool
  <2>1. CASE oid[t] \notin valid
    BY <2>1 DEF TypeOK
  <2>2. CASE oid[t] \in valid /\ olock[t]
    <3>1. Goes(t, "locking") /\ mutex' = mutex /\ live' = [live EXCEPT ![t] = TRUE]
      BY <2>2
    <3> QED
      BY <1>1, <3>1 DEF TypeOK
  <2>3. CASE oid[t] \in valid /\ ~ olock[t]
    <3>1. Goes(t, "reading") /\ mutex' = NoThread
      BY <2>3
    <3> QED
      BY <3>1 DEF TypeOK
  <2> QED
    BY <2>1, <2>2, <2>3
<1>5. OneInGet'
  BY <1>1, <1>3, <1>4, ObjectPoolAssumption DEF ObjectPoolAssumption, OneInGet, InGet
<1>6. Found'
  BY <1>3, <1>4 DEF Found, TypeOK
<1>7. Held'
  BY <1>3, <1>4 DEF Held, Has
<1> QED
  BY <1>2, <1>5, <1>6, <1>7

LEMMA LockInv == ASSUME Inv, NEW t \in Threads, Lock(t)
                 PROVE  Inv'
<1> USE DEF Inv, Lock, Goes, Returns, poolVars
<1>1. mutex = t /\ \A u \in Threads \ {t} : ~ InGet(u)
  BY DEF OneInGet, InGet
<1>2. TypeOK'
  BY DEF TypeOK
<1>3. /\ \A u \in Threads : u # t => step'[u] = step[u]
      /\ step'[t] \in {"using", "reading"}
  BY DEF TypeOK
<1>4. OneInGet'
  BY <1>1, <1>3, ObjectPoolAssumption DEF ObjectPoolAssumption, OneInGet, InGet
<1>5. Found'
  BY <1>3 DEF Found
<1>6. ASSUME NEW u \in Threads, kind # "vms"
      PROVE  /\ Has(u)' => owner'[oid[u]] = u
             /\ Has(u)' \/ step'[u] = "locking" => live[u] /\ oid[u] \in pool
  <2>1. CASE u = t
    BY <1>3, <1>6, <2>1 DEF Held, Has, TypeOK
  <2>2. CASE u # t
    <3>1. Has(u)' <=> Has(u)
      BY <1>3, <2>2 DEF Has
    <3>2. Has(u) => owner[oid[u]] = u /\ oid[u] # oid[t]
      BY <1>6, ObjectPoolAssumption DEF ObjectPoolAssumption, Held
    <3> QED
      BY <1>3, <1>6, <2>2, <3>1, <3>2 DEF Held, TypeOK
  <2> QED
    BY <2>1, <2>2
<1> QED
  BY <1>2, <1>4, <1>5, <1>6 DEF Held

LEMMA LoadInv == ASSUME Inv, NEW t \in Threads, Load(t)
                 PROVE  Inv'
<1> USE DEF Inv, Load, Goes, Returns, ReturnsNone, poolVars
<1>1. mutex = t /\ \A u \in Threads \ {t} : ~ InGet(u)
  BY DEF OneInGet, InGet
<1>2. ASSUME oid[t] \in rows
      PROVE  /\ oid[t] \in 0..lastOID
             /\ Append(oid_queue, oid[t]) \in Seq(0..lastOID)
             /\ Append(oid_queue, oid[t]) # <<>>
  BY <1>2, AppendType DEF TypeOK
<1>3. CASE oid[t] \notin rows
  <2>1. /\ step' = [step EXCEPT ![t] = "idle"] /\ mutex' = NoThread
        /\ UNCHANGED <<kind, lastOID, rows, pool, valid, oid_queue, owner,
                       oid, olock, live>>
    BY <1>3
  <2>2. TypeOK'
    BY <2>1 DEF TypeOK
  <2>3. OneInGet' /\ Found' /\ Held'
    BY <1>1, <2>1, ObjectPoolAssumption
       DEF ObjectPoolAssumption, OneInGet, InGet, Found, Held, Has, TypeOK
  <2> QED
    BY <2>2, <2>3
<1>4. CASE oid[t] \in rows
  <2>1. /\ pool' = pool \cup {oid[t]} /\ valid' = valid \cup {oid[t]}
        /\ oid_queue' = Append(oid_queue, oid[t])
        /\ owner' = [owner EXCEPT ![oid[t]] = IF olock[t] THEN t ELSE NoThread]
        /\ live' = [live EXCEPT ![t] = TRUE]
        /\ UNCHANGED <<kind, lastOID, rows, oid, olock>>
    BY <1>4
  <2>2. \/ mutex' = t /\ step' = [step EXCEPT ![t] = "replacing"]
        \/ mutex' = NoThread /\ olock[t] /\ step' = [step EXCEPT ![t] = "using"]
        \/ mutex' = NoThread /\ ~ olock[t] /\ step' = [step EXCEPT ![t] = "reading"]
    BY <1>1, <1>4
  <2>3. TypeOK'
    <3>1. /\ pool' \subseteq 0..lastOID /\ valid' \subseteq pool'
          /\ oid_queue' \in Seq(0..lastOID)
      BY <1>2, <1>4, <2>1 DEF TypeOK
    <3>2. /\ owner' \in [Oids -> Threads \cup {NoThread}]
          /\ live' \in [Threads -> BOOLEAN]
      BY <2>1 DEF TypeOK
    <3>3. /\ mutex' \in Threads \cup {NoThread}
          /\ step' \in [Threads -> {"idle", "getting", "locking", "replacing",
                                    "using", "reading", "unlocked"}]
      BY <2>2 DEF TypeOK
    <3> QED
      BY <2>1, <3>1, <3>2, <3>3 DEF TypeOK
  <2>4. /\ \A u \in Threads : u # t => step'[u] = step[u] /\ live'[u] = live[u]
        /\ step'[t] \in {"replacing", "using", "reading"} /\ live'[t]
        /\ step'[t] = "replacing" <=> mutex' = t
        /\ Has(t)' => olock[t]
    BY <2>1, <2>2, ObjectPoolAssumption DEF ObjectPoolAssumption, TypeOK, Has
  <2>5. OneInGet'
    BY <1>1, <2>2, <2>4, ObjectPoolAssumption DEF ObjectPoolAssumption, OneInGet, InGet
  <2>6. Found'
    BY <1>1, <1>2, <1>4, <2>1, <2>4 DEF Found
  <2>7. ASSUME NEW u \in Threads, kind # "vms"
        PROVE  /\ Has(u)' => owner'[oid[u]] = u
               /\ Has(u)' \/ step'[u] = "locking" => live'[u] /\ oid[u] \in pool'
    <3>1. CASE u = t
      BY <2>1, <2>4, <3>1 DEF TypeOK
    <3>2. CASE u # t
      <4>1. (Has(u)' <=> Has(u)) /\ step'[u] # "locking"
        BY <1>1, <2>1, <2>4, <3>2 DEF Has, InGet
      <4>2. Has(u) => owner[oid[u]] = u /\ oid[u] # oid[t] /\ live[u] /\ oid[u] \in pool
        BY <2>7 DEF Held
      <4> QED
        BY <2>1, <2>4, <3>2, <4>1, <4>2 DEF TypeOK
    <3> QED
      BY <3>1, <3>2
  <2> QED
    BY <2>1, <2>3, <2>5, <2>6, <2>7 DEF Held
<1> QED
  BY <1>3, <1>4

LEMMA ReplaceInv == ASSUME Inv, NEW t \in Threads, Replace(t)
                    PROVE  Inv'
<1> DEFINE o == Head(oid_queue)
<1> USE DEF Inv, Goes, Returns
<1>1. mutex = t /\ \A u \in Threads \ {t} : ~ InGet(u)
  BY DEF Replace, OneInGet, InGet
<1>2. /\ o \in 0..lastOID /\ Tail(oid_queue) \in Seq(0..lastOID)
      /\ Append(Tail(oid_queue), o) \in Seq(0..lastOID)
      /\ Append(Tail(oid_queue), o) # <<>>
  BY HeadTailType, AppendType DEF Replace, Found, TypeOK
<1>3. UNCHANGED <<kind, lastOID, rows, owner, oid, olock>>
  BY DEF Replace
<1>4. CASE /\ o \in pool /\ owner[o] # NoThread
           /\ oid_queue' = Append(Tail(oid_queue), o)
           /\ UNCHANGED <<pool, valid, live, mutex, step>>
  <2>1. TypeOK'
    BY <1>2, <1>3, <1>4 DEF TypeOK
  <2>2. OneInGet' /\ Found' /\ Held'
    BY <1>2, <1>3, <1>4 DEF OneInGet, InGet, Found, Held, Has
  <2> QED
    BY <2>1, <2>2
<1>5. CASE /\ Returns(t) /\ UNCHANGED oid_queue
           /\ \/ o \notin pool /\ UNCHANGED <<pool, valid, live>>
              \/ owner[o] = NoThread /\ Delete(o)
  <2>1. TypeOK'
    BY <1>3, <1>5 DEF TypeOK, Delete
  <2>2. /\ \A u \in Threads : u # t => step'[u] = step[u]
        /\ step'[t] \in {"using", "reading"} /\ mutex' = NoThread
        /\ step'[t] = "using" => olock[t]
    BY <1>5 DEF TypeOK
  <2>3. step[t] = "replacing"
    BY DEF Replace
  <2>4. OneInGet' /\ Found'
    BY <1>1, <1>3, <1>5, <2>2, <2>3, ObjectPoolAssumption
       DEF ObjectPoolAssumption, OneInGet, InGet, Found
  <2>5. ASSUME NEW u \in Threads, kind # "vms"
        PROVE  /\ Has(u)' => owner[oid[u]] = u
               /\ Has(u)' \/ step'[u] = "locking" => live'[u] /\ oid[u] \in pool'
    <3>1. (Has(u)' => Has(u)) /\ step'[u] # "locking"
      BY <1>1, <1>3, <2>2, <2>3 DEF Has, InGet
    <3>2. Has(u) => owner[oid[u]] = u /\ live[u] /\ oid[u] \in pool
      BY <2>5 DEF Held
    <3>3. Has(u) /\ owner[o] = NoThread => oid[u] # o
      BY <3>2, ObjectPoolAssumption DEF ObjectPoolAssumption
    <3> QED
      BY <1>5, <3>1, <3>2, <3>3 DEF Delete
  <2> QED
    BY <1>3, <2>1, <2>4, <2>5 DEF Held
<1> QED
  BY <1>4, <1>5 DEF Replace

LEMMA UseInv == ASSUME Inv, NEW t \in Threads,
                       Update(t) \/ Drop(t) \/ Leave(t) \/ LeaveLocked(t) \/ Read(t)
                PROVE  Inv'
<1> USE DEF Inv, Goes, poolVars, threadVars
<1>1. CASE Update(t)
  <2>1. TypeOK'
    BY <1>1 DEF Update, TypeOK, Found
  <2>2. OneInGet' /\ Found' /\ Held'
    BY <1>1 DEF Update, OneInGet, InGet, Found, Held, Has
  <2> QED
    BY <2>1, <2>2
<1>2. ASSUME /\ step[t] \in {"using", "unlocked", "reading"}
             /\ \A u \in Threads : u # t => step'[u] = step[u]
             /\ step'[t] = "idle" \/ (step'[t] = "unlocked" /\ kind = "vms")
             /\ owner' \in {owner, [owner EXCEPT ![oid[t]] = NoThread]}
             /\ step[t] = "reading" => owner' = owner
             /\ rows' \in {rows, rows \ {oid[t]}} /\ valid' \in {valid, valid \ {oid[t]}}
             /\ step' \in [Threads -> {"idle", "getting", "locking", "replacing",
                                       "using", "reading", "unlocked"}]
             /\ UNCHANGED <<kind, lastOID, pool, oid_queue, mutex, oid, olock, live>>
      PROVE  Inv'
  <2>1. TypeOK'
    BY <1>2 DEF TypeOK
  <2>2. OneInGet' /\ Found'
    BY <1>2 DEF OneInGet, InGet, Found
  <2>3. ASSUME NEW u \in Threads, kind # "vms"
        PROVE  /\ Has(u)' => owner'[oid[u]] = u
               /\ Has(u)' \/ step'[u] = "locking" => live[u] /\ oid[u] \in pool
    <3>1. (Has(u)' => Has(u) /\ u # t) /\ (step'[u] = "locking" => step[u] = "locking")
      BY <1>2 DEF Has
    <3>2. Has(u) /\ u # t /\ Has(t) => owner[oid[u]] = u /\ oid[u] # oid[t]
      BY <2>3 DEF Held
    <3>3. owner' # owner => Has(t)
      BY <1>2, <2>3 DEF Has, Found
    <3>4. Has(u) => owner[oid[u]] = u /\ live[u] /\ oid[u] \in pool
      BY <2>3 DEF Held
    <3>5. owner' # owner => \A n \in Oids : n # oid[t] => owner'[n] = owner[n]
      BY <1>2 DEF TypeOK
    <3> QED
      BY <2>3, <3>1, <3>2, <3>3, <3>4, <3>5 DEF Held, TypeOK
  <2> QED
    BY <1>2, <2>1, <2>2, <2>3 DEF Held
<1>3. CASE Drop(t) \/ Unlock(t) \/ UnlockAgain(t) \/ LeaveLocked(t) \/ Read(t)
  <2>1. step' \in [Threads -> {"idle", "getting", "locking", "replacing",
                               "using", "reading", "unlocked"}]
    BY <1>3 DEF Drop, Unlock, UnlockAgain, LeaveLocked, Read, TypeOK
  <2> QED
    BY <1>2, <1>3, <2>1 DEF Drop, Unlock, UnlockAgain, LeaveLocked, Read, TypeOK
<1> QED
  BY <1>1, <1>3 DEF Leave

LEMMA NextInv == Inv /\ [Next]_vars => Inv'
<1> SUFFICES ASSUME Inv, [Next]_vars PROVE Inv'
  OBVIOUS
<1>1. CASE UNCHANGED vars
  BY <1>1 DEF Inv, TypeOK, OneInGet, InGet, Found, Held, Has, vars, poolVars, threadVars
<1>2. CASE Next
  BY <1>2, AllocateInv, GetInv, FindInv, LockInv, LoadInv, ReplaceInv, UseInv
     DEF Next, InPool
<1> QED
  BY <1>1, <1>2

\* The state of a pool is what ObjectPool says it is: no oid is used that
\* allocate has not given, and no lock is held by what is not a thread.
THEOREM PoolTypeCorrect == Spec => []TypeOK
<1>1. Inv => TypeOK
  BY DEF Inv
<1> QED
  BY <1>1, InitInv, NextInv, PTL DEF Spec

\* A thread that PoolSQL::get has given an object locked is alone with it, and
\* the object stays in memory, until it unlocks it.
THEOREM LockedObjectsAreOwned == Spec => []UsersAreAlone
BY InitInv, NextInv, InvAlone, PTL DEF Spec

=============================================================================
