----------------------------- MODULE HookProofs -----------------------------
(***************************************************************************)
(* Theorems about VmHooks: which threads can wait for one another, and     *)
(* that hooks answer the changes of VMs, each once.                        *)
(***************************************************************************)
EXTENDS VmHooks, SequenceTheorems, TLAPS

\* Where a thread may be among the hooks.
Positions == {0, 1} \cup DOMAIN Hooks \cup {i + 1 : i \in DOMAIN Hooks}

Job == [pc : Places, vm : Oids, i : Positions]

Kinds ==
    /\ mutex \in [{"pool", "lex"} -> Threads \cup {None}]
    /\ vmMutex \in [Oids -> Handlers \cup {None}]
    /\ lastOID \in -1..(MaxVMs - 1)
    /\ job \in [Threads -> Job]

\* Who holds the mutex of the pool waits for a VM, or is a request among the
\* hooks of its new VM.
PoolHeld ==
    \A t \in Threads : mutex["pool"] = t =>
        \/ job[t].pc \in {"lock", "varLock", "insertLock"}
        \/ t \in Requests /\ job[t].pc \in {"hooks", "lex", "parse"}

\* Who holds the mutex of a VM changes that VM, or is among its hooks.
VmsHeld ==
    \A v \in Oids, h \in Handlers : vmMutex[v] = h =>
        job[h].vm = v /\ job[h].pc \in {"change", "hooks", "lex", "parse"}

\* Who runs a hook is at one.
AtHook == \A t \in Threads : job[t].pc \in {"lex", "parse"} => job[t].i \in DOMAIN Hooks

Inv == Kinds /\ PoolHeld /\ VmsHeld /\ AtHook

-----------------------------------------------------------------------------

LEMMA Bounds ==
    /\ MaxVMs \in Nat \ {0} /\ 0 \in Oids
    /\ Requests \cap Handlers = {} /\ None \notin Threads
    /\ Threads = Requests \cup Handlers
<1>1. MaxVMs \in Nat \ {0} /\ Requests \cap Handlers = {} /\ None \notin Threads
  BY HooksAssumption
<1> QED
  BY <1>1 DEF Oids, Threads

LEMMA FirstPositions == {0, 1} \subseteq Positions
BY DEF Positions

LEMMA IdleJob == Idle \in Job /\ Idle.pc = "idle"
BY Bounds, FirstPositions DEF Idle, Job, Places

\* The step of a thread changes only where it is.
LEMMA GoesTo ==
    ASSUME NEW t \in Threads, NEW pc \in Places, job \in [Threads -> Job], Goes(t, pc)
    PROVE  /\ job' \in [Threads -> Job]
           /\ job'[t].pc = pc /\ job'[t].vm = job[t].vm /\ job'[t].i = job[t].i
           /\ \A u \in Threads \ {t} : job'[u] = job[u]
<1>1. [job[t] EXCEPT !.pc = pc] \in Job
  BY DEF Job
<1>2. job' = [job EXCEPT ![t] = [job[t] EXCEPT !.pc = pc]]
  BY DEF Goes
<1> QED
  BY <1>1, <1>2 DEF Job

\* The step of a thread to among the hooks, and to its next VM.
LEMMA Moved ==
    ASSUME NEW t \in Threads, NEW pc \in Places, NEW v \in Oids, NEW i \in Positions,
           job \in [Threads -> Job], job' = [job EXCEPT ![t] = [pc |-> pc, vm |-> v, i |-> i]]
    PROVE  /\ job' \in [Threads -> Job]
           /\ job'[t].pc = pc /\ job'[t].vm = v /\ job'[t].i = i
           /\ \A u \in Threads \ {t} : job'[u] = job[u]
<1>1. [pc |-> pc, vm |-> v, i |-> i] \in Job
  BY DEF Job
<1> QED
  BY <1>1

\* The step of a thread past a hook that is not for its VM.
LEMMA HookPassed ==
    ASSUME NEW t \in Threads, NEW i \in Positions,
           job \in [Threads -> Job], job' = [job EXCEPT ![t].i = i]
    PROVE  /\ job' \in [Threads -> Job]
           /\ job'[t].pc = job[t].pc /\ job'[t].vm = job[t].vm
           /\ \A u \in Threads \ {t} : job'[u] = job[u]
<1>1. [job[t] EXCEPT !.i = i] \in Job
  BY DEF Job
<1>2. job' = [job EXCEPT ![t] = [job[t] EXCEPT !.i = i]]
  OBVIOUS
<1> QED
  BY <1>1, <1>2 DEF Job

LEMMA InitInv == Init => Inv
<1> SUFFICES ASSUME Init PROVE Inv
  OBVIOUS
<1>1. Kinds
  <2>1. mutex \in [{"pool", "lex"} -> Threads \cup {None}]
    BY DEF Init
  <2>2. vmMutex \in [Oids -> Handlers \cup {None}]
    BY DEF Init
  <2>3. lastOID \in -1..(MaxVMs - 1)
    BY Bounds DEF Init
  <2>4. job \in [Threads -> Job]
    BY IdleJob DEF Init
  <2> QED
    BY <2>1, <2>2, <2>3, <2>4 DEF Kinds
<1>2. PoolHeld
  BY Bounds DEF Init, PoolHeld
<1>3. VmsHeld
  BY Bounds DEF Init, VmsHeld
<1>4. AtHook
  BY IdleJob DEF Init, AtHook
<1> QED
  BY <1>1, <1>2, <1>3, <1>4 DEF Inv

\* A step of a request that allocates a VM.
RequestStep(r) ==
    \/ Allocate(r) \/ Insert(r) \/ Allocated(r)
    \/ ReadContext(r) \/ GetFor(r, "var", "varLock")
    \/ ReadVariable(r) \/ GetFor(r, "insert", "insertLock")
    \/ InsertContext(r)

HandlerStep(h) ==
    \/ Get(h) \/ GetFor(h, "get", "lock") \/ Lock(h)
    \/ Change(h) \/ Unlock(h)

LEMMA RequestKeeps ==
    ASSUME Inv, NEW r \in Requests, RequestStep(r) PROVE Inv'
<1> USE Bounds
<1> USE DEF Inv, Kinds, PoolHeld, VmsHeld, AtHook, At, Free, Take, Release, lockVars
<1>1. CASE Allocate(r)
  BY <1>1, GoesTo DEF Allocate, Places
<1>2. CASE Insert(r)
  <2>1. lastOID + 1 \in Oids /\ 1 \in Positions /\ r \in Threads
    BY <1>2, FirstPositions DEF Insert, Oids
  <2>2. job' = [job EXCEPT ![r] = [pc |-> "hooks", vm |-> lastOID + 1, i |-> 1]]
    BY <1>2 DEF Insert
  <2>3. lastOID' \in -1..(MaxVMs - 1)
    BY <1>2, <2>1 DEF Insert, Oids
  <2> HIDE DEF Kinds
  <2>4. mutex' = [mutex EXCEPT !["pool"] = r] /\ vmMutex' = vmMutex
    BY <1>2 DEF Insert
  <2>5. /\ job' \in [Threads -> Job] /\ job'[r].pc = "hooks"
        /\ \A u \in Threads \ {r} : job'[u] = job[u]
    BY <2>1, <2>2, Moved DEF Places, Kinds
  <2> QED
    BY <2>1, <2>3, <2>4, <2>5 DEF Kinds
<1>3. CASE Allocated(r)
  BY <1>3, GoesTo DEF Allocated, Places
<1>4. CASE ReadContext(r)
  BY <1>4, GoesTo DEF ReadContext, Places
<1>5. CASE GetFor(r, "var", "varLock")
  BY <1>5, GoesTo DEF GetFor, Places
<1>6. CASE ReadVariable(r)
  BY <1>6, GoesTo DEF ReadVariable, Places
<1>7. CASE GetFor(r, "insert", "insertLock")
  BY <1>7, GoesTo DEF GetFor, Places
<1>8. CASE InsertContext(r)
  BY <1>8, GoesTo DEF InsertContext, Places
<1> QED
  BY <1>1, <1>2, <1>3, <1>4, <1>5, <1>6, <1>7, <1>8 DEF RequestStep

LEMMA HandlerKeeps ==
    ASSUME Inv, NEW h \in Handlers, HandlerStep(h) PROVE Inv'
<1> USE Bounds
<1> USE DEF Inv, Kinds, PoolHeld, VmsHeld, AtHook, At, Free, Take, Release, lockVars
<1>1. CASE Get(h)
  <2>1. PICK v \in Oids : job' = [job EXCEPT ![h] = [pc |-> "get", vm |-> v, i |-> 1]]
    BY <1>1 DEF Get
  <2>2. /\ job' \in [Threads -> Job] /\ job'[h].pc = "get"
        /\ \A u \in Threads \ {h} : job'[u] = job[u]
    BY <2>1, Moved, FirstPositions DEF Places
  <2> QED
    BY <1>1, <2>2 DEF Get
<1>2. CASE GetFor(h, "get", "lock")
  BY <1>2, GoesTo DEF GetFor, Places
<1>3. CASE Lock(h)
  <2>1. /\ job[h].pc = "lock" /\ UNCHANGED lastOID
        /\ mutex' = [mutex EXCEPT !["pool"] = None]
        /\ vmMutex' = [vmMutex EXCEPT ![job[h].vm] = h]
    BY <1>3 DEF Lock
  <2>2. /\ job' \in [Threads -> Job] /\ job'[h].pc = "change" /\ job'[h].vm = job[h].vm
        /\ \A u \in Threads \ {h} : job'[u] = job[u]
    BY <1>3, GoesTo DEF Lock, Places
  <2>3. Kinds'
    BY <2>1, <2>2
  <2>4. PoolHeld'
    BY <2>1, <2>2
  <2>5. VmsHeld'
    BY <2>1, <2>2 DEF Job
  <2>6. AtHook'
    BY <2>1, <2>2
  <2> QED
    BY <2>3, <2>4, <2>5, <2>6
<1>4. CASE Change(h)
  BY <1>4, GoesTo DEF Change, Places
<1>5. CASE Unlock(h)
  <2>1. /\ job[h].pc \in {"hooks", "change"} /\ UNCHANGED <<mutex, lastOID>>
        /\ vmMutex' = [vmMutex EXCEPT ![job[h].vm] = None]
    BY <1>5 DEF Unlock
  <2>2. /\ job' \in [Threads -> Job] /\ job'[h].pc = "idle"
        /\ \A u \in Threads \ {h} : job'[u] = job[u]
    BY <1>5, GoesTo DEF Unlock, Places
  <2>3. Kinds'
    BY <2>1, <2>2
  <2>4. PoolHeld'
    BY <2>1, <2>2
  <2>5. VmsHeld'
    BY <2>1, <2>2 DEF Job
  <2>6. AtHook'
    BY <2>1, <2>2
  <2> QED
    BY <2>3, <2>4, <2>5, <2>6
<1> QED
  BY <1>1, <1>2, <1>3, <1>4, <1>5 DEF HandlerStep

\* A hook takes no mutex but lex_mutex, whose holder no part of Inv names.
LEMMA HookKeeps ==
    ASSUME Inv, NEW t \in Threads, DoHook(t) \/ ReadArguments(t) \/ Execute(t) PROVE Inv'
<1> USE Bounds
<1> USE DEF Inv, Kinds, PoolHeld, VmsHeld, AtHook, At, Free, Take, Release, lockVars
<1>1. CASE DoHook(t)
  <2>1. job[t].pc = "hooks" /\ UNCHANGED <<mutex, vmMutex, lastOID>>
    BY <1>1 DEF DoHook
  <2>2. PICK i \in Ahead(t) :
          \/ job' = [job EXCEPT ![t].i = i + 1]
          \/ job' = [job EXCEPT ![t] = [pc |-> "lex", vm |-> job[t].vm, i |-> i]]
    BY <1>1 DEF DoHook
  <2>3. i \in DOMAIN Hooks /\ i \in Positions
    BY DEF Ahead, Positions
  <2>6. i + 1 \in Positions
    BY <2>3 DEF Positions
  <2>4. CASE job' = [job EXCEPT ![t].i = i + 1]
    <3>1. /\ job' \in [Threads -> Job] /\ job'[t].pc = "hooks" /\ job'[t].vm = job[t].vm
          /\ \A u \in Threads \ {t} : job'[u] = job[u]
      BY <2>1, <2>4, <2>6, HookPassed
    <3> QED
      BY <2>1, <3>1
  <2>5. CASE job' = [job EXCEPT ![t] = [pc |-> "lex", vm |-> job[t].vm, i |-> i]]
    <3>1. job[t].vm \in Oids /\ "lex" \in Places
      BY DEF Job, Places
    <3>2. /\ job' \in [Threads -> Job] /\ job'[t].pc = "lex" /\ job'[t].vm = job[t].vm
          /\ job'[t].i = i /\ \A u \in Threads \ {t} : job'[u] = job[u]
      BY <2>3, <2>5, <3>1, Moved
    <3> QED
      BY <2>1, <2>3, <3>2
  <2> QED
    BY <2>2, <2>4, <2>5
<1>2. CASE ReadArguments(t)
  BY <1>2, GoesTo DEF ReadArguments, Places
<1>3. CASE Execute(t)
  <2>1. /\ job[t].pc = "parse" /\ mutex' = [mutex EXCEPT !["lex"] = None]
        /\ job' = [job EXCEPT ![t] = [pc |-> "hooks", vm |-> job[t].vm, i |-> job[t].i + 1]]
        /\ UNCHANGED <<vmMutex, lastOID>>
    BY <1>3 DEF Execute
  <2>2. job[t].i + 1 \in Positions /\ job[t].vm \in Oids /\ "hooks" \in Places
    BY <2>1 DEF Positions, Job, Places
  <2>3. /\ job' \in [Threads -> Job] /\ job'[t].pc = "hooks" /\ job'[t].vm = job[t].vm
        /\ \A u \in Threads \ {t} : job'[u] = job[u]
    BY <2>1, <2>2, Moved
  <2> QED
    BY <2>1, <2>3
<1> QED
  BY <1>1, <1>2, <1>3

LEMMA RestartKeeps == Inv /\ Restart => Inv'
<1> SUFFICES ASSUME Inv, Restart PROVE Inv'
  OBVIOUS
<1>1. Kinds'
  <2>1. (mutex \in [{"pool", "lex"} -> Threads \cup {None}])'
    BY DEF Restart
  <2>2. (vmMutex \in [Oids -> Handlers \cup {None}])'
    BY DEF Restart
  <2>3. (lastOID \in -1..(MaxVMs - 1))'
    BY DEF Restart
  <2>4. (job \in [Threads -> Job])'
    BY IdleJob DEF Restart
  <2> QED
    BY <2>1, <2>2, <2>3, <2>4 DEF Kinds
<1>2. PoolHeld'
  BY Bounds DEF Restart, PoolHeld
<1>3. VmsHeld'
  BY Bounds DEF Restart, VmsHeld
<1>4. AtHook'
  BY IdleJob DEF Restart, AtHook
<1> QED
  BY <1>1, <1>2, <1>3, <1>4 DEF Inv

LEMMA NextKeeps == Inv /\ [Next]_vars => Inv'
<1> SUFFICES ASSUME Inv, [Next]_vars PROVE Inv'
  OBVIOUS
<1>1. CASE \E r \in Requests : RequestStep(r)
  BY <1>1, RequestKeeps
<1>2. CASE \E h \in Handlers : HandlerStep(h)
  BY <1>2, HandlerKeeps
<1>3. CASE \E t \in Threads : DoHook(t) \/ ReadArguments(t) \/ Execute(t)
  BY <1>3, HookKeeps
<1>4. CASE Restart
  BY <1>4, RestartKeeps
<1>5. CASE UNCHANGED vars
  BY <1>5 DEF vars, Inv, Kinds, PoolHeld, VmsHeld, AtHook
<1> QED
  BY <1>1, <1>2, <1>3, <1>4, <1>5 DEF Next, RequestStep, HandlerStep

-----------------------------------------------------------------------------

LEMMA InvCircles == Inv => CirclesNeedLex
<1> SUFFICES ASSUME Inv, NEW S \in SUBSET Threads, Circle(S), mutex["lex"] \notin S
             PROVE  FALSE
  BY DEF CirclesNeedLex
<1> USE Bounds
<1>1. \A t \in S : Awaited(t) \in S /\ Awaited(t) # None /\ job[t].pc \in Places
  BY Bounds DEF Circle, Inv, Kinds, Job
<1>2. ASSUME NEW t \in S PROVE job[t].pc \notin {"lex", "context"}
  <2> SUFFICES ASSUME job[t].pc \in {"lex", "context"} PROVE FALSE
    OBVIOUS
  <2>1. Awaited(t) = mutex["lex"]
    BY DEF Awaited
  <2> QED
    BY <1>1, <2>1
\* Who holds a VM waits for nothing but lex_mutex.
<1>3. ASSUME NEW t \in S PROVE job[t].pc \notin {"lock", "varLock", "insertLock"}
  <2> SUFFICES ASSUME job[t].pc \in {"lock", "varLock", "insertLock"} PROVE FALSE
    OBVIOUS
  <2> DEFINE h == vmMutex[job[t].vm]
  <2>1. Awaited(t) = h
    BY DEF Awaited
  <2>2. job[t].vm \in Oids
    BY DEF Inv, Kinds, Job
  <2>3. h \in S /\ h \in Handlers
    BY <1>1, <2>1, <2>2 DEF Inv, Kinds
  <2>4. job[h].pc \in {"change", "hooks", "lex", "parse"}
    BY <2>2, <2>3 DEF Inv, VmsHeld
  <2>5. job[h].pc \in {"change", "hooks", "parse"}
    BY <1>2, <2>3, <2>4
  <2>6. Awaited(h) = None
    BY <2>5 DEF Awaited
  <2> QED
    BY <1>1, <2>3, <2>6
\* Who holds the pool waits for a VM, for lex_mutex or for nothing.
<1>4. ASSUME NEW t \in S PROVE job[t].pc \notin {"allocate", "get", "var", "insert"}
  <2> SUFFICES ASSUME job[t].pc \in {"allocate", "get", "var", "insert"} PROVE FALSE
    OBVIOUS
  <2> DEFINE p == mutex["pool"]
  <2>1. Awaited(t) = p
    BY DEF Awaited
  <2>2. p \in S
    BY <1>1, <2>1
  <2>3. job[p].pc \in {"lock", "varLock", "insertLock", "hooks", "lex", "parse"}
    BY <2>2 DEF Inv, PoolHeld
  <2>4. job[p].pc \in {"hooks", "parse"}
    BY <1>2, <1>3, <2>2, <2>3
  <2>5. Awaited(p) = None
    BY <2>4 DEF Awaited
  <2> QED
    BY <1>1, <2>2, <2>5
<1>5. PICK t \in S : TRUE
  BY DEF Circle
<1>6. job[t].pc \in {"idle", "change", "hooks", "parse"}
  BY <1>1, <1>2, <1>3, <1>4 DEF Places
<1>7. Awaited(t) = None
  BY <1>6 DEF Awaited
<1> QED
  BY <1>1, <1>7

\* However many requests and handlers there are and whatever hooks oned.conf
\* has, threads that wait for each other do so because of lex_mutex: the order
\* in which PoolSQL::get and allocate take the mutexes of the pool and of the
\* VMs closes no circle of its own.
THEOREM CirclesAlwaysNeedLex == Spec => []CirclesNeedLex
<1>1. Init => Inv
  BY InitInv
<1>2. Inv /\ [Next]_vars => Inv'
  BY NextKeeps
<1>3. Inv => CirclesNeedLex
  BY InvCircles
<1> QED
  BY <1>1, <1>2, <1>3, PTL DEF Spec

-----------------------------------------------------------------------------
(* What the hooks answer.  While nobody changes a VM, its hooks have run as   *)
(* often as it has entered their states, and the state they have seen is the *)
(* one of the row; while a thread is among the hooks, those ahead of it have *)
(* this change still to answer.                                              *)

Stated == \E i \in DOMAIN HookConf : StateHook(HookConf[i])

Answers(j, v) == Runs(j, mem[v], vm_states[v]) /\ (Hooks[j].remote => v \in deployed)

Objects ==
    /\ rows \in [Oids -> States \cup {None}]
    /\ mem \in [Oids -> States \cup {None}]
    /\ vm_states \in [Oids -> States \cup {None}]
    /\ ran \in [Oids -> [DOMAIN Hooks -> Nat]]
    /\ due \in [Oids -> [DOMAIN Hooks -> Nat]]
    /\ \A v \in Oids :
         /\ (mem[v] # None \/ v \in updated) => rows[v] # None
         /\ rows[v] # None => v <= lastOID
         /\ rows[v] = "DONE" => mem[v] \in {None, "DONE"}

\* A thread that changes a VM has it locked, and has it in memory.
Locked(h) ==
    /\ job[h].pc \in {"get", "lock", "change"} => job[h].i = 1
    /\ job[h].pc = "get" => rows[job[h].vm] # None
    /\ job[h].pc = "lock" => mem[job[h].vm] # None
    /\ job[h].pc \in {"change", "hooks", "lex", "parse"} =>
         vmMutex[job[h].vm] = h /\ mem[job[h].vm] # None

AtRest(v) == vmMutex[v] = None \/ job[vmMutex[v]].pc = "change"

SeenLast(v) == Stated => rows[v] = "DONE" \/ vm_states[v] = rows[v]

Resting(v) ==
    AtRest(v) =>
        /\ ran[v] = due[v]
        /\ v \in updated => SeenLast(v)
        /\ Stated /\ v \notin updated => vm_states[v] = None

Among(h) ==
    /\ rows[job[h].vm] = mem[job[h].vm] /\ job[h].vm \in updated
    /\ \A j \in DOMAIN Hooks :
         due[job[h].vm][j] =
           ran[job[h].vm][j] + (IF job[h].i <= j /\ Answers(j, job[h].vm) THEN 1 ELSE 0)
    /\ job[h].i > Len(Hooks) => SeenLast(job[h].vm)
    /\ job[h].pc # "hooks" => Runs(job[h].i, mem[job[h].vm], vm_states[job[h].vm])

AtHooks(h) == job[h].pc \in {"hooks", "lex", "parse"} => Among(h)

HookInv ==
    /\ Inv /\ Objects
    /\ \A h \in Handlers : Locked(h) /\ AtHooks(h)
    /\ \A v \in Oids : Resting(v)

LEMMA HooksShape ==
    /\ Len(Hooks) \in Nat /\ DOMAIN Hooks = 1..Len(Hooks)
    /\ Stated => Len(Hooks) \in DOMAIN Hooks /\ Hooks[Len(Hooks)].on = "UPDATE"
    /\ \A i \in DOMAIN Hooks :
         /\ Hooks[i].on = "UPDATE" => i = Len(Hooks) /\ Stated
         /\ StateHook(Hooks[i]) => Stated /\ Hooks[i].on # "UPDATE"
<1> DEFINE Attribute == [on : {"CREATE", "RUNNING", "SHUTDOWN", "STOP", "DONE", "OTHER", ""},
                         command : BOOLEAN, remote : BOOLEAN]
<1>1. HookConf \in Seq(Attribute)
  BY HooksAssumption
<1>2. Len(HookConf) \in Nat /\ DOMAIN HookConf = 1..Len(HookConf)
  BY <1>1, LenProperties
<1>3. \A i \in DOMAIN HookConf : HookConf[i] \in Attribute
  BY <1>1, <1>2, ElementOfSeq
<1>4. \A i \in DOMAIN HookConf : HookConf[i].on # "UPDATE"
  BY <1>3
<1> HIDE DEF Attribute
<1>5. ~ StateHook(UpdateStateHook) /\ UpdateStateHook.on = "UPDATE"
  BY DEF StateHook, UpdateStateHook
<1>6. CASE Stated
  <2>1. Hooks = Append(HookConf, UpdateStateHook)
    BY <1>6 DEF Hooks, Stated
  <2>2. /\ Len(Hooks) = Len(HookConf) + 1 /\ DOMAIN Hooks = 1..(Len(HookConf) + 1)
        /\ Hooks[Len(HookConf) + 1] = UpdateStateHook
        /\ \A i \in 1..Len(HookConf) : Hooks[i] = HookConf[i]
    <3>1. HookConf \in Seq(Attribute \cup {UpdateStateHook})
      BY <1>1, <1>2, <1>3, SeqDef
    <3> QED
      BY <1>2, <2>1, <3>1, AppendProperties
  <2>3. ASSUME NEW i \in DOMAIN Hooks
        PROVE  \/ i \in DOMAIN HookConf /\ Hooks[i] = HookConf[i]
               \/ i = Len(Hooks) /\ Hooks[i] = UpdateStateHook
    <3>1. i \in 1..Len(HookConf) \/ i = Len(HookConf) + 1
      BY <1>2, <2>2
    <3>2. CASE i \in 1..Len(HookConf)
      BY <1>2, <2>2, <3>2
    <3>3. CASE i = Len(HookConf) + 1
      BY <2>2, <3>3
    <3> QED
      BY <3>1, <3>2, <3>3
  <2> QED
    BY <1>2, <1>4, <1>5, <1>6, <2>2, <2>3
<1>7. CASE ~ Stated
  <2>1. Hooks = HookConf
    BY <1>7 DEF Hooks, Stated
  <2>2. \A i \in DOMAIN Hooks : ~ StateHook(Hooks[i])
    BY <1>7, <2>1 DEF Stated
  <2> QED
    BY <1>2, <1>4, <1>7, <2>1, <2>2
<1> QED
  BY <1>6, <1>7

LEMMA InitHooks == Init => HookInv
<1> SUFFICES ASSUME Init PROVE HookInv
  OBVIOUS
<1>1. Objects
  BY DEF Init, Objects, Zero, States
<1>2. ASSUME NEW h \in Handlers PROVE Locked(h) /\ AtHooks(h)
  <2>1. job[h].pc = "idle"
    BY <1>2 DEF Init, Idle, Threads
  <2> QED
    BY <2>1 DEF Locked, AtHooks
<1>3. ASSUME NEW v \in Oids PROVE Resting(v)
  BY <1>3 DEF Init, Resting
<1> QED
  BY <1>1, <1>2, <1>3, InitInv DEF HookInv

\* A step of t leaves alone what another handler that has a VM locked sees of it.
Apart(t) ==
    /\ \A u \in Threads \ {t} : job'[u] = job[u]
    /\ \A v \in Oids : vmMutex[v] \in Handlers \ {t} =>
         /\ vmMutex'[v] = vmMutex[v]
         /\ rows'[v] = rows[v] /\ vm_states'[v] = vm_states[v]
         /\ ran'[v] = ran[v] /\ due'[v] = due[v]
         /\ mem[v] # None => mem'[v] = mem[v]
         /\ v \in updated' <=> v \in updated
         /\ v \in deployed' <=> v \in deployed
    /\ \A v \in Oids : rows[v] # None => rows'[v] # None
    /\ \A v \in Oids : mem[v] # None => mem'[v] # None

LEMMA OthersKept ==
    ASSUME HookInv, NEW t \in Threads, Apart(t)
    PROVE  /\ \A u \in Handlers \ {t} : Locked(u)' /\ AtHooks(u)'
           /\ \A v \in Oids : vmMutex[v] \in Handlers \ {t} => Resting(v)'
<1>1. ASSUME NEW u \in Handlers \ {t} PROVE Locked(u)' /\ AtHooks(u)'
  <2> DEFINE v == job[u].vm
  <2>1. v \in Oids /\ u \in Threads
    BY DEF HookInv, Inv, Kinds, Job, Threads
  <2>2. job'[u] = job[u]
    BY <2>1 DEF Apart
  <2>3. Locked(u) /\ AtHooks(u)
    BY DEF HookInv
  <2>4. CASE job[u].pc \in {"change", "hooks", "lex", "parse"}
    <3>1. vmMutex[v] = u /\ mem[v] # None
      BY <2>3, <2>4 DEF Locked
    <3>2. /\ vmMutex'[v] = u /\ rows'[v] = rows[v] /\ vm_states'[v] = vm_states[v]
          /\ ran'[v] = ran[v] /\ due'[v] = due[v] /\ mem'[v] = mem[v]
          /\ (v \in updated' <=> v \in updated) /\ (v \in deployed' <=> v \in deployed)
      BY <2>1, <3>1 DEF Apart
    <3>3. Locked(u)'
      BY <2>2, <2>3, <2>4, <3>1, <3>2 DEF Locked
    <3>4. AtHooks(u)'
      BY <2>2, <2>3, <3>2 DEF AtHooks, Among, Answers, Runs, SeenLast
    <3> QED
      BY <3>3, <3>4
  <2>5. CASE job[u].pc \notin {"change", "hooks", "lex", "parse"}
    BY <2>1, <2>2, <2>3, <2>5 DEF Locked, AtHooks, Apart
  <2> QED
    BY <2>4, <2>5
<1>2. ASSUME NEW v \in Oids, vmMutex[v] \in Handlers \ {t} PROVE Resting(v)'
  <2>1. PICK u \in Handlers \ {t} : vmMutex[v] = u
    BY <1>2
  <2>2. job'[u] = job[u]
    BY DEF Apart, Threads
  <2>3. /\ vmMutex'[v] = u /\ rows'[v] = rows[v] /\ vm_states'[v] = vm_states[v]
        /\ ran'[v] = ran[v] /\ due'[v] = due[v]
        /\ (v \in updated' <=> v \in updated)
    BY <1>2, <2>1 DEF Apart
  <2>4. Resting(v)
    BY DEF HookInv
  <2> QED
    BY <2>1, <2>2, <2>3, <2>4 DEF Resting, AtRest, SeenLast
<1> QED
  BY <1>1, <1>2

\* Where the objects and the mutexes of the VMs stay as they are, so does what
\* the hooks have answered, but for the thread that takes the step.
LEMMA Still ==
    ASSUME HookInv, Inv', NEW t \in Threads,
           \A u \in Threads \ {t} : job'[u] = job[u],
           UNCHANGED <<dbVars, mem, vm_states, vmMutex, ran, due, updated, lastOID>>,
           t \in Handlers => Locked(t)' /\ AtHooks(t)',
           t \in Handlers => job[t].pc # "change" /\ job'[t].pc # "change"
    PROVE  HookInv'
<1> USE DEF dbVars
<1>1. Apart(t)
  BY DEF Apart
<1>2. Objects'
  BY DEF HookInv, Objects
<1>3. ASSUME NEW v \in Oids PROVE Resting(v)'
  <2>1. CASE vmMutex[v] \in Handlers \ {t}
    BY <1>1, <2>1, OthersKept
  <2>2. CASE vmMutex[v] = None \/ (t \in Handlers /\ vmMutex[v] = t)
    <3>1. AtRest(v)' => AtRest(v)
      BY <2>2 DEF AtRest
    <3>2. Resting(v)
      BY DEF HookInv
    <3> QED
      BY <3>1, <3>2 DEF Resting, SeenLast
  <2> QED
    BY <2>1, <2>2 DEF HookInv, Inv, Kinds
<1>4. \A h \in Handlers : Locked(h)' /\ AtHooks(h)'
  BY <1>1, OthersKept
<1> QED
  BY <1>2, <1>3, <1>4 DEF HookInv

\* The VM is loaded: what is in memory is then what is in the row.
LEMMA LoadKeeps ==
    ASSUME HookInv, Inv', NEW t \in Threads, NEW pc, NEW next, GetFor(t, pc, next),
           t \in Handlers => pc = "get" /\ next = "lock"
    PROVE  HookInv'
<1> DEFINE v == job[t].vm
<1>1. v \in Oids /\ job \in [Threads -> Job]
  BY DEF HookInv, Inv, Kinds, Job
<1>2. /\ mem' = [mem EXCEPT ![v] = IF @ = None THEN rows[v] ELSE @]
      /\ UNCHANGED <<rows, deployed, lastOID, vm_states, vmMutex, ran, due, updated>>
      /\ job[t].pc = pc
  BY DEF GetFor, dbVars, At
<1>3. mem \in [Oids -> States \cup {None}] /\ rows \in [Oids -> States \cup {None}]
  BY DEF HookInv, Objects
<1> DEFINE m == IF mem[v] = None THEN rows[v] ELSE mem[v]
<1>4. mem'[v] = m /\ \A w \in Oids \ {v} : mem'[w] = mem[w]
  BY <1>1, <1>2, <1>3
<1>5. mem' \in [Oids -> States \cup {None}]
  BY <1>1, <1>2, <1>3
<1>6. /\ job'[t].pc = next /\ job'[t].vm = v /\ job'[t].i = job[t].i
      /\ \A u \in Threads \ {t} : job'[u] = job[u]
  BY <1>1 DEF GetFor, Goes, Job
<1>7. Apart(t)
  BY <1>2, <1>4, <1>6 DEF Apart
<1>8. Objects'
  BY <1>1, <1>2, <1>4, <1>5 DEF HookInv, Objects
<1>9. ASSUME NEW w \in Oids PROVE Resting(w)'
  <2>1. CASE vmMutex[w] \in Handlers \ {t}
    BY <1>7, <2>1, OthersKept
  <2>2. CASE vmMutex[w] = None
    BY <1>2, <2>2 DEF HookInv, Resting, AtRest, SeenLast
  <2>3. CASE t \in Handlers /\ vmMutex[w] = t
    BY <1>2, <2>3 DEF HookInv, Inv, VmsHeld
  <2> QED
    BY <2>1, <2>2, <2>3 DEF HookInv, Inv, Kinds
<1>10. ASSUME t \in Handlers PROVE Locked(t)' /\ AtHooks(t)'
  <2>1. Locked(t) /\ pc = "get" /\ next = "lock"
    BY <1>10 DEF HookInv
  <2>2. rows[v] # None
    BY <1>2, <2>1 DEF Locked
  <2>3. mem'[v] # None
    BY <1>4, <2>2
  <2>4. job[t].i = 1
    BY <1>2, <2>1 DEF Locked
  <2> QED
    BY <1>6, <2>1, <2>3, <2>4 DEF Locked, AtHooks
<1>11. \A h \in Handlers : Locked(h)' /\ AtHooks(h)'
  BY <1>7, <1>10, OthersKept
<1> QED
  BY <1>8, <1>9, <1>11 DEF HookInv

LEMMA InsertKeeps ==
    ASSUME HookInv, Inv', NEW r \in Requests, Insert(r) PROVE HookInv'
<1> DEFINE o == lastOID + 1
<1>1. /\ UNCHANGED <<deployed, mem, vm_states, vmMutex, ran, due, updated>>
      /\ r \in Threads /\ r \notin Handlers
      /\ job' = [job EXCEPT ![r] = [pc |-> "hooks", vm |-> o, i |-> 1]]
  BY Bounds DEF Insert
<1>2. \A u \in Threads \ {r} : job'[u] = job[u]
  BY <1>1 DEF HookInv, Inv, Kinds
<1>3. CASE UNCHANGED <<rows, lastOID>>
  BY <1>1, <1>2, <1>3, Still DEF dbVars
<1>4. ASSUME NEW s \in {"PENDING", "HOLD"}, rows' = [rows EXCEPT ![o] = s], lastOID' = o
      PROVE  HookInv'
  <2>1. o \in Oids /\ rows \in [Oids -> States \cup {None}] /\ lastOID \in Int
    BY Bounds DEF Insert, HookInv, Inv, Kinds, Objects, Oids
  <2>2. rows[o] = None
    BY <2>1 DEF HookInv, Objects
  <2>3. mem[o] = None /\ o \notin updated
    BY <2>1, <2>2 DEF HookInv, Objects
  <2>4. rows'[o] = s /\ \A v \in Oids \ {o} : rows'[v] = rows[v]
    BY <1>4, <2>1
  <2>5. s # None /\ s # "DONE" /\ s \in States
    BY DEF None, States
  <2>6. Objects'
    <3>1. rows' \in [Oids -> States \cup {None}]
      BY <1>4, <2>1, <2>5
    <3>2. ASSUME NEW v \in Oids
          PROVE  /\ (mem[v] # None \/ v \in updated) => rows'[v] # None
                 /\ rows'[v] # None => v <= lastOID'
                 /\ rows'[v] = "DONE" => mem[v] \in {None, "DONE"}
      BY <1>4, <2>1, <2>3, <2>4, <2>5 DEF HookInv, Objects, Oids
    <3> QED
      BY <1>1, <3>1, <3>2 DEF HookInv, Objects
  \* No thread has the new VM locked, because it is not in memory.
  <2>7. \A v \in Oids : vmMutex[v] \in Handlers \ {r} => rows'[v] = rows[v]
    <3> SUFFICES ASSUME NEW v \in Oids, vmMutex[v] \in Handlers PROVE v # o
      BY <2>4
    <3>1. PICK h \in Handlers : vmMutex[v] = h
      OBVIOUS
    <3>2. job[h].vm = v /\ job[h].pc \in {"change", "hooks", "lex", "parse"} /\ Locked(h)
      BY <3>1 DEF HookInv, Inv, VmsHeld
    <3> QED
      BY <2>3, <3>2 DEF Locked
  <2>8. Apart(r)
    BY <1>1, <1>2, <2>2, <2>4, <2>5, <2>7 DEF Apart
  <2>9. ASSUME NEW v \in Oids PROVE Resting(v)'
    <3>1. CASE vmMutex[v] \in Handlers
      BY <1>1, <2>8, <3>1, OthersKept
    <3>2. CASE vmMutex[v] = None
      <4>1. v \in updated => rows'[v] = rows[v]
        BY <2>3, <2>4
      <4> QED
        BY <1>1, <3>2, <4>1 DEF HookInv, Resting, AtRest, SeenLast
    <3> QED
      BY <3>1, <3>2 DEF HookInv, Inv, Kinds
  <2>10. \A h \in Handlers : Locked(h)' /\ AtHooks(h)'
    BY <1>1, <2>8, OthersKept
  <2> QED
    BY <2>6, <2>9, <2>10 DEF HookInv
<1> QED
  BY <1>3, <1>4 DEF Insert

LEMMA GetKeeps ==
    ASSUME HookInv, Inv', NEW h \in Handlers, Get(h) PROVE HookInv'
<1>1. PICK v \in Oids : rows[v] # None /\ job' = [job EXCEPT ![h] = [pc |-> "get", vm |-> v, i |-> 1]]
  BY DEF Get
<1>2. /\ job[h].pc = "idle" /\ h \in Threads
      /\ UNCHANGED <<rows, deployed, mem, vm_states, vmMutex, ran, due, updated, lastOID>>
  BY DEF Get, At, dbVars, lockVars, Threads
<1>3. /\ job'[h].pc = "get" /\ job'[h].vm = v /\ job'[h].i = 1
      /\ \A u \in Threads \ {h} : job'[u] = job[u]
  BY <1>1, <1>2 DEF HookInv, Inv, Kinds
<1>4. Locked(h)' /\ AtHooks(h)'
  BY <1>1, <1>2, <1>3 DEF Locked, AtHooks
<1> QED
  BY <1>2, <1>3, <1>4, Still DEF dbVars

LEMMA LockKeeps ==
    ASSUME HookInv, Inv', NEW h \in Handlers, Lock(h) PROVE HookInv'
<1> DEFINE v == job[h].vm
<1>1. /\ job[h].pc = "lock" /\ h \in Threads /\ vmMutex[v] = None
      /\ vmMutex' = [vmMutex EXCEPT ![v] = h]
      /\ UNCHANGED <<rows, deployed, mem, vm_states, ran, due, updated, lastOID>>
  BY DEF Lock, At, dbVars, Threads
<1>2. /\ job'[h].pc = "change" /\ job'[h].vm = v /\ job'[h].i = job[h].i
      /\ \A u \in Threads \ {h} : job'[u] = job[u]
  BY <1>1, GoesTo DEF Lock, HookInv, Inv, Kinds, Places
<1>3. v \in Oids /\ None \notin Handlers
  BY <1>1, Bounds DEF HookInv, Inv, Kinds, Job
<1>4. vmMutex'[v] = h /\ \A w \in Oids \ {v} : vmMutex'[w] = vmMutex[w]
  BY <1>1, <1>3 DEF HookInv, Inv, Kinds
<1>5. Apart(h)
  BY <1>1, <1>2, <1>3, <1>4 DEF Apart
<1>6. Locked(h)' /\ AtHooks(h)'
  <2>1. mem[v] # None /\ job[h].i = 1
    BY <1>1 DEF HookInv, Locked
  <2> QED
    BY <1>1, <1>2, <1>4, <2>1 DEF Locked, AtHooks
<1>7. ASSUME NEW w \in Oids PROVE Resting(w)'
  <2>1. CASE vmMutex[w] \in Handlers \ {h}
    BY <1>1, <1>5, <2>1, OthersKept
  <2>2. CASE vmMutex[w] = None
    BY <1>1, <2>2 DEF HookInv, Resting, AtRest, SeenLast
  <2>3. CASE vmMutex[w] = h
    BY <1>1, <2>3 DEF HookInv, Inv, VmsHeld
  <2> QED
    BY <2>1, <2>2, <2>3 DEF HookInv, Inv, Kinds
<1>8. Objects'
  BY <1>1 DEF HookInv, Objects
<1>9. \A u \in Handlers : Locked(u)' /\ AtHooks(u)'
  BY <1>1, <1>5, <1>6, OthersKept
<1> QED
  BY <1>7, <1>8, <1>9 DEF HookInv

LEMMA MovesOf ==
    ASSUME NEW s \in States \cup {None}
    PROVE  Moves(s) \subseteq States /\ (s = "DONE" => Moves(s) = {})
BY DEF Moves, States

\* The new state is written, or the thread gives up with it in memory.
LEMMA ChangeKeeps ==
    ASSUME HookInv, Inv', NEW h \in Handlers, Change(h) PROVE HookInv'
<1> DEFINE v == job[h].vm
<1>1. /\ job[h].pc = "change" /\ h \in Threads /\ v \in Oids /\ None \notin Handlers
      /\ UNCHANGED <<lastOID, vm_states, ran>>
  BY Bounds DEF Change, At, HookInv, Inv, Kinds, Job
<1>2. vmMutex[v] = h /\ mem[v] # None
  BY <1>1 DEF HookInv, Locked
<1>3. /\ rows \in [Oids -> States \cup {None}] /\ mem \in [Oids -> States \cup {None}]
      /\ vm_states \in [Oids -> States \cup {None}]
      /\ ran \in [Oids -> [DOMAIN Hooks -> Nat]] /\ due \in [Oids -> [DOMAIN Hooks -> Nat]]
  BY DEF HookInv, Objects
<1>4. PICK s \in Moves(mem[v]) :
        /\ mem' = [mem EXCEPT ![v] = s]
        /\ deployed' = IF s = "ACTIVE" THEN deployed \cup {v} ELSE deployed
        /\ \/ rows' = [rows EXCEPT ![v] = s]
              /\ due' = [due EXCEPT ![v] = [i \in DOMAIN Hooks |-> @[i] + Entered(v, s)[i]]]
              /\ updated' = updated \cup {v}
              /\ Goes(h, "hooks")
              /\ UNCHANGED vmMutex
           \/ vmMutex' = [vmMutex EXCEPT ![v] = None]
              /\ Goes(h, "idle")
              /\ UNCHANGED <<rows, due, updated>>
  BY DEF Change
<1>5. s \in States /\ s # None /\ mem[v] # "DONE" /\ rows[v] # None /\ rows[v] # "DONE"
  <2>1. mem[v] \in States \cup {None}
    BY <1>1, <1>3
  <2>2. s \in States /\ mem[v] # "DONE"
    BY <2>1, MovesOf
  <2>3. s # None
    BY <2>2 DEF States, None
  <2> QED
    BY <1>1, <1>2, <2>2, <2>3 DEF HookInv, Objects
<1>6. mem'[v] = s /\ \A w \in Oids \ {v} : mem'[w] = mem[w]
  BY <1>1, <1>3, <1>4
<1>7. mem' \in [Oids -> States \cup {None}]
  BY <1>3, <1>4, <1>5
<1>8. \A w \in Oids \ {v} : w \in deployed' <=> w \in deployed
  BY <1>4
<1>9. Resting(v)
  BY <1>1 DEF HookInv
<1>10. ran[v] = due[v] /\ (v \in updated => SeenLast(v)) /\ (Stated /\ v \notin updated => vm_states[v] = None)
  BY <1>1, <1>2, <1>9 DEF Resting, AtRest
<1>11. CASE /\ vmMutex' = [vmMutex EXCEPT ![v] = None]
            /\ Goes(h, "idle") /\ UNCHANGED <<rows, due, updated>>
  <2>1. vmMutex'[v] = None /\ \A w \in Oids \ {v} : vmMutex'[w] = vmMutex[w]
    BY <1>1, <1>11 DEF HookInv, Inv, Kinds
  <2>2. job'[h].pc = "idle" /\ \A u \in Threads \ {h} : job'[u] = job[u]
    BY <1>1, <1>11, GoesTo DEF HookInv, Inv, Kinds, Places
  <2>3. Apart(h)
    BY <1>1, <1>2, <1>5, <1>6, <1>8, <1>11, <2>1, <2>2 DEF Apart
  <2>4. Objects'
    BY <1>1, <1>3, <1>5, <1>6, <1>7, <1>11 DEF HookInv, Objects
  <2>5. Locked(h)' /\ AtHooks(h)'
    BY <2>2 DEF Locked, AtHooks
  <2>6. ASSUME NEW w \in Oids PROVE Resting(w)'
    <3>1. CASE vmMutex[w] \in Handlers \ {h}
      BY <1>1, <2>3, <3>1, OthersKept
    <3>2. CASE vmMutex[w] = None
      BY <1>1, <1>11, <3>2 DEF HookInv, Resting, AtRest, SeenLast
    <3>3. CASE vmMutex[w] = h
      <4>1. w = v
        BY <3>3 DEF HookInv, Inv, VmsHeld
      <4> QED
        BY <1>1, <1>10, <1>11, <4>1 DEF Resting, SeenLast
    <3> QED
      BY <3>1, <3>2, <3>3 DEF HookInv, Inv, Kinds
  <2>7. \A u \in Handlers : Locked(u)' /\ AtHooks(u)'
    BY <1>1, <2>3, <2>5, OthersKept
  <2> QED
    BY <2>4, <2>6, <2>7 DEF HookInv
<1>12. CASE /\ rows' = [rows EXCEPT ![v] = s]
            /\ due' = [due EXCEPT ![v] = [i \in DOMAIN Hooks |-> @[i] + Entered(v, s)[i]]]
            /\ updated' = updated \cup {v}
            /\ Goes(h, "hooks")
            /\ UNCHANGED vmMutex
  <2>1. rows'[v] = s /\ \A w \in Oids \ {v} : rows'[w] = rows[w]
    BY <1>1, <1>3, <1>12
  <2>2. /\ job'[h].pc = "hooks" /\ job'[h].vm = v /\ job'[h].i = job[h].i
        /\ \A u \in Threads \ {h} : job'[u] = job[u]
    BY <1>1, <1>12, GoesTo DEF HookInv, Inv, Kinds, Places
  <2>3. \A j \in DOMAIN Hooks : Entered(v, s)[j] \in {0, 1}
    BY DEF Entered
  <2>4. /\ \A j \in DOMAIN Hooks : due'[v][j] = due[v][j] + Entered(v, s)[j]
        /\ \A w \in Oids \ {v} : due'[w] = due[w]
    BY <1>1, <1>3, <1>12
  <2>5. due'[v] \in [DOMAIN Hooks -> Nat]
    BY <1>1, <1>3, <1>12, <2>3, <2>4
  <2>6. Apart(h)
    BY <1>1, <1>2, <1>5, <1>6, <1>8, <1>12, <2>1, <2>2, <2>4 DEF Apart
  <2>7. Objects'
    <3>1. rows' \in [Oids -> States \cup {None}]
      BY <1>3, <1>5, <1>12
    <3>2. due' \in [Oids -> [DOMAIN Hooks -> Nat]]
      BY <1>1, <1>3, <1>12, <2>5
    <3>3. ASSUME NEW w \in Oids
          PROVE  /\ (mem'[w] # None \/ w \in updated') => rows'[w] # None
                 /\ rows'[w] # None => w <= lastOID'
                 /\ rows'[w] = "DONE" => mem'[w] \in {None, "DONE"}
      BY <1>1, <1>5, <1>6, <1>12, <2>1 DEF HookInv, Objects
    <3> QED
      BY <1>1, <1>3, <1>7, <3>1, <3>2, <3>3 DEF Objects
  \* What the hooks ahead have still to answer is what the row has entered.
  <2>8. \A j \in DOMAIN Hooks : Entered(v, s)[j] = IF Answers(j, v)' THEN 1 ELSE 0
    <3> SUFFICES ASSUME NEW j \in DOMAIN Hooks
                 PROVE  v \in updated /\ Runs(j, s, rows[v]) /\ Executes(j, v) <=> Answers(j, v)'
      BY DEF Entered
    <3>1. Answers(j, v)' <=> Runs(j, s, vm_states[v]) /\ Executes(j, v)
      BY <1>1, <1>6, <2>2 DEF Answers, Runs, Executes
    <3>2. CASE ~ StateHook(Hooks[j])
      BY <3>1, <3>2 DEF Runs
    <3>3. CASE StateHook(Hooks[j])
      <4>1. Stated
        BY <3>3, HooksShape
      <4>2. CASE v \in updated
        BY <1>5, <1>10, <3>1, <4>1, <4>2 DEF SeenLast
      <4>3. CASE v \notin updated
        BY <1>10, <3>1, <4>1, <4>3 DEF Runs
      <4> QED
        BY <4>2, <4>3
    <3> QED
      BY <3>2, <3>3
  <2>9. job[h].i = 1
    BY <1>1 DEF HookInv, Locked
  <2>10. Among(h)'
    <3>1. rows'[v] = mem'[v] /\ v \in updated'
      BY <1>6, <1>12, <2>1
    <3>2. ASSUME NEW j \in DOMAIN Hooks
          PROVE  due'[v][j] = ran'[v][j] + (IF 1 <= j /\ Answers(j, v)' THEN 1 ELSE 0)
      <4>1. 1 <= j
        BY HooksShape
      <4> QED
        BY <1>1, <1>10, <2>4, <2>8, <4>1
    <3>3. 1 > Len(Hooks) => ~ Stated
      BY HooksShape
    <3> QED
      BY <2>2, <2>9, <3>1, <3>2, <3>3 DEF Among, SeenLast
  <2>11. Locked(h)' /\ AtHooks(h)'
    BY <1>2, <1>5, <1>6, <1>12, <2>2, <2>10 DEF Locked, AtHooks
  <2>12. ASSUME NEW w \in Oids PROVE Resting(w)'
    <3>1. CASE vmMutex[w] \in Handlers \ {h}
      BY <1>1, <2>6, <3>1, OthersKept
    <3>2. CASE vmMutex[w] = None
      <4>1. w # v
        BY <1>1, <1>2, <3>2
      <4> QED
        BY <1>1, <1>12, <2>1, <2>4, <3>2, <4>1 DEF HookInv, Resting, AtRest, SeenLast
    <3>3. CASE vmMutex[w] = h
      BY <1>1, <1>12, <2>2, <3>3 DEF Resting, AtRest
    <3> QED
      BY <3>1, <3>2, <3>3 DEF HookInv, Inv, Kinds
  <2>13. \A u \in Handlers : Locked(u)' /\ AtHooks(u)'
    BY <1>1, <2>6, <2>11, OthersKept
  <2> QED
    BY <2>7, <2>12, <2>13 DEF HookInv
<1> QED
  BY <1>4, <1>11, <1>12

LEMMA UnlockKeeps ==
    ASSUME HookInv, Inv', NEW h \in Handlers, Unlock(h) PROVE HookInv'
<1> DEFINE v == job[h].vm
<1>1. /\ job[h].pc \in {"hooks", "change"} /\ h \in Threads /\ v \in Oids /\ None \notin Handlers
      /\ vmMutex' = [vmMutex EXCEPT ![v] = None]
      /\ UNCHANGED <<rows, deployed, mem, vm_states, ran, due, updated, lastOID>>
  BY Bounds DEF Unlock, At, dbVars, HookInv, Inv, Kinds, Job
<1>2. /\ job'[h].pc = "idle"
      /\ \A u \in Threads \ {h} : job'[u] = job[u]
  BY <1>1, GoesTo DEF Unlock, HookInv, Inv, Kinds, Places
<1>3. vmMutex[v] = h
  BY <1>1 DEF HookInv, Locked
<1>4. vmMutex'[v] = None /\ \A w \in Oids \ {v} : vmMutex'[w] = vmMutex[w]
  BY <1>1 DEF HookInv, Inv, Kinds
<1>5. Apart(h)
  BY <1>1, <1>2, <1>3, <1>4 DEF Apart
<1>6. Locked(h)' /\ AtHooks(h)'
  BY <1>2 DEF Locked, AtHooks
<1>7. /\ ran[v] = due[v]
      /\ v \in updated => SeenLast(v)
      /\ Stated /\ v \notin updated => vm_states[v] = None
  <2>1. CASE job[h].pc = "change"
    BY <1>1, <1>3, <2>1 DEF HookInv, Resting, AtRest
  <2>2. CASE job[h].pc = "hooks"
    <3>1. Ahead(h) = {}
      BY <2>2 DEF Unlock, At
    <3>2. Among(h) /\ v \in updated
      BY <2>2 DEF HookInv, AtHooks, Among
    <3>3. \A j \in DOMAIN Hooks : job[h].i <= j =>
            ~ Runs(j, mem[v], vm_states[v]) /\ Hooks[j].on # "UPDATE"
      BY <3>1, <1>1 DEF Ahead, Does
    <3>4. \A j \in DOMAIN Hooks : ~ (job[h].i <= j /\ Answers(j, v))
      BY <3>3 DEF Answers
    <3>5. \A j \in DOMAIN Hooks : due[v][j] = ran[v][j]
      <4>1. \A j \in DOMAIN Hooks : due[v][j] = ran[v][j] + 0
        BY <3>2, <3>4 DEF Among
      <4>2. ran[v] \in [DOMAIN Hooks -> Nat]
        BY <1>1 DEF HookInv, Objects
      <4> QED
        BY <4>1, <4>2
    <3>6. ran[v] \in [DOMAIN Hooks -> Nat] /\ due[v] \in [DOMAIN Hooks -> Nat]
      BY <1>1 DEF HookInv, Objects
    <3>7. ran[v] = due[v]
      BY <3>5, <3>6
    <3>8. ASSUME Stated PROVE job[h].i > Len(Hooks)
      <4>1. ~ (job[h].i <= Len(Hooks))
        BY <3>3, <3>8, HooksShape
      <4>2. job[h].i \in Int
        BY <1>1, HooksShape DEF HookInv, Inv, Kinds, Job, Positions
      <4> QED
        BY <4>1, <4>2, HooksShape
    <3>9. SeenLast(v)
      BY <3>2, <3>8 DEF Among, SeenLast
    <3> QED
      BY <3>2, <3>7, <3>9
  <2> QED
    BY <1>1, <2>1, <2>2
<1>8. ASSUME NEW w \in Oids PROVE Resting(w)'
  <2>1. CASE vmMutex[w] \in Handlers \ {h}
    BY <1>1, <1>5, <2>1, OthersKept
  <2>2. CASE vmMutex[w] = None
    BY <1>1, <2>2 DEF HookInv, Resting, AtRest, SeenLast
  <2>3. CASE vmMutex[w] = h
    <3>1. w = v
      BY <2>3 DEF HookInv, Inv, VmsHeld
    <3> QED
      BY <1>1, <1>7, <3>1 DEF Resting, SeenLast
  <2> QED
    BY <2>1, <2>2, <2>3 DEF HookInv, Inv, Kinds
<1>9. Objects'
  BY <1>1 DEF HookInv, Objects
<1>10. \A u \in Handlers : Locked(u)' /\ AtHooks(u)'
  BY <1>1, <1>5, <1>6, OthersKept
<1> QED
  BY <1>8, <1>9, <1>10 DEF HookInv

\* A thread goes to the next hook that does something.
LEMMA DoHookKeeps ==
    ASSUME HookInv, Inv', NEW t \in Threads, DoHook(t) PROVE HookInv'
<1> DEFINE v == job[t].vm
           p == job[t].i
<1>1. /\ job[t].pc = "hooks" /\ v \in Oids /\ job \in [Threads -> Job] /\ None \notin Handlers
      /\ UNCHANGED <<rows, deployed, mem, vmMutex, ran, due, updated, lastOID>>
  BY Bounds DEF DoHook, At, dbVars, lockVars, HookInv, Inv, Kinds, Job
<1>2. PICK i \in Ahead(t) :
        /\ \A j \in Ahead(t) : i <= j
        /\ IF Hooks[i].on = "UPDATE"
           THEN update_state(v, mem[v]) /\ job' = [job EXCEPT ![t].i = i + 1]
           ELSE /\ job' = [job EXCEPT ![t] = [pc |-> "lex", vm |-> v, i |-> i]]
                /\ UNCHANGED vm_states
  BY DEF DoHook
<1>3. i \in DOMAIN Hooks /\ p <= i /\ Does(t, i)
  BY DEF Ahead
<1>4. p \in Int /\ i \in Int /\ i + 1 \in Positions /\ i \in Positions
  BY <1>1, <1>3, HooksShape DEF Job, Positions
<1>5. CASE t \notin Handlers
  <2>1. Hooks[i].on # "UPDATE"
    BY <1>3, <1>5 DEF Does, CreateHook
  <2>2. UNCHANGED vm_states /\ \A u \in Threads \ {t} : job'[u] = job[u]
    BY <1>1, <1>2, <2>1
  <2> QED
    BY <1>1, <1>5, <2>2, Still DEF dbVars
<1>6. CASE t \in Handlers
  <2>1. vmMutex[v] = t /\ mem[v] # None /\ Among(t)
    BY <1>1, <1>6 DEF HookInv, Locked, AtHooks
  <2>2. Does(t, i) <=> Hooks[i].on = "UPDATE" \/ Runs(i, mem[v], vm_states[v])
    BY <1>6, Bounds DEF Does
  \* The hooks between have nothing to answer.
  <2>3. ASSUME NEW j \in DOMAIN Hooks, p <= j, j < i
        PROVE  ~ Runs(j, mem[v], vm_states[v])
    <3>1. j \notin Ahead(t)
      BY <1>2, <1>4, <2>3, HooksShape
    <3> QED
      BY <1>6, <2>3, <3>1 DEF Ahead, Does
  <2>4. CASE Hooks[i].on = "UPDATE"
    <3>1. i = Len(Hooks) /\ Stated /\ ~ StateHook(Hooks[i])
      BY <1>3, <2>4, HooksShape
    <3>2. vm_states' = [vm_states EXCEPT ![v] = IF @ # None /\ mem[v] = "DONE" THEN None ELSE mem[v]]
      BY <1>2, <2>4 DEF update_state
    <3>3. vm_states \in [Oids -> States \cup {None}] /\ mem[v] \in States \cup {None}
      BY <1>1 DEF HookInv, Objects
    <3>4. /\ vm_states'[v] = IF vm_states[v] # None /\ mem[v] = "DONE" THEN None ELSE mem[v]
          /\ \A w \in Oids \ {v} : vm_states'[w] = vm_states[w]
          /\ vm_states' \in [Oids -> States \cup {None}]
      BY <1>1, <3>2, <3>3
    <3>5. /\ job'[t].pc = "hooks" /\ job'[t].vm = v /\ job'[t].i = i + 1
          /\ \A u \in Threads \ {t} : job'[u] = job[u]
      BY <1>1, <1>2, <1>4, <2>4, HookPassed DEF Job
    <3>6. Apart(t)
      BY <1>1, <2>1, <3>4, <3>5 DEF Apart
    <3>7. Objects'
      BY <1>1, <3>4 DEF HookInv, Objects
    <3>8. \A j \in DOMAIN Hooks : ~ (p <= j /\ Answers(j, v))
      <4> SUFFICES ASSUME NEW j \in DOMAIN Hooks, p <= j PROVE ~ Answers(j, v)
        OBVIOUS
      <4>1. CASE j < i
        BY <2>3, <4>1 DEF Answers
      <4>2. CASE j = i
        BY <3>1, <4>2 DEF Answers, Runs
      <4> QED
        BY <3>1, <4>1, <4>2, HooksShape
    <3>9. Among(t)'
      <4>1. ASSUME NEW j \in DOMAIN Hooks
            PROVE  due'[v][j] = ran'[v][j] + (IF i + 1 <= j /\ Answers(j, v)' THEN 1 ELSE 0)
        <5>1. ~ (i + 1 <= j)
          BY <3>1, HooksShape
        <5>2. due[v][j] = ran[v][j] + 0
          BY <2>1, <3>8 DEF Among
        <5> QED
          BY <1>1, <5>1, <5>2
      <4>2. rows'[v] = mem'[v] /\ v \in updated' /\ (rows'[v] = "DONE" \/ vm_states'[v] = rows'[v])
        BY <1>1, <2>1, <3>4 DEF Among
      <4> QED
        BY <3>5, <4>1, <4>2 DEF Among, SeenLast
    <3>10. Locked(t)' /\ AtHooks(t)'
      BY <1>1, <2>1, <3>5, <3>9 DEF Locked, AtHooks
    <3>11. ASSUME NEW w \in Oids PROVE Resting(w)'
      <4>1. CASE vmMutex[w] \in Handlers \ {t}
        BY <3>6, <4>1, OthersKept
      <4>2. CASE vmMutex[w] = None
        <5>1. w # v
          BY <1>6, <2>1, <4>2, <1>1
        <5> QED
          BY <1>1, <3>4, <4>2, <5>1 DEF HookInv, Resting, AtRest, SeenLast
      <4>3. CASE vmMutex[w] = t
        BY <1>1, <1>6, <3>5, <4>3 DEF Resting, AtRest
      <4> QED
        BY <4>1, <4>2, <4>3 DEF HookInv, Inv, Kinds
    <3> QED
      BY <3>6, <3>7, <3>10, <3>11, OthersKept DEF HookInv
  <2>5. CASE Hooks[i].on # "UPDATE"
    <3>1. UNCHANGED vm_states /\ Runs(i, mem[v], vm_states[v])
      BY <1>2, <1>3, <2>2, <2>5
    <3>2. /\ job'[t].pc = "lex" /\ job'[t].vm = v /\ job'[t].i = i
          /\ \A u \in Threads \ {t} : job'[u] = job[u]
      BY <1>1, <1>2, <1>4, <2>5, Moved DEF Places
    <3>3. Among(t)'
      <4>1. ASSUME NEW j \in DOMAIN Hooks
            PROVE  due'[v][j] = ran'[v][j] + (IF i <= j /\ Answers(j, v)' THEN 1 ELSE 0)
        <5>1. Answers(j, v)' <=> Answers(j, v)
          BY <1>1, <3>1, <3>2 DEF Answers, Runs
        <5>2. i <= j /\ Answers(j, v) <=> p <= j /\ Answers(j, v)
          BY <1>3, <1>4, <2>3, HooksShape DEF Answers
        <5>3. due[v][j] = ran[v][j] + (IF p <= j /\ Answers(j, v) THEN 1 ELSE 0)
          BY <2>1 DEF Among
        <5> QED
          BY <1>1, <5>1, <5>2, <5>3
      <4>2. ~ (i > Len(Hooks))
        BY <1>3, HooksShape
      <4> QED
        BY <1>1, <2>1, <3>1, <3>2, <4>1, <4>2 DEF Among, Runs
    <3>4. Locked(t)' /\ AtHooks(t)'
      BY <1>1, <2>1, <3>2, <3>3 DEF Locked, AtHooks
    <3> QED
      BY <1>1, <3>1, <3>2, <3>4, Still DEF dbVars
  <2> QED
    BY <2>4, <2>5
<1> QED
  BY <1>5, <1>6

\* Among the hooks of its VM a thread sees what it saw before.
LEMMA AmongStays ==
    ASSUME NEW h \in Handlers, Among(h),
           job'[h].vm = job[h].vm, job'[h].i = job[h].i,
           job'[h].pc = "hooks" => job[h].pc = "hooks",
           job[h].pc = "hooks" => job'[h].pc = "hooks",
           UNCHANGED <<rows, mem, deployed, vm_states, ran, due, updated>>
    PROVE  Among(h)'
BY DEF Among, Answers, Runs, SeenLast

LEMMA ReadKeeps ==
    ASSUME HookInv, Inv', NEW t \in Threads, ReadArguments(t) PROVE HookInv'
<1>1. /\ job[t].pc = "lex" /\ None \notin Handlers
      /\ UNCHANGED <<rows, deployed, mem, vm_states, vmMutex, ran, due, updated, lastOID>>
  BY Bounds DEF ReadArguments, At, dbVars
<1>2. /\ job'[t].pc = "parse" /\ job'[t].vm = job[t].vm /\ job'[t].i = job[t].i
      /\ \A u \in Threads \ {t} : job'[u] = job[u]
  BY <1>1, GoesTo DEF ReadArguments, HookInv, Inv, Kinds, Places
<1>3. ASSUME t \in Handlers PROVE Locked(t)' /\ AtHooks(t)'
  <2>1. vmMutex[job[t].vm] = t /\ mem[job[t].vm] # None /\ Among(t)
    BY <1>1, <1>3 DEF HookInv, Locked, AtHooks
  <2>2. Among(t)'
    BY <1>1, <1>2, <1>3, <2>1, AmongStays
  <2> QED
    BY <1>1, <1>2, <2>1, <2>2 DEF Locked, AtHooks
<1> QED
  BY <1>1, <1>2, <1>3, Still DEF dbVars

\* The hook has run, or has none of the VM's host to run on.
LEMMA ExecuteKeeps ==
    ASSUME HookInv, Inv', NEW t \in Threads, Execute(t) PROVE HookInv'
<1> DEFINE v == job[t].vm
           i == job[t].i
<1>1. /\ job[t].pc = "parse" /\ v \in Oids /\ job \in [Threads -> Job] /\ None \notin Handlers
      /\ job' = [job EXCEPT ![t] = [pc |-> "hooks", vm |-> v, i |-> i + 1]]
      /\ ran' = IF t \in Handlers /\ (Hooks[i].remote => v \in deployed)
                THEN [ran EXCEPT ![v][i] = @ + 1] ELSE ran
      /\ UNCHANGED <<rows, deployed, mem, vm_states, vmMutex, due, updated, lastOID>>
  BY Bounds DEF Execute, At, dbVars, HookInv, Inv, Kinds, Job
<1>2. i \in DOMAIN Hooks
  BY <1>1 DEF HookInv, Inv, AtHook
<1>3. i \in Int /\ i + 1 \in Positions
  BY <1>2, HooksShape DEF Positions
<1>4. /\ job'[t].pc = "hooks" /\ job'[t].vm = v /\ job'[t].i = i + 1
      /\ \A u \in Threads \ {t} : job'[u] = job[u]
  BY <1>1, <1>3, Moved DEF Places
<1>5. CASE t \notin Handlers
  BY <1>1, <1>4, <1>5, Still DEF dbVars
<1>6. CASE t \in Handlers
  <2>1. vmMutex[v] = t /\ mem[v] # None /\ Among(t) /\ Runs(i, mem[v], vm_states[v])
    BY <1>1, <1>6 DEF HookInv, Locked, AtHooks, Among
  <2>2. ran \in [Oids -> [DOMAIN Hooks -> Nat]] /\ ran[v] \in [DOMAIN Hooks -> Nat]
    BY <1>1 DEF HookInv, Objects
  <2>3. ran'[v][i] = ran[v][i] + (IF Answers(i, v) THEN 1 ELSE 0)
    BY <1>1, <1>2, <1>6, <2>1, <2>2 DEF Answers
  <2>4. /\ \A j \in DOMAIN Hooks \ {i} : ran'[v][j] = ran[v][j]
        /\ \A w \in Oids \ {v} : ran'[w] = ran[w]
        /\ ran' \in [Oids -> [DOMAIN Hooks -> Nat]]
    BY <1>1, <1>2, <2>2
  <2>5. Apart(t)
    BY <1>1, <1>4, <2>1, <2>4 DEF Apart
  <2>6. Objects'
    BY <1>1, <2>4 DEF HookInv, Objects
  <2>7. Among(t)'
    <3>1. ASSUME NEW j \in DOMAIN Hooks
          PROVE  due'[v][j] = ran'[v][j] + (IF i + 1 <= j /\ Answers(j, v)' THEN 1 ELSE 0)
      <4>1. Answers(j, v)' <=> Answers(j, v)
        BY <1>1, <1>4 DEF Answers, Runs
      <4>2. due[v][j] = ran[v][j] + (IF i <= j /\ Answers(j, v) THEN 1 ELSE 0)
        BY <2>1 DEF Among
      <4>3. j \in Int /\ ran[v][j] \in Int
        BY <2>2, HooksShape
      <4>4. CASE j = i
        <5>1. i <= i /\ ~ (i + 1 <= i)
          BY <1>3
        <5>2. due[v][i] = ran'[v][i] /\ ran'[v][i] \in Int
          BY <2>3, <4>2, <4>3, <4>4, <5>1
        <5>3. due'[v][i] = ran'[v][i] + 0
          BY <1>1, <5>2
        <5> QED
          BY <4>4, <5>1, <5>3
      <4>5. CASE j # i
        <5>1. i + 1 <= j <=> i <= j
          BY <1>3, <4>3, <4>5
        <5> QED
          BY <1>1, <2>4, <4>1, <4>2, <4>5, <5>1
      <4> QED
        BY <4>4, <4>5
    <3>2. i + 1 > Len(Hooks) => ~ Stated \/ SeenLast(v)'
      <4> SUFFICES ASSUME i + 1 > Len(Hooks), Stated PROVE FALSE
        OBVIOUS
      <4>1. i = Len(Hooks)
        BY <1>2, <1>3, HooksShape
      <4>2. Hooks[i].on = "UPDATE" /\ StateHook(Hooks[i])
        BY <2>1, <4>1, HooksShape DEF Runs
      <4> QED
        BY <1>2, <4>2, HooksShape
    <3>3. i + 1 > Len(Hooks) => SeenLast(v)'
      BY <3>2 DEF SeenLast
    <3>4. rows'[v] = mem'[v] /\ v \in updated'
      BY <1>1, <2>1 DEF Among
    <3> QED
      BY <1>4, <3>1, <3>3, <3>4 DEF Among, SeenLast
  <2>8. Locked(t)' /\ AtHooks(t)'
    BY <1>1, <1>4, <2>1, <2>7 DEF Locked, AtHooks
  <2>9. ASSUME NEW w \in Oids PROVE Resting(w)'
    <3>1. CASE vmMutex[w] \in Handlers \ {t}
      BY <2>5, <3>1, OthersKept
    <3>2. CASE vmMutex[w] = None
      <4>1. w # v
        BY <1>1, <1>6, <2>1, <3>2
      <4> QED
        BY <1>1, <2>4, <3>2, <4>1 DEF HookInv, Resting, AtRest, SeenLast
    <3>3. CASE vmMutex[w] = t
      BY <1>1, <1>6, <1>4, <3>3 DEF Resting, AtRest
    <3> QED
      BY <3>1, <3>2, <3>3 DEF HookInv, Inv, Kinds
  <2> QED
    BY <2>5, <2>6, <2>8, <2>9, OthersKept DEF HookInv
<1> QED
  BY <1>5, <1>6

LEMMA RestartKeepsHooks == HookInv /\ Inv' /\ Restart => HookInv'
<1> SUFFICES ASSUME HookInv, Inv', Restart PROVE HookInv'
  OBVIOUS
<1>1. /\ mem' = [v \in Oids |-> None] /\ vm_states' = [v \in Oids |-> None]
      /\ vmMutex' = [v \in Oids |-> None] /\ job' = [t \in Threads |-> Idle]
      /\ ran' = Zero /\ due' = Zero /\ updated' = {} /\ rows' = rows
      /\ \A v \in Oids : rows[v] # None => v <= lastOID'
  BY DEF Restart, dbVars
<1>2. Zero \in [Oids -> [DOMAIN Hooks -> Nat]]
  BY DEF Zero
<1>3. Objects'
  BY <1>1, <1>2 DEF HookInv, Objects
<1>4. ASSUME NEW h \in Handlers PROVE Locked(h)' /\ AtHooks(h)'
  <2>1. job'[h].pc = "idle"
    BY <1>1, <1>4 DEF Idle, Threads
  <2> QED
    BY <2>1 DEF Locked, AtHooks
<1>5. ASSUME NEW v \in Oids PROVE Resting(v)'
  BY <1>1, <1>5 DEF Resting
<1> QED
  BY <1>3, <1>4, <1>5 DEF HookInv

LEMMA NextKeepsHooks == HookInv /\ [Next]_vars => HookInv'
<1> SUFFICES ASSUME HookInv, [Next]_vars PROVE HookInv'
  OBVIOUS
<1>1. Inv'
  BY NextKeeps DEF HookInv
<1>2. ASSUME NEW r \in Requests, RequestStep(r) PROVE HookInv'
  <2>1. r \in Threads /\ r \notin Handlers
    BY Bounds
  <2>2. CASE Insert(r)
    BY <1>1, <2>2, InsertKeeps
  <2>3. CASE GetFor(r, "var", "varLock") \/ GetFor(r, "insert", "insertLock")
    BY <1>1, <2>1, <2>3, LoadKeeps
  <2>4. CASE Allocate(r) \/ Allocated(r) \/ ReadContext(r) \/ ReadVariable(r) \/ InsertContext(r)
    <3>1. UNCHANGED <<dbVars, mem, vm_states, vmMutex, ran, due, updated, lastOID>>
      BY <2>4 DEF Allocate, Allocated, ReadContext, ReadVariable, InsertContext, lockVars, dbVars
    <3>2. \E pc \in Places : Goes(r, pc)
      BY <2>4 DEF Allocate, Allocated, ReadContext, ReadVariable, InsertContext, Places
    <3>3. \A u \in Threads \ {r} : job'[u] = job[u]
      BY <2>1, <3>2, GoesTo DEF HookInv, Inv, Kinds
    <3> QED
      BY <1>1, <2>1, <3>1, <3>3, Still
  <2> QED
    BY <1>2, <2>2, <2>3, <2>4 DEF RequestStep
<1>3. ASSUME NEW h \in Handlers, HandlerStep(h) PROVE HookInv'
  BY <1>1, <1>3, GetKeeps, LoadKeeps, LockKeeps, ChangeKeeps, UnlockKeeps DEF HandlerStep, Threads
<1>4. CASE \E t \in Threads : DoHook(t) \/ ReadArguments(t) \/ Execute(t)
  BY <1>1, <1>4, DoHookKeeps, ReadKeeps, ExecuteKeeps
<1>5. CASE Restart
  BY <1>1, <1>5, RestartKeepsHooks
<1>6. CASE UNCHANGED vars
  BY <1>1, <1>6 DEF vars, HookInv, Objects, Locked, AtHooks, Among, Answers, Runs, Resting, AtRest, SeenLast
<1> QED
  BY <1>2, <1>3, <1>4, <1>5, <1>6 DEF Next, RequestStep, HandlerStep

\* However updates fail and threads, hooks and restarts mix: while a VM is not
\* locked, each hook has run as often as the VM, once the hooks have seen it,
\* has entered the state of the hook in the database.
THEOREM HooksAnswerEntries == Spec => []EntriesAnswered
<1>1. Init => HookInv
  BY InitHooks
<1>2. HookInv /\ [Next]_vars => HookInv'
  BY NextKeepsHooks
<1>3. HookInv => EntriesAnswered
  BY DEF HookInv, Resting, AtRest, EntriesAnswered
<1> QED
  BY <1>1, <1>2, <1>3, PTL DEF Spec

\* A command is only sent when the database has the VM in the state its hook is
\* on.
THEOREM CommandsFindTheRow == Spec => HookTellsRow
<1> DEFINE Tells ==
      \A v \in Oids, i \in DOMAIN Hooks :
          ran'[v][i] > ran[v][i] => rows[v] = StateOf[Hooks[i].on]
<1>1. Init => HookInv
  BY InitHooks
<1>2. HookInv /\ [Next]_vars => HookInv'
  BY NextKeepsHooks
<1>3. HookInv /\ [Next]_vars => [Tells]_vars
  <2> SUFFICES ASSUME HookInv, [Next]_vars, NEW v \in Oids, NEW i \in DOMAIN Hooks,
                      ran'[v][i] > ran[v][i]
               PROVE  rows[v] = StateOf[Hooks[i].on]
    OBVIOUS
  <2>1. ran \in [Oids -> [DOMAIN Hooks -> Nat]] /\ ran[v][i] \in Nat /\ Requests \cap Handlers = {}
    BY Bounds DEF HookInv, Objects
  <2>2. ran' # ran /\ ran' # Zero
    BY <2>1 DEF Zero
  <2>3. PICK t \in Threads : Execute(t)
    BY <2>2 DEF Next, vars, countVars, Allocate, Insert, Allocated, ReadContext, GetFor, ReadVariable,
       InsertContext, Get, Lock, Change, Unlock, DoHook, ReadArguments, Restart
  <2>4. /\ t \in Handlers /\ v = job[t].vm /\ i = job[t].i /\ job[t].pc = "parse"
    BY <2>1, <2>2, <2>3 DEF Execute, At
  <2>5. Among(t)
    BY <2>4 DEF HookInv, AtHooks
  <2> QED
    BY <2>4, <2>5 DEF Among, Runs
<1>4. HookTellsRow <=> [][Tells]_vars
  BY DEF HookTellsRow
<1> HIDE DEF Tells
<1> QED
  BY <1>1, <1>2, <1>3, <1>4, PTL DEF Spec
=============================================================================
