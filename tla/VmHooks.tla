------------------------------ MODULE VmHooks ------------------------------
(***************************************************************************)
(* The hooks of the VM pool and the context of a new VM: which commands    *)
(* oned runs when a VM is created or changes state, and the three mutexes  *)
(* that are taken on the way: the one of the pool, the one of each VM, and *)
(* lex_mutex, under which the arguments of a hook and the context of a VM  *)
(* are read (VmVarSyntax.tla says what they become).                       *)
(*                                                                         *)
(* Two kinds of threads share them: requests that allocate a VM, and the   *)
(* threads that change the state of one (LifeCycleManager.tla and          *)
(* DispatchManager.tla say when; here a state is only told from another    *)
(* when a hook does).                                                      *)
(***************************************************************************)
EXTENDS Integers, Sequences

CONSTANTS
    Requests,       \* the threads that allocate VMs
    Handlers,       \* the threads that update VMs
    HookConf,       \* the VM_HOOK attributes of oned.conf, in order
    HasContext,     \* whether the templates of VMs have a CONTEXT with a variable
    MaxVMs,         \* bound: the oids given
    MaxUpdates,     \* bound: the updates tried
    MaxRestarts     \* bound: the times oned is started again

Threads == Requests \cup Handlers
Oids == 0..(MaxVMs - 1)
None == "none"
States == {"PENDING", "HOLD", "ACTIVE", "RUNNING", "EPILOG", "STOPPED", "DONE"}

\* The state of the VM a kind of hook waits for.
StateOf == [RUNNING |-> "RUNNING", SHUTDOWN |-> "EPILOG", STOP |-> "STOPPED", DONE |-> "DONE"]

ASSUME HooksAssumption ==
    /\ HookConf \in Seq([on : {"CREATE", "RUNNING", "SHUTDOWN", "STOP", "DONE", "OTHER", ""},
                         command : BOOLEAN, remote : BOOLEAN])
    /\ HasContext \in BOOLEAN /\ MaxVMs \in Nat \ {0} /\ MaxUpdates \in Nat /\ MaxRestarts \in Nat
    /\ Requests \cap Handlers = {} /\ None \notin Threads

\* The hooks the constructor of the pool registers, in the order of oned.conf:
\* the attributes without a command or with another ON stay in the sequence and
\* are none.  A hook that keeps the states of the VMs comes last, so that the
\* others find the state before.
CreateHook(h) == h.command /\ h.on = "CREATE"
StateHook(h) == h.command /\ h.on \in DOMAIN StateOf
UpdateStateHook == [on |-> "UPDATE", command |-> FALSE, remote |-> FALSE]

\* Mutant: the hook that keeps the states is registered before the others.
HooksUpdateFirst ==
    IF \E i \in DOMAIN HookConf : StateHook(HookConf[i])
    THEN <<UpdateStateHook>> \o HookConf ELSE HookConf

Hooks ==
    IF \E i \in DOMAIN HookConf : StateHook(HookConf[i])
    THEN Append(HookConf, UpdateStateHook) ELSE HookConf

VARIABLES
    rows,       \* the state each VM has in the database
    mem,        \* its state in the object of the pool
    deployed,   \* the VMs that have a history
    lastOID,    \* the last oid given
    vm_states,  \* the states the hooks have seen, by oid
    mutex,      \* the owners of the mutex of the pool and of lex_mutex
    vmMutex,    \* the owner of the mutex of each VM
    job,        \* what each thread does: where it is, for which VM, at which hook
    ran,        \* history: the hooks executed, by VM and hook
    due,        \* history: the times a VM updated before entered the state of a hook
    updated,    \* history: the VMs updated since oned started
    updates, restarts

dbVars == <<rows, deployed>>
lockVars == <<mutex, vmMutex>>
countVars == <<updates, restarts>>
vars == <<rows, mem, deployed, lastOID, vm_states, mutex, vmMutex, job, ran, due,
          updated, updates, restarts>>

Idle == [pc |-> "idle", vm |-> 0, i |-> 0]
Places == {"idle", "allocate", "get", "lock", "change", "hooks", "lex", "parse",
           "context", "var", "varLock", "insert", "insertLock"}

TypeOK ==
    /\ rows \in [Oids -> States \cup {None}]
    /\ mem \in [Oids -> States \cup {None}]
    /\ deployed \subseteq Oids
    /\ lastOID \in -1..(MaxVMs - 1)
    /\ vm_states \in [Oids -> States \cup {None}]
    /\ mutex \in [{"pool", "lex"} -> Threads \cup {None}]
    /\ vmMutex \in [Oids -> Threads \cup {None}]
    /\ job \in [Threads -> [pc : Places, vm : Oids, i : 0..(Len(Hooks) + 1)]]
    \* the mutexes are held where the code holds them
    /\ \A t \in Threads :
         /\ (mutex["lex"] = t) = (job[t].pc \in {"parse", "var", "varLock"})
         /\ job[t].pc \in {"lock", "varLock", "insertLock"} => mutex["pool"] = t
         /\ t \in Handlers => ((vmMutex[job[t].vm] = t)
                                 = (job[t].pc \in {"change", "hooks", "lex", "parse"}))

Zero == [v \in Oids |-> [i \in DOMAIN Hooks |-> 0]]

Init ==
    /\ rows = [v \in Oids |-> None] /\ mem = [v \in Oids |-> None]
    /\ deployed = {}
    /\ lastOID = -1
    /\ vm_states = [v \in Oids |-> None]
    /\ mutex = [m \in {"pool", "lex"} |-> None]
    /\ vmMutex = [v \in Oids |-> None]
    /\ job = [t \in Threads |-> Idle]
    /\ ran = Zero /\ due = Zero
    /\ updated = {}
    /\ updates = 0 /\ restarts = 0
-----------------------------------------------------------------------------
At(t, pc) == job[t].pc = pc
Goes(t, pc) == job' = [job EXCEPT ![t].pc = pc]
Free(m) == mutex[m] = None
Take(m, t) == [mutex EXCEPT ![m] = t]
Release(m) == [mutex EXCEPT ![m] = None]

(* Hookable::do_hooks goes through the hooks in order, with the mask of      *)
(* PoolSQL::allocate for a request and that of PoolSQL::update for a handler. *)

\* VirtualMachineStateHook: whether it runs for a VM that is in state s.
Runs(i, s, seen) ==
    /\ StateHook(Hooks[i])
    /\ seen # None /\ seen # s
    /\ s = StateOf[Hooks[i].on]

Does(t, i) ==
    \/ t \in Requests /\ CreateHook(Hooks[i])
    \/ t \in Handlers /\ Hooks[i].on = "UPDATE"
    \/ t \in Handlers /\ Runs(i, mem[job[t].vm], vm_states[job[t].vm])

\* The hooks t has still to come to that do something.
Ahead(t) == {i \in DOMAIN Hooks : i >= job[t].i /\ Does(t, i)}

update_state(v, s) ==
    vm_states' = [vm_states EXCEPT ![v] = IF @ # None /\ s = "DONE" THEN None ELSE s]

DoHook(t) ==
    LET v == job[t].vm
    IN /\ At(t, "hooks")
       /\ \E i \in Ahead(t) :
            /\ \A j \in Ahead(t) : i <= j
            /\ IF Hooks[i].on = "UPDATE"
               THEN update_state(v, mem[v]) /\ job' = [job EXCEPT ![t].i = i + 1]
               ELSE job' = [job EXCEPT ![t] = [pc |-> "lex", vm |-> v, i |-> i]] /\ UNCHANGED vm_states
       /\ UNCHANGED <<dbVars, mem, lastOID, lockVars, ran, due, updated, countVars>>

ReadArguments(t) ==
    /\ At(t, "lex") /\ Free("lex")
    /\ mutex' = Take("lex", t)
    /\ Goes(t, "parse")
    /\ UNCHANGED <<dbVars, mem, lastOID, vm_states, vmMutex, ran, due, updated, countVars>>

\* The command goes to the driver, a remote one only for a VM with a history.
Execute(t) ==
    LET i == job[t].i
        v == job[t].vm
    IN /\ At(t, "parse")
       /\ mutex' = Release("lex")
       /\ ran' = IF t \in Handlers /\ (Hooks[i].remote => v \in deployed)
                 THEN [ran EXCEPT ![v][i] = @ + 1] ELSE ran
       /\ job' = [job EXCEPT ![t] = [pc |-> "hooks", vm |-> v, i |-> i + 1]]
       /\ UNCHANGED <<dbVars, mem, lastOID, vm_states, vmMutex, due, updated, countVars>>
-----------------------------------------------------------------------------
(* PoolSQL::allocate: the hooks run with the mutex of the pool held, and     *)
(* also when the VM could not be inserted.                                   *)

Allocate(r) ==
    /\ At(r, "idle") /\ lastOID + 1 < MaxVMs
    /\ Goes(r, "allocate")
    /\ UNCHANGED <<dbVars, mem, lastOID, vm_states, lockVars, ran, due, updated, countVars>>

Insert(r) ==
    /\ At(r, "allocate") /\ Free("pool") /\ lastOID + 1 < MaxVMs
    /\ mutex' = Take("pool", r)
    /\ job' = [job EXCEPT ![r] = [pc |-> "hooks", vm |-> lastOID + 1, i |-> 1]]
    /\ \/ \E s \in {"PENDING", "HOLD"} : rows' = [rows EXCEPT ![lastOID + 1] = s]
          /\ lastOID' = lastOID + 1
       \/ UNCHANGED <<rows, lastOID>>
    /\ UNCHANGED <<deployed, mem, vm_states, vmMutex, ran, due, updated, countVars>>

Allocated(r) ==
    /\ At(r, "hooks") /\ Ahead(r) = {}
    /\ mutex' = Release("pool")
    /\ Goes(r, IF rows[job[r].vm] # None /\ HasContext THEN "context" ELSE "idle")
    /\ UNCHANGED <<dbVars, mem, lastOID, vm_states, vmMutex, ran, due, updated, countVars>>

(* VirtualMachinePool::generate_context: the variables are replaced with     *)
(* lex_mutex held, and each takes the mutexes of the pool and of the VM.      *)

ReadContext(r) ==
    /\ At(r, "context") /\ Free("lex")
    /\ mutex' = Take("lex", r)
    /\ Goes(r, "var")
    /\ UNCHANGED <<dbVars, mem, lastOID, vm_states, vmMutex, ran, due, updated, countVars>>

\* PoolSQL::get of a VM that is there: the object is loaded if need be.
GetFor(t, pc, next) ==
    /\ At(t, pc) /\ Free("pool")
    /\ mutex' = Take("pool", t)
    /\ mem' = [mem EXCEPT ![job[t].vm] = IF @ = None THEN rows[job[t].vm] ELSE @]
    /\ Goes(t, next)
    /\ UNCHANGED <<dbVars, lastOID, vm_states, vmMutex, ran, due, updated, countVars>>

\* The VM is read, its mutex given back, and the text is complete.
ReadVariable(r) ==
    /\ At(r, "varLock") /\ vmMutex[job[r].vm] = None
    /\ mutex' = [mutex EXCEPT !["pool"] = None, !["lex"] = None]
    /\ Goes(r, "insert")
    /\ UNCHANGED <<dbVars, mem, lastOID, vm_states, vmMutex, ran, due, updated, countVars>>

InsertContext(r) ==
    /\ At(r, "insertLock") /\ vmMutex[job[r].vm] = None
    /\ mutex' = Release("pool")
    /\ Goes(r, "idle")
    /\ UNCHANGED <<dbVars, mem, lastOID, vm_states, vmMutex, ran, due, updated, countVars>>
-----------------------------------------------------------------------------
(* A handler gets its VM, changes its state, writes it, and the hooks of the *)
(* update run before it unlocks the VM.                                      *)

Moves(s) ==
    CASE s = "PENDING" -> {"HOLD", "ACTIVE", "DONE"}
      [] s = "HOLD" -> {"PENDING", "DONE"}
      [] s = "ACTIVE" -> {"ACTIVE", "RUNNING", "STOPPED", "DONE"}
      [] s = "RUNNING" -> {"RUNNING", "ACTIVE", "EPILOG"}
      [] s = "EPILOG" -> {"DONE"}
      [] s = "STOPPED" -> {"PENDING", "DONE"}
      [] OTHER -> {}

Get(h) ==
    /\ At(h, "idle") /\ updates < MaxUpdates
    /\ \E v \in Oids : rows[v] # None /\ job' = [job EXCEPT ![h] = [pc |-> "get", vm |-> v, i |-> 1]]
    /\ updates' = updates + 1
    /\ UNCHANGED <<dbVars, mem, lastOID, vm_states, lockVars, ran, due, updated, restarts>>

\* Mutant: the mutex of the pool stays taken once the VM is locked.
LockKeepsPool(h) ==
    /\ At(h, "lock") /\ vmMutex[job[h].vm] = None
    /\ vmMutex' = [vmMutex EXCEPT ![job[h].vm] = h]
    /\ mutex' = mutex
    /\ Goes(h, "change")
    /\ UNCHANGED <<dbVars, mem, lastOID, vm_states, ran, due, updated, countVars>>

Lock(h) ==
    /\ At(h, "lock") /\ vmMutex[job[h].vm] = None
    /\ vmMutex' = [vmMutex EXCEPT ![job[h].vm] = h]
    /\ mutex' = Release("pool")
    /\ Goes(h, "change")
    /\ UNCHANGED <<dbVars, mem, lastOID, vm_states, ran, due, updated, countVars>>

Executes(i, v) == Hooks[i].remote => v \in deployed'

Entered(v, s) ==
    [i \in DOMAIN Hooks |->
        IF v \in updated /\ Runs(i, s, rows[v]) /\ Executes(i, v) THEN 1 ELSE 0]

\* Mutant: the hooks run whether or not the VM was written.
ChangeRunsHooks(h) ==
    LET v == job[h].vm
    IN /\ At(h, "change")
       /\ \E s \in Moves(mem[v]) :
            /\ mem' = [mem EXCEPT ![v] = s]
            /\ deployed' = IF s = "ACTIVE" THEN deployed \cup {v} ELSE deployed
            /\ rows' \in {rows, [rows EXCEPT ![v] = s]}
            /\ due' = [due EXCEPT ![v] = [i \in DOMAIN Hooks |-> @[i] + Entered(v, s)[i]]]
            /\ updated' = updated \cup {v}
            /\ Goes(h, "hooks")
       /\ UNCHANGED <<lastOID, vm_states, lockVars, ran, countVars>>

\* PoolSQL::update.  A VM that cannot be written keeps its new state in memory.
Change(h) ==
    LET v == job[h].vm
    IN /\ At(h, "change")
       /\ \E s \in Moves(mem[v]) :
            /\ mem' = [mem EXCEPT ![v] = s]
            /\ deployed' = IF s = "ACTIVE" THEN deployed \cup {v} ELSE deployed
            /\ \/ rows' = [rows EXCEPT ![v] = s]
                  /\ due' = [due EXCEPT ![v] = [i \in DOMAIN Hooks |-> @[i] + Entered(v, s)[i]]]
                  /\ updated' = updated \cup {v}
                  /\ Goes(h, "hooks")
                  /\ UNCHANGED vmMutex
               \/ vmMutex' = [vmMutex EXCEPT ![v] = None]
                  /\ Goes(h, "idle")
                  /\ UNCHANGED <<rows, due, updated>>
       /\ UNCHANGED <<lastOID, vm_states, mutex, ran, countVars>>

\* The hooks are done, or the VM was in no state to change.
Unlock(h) ==
    /\ \/ At(h, "hooks") /\ Ahead(h) = {}
       \/ At(h, "change") /\ Moves(mem[job[h].vm]) = {}
    /\ vmMutex' = [vmMutex EXCEPT ![job[h].vm] = None]
    /\ Goes(h, "idle")
    /\ UNCHANGED <<dbVars, mem, lastOID, vm_states, mutex, ran, due, updated, countVars>>
-----------------------------------------------------------------------------
\* oned stops at any moment and is started again on its database.
Restart ==
    /\ restarts < MaxRestarts
    /\ restarts' = restarts + 1
    /\ mem' = [v \in Oids |-> None]
    /\ vm_states' = [v \in Oids |-> None]
    /\ \E o \in -1..(MaxVMs - 1) :
         /\ o # -1 => rows[o] # None
         /\ \A v \in Oids : rows[v] # None => v <= o
         /\ lastOID' = o
    /\ mutex' = [m \in {"pool", "lex"} |-> None]
    /\ vmMutex' = [v \in Oids |-> None]
    /\ job' = [t \in Threads |-> Idle]
    /\ ran' = Zero /\ due' = Zero
    /\ updated' = {}
    /\ UNCHANGED <<dbVars, updates>>

Next ==
    \/ \E r \in Requests : \/ Allocate(r) \/ Insert(r) \/ Allocated(r)
                           \/ ReadContext(r) \/ GetFor(r, "var", "varLock")
                           \/ ReadVariable(r) \/ GetFor(r, "insert", "insertLock")
                           \/ InsertContext(r)
    \/ \E h \in Handlers : \/ Get(h) \/ GetFor(h, "get", "lock") \/ Lock(h)
                           \/ Change(h) \/ Unlock(h)
    \/ \E t \in Threads : DoHook(t) \/ ReadArguments(t) \/ Execute(t)
    \/ Restart

Spec == Init /\ [][Next]_vars
-----------------------------------------------------------------------------
\* The thread that holds the mutex t waits for, if one does.
Awaited(t) ==
    CASE job[t].pc \in {"allocate", "get", "var", "insert"} -> mutex["pool"]
      [] job[t].pc \in {"lex", "context"} -> mutex["lex"]
      [] job[t].pc \in {"lock", "varLock", "insertLock"} -> vmMutex[job[t].vm]
      [] OTHER -> None

Circle(S) == S # {} /\ \A t \in S : Awaited(t) \in S

\* Threads that wait for each other do so because of lex_mutex: the mutexes of
\* the pool and of the VMs are taken in an order that cannot close a circle
\* without it (PoolSQL.cc:163, VirtualMachine.cc:892).
CirclesNeedLex == \A S \in SUBSET Threads : Circle(S) => mutex["lex"] \in S

\* A hook on a state runs once for each time a VM the hooks have seen enters
\* that state in the database, whatever updates failed in between
\* (VirtualMachineHook.cc:130-145).
EntriesAnswered == \A v \in Oids : vmMutex[v] = None => ran[v] = due[v]

\* When a hook on a state runs, the database has the VM in that state: what
\* the command does can count on a restart finding the VM there (PoolSQL.h:100).
HookTellsRow ==
    [][\A v \in Oids, i \in DOMAIN Hooks :
          ran'[v][i] > ran[v][i] => rows[v] = StateOf[Hooks[i].on]]_vars

\* No set of threads waits for one another: a call that allocates a VM returns
\* (VirtualMachinePool.h:48).
AllocateReturns == \A S \in SUBSET Threads : ~Circle(S)
=============================================================================
