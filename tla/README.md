# A TLA+ model of OpenNebula's virtual machine management

`oned`, the daemon of OpenNebula, keeps a pool of virtual machines and a pool of hosts, and
moves each virtual machine (VM) through a life cycle: it is submitted, deployed on a host,
migrated, suspended, stopped, resumed, shut down, deleted. The work is split between managers,
each a thread with a queue of actions, that lock one VM at a time and talk to driver processes.
A VM has one state given by the Dispatch Manager and one given by the Life-cycle Manager, a
stack of history records, capacity charged to hosts, and network leases; and every one of these
is changed by several threads, in an order that clients, drivers and queues decide together.
This directory models that part of the system handler by handler, and with it what stands around
it: the requests and their users, the drivers, monitoring, the scheduler, hooks, the parsers of
templates and expressions, the pools, the leases and the rows of the database. TLC checks the
models, and TLAPS checks theorems about them.

All source paths below are relative to the root of the repository.

## 1. The system: parts, state, operations

| part | state it keeps | operations | what makes it correct |
|---|---|---|---|
| Request Manager (`src/rm`) | none; authenticates, finds the objects | one XML-RPC method each for allocate, deploy, migrate, action, info of a VM; allocate/delete/enable of hosts, networks, users | an operation that is refused changes nothing; one that is accepted is carried out once |
| Dispatch Manager, DM (`src/dm`) | `state` of a VM (INIT, PENDING, HOLD, ACTIVE, STOPPED, SUSPENDED, DONE, FAILED) | synchronous functions called by the Request Manager; handlers SUSPEND_SUCCESS, STOP_SUCCESS, DONE, FAILED of its thread | a finished VM stays finished; leases are given back once |
| Life-cycle Manager, LCM (`src/lcm`) | `lcm_state` of an ACTIVE VM (PROLOG, BOOT, RUNNING, ... 17 values), the history records, the capacity of hosts | 10 handlers of what users ask for, 15 of what drivers answer | capacity is charged to exactly the hosts a VM occupies; every transient state is left |
| Virtual Machine Manager, VMM (`src/vmm`) | the drivers; the polling timer | deploy, save, shutdown, cancel, cancel previous, migrate, restore, poll, driver cancel; the handler of the drivers' answers | a command goes to the host the VM is on |
| Transfer Manager, TM (`src/tm`) | the drivers | prolog (3 kinds), epilog (2 kinds), the two clean-ups, driver cancel; the handler of answers | an answer is taken for the script that is running |
| VirtualMachine, History (`src/vm`) | states, current and previous record, leases | add_history, cp_history, cp_previous_history, get/release leases | a record exists when it is dereferenced |
| Host, HostShare (`src/host`) | cpu, memory and disk allocated, number of running VMs; monitoring | add_capacity, del_capacity, discover | the counters match the VMs |
| ActionManager (`src/common`) | the queue of a thread, its timer | trigger, loop | first in, first out; the timer runs |
| PoolSQL (`src/pool`) | a cache of objects over the database, the locks | allocate, get, replace, update | one object per row, no dead lock |
| Virtual networks, leases (`src/vnm`) | which address belongs to which VM | get, set, del, add | an address has one holder |
| MadManager, Mad (`src/mad`) | driver processes, their pipes, the descriptors the listener waits on | start, listen, reload, recover | answers reach the handler; a dead driver is replaced |
| Information Manager (`src/im`) | the state of each host, the last time it was monitored | a timer that takes ten hosts per round; the handler of answers | every enabled host is monitored; only users enable and disable |
| Scheduler (`src/scheduler`) | copies of hosts and pending VMs | set up, match, rank, dispatch | a host is not over-committed; a VM that fits is dispatched |
| Users (`src/um`) | the table of users, a map from names to oids | authenticate, allocate, drop | who is in the table can be authenticated, nobody else |
| Hooks (`src/hm`, `src/vm/VirtualMachineHook.cc`) | the states the hooks have seen | hooks on creation, on states, on updates | a hook runs once per change of state, and finds it in the database |
| Templates and expressions (`src/template`, `src/host/*.y`, `src/vm/vm_var_syntax.y`) | none | four parsers bison has written | a text means what its grammar says |
| Rows (`TemplateSQL.cc`, `History.cc`, `HostShare.cc`, ...) | the tables an object is written to | insert, update, select, drop | what is read back is what was written |
| Start and stop, clients, cloud servers | - | - | - |

**How they interact.** Clients and the scheduler call the Request Manager; its threads call DM
functions with the VM locked. The DM queues an action for the LCM (`lcm->trigger`); the LCM
changes the VM and the capacity of hosts and queues actions for the VMM and the TM; these send
commands and scripts to drivers over pipes; the answers arrive in the thread of the MadManager,
which queues actions for the LCM; the LCM tells the DM that an activation has ended. So every
queue is fed by several threads, there is no order between queues, and each handler finds the
VM as the handlers before it have left it, not as it was when the action was queued.

**What is hard.** The handlers of drivers' answers mostly do not look at the state of the VM.
The answer of the transfer driver does not say which script it answers. A driver works on
several commands at once, so that answers arrive in any order and arbitrarily late. A cancelled
command may or may not have had its effect. Polls report what a VM was, not what it is. Some
operations unlock the VM before they queue the action. A write of a history record may fail
after the record has been added. Objects are written statement by statement, without a
transaction. The pools, their objects and the mutex of the parser are locked by several threads in
orders nobody has written down. The scheduler decides with copies that are old when it uses them. The `hazards` of `PROJECT.json` list these at their lines.

## 2. The modules

| module | models | of |
|---|---|---|
| `NebulaCore` | the shared state, the history records, the capacity counters, the queues, the initial state, `TypeOK` | `VirtualMachine.{h,cc}`, `History.{h,cc}`, `HostPool.h`, `ActionManager.cc` |
| `RequestManager` | what clients ask for, down to the DM function it ends in | `src/rm/RequestManager{Allocate,Deploy,Migrate,Action}.cc`, `src/dm/DispatchManagerActions.cc` |
| `DispatchManager` | the four handlers of the DM thread | `src/dm/DispatchManagerStates.cc` |
| `LifeCycleManager` | the 25 handlers of the LCM thread | `src/lcm/*.cc` |
| `VirtualMachineManager` | the nine handlers of the VMM thread, its timer, the handler of the answers, and the hypervisors (external) | `src/vmm/*.cc` |
| `TransferManager` | the eight handlers of the TM thread and the handler of the answers | `src/tm/*.cc` |
| `OpenNebula` | all of them together, fairness, the properties | the threads `src/nebula/Nebula.cc` starts |
| `VmLifeCycle` | the abstract specification: what a client is promised of a VM | - |
| `MCOpenNebula` | the instances of `OpenNebula` TLC checks | - |
| `OpenNebulaProofs` | theorems about `OpenNebula` and their proofs | - |
| `ActionLoop` | the queue, the loop and the timer every manager is built on | `src/common/ActionManager.cc` |
| `ObjectPool` | a pool of objects cached over the database, its locks, and what threads do with objects | `src/pool/PoolSQL.cc`, `include/PoolObjectSQL.h`, callers in `src/host`, `src/vm`, `src/rm`, `src/um` |
| `ThreadProofs` | theorems about `ActionLoop` and `ObjectPool` | - |
| `NetworkLeases` | virtual networks, their leases in memory and in the database, the leases of VMs | `src/vnm/*.cc`, `get_`/`release_network_leases` of `src/vm/VirtualMachine.cc` |
| `MCNetworkLeases` | the instances of `NetworkLeases` TLC checks | - |
| `LeaseProofs` | theorems about it | - |
| `HostObject` | the states of a host and its share: what touches, charges and releases it | `src/host/Host.cc`, `src/host/HostShare.cc`, `include/Host.h`, `include/HostShare.h` |
| `MadManager` | the drivers of a manager, their pipes, the listener, drivers that end | `src/mad/MadManager.cc`, `src/mad/Mad.cc` |
| `InformationManager` | monitoring: `MadManager` and `HostObject` with the timer, the round, the answers, the users | `src/im/*.cc`, `HostPool::discover` |
| `InformationProofs` | theorems about it | - |
| `Cluster` | oned as the scheduler sees it: hosts, VMs, the deploy call, and who changes them meanwhile | `src/host/HostPool.cc`, `include/HostPool.h`, `src/rm/RequestManagerDeploy.cc`, `RequestManagerHost*.cc` |
| `Scheduler` | a round of `mm_sched` over `Cluster` | `src/scheduler/*.cc`, `RankPolicy.h` |
| `MCInformationManager`, `MCScheduler` | their instances | - |
| `SchedulerProofs` | theorems about `Scheduler` | - |
| `Requests` | the XML-RPC methods as the server's threads run them: users, authentication, ownership, the locks of the four pools, rows | `src/rm/*.cc`, `src/um/*.cc`, `PoolSQL::get` |
| `RequestProofs` | theorems about it | - |
| `VmHooks`, `MCVmHooks` | the hooks of the VM pool, the context of a new VM, and the three mutexes on the way; their instance | `src/vm/VirtualMachineHook.cc`, `VirtualMachinePool.cc`, `PoolSQL.{h,cc}`, `src/hm` |
| `HookProofs` | theorems about it | - |
| `Parser` | `yyparse`, the automaton bison wrote into each of the four parsers | `src/host/host_requirements.cc` and its three siblings |
| `HostRequirements`, `HostRank`, `TemplateSyntax`, `VmVarSyntax` | the tables and the actions of one parser each, its scanner's tokens, and the reference reading of its grammar | `src/host/*.{y,cc}`, `src/template/*.{y,cc}`, `src/vm/vm_var*` |
| `MCParser` | the texts TLC runs them on | - |
| `Rows` | the rows VMs, hosts and networks are made of, written statement by statement | `src/template/TemplateSQL.cc`, `src/vm/{VirtualMachine,VirtualMachinePool,History}.cc`, `src/host/{Host,HostShare}.cc`, `src/vnm/VirtualNetwork.cc` |
| `RowsProofs` | theorems about it | - |

### The core: `OpenNebula`

**State.** `state` and `lcm` are `vm->state` and `vm->lcm_state`; `cur` and `prev` are the two
records a VM keeps in memory (`history`, `previous_history`), reduced to the host and the reason
the VM left it (`NoHost`: there is no record); times, names and paths are left out. `usage[h]`
is `HostShare::running_vms`, which `add` and `del` move together with cpu, memory and disk: all
VMs ask for the same, so the one counter stands for the four. `dmq`, `lcmq`, `vmmq`, `tmq` are
the `actions` queues of the four ActionManagers. `commands[v]` and `transfers[v]` are what has
been written to the pipes of the drivers and has not been answered; `domains[v]` is where
hypervisors really have a domain of the VM. `leases[v]` counts how often the VM has taken its
leases less how often it has given them back. `cancelling` holds the VMs whose `cancel` has
unlocked the VM and not yet queued its action. `requests` and `polls` only bound the runs.

**Actions.** A handler holds the lock of its VM from `vmpool->get(vid,true)` to `vm->unlock()`,
and what it does in between to the host pool, the queues and the database is atomic for every
other handler of that VM; handlers of two VMs only share the counters, each moved under its
host's lock, and the queues. So one handler is one action, with every change it makes: states,
records, counters, and the actions it queues, in their order. Where a function unlocks early
(`DispatchManager::cancel`), there are two actions. The path of a handler that gives up (no
record, no driver, a file that cannot be written) is the second disjunct of `VmmSend` and
`TmSend`; whether the driver can be reached is nondeterministic. An operation that the state of
the VM forbids answers an error and is not an action. The thread of a manager takes the entry at
the head of its queue. A driver may carry out a command or not (`Effect`), answers in any order,
and may lose what DRIVER_CANCEL kills.

`VmmTimer` merges the two steps of `timer_action` (the SQL search, then the lock of each VM): a
VM that changes in between is polled although it is not running any more, which is the same as a
poll that was sent just before the change and is still unanswered.

**The environment.** `FastManagers` says how clients and drivers relate to the managers. `TRUE`:
they act on a VM only when no manager has anything queued for it (`Settled`), which is the
regime the system is built for - drivers take seconds to minutes, handlers milliseconds. `FALSE`:
any interleaving at all. Exactness of the capacity holds only in the first regime, and section 5
shows what breaks it in the second; what must hold in every race is checked in the second.

### The parts under the core

`OpenNebula` takes three things for granted: that a manager's queue is a sequence whose entries
are taken one after the other, that a handler that has locked a VM is alone with it, and that
leases are a counter. The other three modules look into these.

`ActionLoop` has one action per stretch of code that holds the mutex of the queue, and one for
`do_action`. `timer` is the parameter of `loop`, `remaining` what is left of its period,
`signalled` a wake-up that has not been noticed. Spurious wake-ups happen at any time. A request
is triggered again only when its last one has been handled, which bounds the queue.

`ObjectPool` has the steps of a `get` (look in the cache, wait for the object or load it, replace
another one), between which other threads run, with the mutex of the pool and one for each
object. What happens to an object depends on the pool, `kind`: users are read without a lock,
hosts and VMs are written back, hosts, networks and users are dropped, a VM may be unlocked twice
(`UnlockAgain`) and a network left locked (`LeaveLocked`), as the code does. `live[t]` says
whether the pointer thread `t` has got is still good. A thread uses one object of the pool at a
time. `MaxQueue` bounds the loads, because nothing ever takes an entry out of `oid_queue`.

`NetworkLeases` keeps a lease three times, as the code does: in the row of the database, in the
network object in memory (`leases`, gone when the object is evicted), and in the NICs of the VM.
`NicLists` are the templates of VMs, `block` the addresses the mask of a RANGED network covers
and `ips` those it hands out. One action is one turn of the loop over the NICs, because the
network is unlocked in between and other VMs release theirs. `scenario` says what else may
happen: networks that replace others of the same name, networks that are dropped, restarts at
any moment, statements that fail (for a `get` or `set`, the whole request fails).

`Rows` looks into what a write is. An operation is a sequence of statements (`todo`), each of which
succeeds or fails (`exec` has tried ten times then), and oned may stop between any two. The rows a
thread is going to write are the ones the object in memory would be: so memory is a set of rows as
well, and `ReadBack` compares what `select` would load with it. `lost` holds the objects a statement
of which has failed, `dropping` those whose parts somebody has begun to delete. `if` says what a
failure does: most parts of an operation end it ("abort"), a VM's handlers go on with the next part
("go on"), and a template that could not be written is deleted ("undo"). What comes after the row of
a new object is there as well. The CONTEXT of a VM is kept apart and written by the request that has
created the VM, once it has the VM back from the pool, when others may have loaded and changed it:
`context` says of each VM whether it is due, written or given up. A RANGED network without an address
is refused when its row is there (`RefuseNetwork`): its template is deleted, and then oned dereferences
the leases it has not got, so that only `Restart` is left. The other networks are RANGED, too: no
statement follows the row of these. The lease rows that follow that of a FIXED one are
`NetworkLeases`', the single row of a user is in `Requests`; two networks of one name are
`NetworkLeases`' too. The errors of `insert` for a network of no type, or without memory for its
leases, cannot occur: the pool sets one of the two types, and `new` returns no null pointer.

### Requests and hooks

`Requests` gives each XML-RPC method as the sequence of its steps at which another thread may come
in: it finds the user of the session in `known_users`, which nobody locks; `get` locks the pool and
waits for the object with the pool locked; `authenticate`, an insert, an update, a drop each take
what they take. `execute(m)` is the program of method `m`, read off its source; `todo[t]` is what
thread `t` has left of it. Every error path is `Refuse`. A deleted user whose oid is still known is
dereferenced as a null pointer: that is `down`, and only `Restart` leaves it. The methods left out of
the instance are a prefix of, or the same with another pool as, one that is in it. `OneAtATime` keeps
two requests from creating or deleting users of the same name at once, and `InsertsFail` leaves out
the users: section 5 says what goes wrong otherwise.

`VmHooks` has two kinds of threads, requests that allocate a VM (and generate its context) and
handlers that change one. `job[t]` is where a thread is. The three mutexes are in `mutex` and
`vmMutex`. `do_hooks` goes through the hooks in the order the constructor of the pool has registered
them; a hook on a state compares the state with the one the hooks have seen before (`vm_states`),
which the last hook keeps. `ran` counts what has been executed, `due` what should have been.
Contexts and arguments whose text does not parse are left out.

### Monitoring and scheduling

`MadManager` has the file descriptors as numbers, because it matters which: the listener finds the
driver of a ready descriptor by its position in `fds`, which is not filled again when a driver is
loaded again. It is right only because the operating system gives the lowest free numbers. `requests`
and `answers` are bags: a driver works on several things at once. `InformationManager` instantiates
`Messages` with the hosts; ages count periods of the timer, up to the 600 seconds after which a
host is given up. `LIMIT` is the ten of the code.

`Scheduler` is a process of its own: it reads hosts, VMs and each host in separate statements and
then dispatches, VM by VM, to the best host of its copies. `Cluster` is what it reads, and the
managers behind the deploy call: the VM is `promised` until the Life-cycle Manager takes the action
and charges the host. `HostObject` is shared with `InformationManager`.

### Parsers

`Parser` is the automaton: the stack of states, of values, the token looked at, the start condition
of the scanner. `TablesOf(g)` are the arrays of the generated file, number for number, and `Action`
the code of each rule. The scanner is asked for a token and any token may come, so that all texts of
up to `MaxTokens` tokens are parsed. Each of the four modules also defines `Reading`, the meaning of
a text by its grammar, without the tables: a function over the tokens. The four copies of `yyparse`
are the same but for names; `map` points at the one of `host_requirements.cc`. What a scanner does
with single characters, and the wording of errors, is left out.

## 3. What is checked

Every run is `tlc -config <run>.cfg <module>`. Deadlock is not checked: a system in which all VMs
are done, in which the bounded requests are spent and all is idle, whose loop has been told to
end, or which leaves a lock behind, stops.

| run | module | instance | states | properties | what it shows |
|---|---|---|---|---|---|
| `settled` | `MCOpenNebula` | 1 VM, 2 hosts, 6 requests, 1 poll, settled managers, all operations but restart, fairness | 130 000 | `TypeOK`, `CapacityExact`, `DomainsCharged`, `OneDomain`, `LeasesHeldOnce`, `ImplementsLifeCycle` | the counters of the hosts are exactly the VMs on, going to and coming from them; a domain only exists on a host charged for it, and on one only; leases are held from submission to DONE; the managers implement `VmLifeCycle`, liveness included - in every order of requests and of late, failed or lost answers |
| `pair` | `MCOpenNebula` | 2 VMs, 2 hosts, 4 requests of 4 operations, 1 poll | 201 000 | `CapacityExact` | VMs that share hosts and queues do not disturb each other's capacity |
| `any_order` | `MCOpenNebula` | 1 VM, 2 hosts, 3 requests, every interleaving, all operations, database errors, fairness | 109 000 | `RecordsExist`, `NoLeaseLeaks`, `NoRevival`, `Progress` | no handler dereferences a record that is not there; a finished VM keeps no lease; FAILED and DONE are never left for anything else; no VM stays for ever in a state in which it waits for a manager or a driver |
| `loop` | `ActionLoop` | 3 jobs, no timer or one of 2 seconds | 5 700 | `OneTimer`, `EachHandled`, `TimerRuns` | no wake-up is lost; the timer is never queued twice, and runs unless actions keep arriving |
| `leases` | `MCNetworkLeases` | 2 VMs of 1 or 2 NICs, a FIXED and a RANGED network of 2 addresses, 3 oids; either networks are dropped, or oned restarts and statements fail | 1 036 000 | `AddressHeldOnce`, `LeasesRemembered`, `RefusedOnlyWhenFull` | no address is leased twice; eviction and restart forget none; a VM is refused only when all are held |
| `pool` | `ObjectPool` | 2 threads, 3 oids, a cache of 1, 4 loads, each kind of pool, fairness | 168 000 | `TypeOK`, `UsersAreAlone`, `GetReturns` | a locked object has one user and stays in memory; `get` returns although it waits with the pool locked |
| `rows` | `Rows` | a pool of VMs, of hosts or of networks, 2 objects, 5 operations | 463 000 | `ReadBack`, `ListedIsWhole` | what is in memory is what would be read back; what is listed has its parts, and not those of another object - whatever fails and wherever oned stops, but for a CONTEXT that was never written and a network that is being refused |
| `monitoring` | `MCInformationManager` | 2 hosts, each of its own driver, drivers that end twice and may not start again, rounds of 1, another thread that opens files, 1 change by users, fairness | 97 000 | `MonitoringIsAsked`, `OnlyUsersEnable`, `RestartKeepsPipes`, `MonitoredAgain` | a host is MONITORING only when its driver has been asked; no late answer enables a host; loading a driver again leaves the pipes of the others alone; every enabled host is monitored again |
| `cluster` | `MCScheduler` | 3 VMs, 2 hosts, a VM without MEMORY, 1 error, 1 operation of users, 1 report or change of a host, fairness | 603 000 | `SchedulerFits`, `HostUsage`, `Dispatched` | the scheduler promises no host more than it has; a host is charged for what it runs; a VM that fits is dispatched |
| `requests` | `Requests` | 2 threads, 8 methods over the 4 pools, 3 requests, inserts that fail, 1 restart, fairness | 463 000 | `LocksReleased`, `KnownIsTable`, `Answered`, `OnlyOwners` | every request is answered whatever the others lock, leaves nothing locked, deletes only what its user may delete; the names oned knows are those of the table |
| `hooks` | `MCVmHooks` | 2 requests, 2 handlers, 2 VMs, 6 hooks in `oned.conf`, 3 updates, 1 restart | 1 917 000 | `CirclesNeedLex`, `EntriesAnswered`, `HookTellsRow` | threads block each other in a circle only by way of `lex_mutex`; a hook runs once each time a VM enters its state, and finds it in the database |
| `parsers` | `MCParser` | all texts of up to 11 (requirements, templates of VMs), 9 (variables), 8 (templates of hosts), 6 (rank) tokens | 8 000 000 | `RequirementsRead`, `RankRead`, `TemplatesRead`, `VariablesRead` | the tables accept the texts of the grammars and compute what these say, up to the token at which a text is refused |

Type invariants were checked for every module; the configurations keep those of the core and of the
pool, the others are in the modules as documentation of the state and for proofs.

*Why the bounds are enough.* One request is needed to deploy a VM. Three are enough for a race
between two operations on a running VM (deploy, migrate, finalize); four to six add a second
migration, a resume and a second activation, after which the records, which only go two deep,
have been overwritten completely and the states repeat. Two hosts suffice because a VM is on at
most two, the current and the previous; deploying on and migrating to the same host is included.
One poll is the only kind of command that can be outstanding beside another for an arbitrary
time; `MaxPolls` bounds those of the timer only, the polls the LCM asks for are not bounded.
`any_order` has no poll of the timer: with one its safety properties held as well (590 000 states),
but their check with `Progress` does not end in minutes. One
outstanding `cancel` per VM is allowed. Two VMs interact only through queues and counters, which
`pair` covers. Symmetry is used in runs without liveness only.

In `loop` three jobs make a queue that holds one in front of and one behind the timer; a period
of two is a wait that can be interrupted before its end. In `leases` two VMs compete for two
addresses with up to two NICs each, so that a network can be full, and searches go around; three
oids allow a network to be deleted and created again. The networks have no address in common and
no name is used twice: section 5 shows what happens otherwise. In `pool` a cache of one with
three objects makes every load replace, and two threads are the user and the one who replaces;
the third load finds the entries the first two have left in the queue.

In `rows` five operations are enough to create a VM, lose part of it, create another with its oid and
change both, and to deploy one three times so that the record before the last but one is forgotten; two
objects are one and another whose rows it could take or lose (with a third one and the same five
operations both properties hold as well, 857 000 states);
the three pools run apart, because no statement concerns two of them. In `monitoring` a round takes
one of two hosts, so that the other waits, and a host that cannot be monitored fills a round;
`EXPIRES` is twice the interval; one death shows a host forgotten by its driver. Two deaths are both
drivers, which are started again one after the other while both have ended, or one of them twice; and a
restart or a file that another thread has open can move the descriptors. `OneMad` gives all hosts one
driver: three hosts, rounds of two and one death were checked with it (236 000 states), and with
`MadOfHost` (914 000 states); three hosts, two drivers and two deaths do not end in minutes. In
`cluster` three VMs compete
for two hosts of two units, one may only use the first, one prefers the second, one asks for nothing,
and VM and host oids differ in what comes first. In `requests` two threads hold what a circle of two
needs; a third request comes when one of them has ended; the methods are one of each kind. In
`hooks` two requests and two handlers are the most a circle of the three mutexes can involve. In
`parsers` 11 tokens are two tests with negation and parentheses around them, or a vector of two
pairs; the stack is bounded near the depth these texts reach, so that its exhaustion happens.

*Fairness.* The four manager threads and the end of a cancel request are weakly fair: threads are
scheduled, and a handler only blocks on the lock of one VM. VMM and TM drivers are weakly fair
for each VM: a driver answers what it is sent, in whatever way and order. This is the assumption
of the code, which has no timeout of its own on commands (`MadManager` has drivers that die; in
the core they do not). Clients and the timer are not fair. In `ActionLoop` the thread of the loop is fair and
time passes; nobody has to trigger anything, and spurious wake-ups need not happen. In `ObjectPool`
a thread is fair in `get` and in unlocking what it has locked (`Leave`): no handler waits for
anything but drivers' pipes and locks in between. In `InformationManager` the timer runs
(`Discover`), its thread takes the hosts of a round (`LookAt`), the listener listens (`Listen`), and a
driver that lives answers what it was asked (`DriverAnswers`); drivers need not die, files need not be
closed, users need not act. In `Scheduler` the process does its rounds (`Round`) and oned takes the
queued action (`Charge`); a VM need never end. In `Requests` each thread takes its steps; nobody has
to call, and oned need not be started again after a crash.

*The abstract specification.* `VmLifeCycle` has a `status` (ACTIVE divided in DISPATCHED, PLACED
and LEFT), the hosts charged and whether leases are held, and says: a VM takes capacity once per
activation, migrates by reserving a second host and settling on one, gives all back before the
activation ends, gives its leases back exactly when it is done, is never revived; an activation
that has begun takes its capacity and one that has given it back ends. `OpenNebula` maps to it
with `Status`, `HostsOf` and `leases > 0`: a VM is DISPATCHED while a DEPLOY or RESTORE is queued,
PLACED while `Charged` names a host. It is checked in the settled regime.

## 4. What is proved

The theorems are for any sets of VMs, hosts, networks, threads, jobs, objects, drivers and hooks, any
operations and any bounds. The assumptions on the constants are the named ones of the modules:
`CoreAssumption`, `ObjectPoolAssumption`, `ActionLoopAssumption`, `HooksAssumption`,
`InformationAssumption`, `MadAssumption` (finitely many drivers), `ClusterAssumption`,
`SchedulerAssumption`, `RequestsAssumption`, `NetworkLeasesAssumption`, `RowsAssumption`. TLC evaluates each of them.

Some theorems have a hypothesis, written in front of `Spec`. Each of them is the setting of the run
that checks the property, and without it the property is false of the code:

* `Steady` (`OpenNebulaProofs`): `FastManagers`, no database errors, no `restart`. If clients and
  drivers do not wait for the managers, a failure handled late takes capacity back twice; a `restart`
  sends a VM in BOOT a second DEPLOY, and it may get a second domain (section 5); and a `deploy` or a
  `migrate` whose record cannot be written leaves the VM with a record of a host it is not on.
* `LcmIsPrompt` (`SchedulerProofs`): a VM is charged before the next round of the scheduler starts.
  Otherwise two rounds give the same capacity away.
* `"users" \notin InsertsFail` (`RequestProofs`): a user that could not be inserted stays in the map
  of names.
* `NothingReplaced` and `BlocksApart` (`LeaseProofs`): no network takes the place of one of the same
  name, and no two networks have an address in common: the rows of leases are updated by address only.

| theorem | module | says | hypothesis |
|---|---|---|---|
| `TypeCorrect` | `OpenNebulaProofs` | `[]TypeOK` | - |
| `RecordsAlwaysExist` | `OpenNebulaProofs` | `[]RecordsExist` | - |
| `NeverRevived` | `OpenNebulaProofs` | `NoRevival` | - |
| `LeasesNeverLeak` | `OpenNebulaProofs` | `[]NoLeaseLeaks` | - |
| `CapacityIsExact` | `OpenNebulaProofs` | `[]CapacityExact` | `Steady` |
| `OneDomainEach` | `OpenNebulaProofs` | `[]OneDomain` | `Steady` |
| `RunningIsCharged` | `OpenNebulaProofs` | `[]DomainsCharged` | `Steady` |
| `LeasesOnce` | `OpenNebulaProofs` | `[]LeasesHeldOnce` | `Steady` |
| `LifeCycleKept` | `OpenNebulaProofs` | `LifeCycle!Init /\ [][LifeCycle!Next]_...`: `ImplementsLifeCycle` but for its fairness | `Steady` |
| `PoolTypeCorrect` | `ThreadProofs` | `[]TypeOK` | - |
| `LockedObjectsAreOwned` | `ThreadProofs` | `[]UsersAreAlone` | - |
| `TimerIsNeverQueuedTwice` | `ThreadProofs` | `[]OneTimer` | - |
| `CirclesAlwaysNeedLex` | `HookProofs` | `[]CirclesNeedLex` | - |
| `HooksAnswerEntries` | `HookProofs` | `[]EntriesAnswered` | - |
| `CommandsFindTheRow` | `HookProofs` | `HookTellsRow` | - |
| `OnlyUsersEver` | `InformationProofs` | `OnlyUsersEnable` | - |
| `RestartsKeepPipes` | `InformationProofs` | `RestartKeepsPipes` | - |
| `MonitoringHasBeenAsked` | `InformationProofs` | `[]MonitoringIsAsked` | - |
| `UsageIsExact` | `SchedulerProofs` | `[]HostUsage` | - |
| `HostsFit` | `SchedulerProofs` | `[]SchedulerFits` | `LcmIsPrompt` |
| `AnsweredHoldNothing` | `RequestProofs` | `[]LocksReleased` | - |
| `DeletedForOwners` | `RequestProofs` | `OnlyOwners` | - |
| `MapIsTable` | `RequestProofs` | `[]KnownIsTable` | `"users" \notin InsertsFail` |
| `AddressesHeldOnce` | `LeaseProofs` | `[]AddressHeldOnce` | `NothingReplaced`, `BlocksApart` |
| `LeasesStay` | `LeaseProofs` | `[]LeasesRemembered` | `NothingReplaced`, `BlocksApart` |
| `FullWhenRefused` | `LeaseProofs` | `RefusedOnlyWhenFull` | `NothingReplaced`, `BlocksApart` |
| `RowsInvariant` | `RowsProofs` | `[]Inv`, the invariant of the rows | - |
| `RowsReadBack` | `RowsProofs` | `[]ReadBack` | - |
| `RowsListedIsWhole` | `RowsProofs` | `[]ListedIsWhole` | - |

### The core

`TypeOK` has one lemma per manager and one step per handler, on lemmas about the queue operators
(`TriggerType`, `TailType`, `RemoveAtType`).

`RecordsExist` with `TypeOK` is inductive as it stands, because it says which queued actions,
outstanding commands and states need a record, not only that the handler at the head of a queue
finds it. A step of one VM leaves the needs of the others alone (`Touches`); it never takes a
record away; and it asks for a handler that needs the previous record only when it has one
(`Plain`, `TouchesRecords`). That a queue has been fed nothing but actions of one kind for one VM
is `Fed`, with a lemma for each way queues change.

For `NoRevival` and `NoLeaseLeaks` only requests and the Dispatch Manager matter: nobody else changes
states and leases (`OthersKeepStates`), and their changes are listed with the states they start from
(`RequestStates`, `DmStates`). These four hold in every interleaving.

None of the others is inductive, or nearly so: that a handler of the Life-cycle Manager takes back what
was charged depends on which answer is in its queue, that on what the driver was sent, and that on
what the Virtual Machine Manager was asked for. The invariant is `Places`: every VM is at one of nine
places, each of which says who has something to do for it, with what, and where it may have a domain:

* `Resting` (not active, nothing to do), `Waiting` (a driver works, or the VM runs), `Over` (finished);
* `AskedFor` (the LCM has one entry, of a kind its state `Awaits`), `Cancelling` (between the unlock
  and the trigger of cancel), `Ordering` (the VMM has one entry, which `Serves` the state), `Moving`
  (the TM has one script), `Leaving` (the DM is told), `Ending` (deleted or failed, the DM is told).

A driver may still work for a VM that is deleted; what it is sent to, and what cleans up after it, is
`Remains`. There is one lemma per handler, which shows `Keeps(v)`: the VM of the handler goes to a
place, all other VMs are `Untouched`, and the counters change by what the VM is charged more or less
(`Booked`). From the last, `Booking` gets `CapacityInv` by counting the two sets of charges; the others
follow from the places. The regime is needed at one point, but there for everything: a client or a
driver only meets a VM that is `Resting`, `Waiting` or `Over`.

The refinement rests on the same places. `Shows(v)` lists what the step of a VM may show of it: nothing,
or one of the steps of `VmLifeCycle`. What handlers of the LCM do to the hosts charged is one of five
things (`LcmEffect`): nothing, all given back, one of two given back, a second one charged, the first
one charged. `LcmActionShows` and `LcmAnswerShows` find for each handler which it is, and
`LcmEffectShows` what clients see of it. Managers' requests and drivers' answers that are only queued
show nothing (`QuietShowsNothing`). `ShownStep` puts the functions of `VmLifeCycle` together.

### The parts around it

`UsersAreAlone` is not inductive. `Inv` adds that one thread at most is in `get` (`OneInGet`), that
whoever is in `replace` finds the queue not empty (`Found`), and that what a thread has locked is
marked as its own from the moment it is loaded, through `replace`, until it is unlocked (`Held`).
An object that is deleted is locked by nobody, so it is nobody's; an object that a thread is
waiting for is safe because that thread has the pool. The two ways in which the code breaks this
are visible in the statement: a VM may be unlocked twice, and is excepted.

`OneTimer`: a thread that waits has no timer behind it, because it only waits when the queue is empty
and only it queues the timer; a late timer keeps `remaining` at 0 until it has run.

`CirclesNeedLex` speaks of the threads that hold what others wait for, so its invariant says where
the holder of a mutex can be: with the mutex of the pool, in front of the lock of a VM, or, a request,
among the hooks of its new VM (`PoolHeld`); with the mutex of a VM, changing it or among its hooks
(`VmsHeld`). From it the absence of circles follows for any number of threads: who holds a VM waits
for `lex_mutex` or nothing, so who waits for a VM cannot be in a circle without it, so who holds the
pool cannot either, so who waits for the pool cannot. With `lex_mutex` there is a circle (section 5).

`EntriesAnswered` and `HookTellsRow` have one invariant, `HookInv`. For a VM nobody holds, each hook has
run as often as it was due, and the state last seen is the one in the row; for one a handler holds
among its hooks, the hooks in front of the handler have answered the entry, the ones behind it are one
behind, and what they compare with is still the state before; the row has been written by then. The
order of the hooks matters at one point only: the one that keeps the states is the last.

`OnlyUsersEnable`: every step but those of users leaves each host on its side of DISABLED: an answer
because of the tests in `Touch`, the timer because it takes only hosts that are enabled.
`RestartKeepsPipes` is about numbers: every descriptor has one owner, pipe `i` is made of 2i-1 and 2i
as long as no file is open beside them, and the two lowest free numbers when driver `i` is started
again are then the two it had, which is counted (of the free numbers `Below` each of them) rather than assumed. `MonitoringIsAsked`
needs, until a driver ends, that positions which are ready have an answer, and that a host in
MONITORING is somewhere among requests and answers: both are bags, so this is the sum of two counts.

`HostUsage` says that a counter is a sum over the VMs charged, and `SchedulerFits` that a sum is below a
limit. Sums over finite sets are folds; the lemmas about them (adding an element, removing one, a
smaller set) are proved by induction over the size and the subsets of the set. The invariant of `SchedulerFits`, `CopiesCover`,
says what a round may trust: the copy of a host counts at least the VMs of the scheduler's choice that are on
it or promised to it, and gives it no more room than it has. A copy goes stale, but only to the safe side:
meanwhile others suspend and delete VMs, and nobody but the round adds one of the scheduler's choice - which
needs the round before to be over, so `LcmIsPrompt`.

The invariant of `Requests` reads the steps a request has left (`todo`): whoever holds a mutex or an
object has the step that lets it go before the end of its list, on every branch that `Refuse` can take;
what a request deletes was found to be its user's, or the user is oneadmin. `KnownIsTable` adds who is
between the change of the map and that of the table.

The invariant of `NetworkLeases` is about the memory of a network *when it is next looked at*
(`memory`): what is in the object if it is cached, and what the database would make of it if not. A
step that writes one of the two moves the other, and evicting or restarting changes nothing of it. An
address VMs hold is used in that memory, and by one VM; a search that comes around has seen all.

`ReadBack` and `ListedIsWhole` are true between operations and not, by themselves, kept by their
statements: in the middle of an update the rows are half old and half new. The invariant of `Rows` says
what the statements left (`Left`) will make of them:

* `Task`: which statements each operation can have left. A new object writes rows of a template no
  object has, or deletes them again; an update writes what the object in memory knows (`Updates`), a
  drop clears; a network that is refused has its row written and then its template deleted. The row
  of the object comes last, but for VMs that are updated and for that rollback.
* `Whole`: an object whose row is there has its share or its attributes; and the row of an object is
  only written when the rows, with those still to be written, have them. So an allocation that fails,
  or is cut off, leaves parts without an object and never an object without its parts.
* `Contexts`: the template of a VM in the tables has a CONTEXT exactly when it was written. That needs
  the template of a new VM to have had none, not even of a VM that was never completed (`Allocates`).
* `Written`: the rows read back as the object in memory once all that is due has been written over
  them (`Rewrite`). A statement that succeeds moves a row from what is due to the rows (`RewriteRest`);
  one that fails makes the object `lost`.
* `Keys`, `Known`, `BelowLast`: no two rows of one key, a template has one object, what is in memory is
  of one object, and no oid above `lastOID` is in use, also after a restart has read it back. Through
  these a statement of one object leaves what is read of all others alone (`SelectKept`). That the
  template of a new VM is nobody's (`TemplateIsNew`) needs `Whole`: its number is one more than the
  greatest among the attributes, so every VM must have some.

A host is rewritten whole, so that an update that succeeds makes good what failed before: that is why
`Written` speaks of hosts that are lost. A VM's handlers write some of its parts, one of which may fail
and the others be written, so for a VM that is lost nothing is claimed until it has been loaded again.
The history is the one place where memory forgets on purpose: the record before the last but one stays
in the table, and `DeployInv` shows that what is read are the last two all the same. TLC has checked
`Inv` on the instance of `rows` with three objects and four operations (64 000 states) before it was proved, with the
values of rows, which are any integers, limited to those the instance writes.

### What is only model-checked

* *Liveness under fairness* (`Progress`, `GetReturns`, `EachHandled`, `TimerRuns`, `MonitoredAgain`,
  `Dispatched`, `Answered`, and the fairness of `VmLifeCycle` in `ImplementsLifeCycle`): the prover has
  neither `ENABLED` nor the rules of fairness.
* *The parsers* (`RequirementsRead`, `RankRead`, `TemplatesRead`, `VariablesRead`): what the automaton
  computes for texts of every length is an induction over the grammar with tables of hundreds of
  entries. The induction itself would be possible, as for sums: what cannot be used is the library's
  theorems whose parameter is an operator, so the proofs take the smallest counterexample in a set.

## 5. Where the code disagrees with what it says

Each of the following is a property TLC finds violated when the named instance is run; none is in the
list of runs, which ask what does hold. `AuthenticateReturns`, `AllocateReturns` and the properties of
`OpenNebula`, `NetworkLeases` and `ObjectPool` named here are in their modules.

| property | instance | what happens |
|---|---|---|
| `UsageNotNegative` | `MCOpenNebula`, `Spec`, 1 VM, 2 hosts, all `Operations`, 2 requests, no polls, `FastManagers = FALSE` | a VM is deleted while the TM has its prolog queued; the TM then cannot send the prolog and reports PROLOG_FAILURE, whose handler releases the capacity a second time without looking at the state (`src/lcm/LifeCycleStates.cc:510`): the "Number of running VMs in this Host" is -1 |
| `RestartsInPlace` | the same with `FairSpec`, 3 requests | a VM in BOOT is restarted, which queues a second DEPLOY; the first is answered, a migration adds a record, and the second DEPLOY reads the host of that record: not "IN THE SAME HOST" (`src/lcm/LifeCycleActions.cc:454,472`) |
| `AddressHeldOnce` | `MCNetworkLeases`, 3 VMs, `TwoOids`, `Alike`, `Nic1`, `Scenarios = {{"reuse"}}` | the rows of leases are updated by address, not by network and address (`src/vnm/FixedLeases.cc:136`): when a network has been replaced by one with the same address, the VM of the old one that ends frees the row of the new one, which leases the address again once it has been reloaded |
| `NicsNameTheirNetwork` | `MCNetworkLeases`, 2 VMs, `TwoOids`, `Apart`, `Nic1`, `Scenarios = {{}}` | the search for a network by name leaves `oid` uninitialised when there is none (`src/vnm/VirtualNetworkPool.cc:154`), and a VM gets a lease of whatever network that is |
| `PoolBounded` | `ObjectPool`, 1 thread, 3 oids, a cache of 1, 4 loads, `{"vms"}` | `replace` leaves the entry of the object it deletes in the queue and gives up at it the next time (`src/pool/PoolSQL.cc:252`): the cache exceeds `MAX_POOL_SIZE` and grows for good |
| `AuthenticateReturns` | `requests.cfg` with `Methods = {"host.info", "user.delete"}`, no restart | a user is deleted between the look into `known_users` and `get`: the null pointer is dereferenced (`src/um/UserPool.cc:187`), where `include/UserPool.h:131` promises "-1 if there is no such a user" |
| `AllocateReturns` | `hooks.cfg` without symmetry | allocating a VM runs the CREATE hooks with the mutex of the pool held, and they take `lex_mutex` (`src/vm/VirtualMachine.cc:892`); generating a context holds `lex_mutex` and gets the VM from the pool: the two wait for each other, where `include/VirtualMachinePool.h:48` promises an oid |

The models contain, without a property of their own, what else was met while writing them.

*The core, pools and leases.*

* a failure handled late turns a DONE VM into FAILED (`src/dm/DispatchManagerStates.cc:151`), which
  is why `NoRevival` allows it;
* a manager whose queue never empties never runs its timer (`src/common/ActionManager.cc:94`),
  which is why `TimerRuns` excepts it;
* `deploy` and `migrate` of the Dispatch Manager unlock the VM their callers unlock again
  (`src/rm/RequestManagerDeploy.cc:116`), which is why `UsersAreAlone` excepts VMs;
* a VM whose user does not own the network leaves it locked (`src/vm/VirtualMachine.cc:677`), which
  is why `GetReturns` excepts networks and `Requests` has VMs of owners only;
* a host that is dropped while another thread waits for it is written back by that thread
  (`src/pool/PoolSQL.cc:169`); an object got without its lock may be replaced before it is read
  (`src/pool/PoolSQL.cc:213`);
* oids of deleted objects are given again after a restart (`src/pool/PoolSQL.cc:79`) while VMs keep
  the oid of their network, which is why no instance of `leases` has both drops and restarts;
* leases are not released when the VM that has taken them cannot be written
  (`src/vm/VirtualMachine.cc:336`), which is why `RefusedOnlyWhenFull` is checked without errors.

*Rows.*

* a host whose drop was interrupted after its share was deleted can neither be loaded nor deleted any
  more; it is listed for good (`src/host/Host.cc:370`), which is why `ListedIsWhole` excepts `dropping`;
* the rows of a template whose network or host was never completed are read by the next object that is
  given the oid: `vn_template` has no key, so that the attribute may be there twice, which is why
  `ListedIsWhole` asks of a network only that its own attributes are there;
* a VM is listed, loaded and scheduled before its CONTEXT is written; when oned stops before that, it
  stays without one, and when the statement fails the request answers that the VM was created all the same
  (`src/vm/VirtualMachinePool.cc:217,327`); `ListedIsWhole` speaks of the CONTEXT apart, therefore;
* a RANGED network without NETWORK_ADDRESS is refused after its row was written: `vn_drop` deletes the
  template, dereferences leases that are null, and never comes to the row
  (`src/vnm/VirtualNetwork.cc:426,481`). The network is listed after the restart and cannot be loaded, so
  not be deleted either; it is in `dropping`, too;
* a VM whose previous record has been lost is loaded with one that says nothing, whose host is -1
  (`src/vm/VirtualMachine.cc:212`);
* nobody looks at the result when capacity is written (`include/HostPool.h:119,139`).

*Users and requests.*

* a user who could not be inserted leaves its name in the map, with oid -1 (`src/um/UserPool.cc:162`);
* the map of names is read and written by several threads without a lock (`src/um/UserPool.cc:162,183`);
* two users of one name created at once: INSERT OR REPLACE replaces the row of the first
  (`src/rm/RequestManagerUserAllocate.cc:61`). `OneAtATime` keeps these out of `requests`.

*Hooks, drivers and parsers.*

* CREATE hooks run when the insert has failed as well (`src/pool/PoolSQL.cc:141`);
* the hook on DONE is missed when oned was restarted since the last update of the VM, where
  `share/etc/oned.conf:202` says that it runs "after the VM is deleted or shutdown"; `EntriesAnswered` is about VMs the
  hooks have seen;
* the states the hooks have seen are read and written without a lock (`src/vm/VirtualMachineHook.cc:56`);
* a variable `$NUM.VAR` in the arguments of a hook gets a VM from the pool, in a thread that may hold
  its mutex (`src/vm/vm_var_syntax.cc:198`);
* an empty string in REQUIREMENTS is a NULL pointer to the actions (`src/host/host_parser.l:49`); the
  model leaves it out;
* a file opened by another thread between the end of a driver and its restart leaves the listener with
  a descriptor that is not the driver's (`src/mad/MadManager.cc:310`), which is why
  `MonitoredAgain` asks for `FdsArePipes`; a driver that does not start is erased from `mads` and not
  from `fds`;
* ten hosts that are disabled, or whose driver is gone, are the ten monitored longest ago in every
  round: no other host is monitored (`src/host/HostPool.cc:91`), which is why `MonitoredAgain`
  asks for fewer;
* a round of the scheduler that starts before the Life-cycle Manager has charged the VMs of the last
  gives the same capacity away twice (`src/scheduler/SchedulerVirtualMachine.cc:111`), which is why
  `SchedulerFits` is checked with `LcmIsPrompt`.

## 6. Reading the properties

`Uncharged`, `Charged` and `HostOf` in `OpenNebula` define which history records count at any
moment; they are the specification of what `add_capacity` and `del_capacity` are for, and the
same definition serves the counters (`CapacityExact`), the hypervisors (`DomainsCharged`) and
the abstract specification. The window in which a migration has added a record that is not
charged yet is visible in `Charged`. `RecordsExist` states the precondition `include/VirtualMachine.h`
gives `hasHistory` ("MUST be called before using any history related function") over every place
that dereferences a record; it also shows that the path of the VMM timer that leaves a VM locked
(`src/vmm/VirtualMachineManager.cc:837`, a VM without a record) cannot be reached.

## 7. What is not modelled

* *Restarts of oned in the core*: the queues are lost, the states are not, and nothing looks for the
  VMs left in between (`src/nebula/Nebula.cc:392`). Leases, rows, requests and hooks have restarts of
  their own.
* *The drivers' own queues* (`src/mad/ruby`): what a driver may do with what it is sent is external;
  the queue and threads of the Ruby drivers are left out.
* *Several pools of objects cached at once*: `Requests` has the mutexes and locks of the four pools,
  `ObjectPool` the cache of one. `search` and `clean`, and the wrap of oids at INT_MAX, are left out.
* *Scanners' characters*: how a scanner cuts a text into tokens, escapes and their removal, NULL
  strings, the rounding of floats, attributes whose text is no number.
* *Digests of passwords, the XML of answers, accounting and times, log files*: pure text or pure I/O,
  on which no property depends.
* *The rows of leases in `Rows`*, and MAC addresses: `NetworkLeases` has the leases, MACs are derived.
* *The thread of the Hook Manager and its driver*: they execute a command and log its answer.
* *Capacity in numbers in the core*: every VM asks for the same there, so the counter of running VMs
  stands for cpu, memory and disk; `Cluster` has VMs that ask for different things. oned refuses
  nothing: `deploy` does not test the capacity, the scheduler does.
* *Clients, the command line, cloud servers, drivers' scripts*: they keep no state the managers depend
  on.

## 8. Plan

1. *Done:* the core, its life cycle, records, capacity, leases; the action loop; the pool; the
   networks; requests, users and the locks of all pools; monitoring and drivers that die; the
   scheduler with its copies of the capacity; hooks and contexts; the four parsers; the rows.
2. *More of the system:* restarts of oned in the core (`Progress` then needs an exception); the
   drivers' action queue in Ruby (`src/mad/ruby/ActionManager.rb`).
3. *Proofs, done:* every safety property of a run but those of the parsers is a theorem, and so is the
   safety of the refinement.
