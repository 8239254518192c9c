------------------------------ MODULE Requests ------------------------------
(***************************************************************************)
(* The XML-RPC methods of the Request Manager (src/rm) and the users they  *)
(* are authenticated with (src/um), as the threads of the server run them. *)
(* A method is the sequence of the steps at which other threads may come   *)
(* in between: it looks users up in a map nobody locks, locks a pool while *)
(* it waits for an object, locks the object, and writes its row.  What the *)
(* operations on VMs do is in RequestManager; here they take their locks.  *)
(***************************************************************************)
EXTENDS Integers, Sequences, FiniteSets

CONSTANTS
  Threads, NoThread,
  Methods,        \* the methods clients call
  Clients,        \* the names they send, "oneadmin" one of them
  Oids,
  Named,          \* the hosts, networks and VMs clients name
  BadPasswords,   \* clients may send a wrong password
  InsertsFail,    \* the tables whose INSERT may fail
  MaxRequests, MaxRestarts   \* bounds

Pools == {"users", "hosts", "networks", "vms"}

RequestsAssumption ==
  /\ Methods \subseteq
       {"vm.allocate", "vm.deploy", "vm.action", "vm.finalize", "vm.info", "vmpool.info",
        "host.allocate", "host.info", "host.delete", "host.enable", "hostpool.info",
        "vn.allocate", "vn.info", "vn.delete", "vnpool.info",
        "user.allocate", "user.info", "user.delete", "userpool.info"}
  /\ NoThread \notin Threads /\ "oneadmin" \in Clients
  /\ {0, 1} \subseteq Oids /\ Oids \subseteq Nat /\ Named \subseteq Oids
  /\ BadPasswords \in BOOLEAN /\ InsertsFail \subseteq Pools
  /\ MaxRequests \in Nat /\ MaxRestarts \in Nat

ASSUME RequestsAssumption

VARIABLES
  rows,         \* of each table: the name of each user, the owner of the others
  lastOID,
  known_users,  \* the map from names to oids
  mutex,        \* the thread that has locked each pool
  locks,        \* the objects that are locked: <<thread, pool, oid>>
  req,          \* the request each thread serves
  todo,         \* the steps it has yet to make
  uid,          \* the user it has found
  down,         \* oned has crashed
  requests, restarts

data == <<rows, lastOID, known_users>>
vars == <<data, mutex, locks, req, todo, uid, down, requests, restarts>>

\* What a request does not use is 0, or oneadmin.
Request == [method : Methods, client : Clients, good : BOOLEAN, oid : Oids, name : Clients]

TypeOK ==
  /\ \A p \in Pools : DOMAIN rows[p] \subseteq 0..lastOID[p]
  /\ \A p \in Pools \ {"users"}, o \in Oids : o \in DOMAIN rows[p] => rows[p][o] \in Oids
  /\ \A o \in DOMAIN rows["users"] : rows["users"][o] \in Clients
  /\ lastOID \in [Pools -> Oids \cup {-1}]
  /\ DOMAIN known_users \subseteq Clients
  /\ \A n \in DOMAIN known_users : known_users[n] \in Oids \cup {-1}
  /\ mutex \in [Pools -> Threads \cup {NoThread}]
  /\ locks \subseteq Threads \X Pools \X Oids
  /\ \A l, m \in locks : l[2] = m[2] /\ l[3] = m[3] => l = m
  /\ req \in [Threads -> Request]
  /\ uid \in [Threads -> Oids \cup {-1}]
  /\ down \in BOOLEAN /\ requests \in 0..MaxRequests /\ restarts \in 0..MaxRestarts

OnObject ==
  {"vm.allocate", "vm.deploy", "vm.action", "vm.finalize", "vm.info", "host.info",
   "host.delete", "host.enable", "vn.info", "vn.delete", "user.info", "user.delete"}

-----------------------------------------------------------------------------
(* The methods.  "find" and a test of the answer are authenticate: the     *)
(* administrator, the owner of the object or anyone may go on.             *)

find == <<"find">>
is(who) == <<who>>
get(p) == <<"get", p>>
lock(p) == <<"lock", p>>
unlock(p) == <<"unlock", p>>
update(p) == <<"update", p>>
insert(p) == <<"insert", p>>
drop(p) == <<"drop", p>>
dump(p) == <<"dump", p>>

\* VirtualMachinePool::allocate takes a network while the pool of VMs is locked.
VirtualMachineAllocate ==
  <<find, is("anyone"), find, get("users"), lock("users"), unlock("users"),
    <<"begin", "vms">>, <<"nic">>, get("networks"), lock("networks"), unlock("networks"),
    insert("vms")>>
\* The VM is locked while the session is looked up.  vm.migrate is the same.
VirtualMachineDeploy ==
  <<get("hosts"), lock("hosts"), unlock("hosts"),
    get("vms"), lock("vms"), find, is("owner"), update("vms"), unlock("vms")>>
\* Unlocked before the Dispatch Manager locks it again.
VirtualMachineAction ==
  <<get("vms"), lock("vms"), unlock("vms"), find, is("owner"),
    get("vms"), lock("vms"), update("vms"), unlock("vms")>>
\* release_network_leases passes over a network that is not there.
VirtualMachineFinalize ==
  <<get("vms"), lock("vms"), unlock("vms"), find, is("owner"), get("vms"), lock("vms"),
    get("networks"), <<"lease", "networks">>, update("networks"), unlock("networks"),
    update("vms"), unlock("vms")>>
VirtualMachineInfo == <<get("vms"), lock("vms"), unlock("vms")>>
VirtualMachinePoolInfo ==
  <<find, is("anyone"), find, get("users"), lock("users"), unlock("users"), dump("vms")>>
HostAllocate == <<find, is("admin"), insert("hosts")>>
HostInfo == <<find, is("anyone"), get("hosts"), lock("hosts"), unlock("hosts")>>
HostDelete ==
  <<find, is("admin"), get("hosts"), lock("hosts"), drop("hosts"), unlock("hosts")>>
HostEnable ==
  <<find, is("admin"), get("hosts"), lock("hosts"), update("hosts"), unlock("hosts")>>
HostPoolInfo == <<find, is("anyone"), dump("hosts")>>
\* The user is looked up by name.
VirtualNetworkAllocate ==
  <<find, get("users"), lock("users"), unlock("users"), insert("networks")>>
VirtualNetworkInfo ==
  <<find, is("anyone"), get("networks"), lock("networks"), unlock("networks")>>
VirtualNetworkDelete ==
  <<get("networks"), lock("networks"), find, is("owner"), drop("networks"), unlock("networks")>>
VirtualNetworkPoolInfo ==
  <<find, is("anyone"), find, get("users"), lock("users"), unlock("users"), dump("networks")>>
UserAllocate == <<find, is("admin"), <<"free">>, insert("users"), <<"learn">>>>
UserInfo == <<find, is("admin"), get("users"), lock("users"), unlock("users")>>
UserDelete ==
  <<find, is("admin"), get("users"), lock("users"), drop("users"), <<"forget">>,
    unlock("users")>>
UserPoolInfo == <<find, is("admin"), dump("users")>>

\* Mutant: the VM is locked while the Dispatch Manager is asked, which locks it.
executeKeepsVm(m) ==
  IF m = "vm.finalize"
    THEN <<get("vms"), lock("vms"), find, is("owner"), get("vms"), lock("vms"),
           update("vms"), unlock("vms")>>
    ELSE <<find, is("admin")>>

\* Mutant: any user may delete a network.
executeTrusts(m) ==
  IF m = "vn.delete"
    THEN <<get("networks"), lock("networks"), find, is("anyone"), drop("networks"),
           unlock("networks")>>
    ELSE <<find, is("admin")>>

execute(m) ==
  CASE m = "vm.allocate" -> VirtualMachineAllocate
    [] m = "vm.deploy" -> VirtualMachineDeploy
    [] m = "vm.action" -> VirtualMachineAction
    [] m = "vm.finalize" -> VirtualMachineFinalize
    [] m = "vm.info" -> VirtualMachineInfo
    [] m = "vmpool.info" -> VirtualMachinePoolInfo
    [] m = "host.allocate" -> HostAllocate
    [] m = "host.info" -> HostInfo
    [] m = "host.delete" -> HostDelete
    [] m = "host.enable" -> HostEnable
    [] m = "hostpool.info" -> HostPoolInfo
    [] m = "vn.allocate" -> VirtualNetworkAllocate
    [] m = "vn.info" -> VirtualNetworkInfo
    [] m = "vn.delete" -> VirtualNetworkDelete
    [] m = "vnpool.info" -> VirtualNetworkPoolInfo
    [] m = "user.allocate" -> UserAllocate
    [] m = "user.info" -> UserInfo
    [] m = "user.delete" -> UserDelete
    [] m = "userpool.info" -> UserPoolInfo

-----------------------------------------------------------------------------

Idle(t) == todo[t] = <<>>

\* A thread that is idle remembers nothing.
NoRequest == [method |-> CHOOSE m \in Methods : TRUE, client |-> "oneadmin",
              good |-> TRUE, oid |-> 0, name |-> "oneadmin"]

\* The constructor of UserPool reads the table.
Known(users) ==
  [n \in {users[o] : o \in DOMAIN users} |-> CHOOSE o \in DOMAIN users : users[o] = n]

\* oneadmin and a user who owns a VM; there are a host and a network.
Init ==
  /\ \E other \in Clients \ {"oneadmin"}, owner \in {0, 1} :
       rows = [users |-> [o \in {0, 1} |-> IF o = 0 THEN "oneadmin" ELSE other],
               hosts |-> [o \in {0} |-> 0], networks |-> [o \in {0} |-> owner],
               vms |-> [o \in {0} |-> 1]]
  /\ lastOID = [p \in Pools |-> IF p = "users" THEN 1 ELSE 0]
  /\ known_users = Known(rows["users"])
  /\ mutex = [p \in Pools |-> NoThread] /\ locks = {}
  /\ req = [t \in Threads |-> NoRequest]
  /\ todo = [t \in Threads |-> <<>>]
  /\ uid = [t \in Threads |-> -1]
  /\ down = FALSE /\ requests = 0 /\ restarts = 0

\* What clients send.
Requests ==
  {r \in Request :
     /\ r.good \/ BadPasswords
     /\ r.name = "oneadmin" \/ r.method = "user.allocate"
     /\ r.oid = 0 \/ r.method \in OnObject
     /\ r.oid \in Named \/ r.method \in {"user.info", "user.delete"}}

\* The users a request creates or deletes.
Names(r) ==
  CASE r.method = "user.allocate" -> {r.name}
    [] r.method = "user.delete" -> {n \in DOMAIN known_users : known_users[n] = r.oid}
    [] OTHER -> {}

\* Nobody creates or deletes users of one name at the same time, nor deletes a
\* user before it has been told of it.
OneAtATime(r) ==
  /\ r.method = "user.delete" => Names(r) # {}
  /\ \A t \in Threads : ~ Idle(t) => Names(r) \cap Names(req[t]) = {}

\* Bound: the oids are enough for what is being created.
OidsLeft(m) ==
  \A p \in Pools :
    LET creates(n) == \E i \in DOMAIN execute(n) : execute(n)[i] = <<"insert", p>>
    IN  creates(m) =>
          lastOID[p] + 1 + Cardinality({t \in Threads : ~ Idle(t) /\ creates(req[t].method)}) \in Oids

\* user.delete of oneadmin is refused at once.
Call(t, r) ==
  /\ Idle(t) /\ ~ down /\ requests < MaxRequests /\ OidsLeft(r.method)
  /\ OneAtATime(r)
  /\ ~ (r.method = "user.delete" /\ r.oid = 0)
  /\ req' = [req EXCEPT ![t] = r]
  /\ todo' = [todo EXCEPT ![t] = execute(r.method)]
  /\ requests' = requests + 1
  /\ UNCHANGED <<data, mutex, locks, uid, down, restarts>>

-----------------------------------------------------------------------------
(* The steps                                                               *)

At(t, op) == ~ Idle(t) /\ ~ down /\ Head(todo[t])[1] = op

PoolOf(t) == Head(todo[t])[2]

\* The object a request is about; a user looked up by name is the one found.
ObjectOf(t, p) ==
  IF p = "users" /\ req[t].method \notin {"user.info", "user.delete"} THEN uid[t] ELSE req[t].oid

Goes(t) ==
  /\ todo' = [todo EXCEPT ![t] = Tail(@)]
  /\ IF Len(todo[t]) = 1
       THEN req' = [req EXCEPT ![t] = NoRequest] /\ uid' = [uid EXCEPT ![t] = -1]
       ELSE UNCHANGED <<req, uid>>
  /\ UNCHANGED <<down, requests, restarts>>

\* Mutant: an object that is locked when a request is refused stays locked.
RefuseKeepsLocks(t) ==
  /\ todo' = [todo EXCEPT ![t] = <<>>]
  /\ req' = [req EXCEPT ![t] = NoRequest] /\ uid' = [uid EXCEPT ![t] = -1]
  /\ mutex' = [p \in Pools |-> IF mutex[p] = t THEN NoThread ELSE mutex[p]]
  /\ UNCHANGED <<data, locks, down, requests, restarts>>

\* Every error of a method unlocks what it has locked.
Refuse(t) ==
  /\ todo' = [todo EXCEPT ![t] = <<>>]
  /\ req' = [req EXCEPT ![t] = NoRequest] /\ uid' = [uid EXCEPT ![t] = -1]
  /\ mutex' = [p \in Pools |-> IF mutex[p] = t THEN NoThread ELSE mutex[p]]
  /\ locks' = {l \in locks : l[1] # t}
  /\ UNCHANGED <<data, down, requests, restarts>>

\* known_users.find: the session names a user.
Find(t) ==
  /\ At(t, "find")
  /\ IF req[t].client \in DOMAIN known_users
       THEN /\ uid' = [uid EXCEPT ![t] = known_users[req[t].client]]
            /\ todo' = [todo EXCEPT ![t] = Tail(@)]
            /\ UNCHANGED <<data, mutex, locks, req, down, requests, restarts>>
       ELSE Refuse(t)

\* User::authenticate, and the test of what it returns.
MayGoOn(t, test) ==
  LET p == IF req[t].method \in {"vn.delete"} THEN "networks" ELSE "vms"
  IN  /\ req[t].good
      /\ \/ test = "anyone" \/ uid[t] = 0
         \/ test = "owner" /\ req[t].oid \in DOMAIN rows[p] /\ rows[p][req[t].oid] = uid[t]

\* get of the user that was found waits for the pool only.  One that has been
\* deleted since is no object, and is used like one.  The one of oid -1 is there,
\* and has no password.
Authenticate(t) ==
  \E test \in {"admin", "owner", "anyone"} :
    /\ At(t, test) /\ mutex["users"] = NoThread
    /\ \/ /\ uid[t] \notin DOMAIN rows["users"]
          /\ IF uid[t] = -1
               THEN Refuse(t)
               ELSE /\ down' = TRUE
                    /\ UNCHANGED <<data, mutex, locks, req, todo, uid, requests, restarts>>
       \/ /\ uid[t] \in DOMAIN rows["users"]
          /\ IF MayGoOn(t, test) THEN Goes(t) /\ UNCHANGED <<data, mutex, locks>>
                                 ELSE Refuse(t)

\* PoolSQL::get: the pool is locked, and stays so until the object is.
LockPool(t) ==
  /\ At(t, "get") \/ At(t, "begin")
  /\ mutex[PoolOf(t)] = NoThread
  /\ mutex' = [mutex EXCEPT ![PoolOf(t)] = t]
  /\ Goes(t)
  /\ UNCHANGED <<data, locks>>

LockObject(t) ==
  /\ At(t, "lock")
  /\ LET p == PoolOf(t)
         o == ObjectOf(t, p)
     IN  IF o \notin DOMAIN rows[p]
           THEN Refuse(t)
           ELSE /\ \A l \in locks : ~ (l[2] = p /\ l[3] = o)
                /\ locks' = locks \cup {<<t, p, o>>}
                /\ mutex' = [mutex EXCEPT ![p] = NoThread]
                /\ Goes(t) /\ UNCHANGED data

\* A VM has no NIC, or one in a network it may use.
TakeNic(t) ==
  /\ At(t, "nic")
  /\ \/ /\ todo' = [todo EXCEPT ![t] = SubSeq(@, 5, Len(@))]
        /\ UNCHANGED <<req, uid, down, requests, restarts>>
     \/ /\ req[t].oid \in DOMAIN rows["networks"] => rows["networks"][req[t].oid] \in {0, uid[t]}
        /\ Goes(t)
  /\ UNCHANGED <<data, mutex, locks>>

LockLease(t) ==
  /\ At(t, "lease")
  /\ mutex' = [mutex EXCEPT !["networks"] = NoThread]
  /\ IF req[t].oid \notin DOMAIN rows["networks"]
       THEN /\ todo' = [todo EXCEPT ![t] = SubSeq(@, 4, Len(@))]
            /\ UNCHANGED <<locks, req, uid, down, requests, restarts>>
       ELSE /\ \A l \in locks : ~ (l[2] = "networks" /\ l[3] = req[t].oid)
            /\ locks' = locks \cup {<<t, "networks", req[t].oid>>}
            /\ Goes(t)
  /\ UNCHANGED data

UnlockObject(t) ==
  /\ At(t, "unlock")
  /\ locks' = {l \in locks : ~ (l[1] = t /\ l[2] = PoolOf(t))}
  /\ Goes(t)
  /\ UNCHANGED <<data, mutex>>

\* PoolSQL::allocate: the pool of VMs is locked already.  UserPool::allocate does
\* not look at what it returns.
Insert(t) ==
  /\ At(t, "insert") /\ mutex[PoolOf(t)] \in {NoThread, t}
  /\ LET p == PoolOf(t)
         o == lastOID[p] + 1
            row == CASE p = "users" -> req[t].name
                  [] p = "hosts" -> 0
                  [] OTHER -> uid[t]
     IN  \/ /\ rows' = [rows EXCEPT ![p] = [q \in DOMAIN @ \cup {o} |->
                                              IF q = o THEN row ELSE @[q]]]
            /\ lastOID' = [lastOID EXCEPT ![p] = o]
            /\ mutex' = [mutex EXCEPT ![p] = NoThread]
            /\ Goes(t) /\ UNCHANGED <<known_users, locks>>
         \/ /\ p \in InsertsFail
            /\ IF p = "users" THEN Goes(t) /\ UNCHANGED <<data, mutex, locks>> ELSE Refuse(t)

\* Mutant: the row of a user that cannot be deleted is kept, its name is not.
DropForgets(t) ==
  /\ At(t, "drop")
  /\ LET p == PoolOf(t)
         o == req[t].oid
     IN  \/ rows' = [rows EXCEPT ![p] = [q \in DOMAIN @ \ {o} |-> @[q]]]
         \/ UNCHANGED rows
  /\ Goes(t)
  /\ UNCHANGED <<lastOID, known_users, mutex, locks>>

\* The object is locked: another thread may wait for it in get.
Drop(t) ==
  /\ At(t, "drop")
  /\ LET p == PoolOf(t)
         o == req[t].oid
     IN  \/ /\ rows' = [rows EXCEPT ![p] = [q \in DOMAIN @ \ {o} |-> @[q]]]
            /\ Goes(t)
            /\ UNCHANGED <<lastOID, known_users, mutex, locks>>
         \/ Refuse(t)

\* An update or a dump of the table changes no row that is of interest here.
Statement(t) ==
  /\ At(t, "update") \/ At(t, "dump")
  /\ Goes(t)
  /\ UNCHANGED <<data, mutex, locks>>

\* user.allocate: is there a user of that name?
NameIsFree(t) ==
  /\ At(t, "free") /\ mutex["users"] = NoThread
  /\ IF /\ req[t].name \in DOMAIN known_users
        /\ known_users[req[t].name] \in DOMAIN rows["users"] \cup {-1}
       THEN Refuse(t)
       ELSE Goes(t) /\ UNCHANGED <<data, mutex, locks>>

\* known_users.insert leaves a name that is there as it is.
Learn(t) ==
  /\ At(t, "learn")
  /\ LET name == req[t].name
         table == Known(rows["users"])
         oid == IF name \in DOMAIN table THEN table[name] ELSE -1
     IN  known_users' = [n \in DOMAIN known_users \cup {name} |->
                           IF n \in DOMAIN known_users THEN known_users[n] ELSE oid]
  /\ Goes(t)
  /\ UNCHANGED <<rows, lastOID, mutex, locks>>

Forget(t) ==
  /\ At(t, "forget")
  /\ LET old == {n \in DOMAIN known_users : known_users[n] = req[t].oid}
     IN  known_users' = [n \in DOMAIN known_users \ old |-> known_users[n]]
  /\ Goes(t)
  /\ UNCHANGED <<rows, lastOID, mutex, locks>>

Step(t) ==
  \/ Find(t) \/ Authenticate(t) \/ NameIsFree(t)
  \/ LockPool(t) \/ LockObject(t) \/ TakeNic(t) \/ LockLease(t) \/ UnlockObject(t)
  \/ Insert(t) \/ Drop(t) \/ Statement(t) \/ Learn(t) \/ Forget(t)

\* oned stops, or has crashed, and starts again: what threads were doing is
\* lost, the tables are read.
Restart ==
  /\ restarts < MaxRestarts /\ restarts' = restarts + 1
  /\ lastOID' = [p \in Pools |-> LET os == DOMAIN rows[p]
                                 IN  IF os = {} THEN -1
                                     ELSE CHOOSE o \in os : \A q \in os : q <= o]
  /\ known_users' = Known(rows["users"])
  /\ mutex' = [p \in Pools |-> NoThread] /\ locks' = {}
  /\ req' = [t \in Threads |-> NoRequest]
  /\ todo' = [t \in Threads |-> <<>>]
  /\ uid' = [t \in Threads |-> -1]
  /\ down' = FALSE
  /\ UNCHANGED <<rows, requests>>

Next ==
  \/ \E t \in Threads : Step(t) \/ \E r \in Requests : Call(t, r)
  \/ Restart

Spec == Init /\ [][Next]_vars

\* The threads of the server are scheduled.
FairSpec == Spec /\ \A t \in Threads : WF_vars(Step(t))

-----------------------------------------------------------------------------
(* Properties                                                              *)

\* No request waits for ever, whatever the others lock: those that lock two
\* objects, or a pool and an object, do so in one order (execute), and every
\* error unlocks what was locked.
Answered == \A t \in Threads : ~ Idle(t) ~> Idle(t) \/ down

\* A thread that has answered holds no lock, however its request ended.
LocksReleased ==
  \A t \in Threads :
    Idle(t) => /\ \A p \in Pools : mutex[p] # t
               /\ \A l \in locks : l[1] # t

\* The map of names is the table of users, when none of them is being created or
\* deleted: however requests of different users mix, statements fail and oned
\* starts again, who has a row can be authenticated and who has none cannot
\* (UserPool::allocate, drop, UserPool).
KnownIsTable ==
  (\A t \in Threads : req[t].method \notin {"user.allocate", "user.delete"} \/ Idle(t))
    => known_users = Known(rows["users"])

\* Hosts and users are deleted for oneadmin only, networks for their owners as
\* well, and no request deletes another object than the one it names: not even
\* when the object, or the user, is deleted between two steps of the request.
OnlyOwners ==
  [][\A p \in Pools : \A o \in DOMAIN rows[p] \ DOMAIN rows'[p] :
       \E t \in Threads :
         /\ ~ Idle(t) /\ req[t].oid = o
         /\ req[t].client = "oneadmin" \/ (p = "networks" /\ rows[p][o] = uid[t])]_vars

\* authenticate returns "-1 if there is no such a user, uid of the user if it
\* exists" (UserPool.h:131).
AuthenticateReturns == ~ down

=============================================================================
