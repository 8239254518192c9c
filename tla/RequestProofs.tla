---------------------------- MODULE RequestProofs ----------------------------
(***************************************************************************)
(* What the methods promise holds for any threads, clients, requests and   *)
(* bounds.                                                                 *)
(***************************************************************************)
EXTENDS Requests, WellFoundedInduction, TLAPS

-----------------------------------------------------------------------------
(* The texts of the methods                                                *)

Ops == {"find", "admin", "owner", "anyone", "nic", "free", "learn", "forget"}
PoolOps == {"get", "lock", "begin", "unlock", "lease", "insert", "update", "drop", "dump"}
Steps == {<<op>> : op \in Ops} \cup {<<op, p>> : op \in PoolOps, p \in Pools}

\* Steps that lock a pool and unlock it, that lock an object of it and unlock it.
PoolTaken(p) == {get(p), <<"begin", p>>}
PoolGiven(p) == {lock(p), <<"lease", p>>} \cup IF p = "vms" THEN {insert(p)} ELSE {}
ObjectTaken(p) == {lock(p), <<"lease", p>>}
ObjectGiven(p) == {unlock(p)}

\* What has been taken is given back ahead, before it is taken again.
Ahead(s, given, taken) ==
  \E i \in 1..Len(s) : s[i] \in given /\ \A k \in 1..i : s[k] \notin taken

\* Whatever is taken is given back.
Paired(s, taken, given) ==
  \A i \in 1..Len(s) : s[i] \in taken =>
    \E j \in 1..Len(s) :
      i < j /\ s[j] \in given /\ \A k \in 1..j : i < k => s[k] \notin taken

\* The answers after which an object of a pool may be dropped.
Tests(p) == {is("admin")} \cup IF p = "networks" THEN {is("owner")} ELSE {}

\* The user is asked for, and tested, before the i-th step.
TestedBefore(s, p, i) ==
  \E j \in 1..Len(s) : j < i /\ s[j] \in Tests(p) /\ \A k \in 1..i : j < k => s[k] # find

WellFormed(s) ==
  /\ s \in Seq(Steps)
  /\ \A p \in Pools : /\ Paired(s, PoolTaken(p), PoolGiven(p))
                      /\ Paired(s, ObjectTaken(p), ObjectGiven(p))
  /\ \A i \in 1..Len(s) : s[i] = <<"nic">> =>
       /\ i + 4 \in 1..Len(s)
       /\ s[i + 1] = get("networks") /\ s[i + 2] = lock("networks") /\ s[i + 3] = unlock("networks")
  /\ \A i \in 1..Len(s) : s[i][1] = "lease" =>
       /\ i + 3 \in 1..Len(s)
       /\ s[i] = <<"lease", "networks">>
       /\ s[i + 1] = update("networks") /\ s[i + 2] = unlock("networks")
  /\ \A i \in 1..Len(s) : s[i] = find => i + 1 \in 1..Len(s)

\* The step before y is x, and the one after x is y.
After(s, x, y) == \A i \in 2..Len(s) : s[i] = y => s[i - 1] = x
Before(s, x, y) == \A i \in 1..Len(s) : s[i] = x => i + 1 \in 1..Len(s) /\ s[i + 1] = y

\* Users are created and deleted by the methods that say so, step after step.
UserText(s, m) ==
  /\ \A i \in 1..Len(s) :
       /\ s[i] \in {<<"free">>, insert("users"), <<"learn">>} => m = "user.allocate"
       /\ s[i] \in {drop("users"), <<"forget">>} => m = "user.delete"
  /\ After(s, <<"free">>, insert("users")) /\ After(s, insert("users"), <<"learn">>)
  /\ After(s, drop("users"), <<"forget">>)
  /\ Before(s, insert("users"), <<"learn">>) /\ Before(s, drop("users"), <<"forget">>)

Method(s, m) ==
  /\ WellFormed(s) /\ UserText(s, m)
  /\ s[1] \notin {insert("users"), <<"learn">>, <<"forget">>}
  /\ \A p \in Pools, i \in 1..Len(s) : s[i] = drop(p) => TestedBefore(s, p, i)
  /\ \A i \in 1..Len(s) : s[i] = drop("users") => m = "user.delete"
  /\ \A i \in 1..Len(s) : s[i] = drop("networks") => m = "vn.delete"

LEMMA MethodsAre == \A m \in Methods : Method(execute(m), m)
<1> USE DEF find, is, get, lock, unlock, update, insert, drop, dump,
            Paired, PoolTaken, PoolGiven, ObjectTaken, ObjectGiven, TestedBefore, Tests,
            UserText, After, Before
<1>1. Method(VirtualMachineAllocate, "vm.allocate")
  <2>1. VirtualMachineAllocate \in Seq(Steps) /\ Len(VirtualMachineAllocate) = 12
    BY DEF VirtualMachineAllocate, Steps, Ops, PoolOps, Pools
  <2> QED BY <2>1 DEF VirtualMachineAllocate, Method, WellFormed
<1>2. Method(VirtualMachineDeploy, "vm.deploy")
  <2>1. VirtualMachineDeploy \in Seq(Steps) /\ Len(VirtualMachineDeploy) = 9
    BY DEF VirtualMachineDeploy, Steps, Ops, PoolOps, Pools
  <2> QED BY <2>1 DEF VirtualMachineDeploy, Method, WellFormed
<1>3. Method(VirtualMachineAction, "vm.action")
  <2>1. VirtualMachineAction \in Seq(Steps) /\ Len(VirtualMachineAction) = 9
    BY DEF VirtualMachineAction, Steps, Ops, PoolOps, Pools
  <2> QED BY <2>1 DEF VirtualMachineAction, Method, WellFormed
<1>4. Method(VirtualMachineFinalize, "vm.finalize")
  <2>1. VirtualMachineFinalize \in Seq(Steps) /\ Len(VirtualMachineFinalize) = 13
    BY DEF VirtualMachineFinalize, Steps, Ops, PoolOps, Pools
  <2> QED BY <2>1 DEF VirtualMachineFinalize, Method, WellFormed
<1>5. Method(VirtualMachineInfo, "vm.info")
  <2>1. VirtualMachineInfo \in Seq(Steps) /\ Len(VirtualMachineInfo) = 3
    BY DEF VirtualMachineInfo, Steps, Ops, PoolOps, Pools
  <2> QED BY <2>1 DEF VirtualMachineInfo, Method, WellFormed
<1>6. Method(VirtualMachinePoolInfo, "vmpool.info")
  <2>1. VirtualMachinePoolInfo \in Seq(Steps) /\ Len(VirtualMachinePoolInfo) = 7
    BY DEF VirtualMachinePoolInfo, Steps, Ops, PoolOps, Pools
  <2> QED BY <2>1 DEF VirtualMachinePoolInfo, Method, WellFormed
<1>7. Method(HostAllocate, "host.allocate")
  <2>1. HostAllocate \in Seq(Steps) /\ Len(HostAllocate) = 3
    BY DEF HostAllocate, Steps, Ops, PoolOps, Pools
  <2> QED BY <2>1 DEF HostAllocate, Method, WellFormed
<1>8. Method(HostInfo, "host.info")
  <2>1. HostInfo \in Seq(Steps) /\ Len(HostInfo) = 5
    BY DEF HostInfo, Steps, Ops, PoolOps, Pools
  <2> QED BY <2>1 DEF HostInfo, Method, WellFormed
<1>9. Method(HostDelete, "host.delete")
  <2>1. HostDelete \in Seq(Steps) /\ Len(HostDelete) = 6
    BY DEF HostDelete, Steps, Ops, PoolOps, Pools
  <2> QED BY <2>1 DEF HostDelete, Method, WellFormed
<1>10. Method(HostEnable, "host.enable")
  <2>1. HostEnable \in Seq(Steps) /\ Len(HostEnable) = 6
    BY DEF HostEnable, Steps, Ops, PoolOps, Pools
  <2> QED BY <2>1 DEF HostEnable, Method, WellFormed
<1>11. Method(HostPoolInfo, "hostpool.info")
  <2>1. HostPoolInfo \in Seq(Steps) /\ Len(HostPoolInfo) = 3
    BY DEF HostPoolInfo, Steps, Ops, PoolOps, Pools
  <2> QED BY <2>1 DEF HostPoolInfo, Method, WellFormed
<1>12. Method(VirtualNetworkAllocate, "vn.allocate")
  <2>1. VirtualNetworkAllocate \in Seq(Steps) /\ Len(VirtualNetworkAllocate) = 5
    BY DEF VirtualNetworkAllocate, Steps, Ops, PoolOps, Pools
  <2> QED BY <2>1 DEF VirtualNetworkAllocate, Method, WellFormed
<1>13. Method(VirtualNetworkInfo, "vn.info")
  <2>1. VirtualNetworkInfo \in Seq(Steps) /\ Len(VirtualNetworkInfo) = 5
    BY DEF VirtualNetworkInfo, Steps, Ops, PoolOps, Pools
  <2> QED BY <2>1 DEF VirtualNetworkInfo, Method, WellFormed
<1>14. Method(VirtualNetworkDelete, "vn.delete")
  <2>1. VirtualNetworkDelete \in Seq(Steps) /\ Len(VirtualNetworkDelete) = 6
    BY DEF VirtualNetworkDelete, Steps, Ops, PoolOps, Pools
  <2> QED BY <2>1 DEF VirtualNetworkDelete, Method, WellFormed
<1>15. Method(VirtualNetworkPoolInfo, "vnpool.info")
  <2>1. VirtualNetworkPoolInfo \in Seq(Steps) /\ Len(VirtualNetworkPoolInfo) = 7
    BY DEF VirtualNetworkPoolInfo, Steps, Ops, PoolOps, Pools
  <2> QED BY <2>1 DEF VirtualNetworkPoolInfo, Method, WellFormed
<1>16. Method(UserAllocate, "user.allocate")
  <2>1. UserAllocate \in Seq(Steps) /\ Len(UserAllocate) = 5
    BY DEF UserAllocate, Steps, Ops, PoolOps, Pools
  <2> QED BY <2>1 DEF UserAllocate, Method, WellFormed
<1>17. Method(UserInfo, "user.info")
  <2>1. UserInfo \in Seq(Steps) /\ Len(UserInfo) = 5
    BY DEF UserInfo, Steps, Ops, PoolOps, Pools
  <2> QED BY <2>1 DEF UserInfo, Method, WellFormed
<1>18. Method(UserDelete, "user.delete")
  <2>1. UserDelete \in Seq(Steps) /\ Len(UserDelete) = 7
    BY DEF UserDelete, Steps, Ops, PoolOps, Pools
  <2> QED BY <2>1 DEF UserDelete, Method, WellFormed
<1>19. Method(UserPoolInfo, "userpool.info")
  <2>1. UserPoolInfo \in Seq(Steps) /\ Len(UserPoolInfo) = 3
    BY DEF UserPoolInfo, Steps, Ops, PoolOps, Pools
  <2> QED BY <2>1 DEF UserPoolInfo, Method, WellFormed
<1> HIDE DEF Method
<1> QED
  BY <1>1, <1>2, <1>3, <1>4, <1>5, <1>6, <1>7, <1>8, <1>9, <1>10, <1>11, <1>12, <1>13, <1>14,
     <1>15, <1>16, <1>17, <1>18, <1>19, RequestsAssumption DEF RequestsAssumption, execute

-----------------------------------------------------------------------------
(* What is left of a text                                                  *)

\* r is what is left of s when n steps have been made or passed over.
Left(s, r, n) ==
  /\ n \in 1..Len(s)
  /\ r \in Seq(Steps) /\ Len(r) = Len(s) - n
  /\ \A i \in 1..Len(r) : r[i] = s[n + i]

LEMMA LeftOfTail ==
  ASSUME NEW s \in Seq(Steps), s # <<>>
  PROVE  Left(s, Tail(s), 1) /\ Head(s) = s[1] /\ Head(s) \in Steps /\ Len(s) \in Nat \ {0}
BY DEF Left

LEMMA LeftOfSkip ==
  ASSUME NEW s \in Seq(Steps), NEW n \in Nat, n + 1 \in 1..Len(s), n # 0
  PROVE  Left(s, SubSeq(s, n + 1, Len(s)), n)
BY DEF Left

LEMMA LeftAhead ==
  ASSUME NEW s \in Seq(Steps), NEW r, NEW n, Left(s, r, n), NEW given, NEW taken,
         Ahead(s, given, taken), \A i \in 1..n : s[i] \notin given
  PROVE  Ahead(r, given, taken)
<1>1. PICK i \in 1..Len(s) : s[i] \in given /\ \A k \in 1..i : s[k] \notin taken
  BY DEF Ahead
<1>2. i > n
  BY <1>1 DEF Left
<1>3. i - n \in 1..Len(r) /\ r[i - n] \in given
  BY <1>1, <1>2 DEF Left
<1>4. \A k \in 1..(i - n) : r[k] \notin taken
  BY <1>1, <1>2 DEF Left
<1> QED BY <1>3, <1>4 DEF Ahead

LEMMA LeftPaired ==
  ASSUME NEW s \in Seq(Steps), NEW r, NEW n, Left(s, r, n), NEW given, NEW taken,
         Paired(s, taken, given)
  PROVE  Paired(r, taken, given)
<1> SUFFICES ASSUME NEW i \in 1..Len(r), r[i] \in taken
             PROVE  \E j \in 1..Len(r) :
                      i < j /\ r[j] \in given /\ \A k \in 1..j : i < k => r[k] \notin taken
  BY DEF Paired
<1>1. n + i \in 1..Len(s) /\ s[n + i] \in taken
  BY DEF Left
<1>2. PICK j \in 1..Len(s) :
        n + i < j /\ s[j] \in given /\ \A k \in 1..j : n + i < k => s[k] \notin taken
  BY <1>1 DEF Paired
<1>3. j - n \in 1..Len(r) /\ i < j - n /\ r[j - n] \in given
  BY <1>2 DEF Left
<1>4. \A k \in 1..(j - n) : i < k => r[k] \notin taken
  <2> TAKE k \in 1..(j - n)
  <2> HAVE i < k
  <2>1. n + k \in 1..j /\ n + i < n + k /\ k \in 1..Len(r)
    BY <1>2, <1>3 DEF Left
  <2> QED BY <1>2, <2>1 DEF Left
<1> QED BY <1>3, <1>4

\* What has just been taken is given back ahead.
LEMMA AheadOfTaken ==
  ASSUME NEW s \in Seq(Steps), NEW r, Left(s, r, 1), NEW given, NEW taken,
         Paired(s, taken, given), s[1] \in taken
  PROVE  Ahead(r, given, taken)
<1>1. PICK j \in 1..Len(s) :
        1 < j /\ s[j] \in given /\ \A k \in 1..j : 1 < k => s[k] \notin taken
  BY DEF Paired, Left
<1>2. j - 1 \in 1..Len(r) /\ r[j - 1] \in given
  BY <1>1 DEF Left
<1>3. \A k \in 1..(j - 1) : r[k] \notin taken
  <2> TAKE k \in 1..(j - 1)
  <2>1. 1 + k \in 1..j /\ 1 < 1 + k /\ k \in 1..Len(r)
    BY <1>1, <1>2
  <2> QED BY <1>1, <2>1 DEF Left
<1> QED BY <1>2, <1>3 DEF Ahead

LEMMA LeftWellFormed ==
  ASSUME NEW s, WellFormed(s), NEW r, NEW n, Left(s, r, n)
  PROVE  WellFormed(r)
<1>1. s \in Seq(Steps) /\ r \in Seq(Steps)
  BY DEF WellFormed, Left
<1>0. Len(r) \in Int /\ Len(s) \in Int /\ n \in Int /\ Len(r) = Len(s) - n
  BY <1>1 DEF Left
<1>2. \A p \in Pools : /\ Paired(r, PoolTaken(p), PoolGiven(p))
                       /\ Paired(r, ObjectTaken(p), ObjectGiven(p))
  BY <1>1, LeftPaired DEF WellFormed
<1>3. \A i \in 1..Len(r) : r[i] = <<"nic">> =>
       /\ i + 4 \in 1..Len(r)
       /\ r[i + 1] = get("networks") /\ r[i + 2] = lock("networks") /\ r[i + 3] = unlock("networks")
  <2> TAKE i \in 1..Len(r)
  <2> HAVE r[i] = <<"nic">>
  <2>1. n + i \in 1..Len(s) /\ s[n + i] = <<"nic">>
    BY <1>1 DEF Left
  <2>2. /\ (n + i) + 4 \in 1..Len(s)
        /\ s[(n + i) + 1] = get("networks") /\ s[(n + i) + 2] = lock("networks")
        /\ s[(n + i) + 3] = unlock("networks")
    BY <2>1 DEF WellFormed
  <2>3. i + 1 \in 1..Len(r) /\ i + 2 \in 1..Len(r) /\ i + 3 \in 1..Len(r) /\ i + 4 \in 1..Len(r)
    BY <1>0, <2>2
  <2>4. n + (i + 1) = (n + i) + 1 /\ n + (i + 2) = (n + i) + 2 /\ n + (i + 3) = (n + i) + 3
    BY <1>1 DEF Left
  <2> QED BY <2>2, <2>3, <2>4 DEF Left
<1>4. \A i \in 1..Len(r) : r[i][1] = "lease" =>
       /\ i + 3 \in 1..Len(r)
       /\ r[i] = <<"lease", "networks">>
       /\ r[i + 1] = update("networks") /\ r[i + 2] = unlock("networks")
  <2> TAKE i \in 1..Len(r)
  <2> HAVE r[i][1] = "lease"
  <2>1. n + i \in 1..Len(s) /\ s[n + i] = r[i]
    BY <1>1 DEF Left
  <2>2. /\ (n + i) + 3 \in 1..Len(s) /\ r[i] = <<"lease", "networks">>
        /\ s[(n + i) + 1] = update("networks") /\ s[(n + i) + 2] = unlock("networks")
    BY <2>1 DEF WellFormed
  <2>3. i + 1 \in 1..Len(r) /\ i + 2 \in 1..Len(r) /\ i + 3 \in 1..Len(r)
    BY <1>0, <2>2
  <2>4. n + (i + 1) = (n + i) + 1 /\ n + (i + 2) = (n + i) + 2
    BY <1>1 DEF Left
  <2> QED BY <2>2, <2>3, <2>4 DEF Left
<1>5. \A i \in 1..Len(r) : r[i] = find => i + 1 \in 1..Len(r)
  <2> TAKE i \in 1..Len(r)
  <2> HAVE r[i] = find
  <2>1. n + i \in 1..Len(s) /\ s[n + i] = find
    BY <1>1 DEF Left
  <2>2. (n + i) + 1 \in 1..Len(s)
    BY <2>1 DEF WellFormed
  <2> QED BY <1>1, <2>2 DEF Left
<1> QED BY <1>1, <1>2, <1>3, <1>4, <1>5 DEF WellFormed

-----------------------------------------------------------------------------
(* The invariant                                                           *)

Users == rows["users"]
Networks == rows["networks"]

\* Objects get oids in order, and oneadmin is user 0.
Tables ==
  /\ DOMAIN rows = Pools /\ DOMAIN lastOID = Pools
  /\ \A p \in Pools : lastOID[p] \in Int /\ lastOID[p] >= -1 /\ DOMAIN rows[p] \subseteq Nat
  /\ \A p \in Pools : \A o \in DOMAIN rows[p] : o <= lastOID[p]
  /\ 0 \in DOMAIN Users /\ Users[0] = "oneadmin"
  /\ \A n \in DOMAIN known_users : known_users[n] = 0 => n = "oneadmin"

Variables ==
  /\ DOMAIN mutex = Pools /\ DOMAIN todo = Threads
  /\ DOMAIN req = Threads /\ DOMAIN uid = Threads

\* A thread that has been told to go on may drop what it is about: a network that
\* is not the user's any more is gone for ever.
Allowed(t, p) ==
  \/ uid[t] = 0
  \/ /\ p = "networks" /\ req[t].oid \in Nat /\ req[t].oid <= lastOID["networks"]
     /\ req[t].oid \in DOMAIN Networks => Networks[req[t].oid] = uid[t]

Drops(t, p) == \E i \in 1..Len(todo[t]) : todo[t][i] = drop(p)

Asked(t) ==
  \A p \in Pools : \A i \in 1..Len(todo[t]) : todo[t][i] = drop(p) =>
    \/ TestedBefore(todo[t], p, i)
    \/ Allowed(t, p) /\ \A k \in 1..i : todo[t][k] # find

\* What a thread has yet to do, and what it knows.
Thread(t) ==
  /\ WellFormed(todo[t])
  /\ todo[t] = <<>> => uid[t] = -1
  /\ uid[t] = 0 => req[t].client = "oneadmin"
  /\ Asked(t)
  /\ \A i \in 1..Len(todo[t]) :
       /\ todo[t][i] = drop("users") => req[t].oid # 0
       /\ todo[t][i] = drop("networks") => req[t].method = "vn.delete" /\ req[t].oid \in Nat

\* What a thread has locked it unlocks ahead.
Holds(t) ==
  /\ \A p \in Pools : mutex[p] = t => Ahead(todo[t], PoolGiven(p), PoolTaken(p))
  /\ \A l \in locks : l[1] = t =>
       l[2] \in Pools /\ Ahead(todo[t], ObjectGiven(l[2]), ObjectTaken(l[2]))

Inv == Tables /\ Variables /\ \A t \in Threads : Thread(t) /\ Holds(t)

\* Rows are dropped, or added with new oids.
Grown ==
  /\ lastOID["networks"] \in Int /\ lastOID'["networks"] \in Int
  /\ lastOID["networks"] <= lastOID'["networks"]
  /\ \A o \in DOMAIN Networks' :
       \/ o \in DOMAIN Networks /\ Networks'[o] = Networks[o]
       \/ o > lastOID["networks"]

\* What one thread does changes nothing for the others.
LEMMA OthersKeep ==
  ASSUME NEW t \in Threads, Thread(t), Holds(t), Grown,
         todo'[t] = todo[t], uid'[t] = uid[t], req'[t] = req[t],
         \A p \in Pools : mutex'[p] = t => mutex[p] = t,
         \A l \in locks' : l[1] = t => l \in locks
  PROVE  Thread(t)' /\ Holds(t)'
<1>1. \A p \in Pools : Allowed(t, p) => Allowed(t, p)'
  BY DEF Allowed, Grown
<1>2. Asked(t)'
  BY <1>1 DEF Asked, Thread
<1>3. Holds(t)'
  BY DEF Holds
<1> QED BY <1>2, <1>3 DEF Thread

\* A thread that has made steps, or passed over some.
LEMMA GoesOn ==
  ASSUME NEW t \in Threads, Thread(t), Grown, NEW n, Left(todo[t], todo'[t], n),
         \/ uid'[t] = uid[t] /\ req'[t] = req[t]
         \/ todo'[t] = <<>> /\ uid'[t] = -1,
         todo'[t] # <<>>  \/ uid'[t] = -1,
         \A p \in Pools : Drops(t, p) =>
           \A i \in 1..n : todo[t][i] \in Tests(p) => Allowed(t, p)
  PROVE  Thread(t)'
<1>1. WellFormed(todo'[t])
  BY LeftWellFormed DEF Thread
<1>2. CASE todo'[t] = <<>>
  BY <1>1, <1>2 DEF Thread, Asked
<1>3. CASE todo'[t] # <<>>
  <2>1. uid'[t] = uid[t] /\ req'[t] = req[t]
    BY <1>3
  <2>2. \A p \in Pools : Allowed(t, p) => Allowed(t, p)'
    BY <2>1 DEF Allowed, Grown
  <2>3. \A i \in 1..Len(todo'[t]) : n + i \in 1..Len(todo[t]) /\ todo'[t][i] = todo[t][n + i]
    BY DEF Left
  <2>4. Asked(t)'
    <3> SUFFICES ASSUME NEW p \in Pools, NEW i \in 1..Len(todo'[t]), todo'[t][i] = drop(p)
                 PROVE  \/ TestedBefore(todo'[t], p, i)
                        \/ Allowed(t, p)' /\ \A k \in 1..i : todo'[t][k] # find
      BY DEF Asked
    <3>1. n + i \in 1..Len(todo[t]) /\ todo[t][n + i] = drop(p)
      BY <2>3
    <3>2. CASE Allowed(t, p) /\ \A k \in 1..(n + i) : todo[t][k] # find
      <4>1. \A k \in 1..i : n + k \in 1..(n + i) /\ k \in 1..Len(todo'[t])
        BY DEF Left
      <4> QED BY <2>2, <2>3, <3>2, <4>1
    <3>3. CASE TestedBefore(todo[t], p, n + i)
      <4>1. PICK j \in 1..Len(todo[t]) :
              /\ j < n + i /\ todo[t][j] \in Tests(p)
              /\ \A k \in 1..(n + i) : j < k => todo[t][k] # find
        BY <3>3 DEF TestedBefore
      <4>2. CASE j <= n
        <5>1. Allowed(t, p)
          <6>1. Drops(t, p)
            BY <3>1 DEF Drops
          <6>2. j \in 1..n
            BY <4>1, <4>2 DEF Left
          <6> QED BY <4>1, <6>1, <6>2
        <5>2. \A k \in 1..i : n + k \in 1..(n + i) /\ j < n + k /\ k \in 1..Len(todo'[t])
          BY <4>1, <4>2 DEF Left
        <5> QED BY <2>2, <2>3, <4>1, <5>1, <5>2
      <4>3. CASE j > n
        <5>1. j - n \in 1..Len(todo'[t]) /\ j - n < i /\ todo'[t][j - n] \in Tests(p)
          <6>1. j \in Int /\ n \in Int /\ i \in Int /\ i <= Len(todo'[t]) /\ Len(todo'[t]) \in Int
            BY DEF Left
          <6>2. j - n \in 1..Len(todo'[t]) /\ j - n < i /\ n + (j - n) = j
            BY <4>1, <4>3, <6>1
          <6> QED BY <4>1, <2>3, <6>2
        <5>2. \A k \in 1..i : j - n < k =>
                n + k \in 1..(n + i) /\ j < n + k /\ k \in 1..Len(todo'[t])
          BY <4>1, <4>3 DEF Left
        <5> QED BY <2>3, <4>1, <5>1, <5>2 DEF TestedBefore
      <4>4. j \in Int /\ n \in Int
        BY <4>1 DEF Left
      <4> QED BY <4>2, <4>3, <4>4
    <3> QED BY <3>1, <3>2, <3>3 DEF Thread, Asked
  <2> QED BY <1>1, <1>3, <2>1, <2>3, <2>4 DEF Thread
<1> QED BY <1>2, <1>3

-----------------------------------------------------------------------------
(* Steps                                                                   *)

LEMMA AtStep ==
  ASSUME NEW t \in Threads, Thread(t), NEW op, At(t, op)
  PROVE  /\ todo[t] \in Seq(Steps) /\ todo[t] # <<>> /\ 1 \in 1..Len(todo[t])
         /\ op \in PoolOps => PoolOf(t) \in Pools /\ todo[t][1] = <<op, PoolOf(t)>>
         /\ op \notin PoolOps => todo[t][1] = <<op>>
<1>1. todo[t] \in Seq(Steps) /\ todo[t] # <<>>
  BY DEF At, Idle, Thread, WellFormed
<1>2. Head(todo[t]) = todo[t][1] /\ todo[t][1] \in Steps /\ todo[t][1][1] = op
  BY <1>1 DEF At
<1>3. 1 \in 1..Len(todo[t])
  BY <1>1
<1>4. CASE todo[t][1] \in {<<o>> : o \in Ops}
  BY <1>1, <1>2, <1>3, <1>4 DEF Ops, PoolOps
<1>5. CASE todo[t][1] \in {<<o, p>> : o \in PoolOps, p \in Pools}
  <2>1. PICK o \in PoolOps, p \in Pools : todo[t][1] = <<o, p>>
    BY <1>5
  <2>2. o = op /\ PoolOf(t) = p
    BY <1>2, <2>1 DEF PoolOf
  <2> QED BY <1>1, <1>3, <2>1, <2>2
<1> QED BY <1>2, <1>4, <1>5 DEF Steps

\* A thread makes one step of its text.
LEMMA GoesStep ==
  ASSUME Inv, NEW t \in Threads, todo[t] # <<>>, Goes(t), Tables', Grown,
         \A p \in Pools : Drops(t, p) => (todo[t][1] \in Tests(p) => Allowed(t, p)),
         DOMAIN mutex' = Pools,
         \A p \in Pools :
           \/ mutex'[p] = NoThread
           \/ mutex'[p] = mutex[p] /\ todo[t][1] \notin PoolGiven(p)
           \/ mutex'[p] = t /\ todo[t][1] \in PoolTaken(p),
         \A l \in locks' :
           \/ l \in locks /\ (l[1] = t => todo[t][1] \notin ObjectGiven(l[2]))
           \/ l[1] = t /\ l[2] \in Pools /\ todo[t][1] \in ObjectTaken(l[2])
  PROVE  Inv'
<1>1. \A u \in Threads : Thread(u) /\ Holds(u)
  BY DEF Inv
<1>2. NoThread \notin Threads
  BY RequestsAssumption DEF RequestsAssumption
<1>3. ASSUME NEW u \in Threads, u # t PROVE Thread(u)' /\ Holds(u)'
  <2>1. todo'[u] = todo[u] /\ uid'[u] = uid[u] /\ req'[u] = req[u]
    BY <1>3 DEF Goes, Inv, Variables
  <2>2. \A p \in Pools : mutex'[p] = u => mutex[p] = u
    BY <1>2, <1>3
  <2>3. \A l \in locks' : l[1] = u => l \in locks
    BY <1>3
  <2> QED BY <1>1, <2>1, <2>2, <2>3, OthersKeep
<1>4. Left(todo[t], todo'[t], 1)
  BY <1>1, LeftOfTail DEF Goes, Thread, WellFormed, Inv, Variables
<1>5. /\ \/ uid'[t] = uid[t] /\ req'[t] = req[t]
         \/ todo'[t] = <<>> /\ uid'[t] = -1
      /\ todo'[t] # <<>> \/ uid'[t] = -1
  <2>1. CASE Len(todo[t]) = 1
    BY <1>4, <2>1 DEF Goes, Left, Inv, Variables
  <2>2. CASE Len(todo[t]) # 1
    <3>1. uid' = uid /\ req' = req
      BY <2>2 DEF Goes
    <3>2. Len(todo'[t]) # 0
      BY <1>4, <2>2 DEF Left
    <3> QED BY <3>1, <3>2
  <2> QED BY <2>1, <2>2
<1>6. Thread(t)'
  <2>1. \A i \in 1..1 : i = 1
    OBVIOUS
  <2> QED BY <1>1, <1>4, <1>5, <2>1, GoesOn
<1>7. Holds(t)'
  <2>1. todo[t] \in Seq(Steps) /\ \A i \in 1..1 : i = 1
    BY <1>1 DEF Thread, WellFormed
  <2>2. ASSUME NEW p \in Pools, mutex'[p] = t PROVE Ahead(todo'[t], PoolGiven(p), PoolTaken(p))
    <3>1. CASE todo[t][1] \in PoolTaken(p)
      BY <1>1, <1>4, <2>1, <3>1, AheadOfTaken DEF Thread, WellFormed
    <3>2. CASE mutex[p] = t /\ todo[t][1] \notin PoolGiven(p)
      BY <1>1, <1>4, <2>1, <3>2, LeftAhead DEF Holds
    <3> QED BY <1>2, <2>2, <3>1, <3>2
  <2>3. ASSUME NEW l \in locks', l[1] = t
        PROVE  l[2] \in Pools /\ Ahead(todo'[t], ObjectGiven(l[2]), ObjectTaken(l[2]))
    <3>1. CASE l[2] \in Pools /\ todo[t][1] \in ObjectTaken(l[2])
      BY <1>1, <1>4, <2>1, <3>1, AheadOfTaken DEF Thread, WellFormed
    <3>2. CASE l \in locks /\ todo[t][1] \notin ObjectGiven(l[2])
      BY <1>1, <1>4, <2>1, <2>3, <3>2, LeftAhead DEF Holds
    <3> QED BY <2>3, <3>1, <3>2
  <2> QED BY <2>2, <2>3 DEF Holds
<1>8. Variables'
  BY DEF Variables, Goes, Inv
<1> QED BY <1>3, <1>6, <1>7, <1>8 DEF Inv

\* A thread passes over some of its text.
LEMMA SkipStep ==
  ASSUME Inv, NEW t \in Threads, NEW n \in Nat, n # 0, n + 1 \in 1..Len(todo[t]),
         todo' = [todo EXCEPT ![t] = SubSeq(@, n + 1, Len(@))],
         UNCHANGED <<data, locks, req, uid>>,
         DOMAIN mutex' = Pools,
         \A p \in Pools : mutex'[p] \in {mutex[p], NoThread},
         \A p \in Pools : \A i \in 1..n : todo[t][i] \notin Tests(p),
         \A p \in Pools : mutex'[p] = t => \A i \in 1..n : todo[t][i] \notin PoolGiven(p),
         \A l \in locks : l[1] = t => \A i \in 1..n : todo[t][i] \notin ObjectGiven(l[2])
  PROVE  Inv'
<1>1. \A u \in Threads : Thread(u) /\ Holds(u)
  BY DEF Inv
<1>2. NoThread \notin Threads
  BY RequestsAssumption DEF RequestsAssumption
<1>3. Grown /\ Tables' /\ Variables'
  BY DEF Grown, Inv, Tables, Variables, data, Users, Networks, Pools
<1>4. ASSUME NEW u \in Threads, u # t PROVE Thread(u)' /\ Holds(u)'
  <2>1. \A p \in Pools : mutex'[p] = u => mutex[p] = u
    BY <1>2
  <2>2. todo'[u] = todo[u] /\ uid'[u] = uid[u] /\ req'[u] = req[u]
    BY <1>4
  <2> QED BY <1>1, <1>3, <2>1, <2>2, OthersKeep
<1>5. todo[t] \in Seq(Steps) /\ Left(todo[t], todo'[t], n) /\ todo'[t] # <<>>
  <2>1. todo[t] \in Seq(Steps) /\ todo'[t] = SubSeq(todo[t], n + 1, Len(todo[t]))
    BY <1>1 DEF Thread, WellFormed, Inv, Variables
  <2>2. Left(todo[t], todo'[t], n)
    BY <2>1, LeftOfSkip
  <2>3. Len(todo'[t]) # 0
    BY <2>1, <2>2 DEF Left
  <2> QED BY <2>1, <2>2, <2>3
<1>6. Thread(t)'
  BY <1>1, <1>3, <1>5, GoesOn
<1>7. Holds(t)'
  <2>1. ASSUME NEW p \in Pools, mutex'[p] = t PROVE Ahead(todo'[t], PoolGiven(p), PoolTaken(p))
    <3>1. mutex[p] = t
      BY <1>2, <2>1
    <3> QED BY <1>1, <1>5, <2>1, <3>1, LeftAhead DEF Holds
  <2>2. ASSUME NEW l \in locks, l[1] = t
        PROVE  l[2] \in Pools /\ Ahead(todo'[t], ObjectGiven(l[2]), ObjectTaken(l[2]))
    BY <1>1, <1>5, <2>2, LeftAhead DEF Holds
  <2> QED BY <2>1, <2>2 DEF Holds
<1> QED BY <1>3, <1>4, <1>6, <1>7 DEF Inv

LEMMA RefuseStep ==
  ASSUME Inv, NEW t \in Threads, Refuse(t)
  PROVE  Inv'
<1>1. \A u \in Threads : Thread(u) /\ Holds(u)
  BY DEF Inv
<1>2. NoThread \notin Threads
  BY RequestsAssumption DEF RequestsAssumption
<1>3. Grown /\ Tables' /\ Variables'
  BY DEF Grown, Inv, Tables, Variables, Refuse, data, Users, Networks, Pools
<1>4. ASSUME NEW u \in Threads, u # t PROVE Thread(u)' /\ Holds(u)'
  <2>1. \A p \in Pools : mutex'[p] = u => mutex[p] = u
    BY <1>2 DEF Refuse
  <2>2. todo'[u] = todo[u] /\ uid'[u] = uid[u] /\ req'[u] = req[u]
    BY <1>4 DEF Refuse
  <2>3. \A l \in locks' : l \in locks
    BY DEF Refuse
  <2> QED BY <1>1, <1>3, <2>1, <2>2, <2>3, OthersKeep
<1>5. Thread(t)' /\ Holds(t)'
  <2>1. todo'[t] = <<>> /\ uid'[t] = -1
    BY DEF Refuse, Inv, Variables
  <2>2. (\A p \in Pools : mutex'[p] # t) /\ \A l \in locks' : l[1] # t
    BY <1>2 DEF Refuse
  <2>3. WellFormed(<<>>)
    BY DEF WellFormed, Paired
  <2> QED BY <2>1, <2>2, <2>3 DEF Thread, Asked, Holds
<1> QED BY <1>3, <1>4, <1>5 DEF Inv

LEMMA SameData ==
  ASSUME Inv, UNCHANGED data
  PROVE  Grown /\ Tables'
BY DEF Grown, Inv, Tables, data, Users, Networks, Pools

\* A step that locks and unlocks nothing, and tests nothing.
LEMMA PlainStep ==
  ASSUME Inv, NEW t \in Threads,
         NEW op \in {"drop", "update", "dump", "free", "learn", "forget", "anyone", "nic"},
         At(t, op), Goes(t), Grown, Tables', UNCHANGED <<mutex, locks>>
  PROVE  Inv'
<1>1. Thread(t) /\ Holds(t) /\ DOMAIN mutex = Pools
  BY DEF Inv, Variables
<1>2. todo[t] # <<>> /\ todo[t][1] \in {<<op>>, <<op, PoolOf(t)>>}
  BY <1>1, AtStep
<1>3. \A p : /\ todo[t][1] \notin Tests(p)
             /\ todo[t][1] \notin PoolGiven(p)
             /\ todo[t][1] \notin ObjectGiven(p)
  BY <1>2 DEF Tests, PoolGiven, ObjectGiven, is, lock, insert, unlock
<1> QED BY <1>1, <1>2, <1>3, GoesStep

LEMMA FindStep ==
  ASSUME Inv, NEW t \in Threads, Find(t)
  PROVE  Inv'
<1>1. CASE req[t].client \notin DOMAIN known_users
  BY <1>1, RefuseStep DEF Find
<1>2. CASE req[t].client \in DOMAIN known_users
  <2> DEFINE s == todo[t]
             r == Tail(todo[t])
  <2>1. /\ todo' = [todo EXCEPT ![t] = Tail(@)]
        /\ uid' = [uid EXCEPT ![t] = known_users[req[t].client]]
        /\ UNCHANGED <<data, mutex, locks, req>>
    BY <1>2 DEF Find
  <2>2. Variables /\ Tables /\ \A u \in Threads : Thread(u) /\ Holds(u)
    BY DEF Inv
  <2>3. s \in Seq(Steps) /\ s # <<>> /\ s[1] = find /\ 1 \in 1..Len(s) /\ WellFormed(s)
    BY <2>2, AtStep DEF Find, find, PoolOps, Thread
  <2>4. Left(s, r, 1) /\ WellFormed(r) /\ r # <<>>
    <3>1. Left(s, r, 1)
      BY <2>3, LeftOfTail
    <3>2. Len(r) # 0
      BY <2>3, <3>1 DEF WellFormed, Left
    <3> HIDE DEF s, r
    <3>3. WellFormed(r)
      BY <2>3, <3>1, LeftWellFormed
    <3>4. r # <<>>
      BY <3>2
    <3> QED BY <3>1, <3>3, <3>4
  <2>5. Grown /\ Tables' /\ Variables'
    BY <2>1, <2>2, SameData DEF Variables
  <2>6. ASSUME NEW u \in Threads, u # t PROVE Thread(u)' /\ Holds(u)'
    <3>1. todo'[u] = todo[u] /\ uid'[u] = uid[u] /\ req'[u] = req[u]
      BY <2>1, <2>2, <2>6 DEF Variables
    <3> QED BY <2>1, <2>2, <2>5, <3>1, OthersKeep
  <2>7. todo'[t] = r /\ uid'[t] = known_users[req[t].client] /\ req'[t] = req[t]
    BY <2>1, <2>2 DEF Variables
  <2>8. \A i \in 1..Len(r) : 1 + i \in 1..Len(s) /\ r[i] = s[1 + i]
    BY <2>3, <2>4 DEF Left
  <2>9. ASSUME NEW p \in Pools, NEW i \in 1..Len(r), r[i] = drop(p) PROVE TestedBefore(r, p, i)
    <3>1. 1 + i \in 1..Len(s) /\ s[1 + i] = drop(p)
      BY <2>8, <2>9
    <3>2. 1 \in 1..(1 + i)
      BY <2>3
    <3>3. TestedBefore(s, p, 1 + i)
      BY <2>2, <2>3, <3>1, <3>2 DEF Thread, Asked
    <3>4. PICK j \in 1..Len(s) :
            /\ j < 1 + i /\ s[j] \in Tests(p)
            /\ \A k \in 1..(1 + i) : j < k => s[k] # find
      BY <3>3 DEF TestedBefore
    <3>5. j # 1
      BY <2>3, <3>4 DEF Tests, find, is
    <3>6. j - 1 \in 1..Len(r) /\ j - 1 < i /\ 1 + (j - 1) = j
      BY <2>3, <2>4, <3>4, <3>5 DEF Left
    <3>7. r[j - 1] \in Tests(p)
      BY <2>8, <3>4, <3>6
    <3>8. \A k \in 1..i : j - 1 < k => r[k] # find
      <4> TAKE k \in 1..i
      <4> HAVE j - 1 < k
      <4>1. 1 + k \in 1..(1 + i) /\ j < 1 + k /\ k \in 1..Len(r)
        BY <3>6
      <4> QED BY <2>8, <3>4, <4>1
    <3> QED BY <3>6, <3>7, <3>8 DEF TestedBefore
  <2>10. Thread(t)'
    <3>1. uid'[t] = 0 => req'[t].client = "oneadmin"
      BY <1>2, <2>2, <2>7 DEF Tables
    <3> HIDE DEF r, s
    <3>2. Asked(t)'
      BY <2>7, <2>9 DEF Asked
    <3>3. \A i \in 1..Len(r) :
            /\ r[i] = drop("users") => req[t].oid # 0
            /\ r[i] = drop("networks") => req[t].method = "vn.delete" /\ req[t].oid \in Nat
      BY <2>2, <2>8 DEF Thread, s
    <3> QED BY <2>4, <2>7, <3>1, <3>2, <3>3 DEF Thread
  <2>11. Holds(t)'
    <3>1. \A p : s[1] \notin PoolGiven(p) /\ s[1] \notin ObjectGiven(p)
      BY <2>3 DEF PoolGiven, ObjectGiven, find, lock, insert, unlock
    <3>2. \A i \in 1..1 : i = 1
      OBVIOUS
    <3> HIDE DEF r
    <3>3. \A p \in Pools : mutex[p] = t => Ahead(r, PoolGiven(p), PoolTaken(p))
      BY <2>2, <2>3, <2>4, <3>1, <3>2, LeftAhead DEF Holds
    <3>4. \A l \in locks : l[1] = t =>
            l[2] \in Pools /\ Ahead(r, ObjectGiven(l[2]), ObjectTaken(l[2]))
      BY <2>2, <2>3, <2>4, <3>1, <3>2, LeftAhead DEF Holds
    <3> QED BY <2>1, <2>7, <3>3, <3>4 DEF Holds
  <2> QED BY <2>5, <2>6, <2>10, <2>11 DEF Inv
<1> QED BY <1>1, <1>2

LEMMA AuthenticateStep ==
  ASSUME Inv, NEW t \in Threads, Authenticate(t)
  PROVE  Inv'
<1>1. PICK test \in {"admin", "owner", "anyone"} :
        /\ At(t, test)
        /\ \/ Refuse(t)
           \/ UNCHANGED <<data, mutex, locks, req, todo, uid>>
           \/ MayGoOn(t, test) /\ Goes(t) /\ UNCHANGED <<data, mutex, locks>>
  BY DEF Authenticate
<1>2. CASE UNCHANGED <<data, mutex, locks, req, todo, uid>>
  <2>1. Grown /\ Tables' /\ Variables'
    BY <1>2, SameData DEF Inv, Variables
  <2> QED BY <1>2, <2>1, OthersKeep DEF Inv
<1>3. CASE MayGoOn(t, test) /\ Goes(t) /\ UNCHANGED <<data, mutex, locks>>
  <2>1. Thread(t) /\ Tables /\ DOMAIN mutex = Pools /\ Grown /\ Tables'
    BY <1>3, SameData DEF Inv, Variables
  <2>2. todo[t] # <<>> /\ todo[t][1] = <<test>> /\ todo[t] \in Seq(Steps) /\ 1 \in 1..Len(todo[t])
    BY <1>1, <2>1, AtStep DEF PoolOps
  <2>3. \A p : todo[t][1] \notin PoolGiven(p) /\ todo[t][1] \notin ObjectGiven(p)
    BY <2>2 DEF PoolGiven, ObjectGiven, lock, insert, unlock
  <2>4. CASE \A p \in Pools : Drops(t, p) => (todo[t][1] \in Tests(p) => Allowed(t, p))
    BY <1>3, <2>1, <2>2, <2>3, <2>4, GoesStep
  <2>5. CASE uid[t] = 0
    BY <2>4, <2>5 DEF Allowed
  <2>6. CASE uid[t] # 0 /\ test = "anyone"
    BY <2>2, <2>4, <2>6 DEF Tests, is
  <2>7. CASE uid[t] # 0 /\ test = "admin"
    BY <1>3, <2>7 DEF MayGoOn
  <2>8. CASE uid[t] # 0 /\ test = "owner"
    <3>1. ASSUME Drops(t, "networks") PROVE Allowed(t, "networks")
      <4>1. req[t].method = "vn.delete" /\ req[t].oid \in Nat
        BY <2>1, <3>1 DEF Drops, Thread
      <4>2. req[t].oid \in DOMAIN Networks /\ Networks[req[t].oid] = uid[t]
        BY <1>3, <2>8, <4>1 DEF MayGoOn, Networks
      <4>3. req[t].oid <= lastOID["networks"]
        BY <2>1, <4>2 DEF Tables, Networks, Pools
      <4> QED BY <4>1, <4>2, <4>3 DEF Allowed
    <3>2. \A p \in Pools : todo[t][1] \in Tests(p) => p = "networks"
      BY <2>2, <2>8 DEF Tests, is
    <3> QED BY <2>4, <3>1, <3>2
  <2> QED BY <2>5, <2>6, <2>7, <2>8
<1> QED BY <1>1, <1>2, <1>3, RefuseStep

LEMMA NameIsFreeStep ==
  ASSUME Inv, NEW t \in Threads, NameIsFree(t)
  PROVE  Inv'
<1>1. CASE Refuse(t)
  BY <1>1, RefuseStep
<1>2. CASE Goes(t) /\ UNCHANGED <<data, mutex, locks>>
  BY <1>2, SameData, PlainStep DEF NameIsFree
<1> QED BY <1>1, <1>2 DEF NameIsFree

LEMMA StatementStep ==
  ASSUME Inv, NEW t \in Threads, Statement(t)
  PROVE  Inv'
BY SameData, PlainStep DEF Statement

LEMMA LockPoolStep ==
  ASSUME Inv, NEW t \in Threads, LockPool(t)
  PROVE  Inv'
<1>1. Thread(t) /\ DOMAIN mutex = Pools /\ Grown /\ Tables' /\ Goes(t) /\ locks' = locks
  BY SameData DEF Inv, Variables, LockPool
<1>2. PICK op \in {"get", "begin"} : At(t, op)
  BY DEF LockPool
<1>3. todo[t] # <<>> /\ PoolOf(t) \in Pools /\ todo[t][1] = <<op, PoolOf(t)>>
  BY <1>1, <1>2, AtStep DEF PoolOps
<1>4. \A p : /\ todo[t][1] \notin Tests(p) /\ todo[t][1] \notin PoolGiven(p)
             /\ todo[t][1] \notin ObjectGiven(p)
  BY <1>3 DEF Tests, PoolGiven, ObjectGiven, is, lock, insert, unlock
<1>5. todo[t][1] \in PoolTaken(PoolOf(t))
  BY <1>3 DEF PoolTaken, get
<1>6. \A p \in Pools : mutex'[p] = IF p = PoolOf(t) THEN t ELSE mutex[p]
  BY <1>1 DEF LockPool
<1>7. DOMAIN mutex' = Pools
  BY <1>1 DEF LockPool
<1> QED BY <1>1, <1>3, <1>4, <1>5, <1>6, <1>7, GoesStep

LEMMA LockObjectStep ==
  ASSUME Inv, NEW t \in Threads, LockObject(t)
  PROVE  Inv'
<1>1. CASE Refuse(t)
  BY <1>1, RefuseStep
<1>2. CASE ~ Refuse(t)
  <2> DEFINE p == PoolOf(t)
             o == ObjectOf(t, p)
  <2>1. /\ At(t, "lock") /\ Goes(t) /\ UNCHANGED data
        /\ locks' = locks \cup {<<t, p, o>>}
        /\ mutex' = [mutex EXCEPT ![p] = NoThread]
    BY <1>2 DEF LockObject
  <2>2. Thread(t) /\ DOMAIN mutex = Pools /\ Grown /\ Tables'
    BY <2>1, SameData DEF Inv, Variables
  <2>3. todo[t] # <<>> /\ p \in Pools /\ todo[t][1] = lock(p)
    BY <2>1, <2>2, AtStep DEF PoolOps, lock
  <2> HIDE DEF p, o
  <2>4. \A q : /\ todo[t][1] \notin Tests(q) /\ todo[t][1] \notin ObjectGiven(q)
               /\ q # p => todo[t][1] \notin PoolGiven(q)
    BY <2>3 DEF Tests, PoolGiven, ObjectGiven, is, lock, insert, unlock
  <2>5. \A q \in Pools : mutex'[q] = IF q = p THEN NoThread ELSE mutex[q]
    BY <2>1, <2>2
  <2>6. DOMAIN mutex' = Pools
    BY <2>1, <2>2
  <2>7. \A l \in locks' :
           \/ l \in locks /\ (l[1] = t => todo[t][1] \notin ObjectGiven(l[2]))
           \/ l[1] = t /\ l[2] \in Pools /\ todo[t][1] \in ObjectTaken(l[2])
    BY <2>1, <2>3, <2>4 DEF ObjectTaken
  <2> QED BY <2>1, <2>2, <2>3, <2>4, <2>5, <2>6, <2>7, GoesStep
<1> QED BY <1>1, <1>2

LEMMA UnlockObjectStep ==
  ASSUME Inv, NEW t \in Threads, UnlockObject(t)
  PROVE  Inv'
<1>1. /\ At(t, "unlock") /\ Goes(t) /\ UNCHANGED <<data, mutex>>
      /\ locks' = {l \in locks : ~ (l[1] = t /\ l[2] = PoolOf(t))}
  BY DEF UnlockObject
<1>2. Thread(t) /\ DOMAIN mutex = Pools /\ Grown /\ Tables'
  BY <1>1, SameData DEF Inv, Variables
<1>3. todo[t] # <<>> /\ todo[t][1] = unlock(PoolOf(t))
  BY <1>1, <1>2, AtStep DEF PoolOps, unlock
<1>4. \A q : /\ todo[t][1] \notin Tests(q) /\ todo[t][1] \notin PoolGiven(q)
             /\ q # PoolOf(t) => todo[t][1] \notin ObjectGiven(q)
  BY <1>3 DEF Tests, PoolGiven, ObjectGiven, is, lock, insert, unlock
<1> QED BY <1>1, <1>2, <1>3, <1>4, GoesStep

\* What comes ahead is not what is taken first.
LEMMA NotAhead ==
  ASSUME NEW s, NEW given, NEW taken, NEW n \in 1..Len(s), s[n] \in taken,
         Len(s) \in Nat, \A i \in 1..n : s[i] \notin given
  PROVE  ~ Ahead(s, given, taken)
<1> SUFFICES ASSUME NEW i \in 1..Len(s), s[i] \in given, \A k \in 1..i : s[k] \notin taken
             PROVE  FALSE
  BY DEF Ahead
<1>1. i <= n \/ n <= i
  OBVIOUS
<1> QED BY <1>1

LEMMA TakeNicStep ==
  ASSUME Inv, NEW t \in Threads, TakeNic(t)
  PROVE  Inv'
<1>1. CASE Goes(t)
  BY <1>1, SameData, PlainStep DEF TakeNic
<1>2. CASE ~ Goes(t)
  <2>1. /\ At(t, "nic") /\ UNCHANGED <<data, mutex, locks, req, uid>>
        /\ todo' = [todo EXCEPT ![t] = SubSeq(@, 4 + 1, Len(@))]
    BY <1>2 DEF TakeNic
  <2>2. Thread(t) /\ Holds(t) /\ DOMAIN mutex = Pools
    BY DEF Inv, Variables
  <2> DEFINE s == todo[t]
  <2>3. s \in Seq(Steps) /\ 1 \in 1..Len(s) /\ s[1] = <<"nic">>
    BY <2>1, <2>2, AtStep DEF PoolOps
  <2>4. /\ 1 + 4 \in 1..Len(s)
        /\ s[1 + 1] = get("networks") /\ s[1 + 2] = lock("networks") /\ s[1 + 3] = unlock("networks")
    BY <2>2, <2>3 DEF Thread, WellFormed
  <2>5. /\ Len(s) \in Nat /\ {1, 2, 3, 4, 5} \subseteq 1..Len(s)
        /\ s[2] = get("networks") /\ s[3] = lock("networks") /\ s[4] = unlock("networks")
    BY <2>3, <2>4
  <2> HIDE DEF s
  <2>6. \A i \in 1..4 : s[i] \in {<<"nic">>, get("networks"), lock("networks"), unlock("networks")}
    <3>1. \A i \in 1..4 : i \in {1, 2, 3, 4}
      OBVIOUS
    <3> QED BY <2>3, <2>5, <3>1
  <2>7. \A p : \A i \in 1..4 :
          /\ s[i] \notin Tests(p)
          /\ p # "networks" => s[i] \notin PoolGiven(p) /\ s[i] \notin ObjectGiven(p)
    BY <2>6 DEF Tests, PoolGiven, ObjectGiven, is, get, lock, insert, unlock
  <2>8. mutex["networks"] # t
    <3>1. \A i \in 1..2 : s[i] \notin PoolGiven("networks")
      <4>1. \A i \in 1..2 : i \in {1, 2}
        OBVIOUS
      <4> QED BY <2>3, <2>5, <4>1 DEF s, PoolGiven, get, lock
    <3>2. s[2] \in PoolTaken("networks")
      BY <2>5 DEF PoolTaken
    <3>3. ~ Ahead(s, PoolGiven("networks"), PoolTaken("networks"))
      BY <2>5, <3>1, <3>2, NotAhead
    <3> QED BY <2>2, <3>3 DEF Holds, Pools, s
  <2>9. \A l \in locks : l[1] = t => l[2] # "networks"
    <3>1. \A i \in 1..3 : s[i] \notin ObjectGiven("networks")
      <4>1. \A i \in 1..3 : i \in {1, 2, 3}
        OBVIOUS
      <4> QED BY <2>3, <2>5, <4>1 DEF s, ObjectGiven, get, lock, unlock
    <3>2. s[3] \in ObjectTaken("networks")
      BY <2>5 DEF ObjectTaken
    <3>3. ~ Ahead(s, ObjectGiven("networks"), ObjectTaken("networks"))
      BY <2>5, <3>1, <3>2, NotAhead
    <3> QED BY <2>2, <3>3 DEF Holds, s
  <2>10. 4 \in Nat /\ 4 # 0 /\ 4 + 1 \in 1..Len(todo[t])
    BY <2>5 DEF s
  <2>11. \A p \in Pools : mutex'[p] = t => \A i \in 1..4 : todo[t][i] \notin PoolGiven(p)
    BY <2>1, <2>7, <2>8 DEF s
  <2>12. \A l \in locks : l[1] = t => \A i \in 1..4 : todo[t][i] \notin ObjectGiven(l[2])
    BY <2>7, <2>9 DEF s
  <2>13. \A p \in Pools : \A i \in 1..4 : todo[t][i] \notin Tests(p)
    BY <2>7 DEF s
  <2>14. DOMAIN mutex' = Pools /\ \A p \in Pools : mutex'[p] \in {mutex[p], NoThread}
    BY <2>1, <2>2
  <2> QED BY <2>1, <2>10, <2>11, <2>12, <2>13, <2>14, SkipStep
<1> QED BY <1>1, <1>2

LEMMA LockLeaseStep ==
  ASSUME Inv, NEW t \in Threads, LockLease(t)
  PROVE  Inv'
<1> DEFINE s == todo[t]
           o == req[t].oid
<1>1. /\ At(t, "lease") /\ UNCHANGED data
      /\ mutex' = [mutex EXCEPT !["networks"] = NoThread]
  BY DEF LockLease
<1>2. Thread(t) /\ Holds(t) /\ DOMAIN mutex = Pools /\ Grown /\ Tables'
  BY <1>1, SameData DEF Inv, Variables
<1>3. s \in Seq(Steps) /\ s # <<>> /\ 1 \in 1..Len(s) /\ s[1][1] = "lease"
  BY <1>1, <1>2, AtStep DEF PoolOps
<1>4. /\ 1 + 3 \in 1..Len(s) /\ s[1] = <<"lease", "networks">>
      /\ s[1 + 1] = update("networks") /\ s[1 + 2] = unlock("networks")
  BY <1>2, <1>3 DEF Thread, WellFormed
<1>5. /\ Len(s) \in Nat /\ {1, 2, 3, 4} \subseteq 1..Len(s)
      /\ s[2] = update("networks") /\ s[3] = unlock("networks")
  BY <1>3, <1>4
<1> HIDE DEF s, o
<1>6. DOMAIN mutex' = Pools /\ mutex'["networks"] = NoThread
      /\ \A p \in Pools : p # "networks" => mutex'[p] = mutex[p]
  BY <1>1, <1>2 DEF Pools
<1>7. \A p : /\ s[1] \notin Tests(p) /\ s[1] \notin ObjectGiven(p)
             /\ p # "networks" => s[1] \notin PoolGiven(p)
  BY <1>4 DEF Tests, PoolGiven, ObjectGiven, is, lock, insert, unlock
<1>8. CASE Goes(t) /\ locks' = locks \cup {<<t, "networks", o>>}
  <2>1. \A l \in locks' :
           \/ l \in locks /\ (l[1] = t => todo[t][1] \notin ObjectGiven(l[2]))
           \/ l[1] = t /\ l[2] \in Pools /\ todo[t][1] \in ObjectTaken(l[2])
    BY <1>4, <1>7, <1>8 DEF s, ObjectTaken, Pools
  <2>2. todo[t] # <<>> /\ \A p \in Pools : todo[t][1] \notin Tests(p)
    BY <1>3, <1>7 DEF s
  <2>3. \A p \in Pools :
           \/ mutex'[p] = NoThread
           \/ mutex'[p] = mutex[p] /\ todo[t][1] \notin PoolGiven(p)
    BY <1>6, <1>7 DEF s
  <2> QED BY <1>2, <1>6, <1>8, <2>1, <2>2, <2>3, GoesStep
<1>9. CASE /\ todo' = [todo EXCEPT ![t] = SubSeq(@, 3 + 1, Len(@))]
           /\ UNCHANGED <<locks, req, uid>>
  <2>1. \A i \in 1..3 : i \in {1, 2, 3}
    OBVIOUS
  <2>2. \A p : \A i \in 1..3 :
          /\ s[i] \notin Tests(p)
          /\ p # "networks" => s[i] \notin PoolGiven(p) /\ s[i] \notin ObjectGiven(p)
    BY <1>4, <1>5, <2>1
    DEF Tests, PoolGiven, ObjectGiven, is, update, lock, insert, unlock
  <2>3. \A l \in locks : l[1] = t => l[2] # "networks"
    <3>1. \A i \in 1..1 : i = 1
      OBVIOUS
    <3>2. s[1] \in ObjectTaken("networks")
      BY <1>4 DEF ObjectTaken
    <3>3. ~ Ahead(s, ObjectGiven("networks"), ObjectTaken("networks"))
      BY <1>3, <1>5, <1>7, <3>1, <3>2, NotAhead
    <3> QED BY <1>2, <3>3 DEF Holds, s
  <2>4. 3 \in Nat /\ 3 # 0 /\ 3 + 1 \in 1..Len(todo[t])
    BY <1>5 DEF s
  <2>5. NoThread # t
    BY RequestsAssumption DEF RequestsAssumption
  <2>6. \A p \in Pools : mutex'[p] = t => \A i \in 1..3 : todo[t][i] \notin PoolGiven(p)
    BY <1>6, <2>2, <2>5 DEF s
  <2>7. \A l \in locks : l[1] = t => \A i \in 1..3 : todo[t][i] \notin ObjectGiven(l[2])
    BY <2>2, <2>3 DEF s
  <2>8. \A p \in Pools : \A i \in 1..3 : todo[t][i] \notin Tests(p)
    BY <2>2 DEF s
  <2>9. \A p \in Pools : mutex'[p] \in {mutex[p], NoThread}
    BY <1>6
  <2> QED BY <1>1, <1>6, <1>9, <2>4, <2>6, <2>7, <2>8, <2>9, SkipStep
<1> QED BY <1>8, <1>9 DEF LockLease, o

\* The row of a new object: its oid is one nobody has had.
LEMMA InsertTables ==
  ASSUME Inv, NEW p \in Pools, NEW row,
         rows' = [rows EXCEPT ![p] = [q \in DOMAIN @ \cup {lastOID[p] + 1} |->
                                        IF q = lastOID[p] + 1 THEN row ELSE @[q]]],
         lastOID' = [lastOID EXCEPT ![p] = lastOID[p] + 1],
         UNCHANGED known_users
  PROVE  Grown /\ Tables'
<1> DEFINE o == lastOID[p] + 1
<1>1. /\ lastOID[p] \in Int /\ lastOID[p] >= -1 /\ o \in Nat /\ o > lastOID[p]
      /\ DOMAIN rows = Pools /\ DOMAIN lastOID = Pools
  BY DEF Inv, Tables
<1>2. /\ rows'[p] = [q \in DOMAIN rows[p] \cup {o} |-> IF q = o THEN row ELSE rows[p][q]]
      /\ \A r \in Pools \ {p} : rows'[r] = rows[r] /\ lastOID'[r] = lastOID[r]
      /\ lastOID'[p] = o /\ DOMAIN rows' = Pools /\ DOMAIN lastOID' = Pools
  BY <1>1
<1>3. o \notin DOMAIN rows[p]
  BY <1>1 DEF Inv, Tables
<1>4. /\ DOMAIN rows'[p] = DOMAIN rows[p] \cup {o}
      /\ \A q \in DOMAIN rows[p] : rows'[p][q] = rows[p][q]
  BY <1>2, <1>3
<1> HIDE DEF o
<1>5. Grown
  <2>1. lastOID["networks"] \in Int
    BY DEF Inv, Tables, Pools
  <2>2. CASE p = "networks"
    BY <1>1, <1>2, <1>4, <2>1, <2>2 DEF Grown, Networks
  <2>3. CASE p # "networks"
    BY <1>2, <2>1, <2>3 DEF Grown, Networks, Pools
  <2> QED BY <2>2, <2>3
<1>6. \A r \in Pools : lastOID'[r] \in Int /\ lastOID'[r] >= -1 /\ DOMAIN rows'[r] \subseteq Nat
  BY <1>1, <1>2, <1>4 DEF Inv, Tables
<1>7. ASSUME NEW r \in Pools, NEW q \in DOMAIN rows'[r] PROVE q <= lastOID'[r]
  <2>1. CASE r = p
    <3>1. q \in DOMAIN rows[p] => q <= lastOID[p] /\ q \in Nat
      BY DEF Inv, Tables
    <3>2. q = o \/ q \in DOMAIN rows[p]
      BY <1>4, <1>7, <2>1
    <3> QED BY <1>1, <1>2, <2>1, <3>1, <3>2
  <2>2. CASE r # p
    BY <1>2, <1>7, <2>2 DEF Inv, Tables
  <2> QED BY <2>1, <2>2
<1>8. 0 \in DOMAIN Users' /\ Users'[0] = "oneadmin"
  <2>1. 0 \in DOMAIN Users /\ Users[0] = "oneadmin"
    BY DEF Inv, Tables
  <2>2. \A q \in DOMAIN Users : q \in DOMAIN Users' /\ Users'[q] = Users[q]
    BY <1>2, <1>4 DEF Users, Pools
  <2> QED BY <2>1, <2>2
<1>9. \A n \in DOMAIN known_users' : known_users'[n] = 0 => n = "oneadmin"
  BY DEF Inv, Tables
<1> QED BY <1>2, <1>5, <1>6, <1>7, <1>8, <1>9 DEF Tables

LEMMA InsertStep ==
  ASSUME Inv, NEW t \in Threads, Insert(t)
  PROVE  Inv'
<1>1. CASE Refuse(t)
  BY <1>1, RefuseStep
<1>2. CASE ~ Refuse(t)
  <2> DEFINE p == PoolOf(t)
  <2>1. /\ At(t, "insert") /\ Goes(t) /\ locks' = locks
        /\ \/ /\ \E row : rows' = [rows EXCEPT ![p] = [q \in DOMAIN @ \cup {lastOID[p] + 1} |->
                                              IF q = lastOID[p] + 1 THEN row ELSE @[q]]]
              /\ lastOID' = [lastOID EXCEPT ![p] = lastOID[p] + 1]
              /\ mutex' = [mutex EXCEPT ![p] = NoThread]
              /\ UNCHANGED known_users
           \/ p = "users" /\ UNCHANGED <<data, mutex>>
    BY <1>2 DEF Insert
  <2>2. Thread(t) /\ DOMAIN mutex = Pools
    BY DEF Inv, Variables
  <2>3. todo[t] # <<>> /\ p \in Pools /\ todo[t][1] = insert(p)
    BY <2>1, <2>2, AtStep DEF PoolOps, insert
  <2> HIDE DEF p
  <2>4. Grown /\ Tables'
    BY <2>1, <2>3, InsertTables, SameData
  <2>5. \A q : /\ todo[t][1] \notin Tests(q) /\ todo[t][1] \notin ObjectGiven(q)
               /\ q # p \/ p # "vms" => todo[t][1] \notin PoolGiven(q)
    BY <2>3 DEF Tests, PoolGiven, ObjectGiven, is, lock, insert, unlock
  <2>6. DOMAIN mutex' = Pools
    BY <2>1, <2>2
  <2>7. \A q \in Pools :
           \/ mutex'[q] = NoThread
           \/ mutex'[q] = mutex[q] /\ todo[t][1] \notin PoolGiven(q)
    BY <2>1, <2>2, <2>3, <2>5
  <2> QED BY <2>1, <2>3, <2>4, <2>5, <2>6, <2>7, GoesStep
<1> QED BY <1>1, <1>2

\* Who drops a row has been told to: the object is the one the request names.
LEMMA DropAllowed ==
  ASSUME Inv, NEW t \in Threads, At(t, "drop")
  PROVE  /\ PoolOf(t) \in Pools /\ Allowed(t, PoolOf(t))
         /\ PoolOf(t) = "users" => req[t].oid # 0
<1>1. Thread(t)
  BY DEF Inv
<1>2. /\ todo[t] \in Seq(Steps) /\ 1 \in 1..Len(todo[t]) /\ PoolOf(t) \in Pools
      /\ todo[t][1] = drop(PoolOf(t))
  BY <1>1, AtStep DEF PoolOps, drop
<1>3. ~ TestedBefore(todo[t], PoolOf(t), 1)
  BY <1>2 DEF TestedBefore
<1> QED BY <1>1, <1>2, <1>3 DEF Thread, Asked

LEMMA DropStep ==
  ASSUME Inv, NEW t \in Threads, Drop(t)
  PROVE  Inv'
<1>1. CASE Refuse(t)
  BY <1>1, RefuseStep
<1>2. CASE ~ Refuse(t)
  <2> DEFINE p == PoolOf(t)
             o == req[t].oid
  <2>1. /\ At(t, "drop") /\ Goes(t) /\ UNCHANGED <<lastOID, known_users, mutex, locks>>
        /\ rows' = [rows EXCEPT ![p] = [q \in DOMAIN @ \ {o} |-> @[q]]]
    BY <1>2 DEF Drop
  <2>2. p \in Pools /\ (p = "users" => o # 0)
    BY <2>1, DropAllowed
  <2> HIDE DEF p, o
  <2>3. DOMAIN rows = Pools /\ DOMAIN rows' = Pools
    BY <2>1 DEF Inv, Tables
  <2>4. \A r \in Pools : /\ DOMAIN rows'[r] \subseteq DOMAIN rows[r]
                         /\ \A q \in DOMAIN rows'[r] : rows'[r][q] = rows[r][q]
    BY <2>1, <2>2, <2>3
  <2>5. 0 \in DOMAIN Users'
    <3>1. 0 \in DOMAIN Users
      BY DEF Inv, Tables
    <3> QED BY <2>1, <2>2, <2>3, <3>1 DEF Users, Pools
  <2>6. Tables'
    BY <2>1, <2>3, <2>4, <2>5 DEF Inv, Tables, Users, Pools
  <2>7. Grown
    BY <2>1, <2>4 DEF Grown, Inv, Tables, Networks, Pools
  <2> QED BY <2>1, <2>6, <2>7, PlainStep
<1> QED BY <1>1, <1>2

\* Only oneadmin is found as user 0.
LEMMA KnownZero ==
  ASSUME NEW users, 0 \in DOMAIN users, users[0] = "oneadmin",
         NEW n \in DOMAIN Known(users), Known(users)[n] = 0
  PROVE  n = "oneadmin"
<1>1. PICK o \in DOMAIN users : users[o] = n
  BY DEF Known
<1>2. Known(users)[n] = CHOOSE q \in DOMAIN users : users[q] = n
  BY DEF Known
<1> QED BY <1>1, <1>2

LEMMA LearnStep ==
  ASSUME Inv, NEW t \in Threads, Learn(t)
  PROVE  Inv'
<1> DEFINE name == req[t].name
           table == Known(Users)
           oid == IF name \in DOMAIN table THEN table[name] ELSE -1
<1>1. /\ At(t, "learn") /\ Goes(t) /\ UNCHANGED <<rows, lastOID, mutex, locks>>
      /\ known_users' = [n \in DOMAIN known_users \cup {name} |->
                           IF n \in DOMAIN known_users THEN known_users[n] ELSE oid]
  BY DEF Learn, Users
<1>2. Tables
  BY DEF Inv
<1>3. oid = 0 => name = "oneadmin"
  BY <1>2, KnownZero DEF Tables
<1> HIDE DEF oid, name
<1>4. \A n \in DOMAIN known_users' : known_users'[n] = 0 => n = "oneadmin"
  BY <1>1, <1>2, <1>3 DEF Tables
<1>5. Tables'
  BY <1>1, <1>2, <1>4 DEF Tables, Users
<1>6. Grown
  BY <1>1, <1>2 DEF Tables, Grown, Networks, Pools
<1> QED BY <1>1, <1>5, <1>6, PlainStep

LEMMA ForgetStep ==
  ASSUME Inv, NEW t \in Threads, Forget(t)
  PROVE  Inv'
<1> DEFINE old == {n \in DOMAIN known_users : known_users[n] = req[t].oid}
<1>1. /\ At(t, "forget") /\ Goes(t) /\ UNCHANGED <<rows, lastOID, mutex, locks>>
      /\ known_users' = [n \in DOMAIN known_users \ old |-> known_users[n]]
  BY DEF Forget
<1> HIDE DEF old
<1>2. \A n \in DOMAIN known_users' : known_users'[n] = 0 => n = "oneadmin"
  BY <1>1 DEF Inv, Tables
<1>3. Tables' /\ Grown
  BY <1>1, <1>2 DEF Inv, Tables, Grown, Users, Networks, Pools
<1> QED BY <1>1, <1>3, PlainStep

LEMMA CallStep ==
  ASSUME Inv, NEW t \in Threads, NEW r \in Requests, Call(t, r)
  PROVE  Inv'
<1>1. /\ todo[t] = <<>> /\ ~ (r.method = "user.delete" /\ r.oid = 0)
      /\ req' = [req EXCEPT ![t] = r]
      /\ todo' = [todo EXCEPT ![t] = execute(r.method)]
      /\ UNCHANGED <<data, mutex, locks, uid>>
  BY DEF Call, Idle
<1>2. Variables /\ \A u \in Threads : Thread(u) /\ Holds(u)
  BY DEF Inv
<1>3. Grown /\ Tables' /\ Variables'
  BY <1>1, <1>2, SameData DEF Variables
<1>4. ASSUME NEW u \in Threads, u # t PROVE Thread(u)' /\ Holds(u)'
  <2>1. todo'[u] = todo[u] /\ uid'[u] = uid[u] /\ req'[u] = req[u]
    BY <1>1, <1>2, <1>4 DEF Variables
  <2> QED BY <1>1, <1>2, <1>3, <2>1, OthersKeep
<1>5. todo'[t] = execute(r.method) /\ uid'[t] = -1 /\ req'[t] = r
  BY <1>1, <1>2 DEF Variables, Thread
<1>6. r.method \in Methods /\ r.oid \in Nat
  BY RequestsAssumption DEF Requests, Request, RequestsAssumption
<1>7. Method(todo'[t], r.method)
  BY <1>5, <1>6, MethodsAre
<1>8. Thread(t)'
  BY <1>1, <1>5, <1>6, <1>7 DEF Thread, Asked, Method
<1>9. Holds(t)'
  <2>1. \A given, taken : ~ Ahead(todo[t], given, taken)
    BY <1>1 DEF Ahead
  <2> QED BY <1>1, <1>2, <2>1 DEF Holds
<1> QED BY <1>3, <1>4, <1>8, <1>9 DEF Inv

\* The largest oid of a table.
LEMMA Largest ==
  ASSUME NEW S, S \subseteq Nat, S # {}, NEW b \in Int, \A o \in S : o <= b
  PROVE  \E o \in S : \A q \in S : q <= o
<1> DEFINE Bounds == {n \in Nat : \A q \in S : q <= n}
<1>1. b \in Bounds
  <2>1. PICK q \in S : q \in Nat /\ q <= b
    OBVIOUS
  <2> QED BY <2>1
<1>2. PICK n \in Bounds : \A m \in Bounds : ~ (m < n)
  <2>1. PICK n \in Bounds : \A m \in Bounds : ~ (<<m, n>> \in OpToRel(<, Nat))
    <3> HIDE DEF Bounds
    <3>1. Bounds \subseteq Nat /\ Bounds # {}
      BY <1>1 DEF Bounds
    <3> QED BY <3>1, NatLessThanWellFounded, WFMin
  <2> QED BY <2>1 DEF OpToRel
<1>3. n \in S
  <2> SUFFICES ASSUME n \notin S PROVE FALSE
    OBVIOUS
  <2>1. n \in Nat /\ \A q \in S : q \in Nat /\ q <= n - 1
    BY <1>2
  <2>2. n - 1 \in Nat
    <3>1. PICK q \in S : q \in Nat /\ q <= n - 1
      BY <2>1
    <3> QED BY <2>1, <3>1
  <2>3. n - 1 \in Bounds
    BY <2>1, <2>2
  <2>4. n - 1 < n
    BY <2>1
  <2> QED BY <1>2, <2>3, <2>4
<1> QED BY <1>2, <1>3

\* A thread that serves nothing has locked nothing.
LEMMA NothingLeft ==
  ASSUME NEW t \in Threads, todo[t] = <<>>, uid[t] = -1,
         \A p \in Pools : mutex[p] # t, \A l \in locks : l[1] # t
  PROVE  Thread(t) /\ Holds(t)
<1>1. WellFormed(<<>>)
  BY DEF WellFormed, Paired
<1> QED BY <1>1 DEF Thread, Asked, Holds

LEMMA RestartStep ==
  ASSUME Inv, Restart
  PROVE  Inv'
<1>1. Tables /\ Variables
  BY DEF Inv
<1>2. ASSUME NEW p \in Pools
      PROVE  /\ lastOID'[p] \in Int /\ lastOID'[p] >= -1
             /\ \A o \in DOMAIN rows[p] : o <= lastOID'[p]
  <2> DEFINE os == DOMAIN rows[p]
  <2>1. lastOID'[p] = IF os = {} THEN -1 ELSE CHOOSE o \in os : \A q \in os : q <= o
    BY DEF Restart
  <2>2. os \subseteq Nat /\ lastOID[p] \in Int /\ \A o \in os : o <= lastOID[p]
    BY <1>1 DEF Tables
  <2> HIDE DEF os
  <2>3. CASE os # {}
    <3>1. lastOID'[p] \in os /\ \A q \in os : q <= lastOID'[p]
      BY <2>1, <2>2, <2>3, Largest
    <3> QED BY <2>2, <3>1 DEF os
  <2> QED BY <2>1, <2>3 DEF os
<1>3. \A n \in DOMAIN known_users' : known_users'[n] = 0 => n = "oneadmin"
  BY <1>1, KnownZero DEF Restart, Tables, Users
<1>4. Tables'
  BY <1>1, <1>2, <1>3 DEF Tables, Restart, Users
<1>5. Variables'
  BY DEF Restart, Variables
<1>6. NoThread \notin Threads
  BY RequestsAssumption DEF RequestsAssumption
<1>7. ASSUME NEW t \in Threads PROVE Thread(t)' /\ Holds(t)'
  <2>1. /\ todo'[t] = <<>> /\ uid'[t] = -1
        /\ \A p \in Pools : mutex'[p] # t
        /\ \A l \in locks' : l[1] # t
    BY <1>6 DEF Restart
  <2>2. WellFormed(<<>>)
    BY DEF WellFormed, Paired
  <2> QED BY <2>1, <2>2 DEF Thread, Asked, Holds
<1> QED BY <1>4, <1>5, <1>7 DEF Inv

LEMMA InvInit == Init => Inv
<1> SUFFICES ASSUME Init PROVE Inv
  OBVIOUS
<1>1. PICK other \in Clients \ {"oneadmin"}, owner \in {0, 1} :
       rows = [users |-> [o \in {0, 1} |-> IF o = 0 THEN "oneadmin" ELSE other],
               hosts |-> [o \in {0} |-> 0], networks |-> [o \in {0} |-> owner],
               vms |-> [o \in {0} |-> 1]]
  BY DEF Init
<1>2. /\ lastOID = [p \in Pools |-> IF p = "users" THEN 1 ELSE 0]
      /\ known_users = Known(Users)
      /\ mutex = [p \in Pools |-> NoThread] /\ locks = {}
      /\ req = [t \in Threads |-> NoRequest]
      /\ todo = [t \in Threads |-> <<>>]
      /\ uid = [t \in Threads |-> -1]
  BY DEF Init, Users
<1>3. DOMAIN rows = Pools
  BY <1>1 DEF Pools
<1>4. /\ DOMAIN rows["users"] = {0, 1} /\ rows["users"][0] = "oneadmin"
      /\ \A p \in Pools : p # "users" => DOMAIN rows[p] = {0}
  BY <1>1 DEF Pools
<1>5. \A n \in DOMAIN known_users : known_users[n] = 0 => n = "oneadmin"
  BY <1>2, <1>4, KnownZero DEF Users
<1>6. \A p \in Pools :
        /\ lastOID[p] \in Int /\ lastOID[p] >= -1 /\ DOMAIN rows[p] \subseteq Nat
        /\ \A o \in DOMAIN rows[p] : o <= lastOID[p]
  BY <1>2, <1>4 DEF Pools
<1>7. Tables
  BY <1>2, <1>3, <1>4, <1>5, <1>6 DEF Tables, Users
<1>8. Variables
  BY <1>2 DEF Variables
<1>9. NoThread \notin Threads
  BY RequestsAssumption DEF RequestsAssumption
<1>10. \A t \in Threads : Thread(t) /\ Holds(t)
  BY <1>2, <1>9, NothingLeft
<1> QED BY <1>7, <1>8, <1>10 DEF Inv

LEMMA InvNext == Inv /\ [Next]_vars => Inv'
<1> SUFFICES ASSUME Inv, [Next]_vars PROVE Inv'
  OBVIOUS
<1>1. CASE UNCHANGED vars
  <2>1. UNCHANGED <<data, mutex, locks, req, todo, uid>>
    BY <1>1 DEF vars
  <2>2. Grown /\ Tables' /\ Variables'
    BY <2>1, SameData DEF Inv, Variables
  <2> QED BY <2>1, <2>2, OthersKeep DEF Inv
<1>2. ASSUME NEW t \in Threads, Step(t) PROVE Inv'
  BY <1>2, FindStep, AuthenticateStep, NameIsFreeStep, LockPoolStep, LockObjectStep,
     TakeNicStep, LockLeaseStep, UnlockObjectStep, InsertStep, DropStep, StatementStep,
     LearnStep, ForgetStep DEF Step
<1>3. ASSUME NEW t \in Threads, NEW r \in Requests, Call(t, r) PROVE Inv'
  BY <1>3, CallStep
<1>4. CASE Restart
  BY <1>4, RestartStep
<1> QED BY <1>1, <1>2, <1>3, <1>4 DEF Next

LEMMA InvHolds == Spec => []Inv
BY InvInit, InvNext, PTL DEF Spec

\* Whatever methods are called by however many threads, whatever is refused or
\* fails and however often oned starts again, a thread that has answered has
\* unlocked every pool and every object it had locked (the texts of the methods,
\* and their error paths).
THEOREM AnsweredHoldNothing == Spec => []LocksReleased
<1>1. Inv => LocksReleased
  BY DEF Inv, LocksReleased, Holds, Idle, Ahead
<1> QED BY <1>1, InvHolds, PTL

\* Rows are dropped by Drop only.
LEMMA RowsKept ==
  ASSUME Inv, Next, NEW p \in Pools, NEW o \in DOMAIN rows[p] \ DOMAIN rows'[p]
  PROVE  \E t \in Threads :
           At(t, "drop") /\ p = PoolOf(t) /\ o = req[t].oid
<1>1. CASE Restart
  BY <1>1 DEF Restart
<1>2. ASSUME NEW t \in Threads, NEW r \in Requests, Call(t, r) PROVE FALSE
  BY <1>2 DEF Call, data
<1>3. ASSUME NEW t \in Threads, Step(t)
      PROVE  At(t, "drop") /\ p = PoolOf(t) /\ o = req[t].oid
  <2>1. DOMAIN rows = Pools
    BY DEF Inv, Tables
  <2>2. CASE Insert(t)
    <3>1. rows' # rows
      OBVIOUS
    <3>2. PICK row : rows' =
            [rows EXCEPT ![PoolOf(t)] = [n \in DOMAIN @ \cup {lastOID[PoolOf(t)] + 1} |->
                                     IF n = lastOID[PoolOf(t)] + 1 THEN row ELSE @[n]]]
      BY <2>2, <3>1 DEF Insert, Refuse, data
    <3> QED BY <2>1, <3>2
  <2>3. CASE Drop(t)
    <3>1. rows' # rows
      OBVIOUS
    <3>2. rows' = [rows EXCEPT ![PoolOf(t)] = [q \in DOMAIN @ \ {req[t].oid} |-> @[q]]]
      BY <2>3, <3>1 DEF Drop, Refuse, data
    <3>3. p = PoolOf(t) /\ o = req[t].oid
      BY <2>1, <3>2
    <3> QED BY <2>3, <3>3 DEF Drop
  <2>4. CASE ~ Insert(t) /\ ~ Drop(t)
    <3>1. rows' = rows
      BY <1>3, <2>4 DEF Step, Find, Authenticate, NameIsFree, LockPool, LockObject, TakeNic,
         LockLease, UnlockObject, Statement, Learn, Forget, Refuse, data
    <3> QED BY <3>1
  <2> QED BY <2>2, <2>3, <2>4
<1> QED BY <1>1, <1>2, <1>3 DEF Next

\* An object is deleted by a request that names it, and only for oneadmin or, a
\* network, for its owner, whatever other requests delete between the steps of
\* this one (HostDelete, VirtualNetworkDelete and UserDelete::execute).
THEOREM DeletedForOwners == Spec => OnlyOwners
<1> DEFINE Owners ==
      \A p \in Pools : \A o \in DOMAIN rows[p] \ DOMAIN rows'[p] :
       \E t \in Threads :
         /\ ~ Idle(t) /\ req[t].oid = o
         /\ req[t].client = "oneadmin" \/ (p = "networks" /\ rows[p][o] = uid[t])
<1>1. Inv /\ [Next]_vars => [Owners]_vars
  <2> SUFFICES ASSUME Inv, Next PROVE Owners
    OBVIOUS
  <2> SUFFICES ASSUME NEW p \in Pools, NEW o \in DOMAIN rows[p] \ DOMAIN rows'[p]
               PROVE  \E t \in Threads :
                 /\ ~ Idle(t) /\ req[t].oid = o
                 /\ req[t].client = "oneadmin" \/ (p = "networks" /\ rows[p][o] = uid[t])
    OBVIOUS
  <2>1. PICK t \in Threads : At(t, "drop") /\ p = PoolOf(t) /\ o = req[t].oid
    BY RowsKept
  <2>2. Allowed(t, p) /\ Thread(t)
    BY <2>1, DropAllowed DEF Inv
  <2> QED BY <2>1, <2>2 DEF Allowed, Thread, At, Networks
<1> HIDE DEF Owners
<1>2. Spec => [][Owners]_vars
  BY <1>1, InvHolds, PTL DEF Spec
<1> QED BY <1>2 DEF Owners, OnlyOwners

-----------------------------------------------------------------------------
(* The map of names                                                        *)

Ready(t, step) == todo[t] # <<>> /\ todo[t][1] = step

NamesDiffer == \A o, q \in DOMAIN Users : Users[o] = Users[q] => o = q

\* Only a thread that is deleting a user knows a name that has no row.
KnownHaveRows ==
  \A n \in DOMAIN known_users :
    \/ known_users[n] \in DOMAIN Users /\ Users[known_users[n]] = n
    \/ \E t \in Threads : Ready(t, <<"forget">>) /\ req[t].oid = known_users[n]

\* Only a thread that is creating a user has a row whose name is not known.
RowsAreKnown ==
  \A o \in DOMAIN Users :
    \/ Users[o] \in DOMAIN known_users /\ known_users[Users[o]] = o
    \/ \E t \in Threads : Ready(t, <<"learn">>) /\ req[t].name = Users[o]

UserThread(t) ==
  /\ UserText(todo[t], req[t].method)
  /\ Ready(t, insert("users")) =>
       req[t].name \notin DOMAIN known_users /\ \A o \in DOMAIN Users : Users[o] # req[t].name
  /\ Ready(t, <<"learn">>) =>
       req[t].name \notin DOMAIN known_users /\ \E o \in DOMAIN Users : Users[o] = req[t].name
  /\ Ready(t, <<"forget">>) => req[t].oid \notin DOMAIN Users
  /\ todo[t] # <<>> /\ req[t].method = "user.delete" =>
       /\ req[t].oid \in Nat /\ req[t].oid <= lastOID["users"]
       /\ Names(req[t]) # {} \/ req[t].oid \notin DOMAIN Users

Apart ==
  \A t, u \in Threads :
    t # u /\ todo[t] # <<>> /\ todo[u] # <<>> => Names(req[t]) \cap Names(req[u]) = {}

NamesInv ==
  /\ known_users = [n \in DOMAIN known_users |-> known_users[n]]
  /\ NamesDiffer /\ KnownHaveRows /\ RowsAreKnown /\ Apart
  /\ \A t \in Threads : UserThread(t)

LEMMA UserTextLeft ==
  ASSUME NEW s \in Seq(Steps), NEW m, UserText(s, m), NEW r, NEW n, Left(s, r, n)
  PROVE  /\ UserText(r, m)
         /\ r # <<>> => /\ r[1] = insert("users") => s[n] = <<"free">>
                        /\ r[1] = <<"learn">> => s[n] = insert("users")
                        /\ r[1] = <<"forget">> => s[n] = drop("users")
<1>1. \A i \in 1..Len(r) : n + i \in 1..Len(s) /\ r[i] = s[n + i]
  BY DEF Left
<1>2. n \in 1..Len(s) /\ Len(r) = Len(s) - n /\ r \in Seq(Steps)
  BY DEF Left
<1>3. ASSUME NEW x, NEW y, After(s, x, y)
      PROVE  After(r, x, y) /\ (r # <<>> /\ r[1] = y => s[n] = x)
  <2>1. ASSUME NEW i \in 2..Len(r), r[i] = y PROVE r[i - 1] = x
    <3>1. i \in 1..Len(r) /\ i - 1 \in 1..Len(r) /\ n + i \in 2..Len(s) /\ (n + i) - 1 = n + (i - 1)
      BY <1>2
    <3> QED BY <1>1, <1>3, <2>1, <3>1 DEF After
  <2>2. ASSUME r # <<>>, r[1] = y PROVE s[n] = x
    <3>1. 1 \in 1..Len(r) /\ n + 1 \in 2..Len(s) /\ (n + 1) - 1 = n
      BY <1>2, <2>2
    <3> QED BY <1>1, <1>3, <2>2, <3>1 DEF After
  <2> QED BY <2>1, <2>2 DEF After
<1>4. ASSUME NEW x, NEW y, Before(s, x, y) PROVE Before(r, x, y)
  <2> SUFFICES ASSUME NEW i \in 1..Len(r), r[i] = x
               PROVE  i + 1 \in 1..Len(r) /\ r[i + 1] = y
    BY DEF Before
  <2>1. (n + i) + 1 \in 1..Len(s) /\ s[(n + i) + 1] = y
    BY <1>1, <1>4 DEF Before
  <2>2. i + 1 \in 1..Len(r) /\ n + (i + 1) = (n + i) + 1
    BY <1>2, <2>1
  <2> QED BY <1>1, <2>1, <2>2
<1>5. \A i \in 1..Len(r) :
       /\ r[i] \in {<<"free">>, insert("users"), <<"learn">>} => m = "user.allocate"
       /\ r[i] \in {drop("users"), <<"forget">>} => m = "user.delete"
  BY <1>1 DEF UserText
<1> QED BY <1>3, <1>4, <1>5 DEF UserText

\* What a step of its own does to a thread, and what it leaves to the others.
Moves(t) ==
  /\ \A u \in Threads : u # t => todo'[u] = todo[u] /\ req'[u] = req[u]
  /\ \/ todo'[t] = <<>>
     \/ req'[t] = req[t] /\ \E n \in 1..Len(todo[t]) : Left(todo[t], todo'[t], n)

LEMMA GoesMoves ==
  ASSUME Inv, NEW t \in Threads, todo[t] # <<>>, Goes(t)
  PROVE  Moves(t) /\ Left(todo[t], todo'[t], 1) /\ (todo'[t] # <<>> => req'[t] = req[t])
<1>1. Variables /\ todo[t] \in Seq(Steps) /\ todo'[t] = Tail(todo[t])
  BY DEF Inv, Variables, Thread, WellFormed, Goes
<1>2. Left(todo[t], todo'[t], 1) /\ 1 \in 1..Len(todo[t])
  BY <1>1, LeftOfTail DEF Left
<1>3. todo'[t] = <<>> \/ req'[t] = req[t]
  BY <1>1, <1>2 DEF Goes, Left
<1>4. \A u \in Threads : u # t => todo'[u] = todo[u] /\ req'[u] = req[u]
  BY <1>1 DEF Goes, Variables
<1> QED BY <1>2, <1>3, <1>4 DEF Moves

SameUsers == Users' = Users /\ known_users' = known_users /\ lastOID'["users"] = lastOID["users"]

\* A step that creates and deletes no user.
LEMMA QuietStep ==
  ASSUME Inv, NamesInv, NEW t \in Threads, SameUsers, Moves(t),
         ~ Ready(t, <<"learn">>), ~ Ready(t, <<"forget">>),
         todo'[t] # <<>> => \A n \in 1..Len(todo[t]) : Left(todo[t], todo'[t], n) =>
           /\ todo[t][n] \notin {insert("users"), drop("users")}
           /\ todo[t][n] = <<"free">> =>
                /\ req[t].name \notin DOMAIN known_users
                /\ \A o \in DOMAIN Users : Users[o] # req[t].name
  PROVE  NamesInv'
<1> USE DEF SameUsers
<1>1. \A q : Names(q)' = Names(q)
  BY DEF Names
<1>2. \A u \in Threads : \A step : u # t => (Ready(u, step)' <=> Ready(u, step))
  BY DEF Ready, Moves
<1>3. KnownHaveRows' /\ RowsAreKnown' /\ NamesDiffer'
  <2>1. \A u \in Threads : u # t => req'[u] = req[u]
    BY DEF Moves
  <2>2. KnownHaveRows'
    BY <1>2, <2>1 DEF NamesInv, KnownHaveRows
  <2>3. RowsAreKnown'
    BY <1>2, <2>1 DEF NamesInv, RowsAreKnown
  <2> QED BY <2>2, <2>3 DEF NamesInv, NamesDiffer
<1>4. ASSUME NEW u \in Threads, u # t PROVE UserThread(u)'
  <2>1. todo'[u] = todo[u] /\ req'[u] = req[u]
    BY <1>4 DEF Moves
  <2> QED BY <1>1, <2>1 DEF NamesInv, UserThread, Ready
<1>5. UserThread(t)'
  <2>1. CASE todo'[t] = <<>>
    BY <2>1 DEF UserThread, UserText, After, Before, Ready
  <2>2. CASE todo'[t] # <<>>
    <3>1. PICK n \in 1..Len(todo[t]) : Left(todo[t], todo'[t], n)
      BY <2>2 DEF Moves
    <3>2. req'[t] = req[t] /\ todo[t] \in Seq(Steps) /\ todo[t] # <<>> /\ UserThread(t)
      BY <2>2, <3>1 DEF Moves, Inv, Thread, WellFormed, NamesInv
    <3>3. /\ UserText(todo'[t], req[t].method)
          /\ todo'[t][1] = insert("users") => todo[t][n] = <<"free">>
          /\ todo'[t][1] = <<"learn">> => todo[t][n] = insert("users")
          /\ todo'[t][1] = <<"forget">> => todo[t][n] = drop("users")
      BY <2>2, <3>1, <3>2, UserTextLeft DEF UserThread
    <3> QED BY <1>1, <2>2, <3>1, <3>2, <3>3 DEF UserThread, Ready
  <2> QED BY <2>1, <2>2
<1>6. Apart'
  <2>1. \A u \in Threads : todo'[u] # <<>> => req'[u] = req[u] /\ todo[u] # <<>>
    BY DEF Moves
  <2> QED BY <1>1, <2>1 DEF NamesInv, Apart
<1>7. known_users' = [n \in DOMAIN known_users' |-> known_users'[n]]
  BY DEF NamesInv
<1> QED BY <1>3, <1>4, <1>5, <1>6, <1>7 DEF NamesInv

LEMMA QuietRefuse ==
  ASSUME Inv, NamesInv, NEW t \in Threads, Refuse(t),
         ~ Ready(t, <<"learn">>), ~ Ready(t, <<"forget">>)
  PROVE  NamesInv'
<1>1. Moves(t) /\ todo'[t] = <<>>
  BY DEF Refuse, Moves, Inv, Variables
<1>2. SameUsers
  BY DEF Refuse, SameUsers, data, Users
<1> QED BY <1>1, <1>2, QuietStep

LEMMA QuietGoes ==
  ASSUME Inv, NamesInv, NEW t \in Threads, todo[t] # <<>>, Goes(t), SameUsers,
         todo[t][1] \notin {insert("users"), drop("users"), <<"free">>, <<"learn">>, <<"forget">>}
  PROVE  NamesInv'
<1>1. Moves(t) /\ Left(todo[t], todo'[t], 1)
  BY GoesMoves
<1>2. \A n \in 1..Len(todo[t]) : Left(todo[t], todo'[t], n) => n = 1
  BY <1>1 DEF Left
<1> QED BY <1>1, <1>2, QuietStep DEF Ready

\* Two threads do not create users of one name.
LEMMA OneOfAName ==
  ASSUME NamesInv, NEW t \in Threads, NEW u \in Threads, t # u, todo[t] # <<>>, todo[u] # <<>>,
         req[t].method = "user.allocate", req[u].method = "user.allocate"
  PROVE  req[t].name # req[u].name
<1>1. Names(req[t]) = {req[t].name} /\ Names(req[u]) = {req[u].name}
  BY DEF Names
<1> QED BY <1>1 DEF NamesInv, Apart

\* A thread that is deleting a user has a name of it, if it has a row.
LEMMA DeletesKnown ==
  ASSUME NamesInv, NEW t \in Threads, todo[t] # <<>>, req[t].method = "user.delete",
         req[t].oid \in DOMAIN Users
  PROVE  Users[req[t].oid] \in DOMAIN known_users
<1>1. Names(req[t]) # {}
  BY DEF NamesInv, UserThread
<1>2. PICK n \in DOMAIN known_users : known_users[n] = req[t].oid
  BY <1>1 DEF Names
<1>3. \A v \in Threads : Ready(v, <<"forget">>) => req[v].oid # req[t].oid
  BY DEF NamesInv, UserThread
<1> QED BY <1>2, <1>3 DEF NamesInv, KnownHaveRows

LEMMA ReadyMethod ==
  ASSUME Inv, NamesInv, NEW t \in Threads
  PROVE  /\ \A step \in {insert("users"), <<"learn">>} :
              Ready(t, step) => req[t].method = "user.allocate"
         /\ \A step \in {drop("users"), <<"forget">>} :
              Ready(t, step) => req[t].method = "user.delete"
<1>1. todo[t] \in Seq(Steps) /\ UserText(todo[t], req[t].method)
  BY DEF Inv, Thread, WellFormed, NamesInv, UserThread
<1>2. todo[t] # <<>> => 1 \in 1..Len(todo[t])
  BY <1>1
<1> QED BY <1>1, <1>2 DEF Ready, UserText

LEMMA NotReady ==
  ASSUME Inv, NEW t \in Threads, NEW op, At(t, op)
  PROVE  /\ todo[t] # <<>> /\ todo[t] \in Seq(Steps) /\ 1 \in 1..Len(todo[t])
         /\ todo[t][1][1] = op
         /\ op # "learn" => ~ Ready(t, <<"learn">>)
         /\ op # "forget" => ~ Ready(t, <<"forget">>)
<1>1. Thread(t)
  BY DEF Inv
<1>2. todo[t] # <<>> /\ todo[t][1][1] = op /\ todo[t] \in Seq(Steps) /\ 1 \in 1..Len(todo[t])
  BY <1>1, AtStep DEF PoolOps
<1> QED BY <1>2 DEF Ready

LEMMA QuietOp ==
  ASSUME Inv, NamesInv, NEW t \in Threads, Goes(t), SameUsers,
         NEW op \in {"find", "admin", "owner", "anyone", "get", "begin", "lock", "nic", "lease",
                     "unlock", "update", "dump"},
         At(t, op)
  PROVE  NamesInv'
<1>1. todo[t] # <<>> /\ todo[t][1][1] = op
  BY NotReady
<1>2. todo[t][1] \notin {insert("users"), drop("users"), <<"free">>, <<"learn">>, <<"forget">>}
  BY <1>1 DEF insert, drop
<1> QED BY <1>1, <1>2, QuietGoes

\* A thread that passes over some of its text.
LEMMA QuietSkip ==
  ASSUME Inv, NamesInv, NEW t \in Threads, SameUsers, req' = req,
         NEW n \in Nat, n # 0, n + 1 \in 1..Len(todo[t]),
         todo' = [todo EXCEPT ![t] = SubSeq(@, n + 1, Len(@))],
         ~ Ready(t, <<"learn">>), ~ Ready(t, <<"forget">>),
         todo[t][n] \notin {insert("users"), drop("users"), <<"free">>}
  PROVE  NamesInv'
<1>1. todo[t] \in Seq(Steps) /\ DOMAIN todo = Threads
  BY DEF Inv, Thread, WellFormed, Variables
<1>2. Left(todo[t], todo'[t], n)
  BY <1>1, LeftOfSkip
<1>3. Moves(t)
  BY <1>1, <1>2 DEF Moves, Left
<1>4. \A i \in 1..Len(todo[t]) : Left(todo[t], todo'[t], i) => i = n
  BY <1>1, <1>2 DEF Left
<1> QED BY <1>3, <1>4, QuietStep

LEMMA SameUsersData ==
  ASSUME UNCHANGED data
  PROVE  SameUsers
BY DEF data, SameUsers, Users

LEMMA NamesSame ==
  ASSUME NamesInv, UNCHANGED <<data, req, todo>>
  PROVE  NamesInv'
<1>1. Users' = Users /\ known_users' = known_users /\ lastOID' = lastOID
  BY DEF data, Users
<1>2. \A q : Names(q)' = Names(q)
  BY <1>1 DEF Names
<1>3. \A u \in Threads : \A step : Ready(u, step)' <=> Ready(u, step)
  BY DEF Ready
<1>4. NamesDiffer' /\ KnownHaveRows' /\ RowsAreKnown'
  BY <1>1, <1>3 DEF NamesInv, NamesDiffer, KnownHaveRows, RowsAreKnown
<1>5. Apart'
  BY <1>2 DEF NamesInv, Apart
<1>6. ASSUME NEW u \in Threads PROVE UserThread(u)'
  BY <1>1, <1>2, <1>3 DEF NamesInv, UserThread
<1> QED BY <1>1, <1>4, <1>5, <1>6 DEF NamesInv

LEMMA NamesQuiet ==
  ASSUME Inv, NamesInv, NEW t \in Threads,
         \/ Find(t) \/ Authenticate(t) \/ LockPool(t) \/ LockObject(t) \/ TakeNic(t)
         \/ LockLease(t) \/ UnlockObject(t) \/ Statement(t)
  PROVE  NamesInv'
<1>1. CASE Find(t)
  <2>1. CASE Refuse(t)
    BY <1>1, <2>1, NotReady, QuietRefuse DEF Find
  <2>2. CASE ~ Refuse(t)
    <3>1. /\ todo' = [todo EXCEPT ![t] = Tail(@)] /\ req' = req /\ UNCHANGED data
      BY <1>1, <2>2 DEF Find
    <3>2. todo[t] \in Seq(Steps) /\ todo[t] # <<>> /\ todo[t][1][1] = "find" /\ DOMAIN todo = Threads
      BY <1>1, NotReady DEF Find, Inv, Variables
    <3>3. Left(todo[t], todo'[t], 1)
      BY <3>1, <3>2, LeftOfTail
    <3>4. Moves(t)
      BY <3>1, <3>2, <3>3 DEF Moves, Left
    <3>5. \A n \in 1..Len(todo[t]) : Left(todo[t], todo'[t], n) => n = 1
      BY <3>3 DEF Left
    <3>6. todo[t][1] \notin {insert("users"), drop("users"), <<"free">>, <<"learn">>, <<"forget">>}
      BY <3>2 DEF insert, drop
    <3> QED BY <3>1, <3>4, <3>5, <3>6, SameUsersData, QuietStep DEF Ready
  <2> QED BY <2>1, <2>2
<1>2. CASE Authenticate(t)
  <2>1. PICK test \in {"admin", "owner", "anyone"} :
          /\ At(t, test)
          /\ \/ Refuse(t)
             \/ UNCHANGED <<data, req, todo>>
             \/ Goes(t) /\ UNCHANGED data
    BY <1>2 DEF Authenticate
  <2>2. CASE Refuse(t)
    BY <2>1, <2>2, NotReady, QuietRefuse
  <2>3. CASE UNCHANGED <<data, req, todo>>
    BY <2>3, NamesSame
  <2>4. CASE Goes(t) /\ UNCHANGED data
    BY <2>1, <2>4, SameUsersData, QuietOp
  <2> QED BY <2>1, <2>2, <2>3, <2>4
<1>3. CASE LockPool(t)
  BY <1>3, SameUsersData, QuietOp DEF LockPool
<1>4. CASE LockObject(t)
  <2>1. CASE Refuse(t)
    BY <1>4, <2>1, NotReady, QuietRefuse DEF LockObject
  <2>2. CASE ~ Refuse(t)
    BY <1>4, <2>2, SameUsersData, QuietOp DEF LockObject
  <2> QED BY <2>1, <2>2
<1>5. CASE TakeNic(t)
  <2>1. CASE Goes(t)
    BY <1>5, <2>1, SameUsersData, QuietOp DEF TakeNic
  <2>2. CASE ~ Goes(t)
    <3>1. /\ At(t, "nic") /\ UNCHANGED <<data, req>>
          /\ todo' = [todo EXCEPT ![t] = SubSeq(@, 4 + 1, Len(@))]
      BY <1>5, <2>2 DEF TakeNic
    <3>2. /\ todo[t][1] = <<"nic">> /\ 1 \in 1..Len(todo[t]) /\ WellFormed(todo[t])
          /\ todo[t] \in Seq(Steps)
      BY <3>1, AtStep DEF Inv, Thread, PoolOps
    <3>3. 1 + 4 \in 1..Len(todo[t]) /\ todo[t][1 + 3] = unlock("networks")
      BY <3>2 DEF WellFormed
    <3>4. 4 \in Nat /\ 4 # 0 /\ 4 + 1 \in 1..Len(todo[t]) /\ todo[t][4] = unlock("networks")
      BY <3>3
    <3>5. todo[t][4] \notin {insert("users"), drop("users"), <<"free">>}
      BY <3>4 DEF insert, drop, unlock
    <3>6. ~ Ready(t, <<"learn">>) /\ ~ Ready(t, <<"forget">>)
      BY <3>2 DEF Ready
    <3> QED BY <3>1, <3>4, <3>5, <3>6, SameUsersData, QuietSkip
  <2> QED BY <2>1, <2>2
<1>6. CASE LockLease(t)
  <2>1. CASE Goes(t)
    BY <1>6, <2>1, SameUsersData, QuietOp DEF LockLease
  <2>2. CASE ~ Goes(t)
    <3>1. /\ At(t, "lease") /\ UNCHANGED <<data, req>>
          /\ todo' = [todo EXCEPT ![t] = SubSeq(@, 3 + 1, Len(@))]
      BY <1>6, <2>2 DEF LockLease
    <3>2. /\ todo[t][1][1] = "lease" /\ 1 \in 1..Len(todo[t]) /\ WellFormed(todo[t])
          /\ todo[t] \in Seq(Steps)
      BY <3>1, NotReady DEF Inv, Thread
    <3>3. 1 + 3 \in 1..Len(todo[t]) /\ todo[t][1 + 2] = unlock("networks")
      BY <3>2 DEF WellFormed
    <3>4. 3 \in Nat /\ 3 # 0 /\ 3 + 1 \in 1..Len(todo[t]) /\ todo[t][3] = unlock("networks")
      BY <3>3
    <3>5. todo[t][3] \notin {insert("users"), drop("users"), <<"free">>}
      BY <3>4 DEF insert, drop, unlock
    <3>6. ~ Ready(t, <<"learn">>) /\ ~ Ready(t, <<"forget">>)
      BY <3>2 DEF Ready
    <3> QED BY <3>1, <3>4, <3>5, <3>6, SameUsersData, QuietSkip
  <2> QED BY <2>1, <2>2
<1>7. CASE UnlockObject(t)
  BY <1>7, SameUsersData, QuietOp DEF UnlockObject
<1>8. CASE Statement(t)
  BY <1>8, SameUsersData, QuietOp DEF Statement
<1> QED BY <1>1, <1>2, <1>3, <1>4, <1>5, <1>6, <1>7, <1>8

\* A name that is free has no row, or its row is being learnt by somebody else.
LEMMA NamesFree ==
  ASSUME Inv, NamesInv, NEW t \in Threads, NameIsFree(t)
  PROVE  NamesInv'
<1>1. At(t, "free") /\ todo[t] # <<>> /\ todo[t] \in Seq(Steps) /\ 1 \in 1..Len(todo[t])
  BY NotReady DEF NameIsFree
<1>2. ~ Ready(t, <<"learn">>) /\ ~ Ready(t, <<"forget">>) /\ todo[t][1] = <<"free">>
  BY <1>1, NotReady, AtStep DEF Inv, PoolOps
<1>3. CASE Refuse(t)
  BY <1>2, <1>3, QuietRefuse
<1>4. CASE ~ Refuse(t)
  <2> DEFINE name == req[t].name
  <2>1. /\ Goes(t) /\ UNCHANGED data
        /\ name \in DOMAIN known_users => known_users[name] \notin DOMAIN Users
    BY <1>4 DEF NameIsFree, Users
  <2>2. req[t].method = "user.allocate"
    BY <1>1, <1>2 DEF NamesInv, UserThread, UserText
  <2>3. name \notin DOMAIN known_users
    <3> SUFFICES ASSUME name \in DOMAIN known_users PROVE FALSE
      OBVIOUS
    <3>1. PICK u \in Threads : Ready(u, <<"forget">>) /\ req[u].oid = known_users[name]
      BY <2>1 DEF NamesInv, KnownHaveRows
    <3>2. req[u].method = "user.delete" /\ todo[u] # <<>>
      BY <3>1, ReadyMethod DEF Ready
    <3>3. name \in Names(req[u]) /\ name \in Names(req[t])
      BY <2>2, <3>1, <3>2 DEF Names
    <3>4. u # t
      BY <1>2, <3>1
    <3> QED BY <1>1, <3>2, <3>3, <3>4 DEF NamesInv, Apart
  <2>4. \A o \in DOMAIN Users : Users[o] # name
    <3> SUFFICES ASSUME NEW o \in DOMAIN Users, Users[o] = name PROVE FALSE
      OBVIOUS
    <3>1. PICK u \in Threads : Ready(u, <<"learn">>) /\ req[u].name = name
      BY <2>3 DEF NamesInv, RowsAreKnown
    <3>2. req[u].method = "user.allocate" /\ todo[u] # <<>>
      BY <3>1, ReadyMethod DEF Ready
    <3>3. u # t
      BY <1>2, <3>1
    <3> QED BY <1>1, <2>2, <3>1, <3>2, <3>3, OneOfAName
  <2>5. Moves(t) /\ Left(todo[t], todo'[t], 1)
    BY <1>1, <2>1, GoesMoves
  <2>6. \A n \in 1..Len(todo[t]) : Left(todo[t], todo'[t], n) => n = 1
    BY <2>5 DEF Left
  <2>7. todo[t][1] \notin {insert("users"), drop("users")}
    BY <1>2 DEF insert, drop
  <2> QED BY <1>2, <2>1, <2>3, <2>4, <2>5, <2>6, <2>7, SameUsersData, QuietStep
<1> QED BY <1>3, <1>4

-----------------------------------------------------------------------------
(* Users are created and deleted                                           *)

\* The step that follows, of a thread that creates or deletes a user.
LEMMA ThenReady ==
  ASSUME Inv, NamesInv, NEW t \in Threads, Goes(t), todo[t] # <<>>, NEW x, NEW y,
         todo[t][1] = x, Before(todo[t], x, y)
  PROVE  Moves(t) /\ todo'[t] # <<>> /\ todo'[t][1] = y /\ req'[t] = req[t]
         /\ UserText(todo'[t], req[t].method)
<1>1. Moves(t) /\ Left(todo[t], todo'[t], 1) /\ (todo'[t] # <<>> => req'[t] = req[t])
  BY GoesMoves
<1>2. todo[t] \in Seq(Steps) /\ 1 \in 1..Len(todo[t]) /\ UserText(todo[t], req[t].method)
  BY DEF Inv, Thread, WellFormed, NamesInv, UserThread
<1>3. 1 + 1 \in 1..Len(todo[t]) /\ todo[t][1 + 1] = y
  BY <1>2 DEF Before
<1>4. Len(todo'[t]) \in Nat /\ 1 \in 1..Len(todo'[t]) /\ todo'[t][1] = y
  BY <1>1, <1>2, <1>3 DEF Left
<1>5. UserText(todo'[t], req[t].method)
  BY <1>1, <1>2, UserTextLeft
<1> QED BY <1>1, <1>4, <1>5

LEMMA InsertUser ==
  ASSUME Inv, NamesInv, NEW t \in Threads, Ready(t, insert("users")), Goes(t),
         NEW o, o = lastOID["users"] + 1, lastOID'["users"] = o,
         Users' = [q \in DOMAIN Users \cup {o} |-> IF q = o THEN req[t].name ELSE Users[q]],
         known_users' = known_users
  PROVE  NamesInv'
<1> DEFINE name == req[t].name
<1>1. /\ Moves(t) /\ todo'[t] # <<>> /\ todo'[t][1] = <<"learn">> /\ req'[t] = req[t]
      /\ UserText(todo'[t], req[t].method)
  BY ThenReady DEF NamesInv, UserThread, UserText, Ready
<1>2. todo[t] # <<>> /\ req[t].method = "user.allocate" /\ UserThread(t)
  BY ReadyMethod DEF Ready, NamesInv
<1>3. name \notin DOMAIN known_users /\ \A q \in DOMAIN Users : Users[q] # name
  BY <1>2 DEF UserThread
<1>4. lastOID["users"] \in Int /\ DOMAIN Users \subseteq Nat /\ \A q \in DOMAIN Users : q <= lastOID["users"]
  BY DEF Inv, Tables, Users, Pools
<1>5. /\ o \in Int /\ o > lastOID["users"] /\ o \notin DOMAIN Users
      /\ DOMAIN Users' = DOMAIN Users \cup {o} /\ Users'[o] = name
      /\ \A q \in DOMAIN Users : Users'[q] = Users[q]
  BY <1>4
<1>6. \A q : Names(q)' = Names(q)
  BY DEF Names
<1>7. \A u \in Threads : \A step : u # t => (Ready(u, step)' <=> Ready(u, step)) /\ req'[u] = req[u]
  BY <1>1 DEF Ready, Moves
<1>8. ~ Ready(t, <<"forget">>) /\ ~ Ready(t, <<"learn">>)
  BY DEF Ready, insert
<1>9. NamesDiffer'
  BY <1>3, <1>5 DEF NamesDiffer, NamesInv
<1>10. KnownHaveRows'
  BY <1>5, <1>7, <1>8 DEF KnownHaveRows, NamesInv
<1>11. RowsAreKnown'
  <2>1. Ready(t, <<"learn">>)' /\ req'[t].name = name
    BY <1>1 DEF Ready
  <2> QED BY <1>5, <1>7, <1>8, <2>1 DEF RowsAreKnown, NamesInv
<1>12. Apart'
  <2>1. \A u \in Threads : todo'[u] # <<>> => req'[u] = req[u] /\ todo[u] # <<>>
    BY <1>1, <1>2 DEF Moves
  <2> QED BY <1>6, <2>1 DEF NamesInv, Apart
<1>13. UserThread(t)'
  <2>1. ~ Ready(t, insert("users"))' /\ ~ Ready(t, <<"forget">>)'
    BY <1>1 DEF Ready, insert
  <2> QED BY <1>1, <1>2, <1>3, <1>5, <2>1 DEF UserThread
<1>14. ASSUME NEW u \in Threads, u # t PROVE UserThread(u)'
  <2>1. todo'[u] = todo[u] /\ req'[u] = req[u] /\ UserThread(u)
    BY <1>1, <1>14 DEF Moves, NamesInv
  <2>2. Ready(u, insert("users")) => req[u].name # name
    BY <1>2, <1>14, ReadyMethod, OneOfAName DEF Ready
  <2>3. req[u].method = "user.delete" /\ todo[u] # <<>> => req[u].oid \in Nat /\ req[u].oid <= lastOID["users"]
    BY <2>1 DEF UserThread
  <2>4. Ready(u, <<"forget">>) => req[u].oid # o
    BY <1>4, <1>5, <2>3, ReadyMethod DEF Ready
  <2>5. req[u].method = "user.delete" /\ todo[u] # <<>> =>
           req[u].oid # o /\ req[u].oid <= lastOID'["users"]
    BY <1>4, <1>5, <2>3
  <2>6. UserText(todo'[u], req'[u].method)
    BY <2>1 DEF UserThread
  <2> HIDE DEF name
  <2>7. Ready(u, insert("users"))' =>
          req'[u].name \notin DOMAIN known_users' /\ \A q \in DOMAIN Users' : Users'[q] # req'[u].name
    BY <1>5, <1>7, <1>14, <2>1, <2>2 DEF UserThread
  <2>8. Ready(u, <<"learn">>)' =>
          req'[u].name \notin DOMAIN known_users' /\ \E q \in DOMAIN Users' : Users'[q] = req'[u].name
    BY <1>5, <1>7, <1>14, <2>1 DEF UserThread
  <2>9. Ready(u, <<"forget">>)' => req'[u].oid \notin DOMAIN Users'
    BY <1>5, <1>7, <1>14, <2>1, <2>4 DEF UserThread
  <2>10. todo'[u] # <<>> /\ req'[u].method = "user.delete" =>
           /\ req'[u].oid \in Nat /\ req'[u].oid <= lastOID'["users"]
           /\ Names(req[u])' # {} \/ req'[u].oid \notin DOMAIN Users'
    BY <1>5, <1>6, <1>14, <2>1, <2>3, <2>5 DEF UserThread
  <2> QED BY <2>6, <2>7, <2>8, <2>9, <2>10 DEF UserThread
<1>15. known_users' = [n \in DOMAIN known_users' |-> known_users'[n]]
  BY DEF NamesInv
<1> QED BY <1>9, <1>10, <1>11, <1>12, <1>13, <1>14, <1>15 DEF NamesInv

LEMMA DropUser ==
  ASSUME Inv, NamesInv, NEW t \in Threads, Ready(t, drop("users")), Goes(t),
         lastOID' = lastOID,
         Users' = [q \in DOMAIN Users \ {req[t].oid} |-> Users[q]],
         known_users' = known_users
  PROVE  NamesInv'
<1> DEFINE o == req[t].oid
<1>1. /\ Moves(t) /\ todo'[t] # <<>> /\ todo'[t][1] = <<"forget">> /\ req'[t] = req[t]
      /\ UserText(todo'[t], req[t].method)
  BY ThenReady DEF NamesInv, UserThread, UserText, Ready
<1>2. todo[t] # <<>> /\ req[t].method = "user.delete" /\ UserThread(t)
  BY ReadyMethod DEF Ready, NamesInv
<1>3. DOMAIN Users' = DOMAIN Users \ {o} /\ \A q \in DOMAIN Users' : Users'[q] = Users[q]
  OBVIOUS
<1>4. \A q : Names(q)' = Names(q)
  BY DEF Names
<1>5. \A u \in Threads : \A step : u # t => (Ready(u, step)' <=> Ready(u, step)) /\ req'[u] = req[u]
  BY <1>1 DEF Ready, Moves
<1>6. ~ Ready(t, <<"forget">>) /\ ~ Ready(t, <<"learn">>)
  BY DEF Ready, drop
<1>7. NamesDiffer'
  BY <1>3 DEF NamesDiffer, NamesInv
<1>8. KnownHaveRows'
  <2>1. Ready(t, <<"forget">>)' /\ req'[t].oid = o
    BY <1>1 DEF Ready
  <2> QED BY <1>3, <1>5, <1>6, <2>1 DEF KnownHaveRows, NamesInv
<1>9. RowsAreKnown'
  BY <1>3, <1>5, <1>6 DEF RowsAreKnown, NamesInv
<1>10. Apart'
  <2>1. \A u \in Threads : todo'[u] # <<>> => req'[u] = req[u] /\ todo[u] # <<>>
    BY <1>1, <1>2 DEF Moves
  <2> QED BY <1>4, <2>1 DEF NamesInv, Apart
<1>11. UserThread(t)'
  <2>1. ~ Ready(t, insert("users"))' /\ ~ Ready(t, <<"learn">>)'
    BY <1>1 DEF Ready, insert
  <2> QED BY <1>1, <1>2, <1>3, <2>1 DEF UserThread
<1>12. ASSUME NEW u \in Threads, u # t PROVE UserThread(u)'
  <2>1. todo'[u] = todo[u] /\ req'[u] = req[u] /\ UserThread(u)
    BY <1>1, <1>12 DEF Moves, NamesInv
  <2>2. Ready(u, <<"learn">>)' =>
          req'[u].name \notin DOMAIN known_users' /\ \E q \in DOMAIN Users' : Users'[q] = req'[u].name
    <3> SUFFICES ASSUME Ready(u, <<"learn">>)
                 PROVE  req[u].name \notin DOMAIN known_users
                        /\ \E q \in DOMAIN Users' : Users'[q] = req[u].name
      BY <1>5, <1>12, <2>1
    <3>1. PICK q \in DOMAIN Users : Users[q] = req[u].name /\ req[u].name \notin DOMAIN known_users
      BY <2>1 DEF UserThread
    <3>2. q # o
      BY <1>2, <3>1, DeletesKnown
    <3> QED BY <1>3, <3>1, <3>2
  <2>3. Ready(u, insert("users"))' =>
          req'[u].name \notin DOMAIN known_users' /\ \A q \in DOMAIN Users' : Users'[q] # req'[u].name
    BY <1>3, <1>5, <1>12, <2>1 DEF UserThread
  <2> QED BY <1>3, <1>4, <1>5, <1>12, <2>1, <2>2, <2>3 DEF UserThread
<1>13. known_users' = [n \in DOMAIN known_users' |-> known_users'[n]]
  BY DEF NamesInv
<1> QED BY <1>7, <1>8, <1>9, <1>10, <1>11, <1>12, <1>13 DEF NamesInv

\* The map read from the table.
LEMMA KnownOfTable ==
  ASSUME NamesDiffer
  PROVE  /\ Known(Users) = [n \in DOMAIN Known(Users) |-> Known(Users)[n]]
         /\ \A o \in DOMAIN Users : Users[o] \in DOMAIN Known(Users) /\ Known(Users)[Users[o]] = o
         /\ \A n \in DOMAIN Known(Users) :
              Known(Users)[n] \in DOMAIN Users /\ Users[Known(Users)[n]] = n
<1>1. Known(Users) = [n \in {Users[o] : o \in DOMAIN Users} |->
                        CHOOSE o \in DOMAIN Users : Users[o] = n]
  BY DEF Known
<1>2. \A n \in DOMAIN Known(Users) :
        Known(Users)[n] \in DOMAIN Users /\ Users[Known(Users)[n]] = n
  BY <1>1
<1>3. \A o \in DOMAIN Users : Users[o] \in DOMAIN Known(Users)
  BY <1>1
<1>4. Known(Users) = [n \in DOMAIN Known(Users) |-> Known(Users)[n]]
  BY <1>1
<1> QED BY <1>2, <1>3, <1>4 DEF NamesDiffer

LEMMA NamesLearn ==
  ASSUME Inv, NamesInv, NEW t \in Threads, Learn(t)
  PROVE  NamesInv'
<1> DEFINE name == req[t].name
           oid == IF name \in DOMAIN Known(Users) THEN Known(Users)[name] ELSE -1
<1>1. /\ todo[t] # <<>> /\ todo[t][1] = <<"learn">> /\ Goes(t) /\ Users' = Users
      /\ lastOID' = lastOID
      /\ known_users' = [n \in DOMAIN known_users \cup {name} |->
                           IF n \in DOMAIN known_users THEN known_users[n] ELSE oid]
  <2>1. todo[t] # <<>> /\ todo[t][1] = <<"learn">>
    BY AtStep DEF Learn, Inv, PoolOps
  <2> QED BY <2>1 DEF Learn, Users
<1>2. Ready(t, <<"learn">>) /\ UserThread(t) /\ req[t].method = "user.allocate"
  BY <1>1, ReadyMethod DEF Ready, NamesInv
<1>3. PICK o \in DOMAIN Users : Users[o] = name /\ name \notin DOMAIN known_users
  BY <1>2 DEF UserThread
<1>4. oid = o
  BY <1>3, KnownOfTable DEF NamesInv
<1>5. /\ DOMAIN known_users' = DOMAIN known_users \cup {name} /\ known_users'[name] = o
      /\ \A n \in DOMAIN known_users : known_users'[n] = known_users[n]
      /\ known_users' = [n \in DOMAIN known_users' |-> known_users'[n]]
  BY <1>1, <1>3, <1>4
<1>6. Moves(t) /\ Left(todo[t], todo'[t], 1) /\ (todo'[t] # <<>> => req'[t] = req[t])
  BY <1>1, GoesMoves
<1> HIDE DEF oid, name
<1>7. \A u \in Threads : \A step : u # t => (Ready(u, step)' <=> Ready(u, step)) /\ req'[u] = req[u]
  BY <1>6 DEF Ready, Moves
<1>8. ~ Ready(t, <<"forget">>)
  BY <1>2 DEF Ready
<1>9. NamesDiffer'
  BY <1>1 DEF NamesDiffer, NamesInv
<1>10. KnownHaveRows'
  BY <1>1, <1>3, <1>5, <1>7, <1>8 DEF KnownHaveRows, NamesInv
<1>11. RowsAreKnown'
  <2> SUFFICES ASSUME NEW q \in DOMAIN Users
               PROVE  \/ Users[q] \in DOMAIN known_users' /\ known_users'[Users[q]] = q
                      \/ \E u \in Threads : Ready(u, <<"learn">>)' /\ req'[u].name = Users[q]
    BY <1>1 DEF RowsAreKnown
  <2>1. CASE Users[q] \in DOMAIN known_users /\ known_users[Users[q]] = q
    BY <1>5, <2>1
  <2>2. CASE Users[q] = name
    BY <1>3, <1>5, <2>2 DEF NamesInv, NamesDiffer
  <2>3. CASE \E u \in Threads : u # t /\ Ready(u, <<"learn">>) /\ req[u].name = Users[q]
    BY <1>7, <2>3
  <2> QED BY <2>1, <2>2, <2>3 DEF NamesInv, RowsAreKnown, name
<1>12. ASSUME NEW u \in Threads, todo[u] # <<>>, req'[u] = req[u]
       PROVE  Names(req[u])' = Names(req[u])
  <2>1. CASE req[u].method = "user.delete"
    <3>1. req[u].oid # o
      <4> SUFFICES ASSUME req[u].oid = o PROVE FALSE
        OBVIOUS
      <4>1. Users[o] \in DOMAIN known_users
        BY <1>12, <2>1, DeletesKnown
      <4> QED BY <1>3, <4>1
    <3> QED BY <1>5, <1>12, <2>1, <3>1 DEF Names
  <2>2. CASE req[u].method # "user.delete"
    BY <1>12, <2>2 DEF Names
  <2> QED BY <2>1, <2>2
<1>13. Apart'
  <2>1. \A u \in Threads : todo'[u] # <<>> => req'[u] = req[u] /\ todo[u] # <<>>
    BY <1>1, <1>6 DEF Moves
  <2>2. \A u \in Threads : todo'[u] # <<>> => Names(req[u])' = Names(req[u])
    BY <1>12, <2>1
  <2> QED BY <2>1, <2>2 DEF NamesInv, Apart
<1>14. UserThread(t)'
  <2>1. CASE todo'[t] = <<>>
    BY <2>1 DEF UserThread, UserText, After, Before, Ready
  <2>2. CASE todo'[t] # <<>>
    <3>1. todo[t] \in Seq(Steps) /\ UserText(todo[t], req[t].method)
      BY <1>2 DEF Inv, Thread, WellFormed, UserThread
    <3>2. /\ UserText(todo'[t], req[t].method)
          /\ todo'[t][1] = insert("users") => todo[t][1] = <<"free">>
          /\ todo'[t][1] = <<"learn">> => todo[t][1] = insert("users")
          /\ todo'[t][1] = <<"forget">> => todo[t][1] = drop("users")
      BY <1>6, <2>2, <3>1, UserTextLeft
    <3>3. /\ ~ Ready(t, insert("users"))' /\ ~ Ready(t, <<"learn">>)' /\ ~ Ready(t, <<"forget">>)'
      BY <1>1, <3>2 DEF Ready, insert, drop
    <3> QED BY <1>2, <1>6, <2>2, <3>2, <3>3 DEF UserThread
  <2> QED BY <2>1, <2>2
<1>15. ASSUME NEW u \in Threads, u # t PROVE UserThread(u)'
  <2>1. todo'[u] = todo[u] /\ req'[u] = req[u] /\ UserThread(u)
    BY <1>6, <1>15 DEF Moves, NamesInv
  <2>2. \A step \in {insert("users"), <<"learn">>} : Ready(u, step) => req[u].name # name
    BY <1>1, <1>2, <1>15, ReadyMethod, OneOfAName DEF Ready, name
  <2>3. \A step \in {insert("users"), <<"learn">>} :
          Ready(u, step) => req[u].name \notin DOMAIN known_users'
    BY <1>5, <2>1, <2>2 DEF UserThread
  <2>4. Names(req[u])' = {} => Names(req[u]) = {}
    BY <1>5, <2>1 DEF Names
  <2> QED BY <1>1, <1>7, <1>15, <2>1, <2>3, <2>4 DEF UserThread
<1> QED BY <1>5, <1>9, <1>10, <1>11, <1>13, <1>14, <1>15 DEF NamesInv

LEMMA NamesForget ==
  ASSUME Inv, NamesInv, NEW t \in Threads, Forget(t)
  PROVE  NamesInv'
<1> DEFINE o == req[t].oid
           old == {n \in DOMAIN known_users : known_users[n] = o}
<1>1. /\ todo[t] # <<>> /\ todo[t][1] = <<"forget">> /\ Goes(t) /\ Users' = Users
      /\ lastOID' = lastOID
      /\ known_users' = [n \in DOMAIN known_users \ old |-> known_users[n]]
  <2>1. todo[t] # <<>> /\ todo[t][1] = <<"forget">>
    BY AtStep DEF Forget, Inv, PoolOps
  <2> QED BY <2>1 DEF Forget, Users
<1>2. Ready(t, <<"forget">>) /\ UserThread(t) /\ req[t].method = "user.delete"
  BY <1>1, ReadyMethod DEF Ready, NamesInv
<1>3. o \notin DOMAIN Users
  BY <1>2 DEF UserThread
<1>4. /\ \A n \in DOMAIN known_users' : n \in DOMAIN known_users /\ known_users'[n] = known_users[n]
      /\ \A n \in DOMAIN known_users : known_users[n] # o => n \in DOMAIN known_users'
      /\ \A n \in DOMAIN known_users' : known_users'[n] # o
      /\ known_users' = [n \in DOMAIN known_users' |-> known_users'[n]]
  BY <1>1
<1>5. Moves(t) /\ Left(todo[t], todo'[t], 1) /\ (todo'[t] # <<>> => req'[t] = req[t])
  BY <1>1, GoesMoves
<1> HIDE DEF old
<1>6. \A u \in Threads : \A step : u # t => (Ready(u, step)' <=> Ready(u, step)) /\ req'[u] = req[u]
  BY <1>5 DEF Ready, Moves
<1>7. ~ Ready(t, <<"learn">>)
  BY <1>2 DEF Ready
<1>8. NamesDiffer'
  BY <1>1 DEF NamesDiffer, NamesInv
<1>9. KnownHaveRows'
  BY <1>1, <1>4, <1>6 DEF KnownHaveRows, NamesInv
<1>10. RowsAreKnown'
  <2> HIDE DEF o
  <2> SUFFICES ASSUME NEW q \in DOMAIN Users
               PROVE  \/ Users[q] \in DOMAIN known_users' /\ known_users'[Users[q]] = q
                      \/ \E u \in Threads : Ready(u, <<"learn">>)' /\ req'[u].name = Users[q]
    BY <1>1 DEF RowsAreKnown
  <2>1. q # o
    BY <1>3
  <2> QED BY <1>4, <1>6, <1>7, <2>1 DEF NamesInv, RowsAreKnown
<1>11. \A r : Names(r)' \subseteq Names(r)
  BY <1>4 DEF Names
<1>12. Apart'
  <2>1. \A u \in Threads : todo'[u] # <<>> => req'[u] = req[u] /\ todo[u] # <<>>
    BY <1>1, <1>5 DEF Moves
  <2>2. ASSUME NEW u \in Threads, NEW v \in Threads, u # v, todo'[u] # <<>>, todo'[v] # <<>>
        PROVE  (Names(req[u]) \cap Names(req[v]))' = {}
    <3>1. Names(req[u]) \cap Names(req[v]) = {} /\ req'[u] = req[u] /\ req'[v] = req[v]
      BY <2>1, <2>2 DEF NamesInv, Apart
    <3>2. Names(req[u])' \subseteq Names(req[u]) /\ Names(req[v])' \subseteq Names(req[v])
      BY <1>11, <3>1
    <3> QED BY <3>1, <3>2
  <2> QED BY <2>2 DEF Apart
<1>13. ASSUME NEW u \in Threads, todo[u] # <<>>, req'[u] = req[u], req[u].method = "user.delete",
              req[u].oid \in DOMAIN Users
       PROVE  Names(req[u])' # {}
  <2>1. PICK n \in DOMAIN known_users : known_users[n] = req[u].oid
    BY <1>13 DEF NamesInv, UserThread, Names
  <2>2. n \in DOMAIN known_users' /\ known_users'[n] = req[u].oid
    BY <1>3, <1>4, <1>13, <2>1
  <2> QED BY <1>13, <2>2 DEF Names
<1>14. UserThread(t)'
  <2>1. CASE todo'[t] = <<>>
    BY <2>1 DEF UserThread, UserText, After, Before, Ready
  <2>2. CASE todo'[t] # <<>>
    <3>1. todo[t] \in Seq(Steps) /\ UserText(todo[t], req[t].method)
      BY <1>2 DEF Inv, Thread, WellFormed, UserThread
    <3>2. /\ UserText(todo'[t], req[t].method)
          /\ todo'[t][1] = insert("users") => todo[t][1] = <<"free">>
          /\ todo'[t][1] = <<"learn">> => todo[t][1] = insert("users")
          /\ todo'[t][1] = <<"forget">> => todo[t][1] = drop("users")
      BY <1>5, <2>2, <3>1, UserTextLeft
    <3>3. /\ ~ Ready(t, insert("users"))' /\ ~ Ready(t, <<"learn">>)' /\ ~ Ready(t, <<"forget">>)'
      BY <1>1, <3>2 DEF Ready, insert, drop
    <3> QED BY <1>1, <1>2, <1>3, <1>5, <2>2, <3>2, <3>3 DEF UserThread
  <2> QED BY <2>1, <2>2
<1>15. ASSUME NEW u \in Threads, u # t PROVE UserThread(u)'
  <2>1. todo'[u] = todo[u] /\ req'[u] = req[u] /\ UserThread(u)
    BY <1>5, <1>15 DEF Moves, NamesInv
  <2>2. \A n : n \notin DOMAIN known_users => n \notin DOMAIN known_users'
    BY <1>4
  <2>3. todo'[u] # <<>> /\ req'[u].method = "user.delete" =>
          Names(req[u])' # {} \/ req'[u].oid \notin DOMAIN Users'
    BY <1>1, <1>13, <2>1
  <2> HIDE DEF o
  <2> QED BY <1>1, <1>6, <1>15, <2>1, <2>2, <2>3 DEF UserThread
<1> QED BY <1>4, <1>8, <1>9, <1>10, <1>12, <1>14, <1>15 DEF NamesInv

LEMMA NamesCall ==
  ASSUME Inv, NamesInv, NEW t \in Threads, NEW r \in Requests, Call(t, r)
  PROVE  NamesInv'
<1>1. /\ todo[t] = <<>> /\ OneAtATime(r)
      /\ req' = [req EXCEPT ![t] = r]
      /\ todo' = [todo EXCEPT ![t] = execute(r.method)]
      /\ UNCHANGED data
  BY DEF Call, Idle
<1>2. /\ req'[t] = r /\ todo'[t] = execute(r.method)
      /\ \A u \in Threads : u # t => req'[u] = req[u] /\ todo'[u] = todo[u]
  BY <1>1 DEF Inv, Variables
<1>3. Users' = Users /\ known_users' = known_users /\ lastOID' = lastOID
  BY <1>1 DEF data, Users
<1>4. \A q : Names(q)' = Names(q)
  BY <1>3 DEF Names
<1>5. r.method \in Methods /\ r.oid \in Nat
  BY RequestsAssumption DEF Requests, Request, RequestsAssumption
<1>6. Method(todo'[t], r.method)
  BY <1>2, <1>5, MethodsAre
<1>7. \A u \in Threads : \A step : u # t => (Ready(u, step)' <=> Ready(u, step))
  BY <1>2 DEF Ready
<1>8. \A step : ~ Ready(t, step)
  BY <1>1 DEF Ready
<1>9. NamesDiffer' /\ KnownHaveRows' /\ RowsAreKnown'
  <2>1. KnownHaveRows'
    BY <1>2, <1>3, <1>7, <1>8 DEF NamesInv, KnownHaveRows
  <2>2. RowsAreKnown'
    BY <1>2, <1>3, <1>7, <1>8 DEF NamesInv, RowsAreKnown
  <2> QED BY <1>3, <2>1, <2>2 DEF NamesInv, NamesDiffer
<1>10. Apart'
  <2>1. \A u \in Threads : u # t /\ todo[u] # <<>> => Names(r) \cap Names(req[u]) = {}
    BY <1>1 DEF OneAtATime, Idle
  <2>2. ASSUME NEW u \in Threads, NEW v \in Threads, u # v, todo'[u] # <<>>, todo'[v] # <<>>
        PROVE  (Names(req[u]) \cap Names(req[v]))' = {}
    <3>1. Names(req[u])' = Names(req'[u]) /\ Names(req[v])' = Names(req'[v])
      BY <1>3 DEF Names
    <3>2. CASE u # t /\ v # t
      BY <1>2, <2>2, <3>1, <3>2 DEF NamesInv, Apart
    <3>3. CASE u = t
      BY <1>2, <2>1, <2>2, <3>1, <3>3
    <3>4. CASE v = t
      BY <1>2, <2>1, <2>2, <3>1, <3>4
    <3> QED BY <3>2, <3>3, <3>4
  <2> QED BY <2>2 DEF Apart
<1>11. UserThread(t)'
  <2>1. /\ UserText(todo'[t], r.method)
        /\ \A step \in {insert("users"), <<"learn">>, <<"forget">>} : ~ Ready(t, step)'
    BY <1>6 DEF Method, Ready
  <2>2. ASSUME r.method = "user.delete" PROVE Names(r) # {} /\ r.oid <= lastOID["users"]
    <3>1. PICK n \in DOMAIN known_users : known_users[n] = r.oid
      BY <1>1, <2>2 DEF OneAtATime, Names
    <3>2. CASE r.oid \in DOMAIN Users
      BY <3>1, <3>2, <2>2 DEF Inv, Tables, Users, Names, Pools
    <3>3. CASE \E u \in Threads : Ready(u, <<"forget">>) /\ req[u].oid = r.oid
      <4>1. PICK u \in Threads : Ready(u, <<"forget">>) /\ req[u].oid = r.oid
        BY <3>3
      <4>2. req[u].method = "user.delete" /\ todo[u] # <<>>
        BY <4>1, ReadyMethod DEF Ready
      <4> QED BY <2>2, <3>1, <4>1, <4>2 DEF NamesInv, UserThread, Names
    <3> QED BY <3>1, <3>2, <3>3 DEF NamesInv, KnownHaveRows
  <2>3. Names(req[t])' = Names(r)
    BY <1>2, <1>3 DEF Names
  <2> QED BY <1>2, <1>3, <1>5, <2>1, <2>2, <2>3 DEF UserThread
<1>12. ASSUME NEW u \in Threads, u # t PROVE UserThread(u)'
  <2>1. todo'[u] = todo[u] /\ req'[u] = req[u] /\ UserThread(u)
    BY <1>2, <1>12 DEF NamesInv
  <2>2. Names(req[u])' = Names(req[u])
    BY <1>3, <2>1 DEF Names
  <2> QED BY <1>3, <1>7, <1>12, <2>1, <2>2 DEF UserThread
<1> QED BY <1>3, <1>9, <1>10, <1>11, <1>12 DEF NamesInv

\* The map has been read from the table, and no thread serves anything.
LEMMA NamesRead ==
  ASSUME NamesDiffer, known_users = Known(Users), \A t \in Threads : todo[t] = <<>>
  PROVE  NamesInv
<1>1. \A t \in Threads : UserThread(t)
  BY DEF UserThread, UserText, After, Before, Ready
<1>2. KnownHaveRows /\ RowsAreKnown
  BY KnownOfTable DEF KnownHaveRows, RowsAreKnown
<1> QED BY <1>1, <1>2, KnownOfTable DEF NamesInv, Apart

LEMMA NamesInit == Init => NamesInv
<1> SUFFICES ASSUME Init PROVE NamesInv
  OBVIOUS
<1>1. PICK other \in Clients \ {"oneadmin"}, owner \in {0, 1} :
       rows = [users |-> [o \in {0, 1} |-> IF o = 0 THEN "oneadmin" ELSE other],
               hosts |-> [o \in {0} |-> 0], networks |-> [o \in {0} |-> owner],
               vms |-> [o \in {0} |-> 1]]
  BY DEF Init
<1>2. NamesDiffer
  BY <1>1 DEF NamesDiffer, Users
<1> QED BY <1>2, NamesRead DEF Init, Users

LEMMA NamesRestart ==
  ASSUME Inv, NamesInv, Restart
  PROVE  NamesInv'
<1>1. NamesDiffer' /\ known_users' = Known(Users)' /\ \A t \in Threads : todo'[t] = <<>>
  BY DEF Restart, Users, NamesInv, NamesDiffer, Known
<1>2. (NamesDiffer /\ known_users = Known(Users) /\ \A t \in Threads : todo[t] = <<>>)' => NamesInv'
  BY NamesRead, PTL
<1> QED BY <1>1, <1>2

LEMMA NamesInsert ==
  ASSUME Inv, NamesInv, NEW t \in Threads, Insert(t), "users" \notin InsertsFail
  PROVE  NamesInv'
<1>1. At(t, "insert") /\ ~ Ready(t, <<"learn">>) /\ ~ Ready(t, <<"forget">>)
  BY NotReady DEF Insert
<1>2. todo[t] # <<>> /\ PoolOf(t) \in Pools /\ todo[t][1] = insert(PoolOf(t))
  BY <1>1, AtStep DEF Inv, PoolOps, insert
<1>3. DOMAIN rows = Pools /\ DOMAIN lastOID = Pools
  BY DEF Inv, Tables
<1>4. CASE Refuse(t)
  BY <1>1, <1>4, QuietRefuse
<1>5. CASE ~ Refuse(t) /\ PoolOf(t) = "users"
  <2>1. /\ Goes(t) /\ known_users' = known_users
        /\ rows' = [rows EXCEPT !["users"] = [q \in DOMAIN @ \cup {lastOID["users"] + 1} |->
                                   IF q = lastOID["users"] + 1 THEN req[t].name ELSE @[q]]]
        /\ lastOID' = [lastOID EXCEPT !["users"] = lastOID["users"] + 1]
    BY <1>5 DEF Insert
  <2>2. /\ Users' = [q \in DOMAIN Users \cup {lastOID["users"] + 1} |->
                                   IF q = lastOID["users"] + 1 THEN req[t].name ELSE Users[q]]
        /\ lastOID'["users"] = lastOID["users"] + 1
    BY <1>3, <2>1 DEF Users, Pools
  <2> QED BY <1>2, <1>5, <2>1, <2>2, InsertUser DEF Ready
<1>6. CASE ~ Refuse(t) /\ PoolOf(t) # "users"
  <2>1. /\ Goes(t) /\ known_users' = known_users
        /\ \E row : rows' = [rows EXCEPT ![PoolOf(t)] = row]
        /\ \E o : lastOID' = [lastOID EXCEPT ![PoolOf(t)] = o]
    BY <1>6 DEF Insert
  <2>2. SameUsers
    BY <1>2, <1>3, <1>6, <2>1 DEF SameUsers, Users, Pools
  <2>3. todo[t][1] \notin {insert("users"), drop("users"), <<"free">>, <<"learn">>, <<"forget">>}
    BY <1>2, <1>6 DEF insert, drop
  <2> QED BY <1>2, <2>1, <2>2, <2>3, QuietGoes
<1> QED BY <1>4, <1>5, <1>6

LEMMA NamesDrop ==
  ASSUME Inv, NamesInv, NEW t \in Threads, Drop(t)
  PROVE  NamesInv'
<1>1. At(t, "drop") /\ ~ Ready(t, <<"learn">>) /\ ~ Ready(t, <<"forget">>)
  BY NotReady DEF Drop
<1>2. todo[t] # <<>> /\ PoolOf(t) \in Pools /\ todo[t][1] = drop(PoolOf(t))
  BY <1>1, AtStep DEF Inv, PoolOps, drop
<1>3. DOMAIN rows = Pools
  BY DEF Inv, Tables
<1>4. CASE Refuse(t)
  BY <1>1, <1>4, QuietRefuse
<1>5. CASE ~ Refuse(t)
  <2>1. /\ Goes(t) /\ UNCHANGED <<known_users, lastOID>>
        /\ rows' = [rows EXCEPT ![PoolOf(t)] = [q \in DOMAIN @ \ {req[t].oid} |-> @[q]]]
    BY <1>5 DEF Drop
  <2>2. CASE PoolOf(t) = "users"
    <3>1. Users' = [q \in DOMAIN Users \ {req[t].oid} |-> Users[q]]
      BY <1>3, <2>1, <2>2 DEF Users, Pools
    <3> QED BY <1>2, <2>1, <2>2, <3>1, DropUser DEF Ready
  <2>3. CASE PoolOf(t) # "users"
    <3>1. SameUsers
      BY <1>2, <1>3, <2>1, <2>3 DEF SameUsers, Users, Pools
    <3>2. todo[t][1] \notin {insert("users"), drop("users"), <<"free">>, <<"learn">>, <<"forget">>}
      BY <1>2, <2>3 DEF insert, drop
    <3> QED BY <1>2, <2>1, <3>1, <3>2, QuietGoes
  <2> QED BY <2>2, <2>3
<1> QED BY <1>4, <1>5

LEMMA NamesNext ==
  ASSUME "users" \notin InsertsFail
  PROVE  Inv /\ NamesInv /\ [Next]_vars => NamesInv'
<1> SUFFICES ASSUME Inv, NamesInv, [Next]_vars PROVE NamesInv'
  OBVIOUS
<1>1. CASE UNCHANGED vars
  BY <1>1, NamesSame DEF vars
<1>2. ASSUME NEW t \in Threads, Step(t) PROVE NamesInv'
  BY <1>2, NamesQuiet, NamesFree, NamesInsert, NamesDrop, NamesLearn, NamesForget DEF Step
<1>3. ASSUME NEW t \in Threads, NEW r \in Requests, Call(t, r) PROVE NamesInv'
  BY <1>3, NamesCall
<1>4. CASE Restart
  BY <1>4, NamesRestart
<1> QED BY <1>1, <1>2, <1>3, <1>4 DEF Next

\* When no user is being created or deleted, the map of names is the table of
\* users: it is enough that no INSERT into that table fails, whose result
\* UserPool::allocate does not look at (UserPool::allocate and drop, and the
\* constructor that reads the table).
THEOREM MapIsTable ==
  ASSUME "users" \notin InsertsFail
  PROVE  Spec => []KnownIsTable
<1>1. Inv /\ NamesInv => KnownIsTable
  <2> SUFFICES ASSUME Inv, NamesInv,
                      \A t \in Threads :
                        req[t].method \notin {"user.allocate", "user.delete"} \/ Idle(t)
               PROVE  known_users = Known(Users)
    BY DEF KnownIsTable, Users
  <2>1. \A t \in Threads : ~ Ready(t, <<"learn">>) /\ ~ Ready(t, <<"forget">>)
    BY ReadyMethod DEF Ready, Idle
  <2>2. /\ \A n \in DOMAIN known_users :
             known_users[n] \in DOMAIN Users /\ Users[known_users[n]] = n
        /\ \A o \in DOMAIN Users : Users[o] \in DOMAIN known_users
        /\ known_users = [n \in DOMAIN known_users |-> known_users[n]]
    BY <2>1 DEF NamesInv, KnownHaveRows, RowsAreKnown
  <2>3. /\ Known(Users) = [n \in DOMAIN Known(Users) |-> Known(Users)[n]]
        /\ \A o \in DOMAIN Users : Users[o] \in DOMAIN Known(Users) /\ Known(Users)[Users[o]] = o
        /\ \A n \in DOMAIN Known(Users) :
              Known(Users)[n] \in DOMAIN Users /\ Users[Known(Users)[n]] = n
    BY KnownOfTable DEF NamesInv
  <2>4. DOMAIN known_users = DOMAIN Known(Users)
    BY <2>2, <2>3
  <2>5. \A n \in DOMAIN known_users : known_users[n] = Known(Users)[n]
    BY <2>2, <2>3
  <2> QED BY <2>2, <2>3, <2>4, <2>5
<1> QED BY <1>1, InvHolds, InvInit, InvNext, NamesInit, NamesNext, PTL DEF Spec

=============================================================================
