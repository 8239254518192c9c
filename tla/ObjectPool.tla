----------------------------- MODULE ObjectPool -----------------------------
(***************************************************************************)
(* A pool of objects kept in the database (src/pool/PoolSQL.cc), as the    *)
(* threads of oned use it: an object is loaded into a cache when it is     *)
(* asked for, and locked for the caller if it asks for that; when the      *)
(* cache is too large an object nobody has locked is deleted.  There is a  *)
(* mutex for the pool and one for each object.  A thread uses one object   *)
(* of the pool at a time.                                                  *)
(***************************************************************************)
EXTENDS Integers, Sequences, FiniteSets

CONSTANTS
  Threads, NoThread,
  Oids,            \* identifiers there may be, the bound of allocate
  MAX_POOL_SIZE,
  MaxQueue,        \* bounds the loads: nothing takes an entry out of oid_queue
  Kinds            \* the pools there are

ObjectPoolAssumption ==
  /\ 0 \in Oids /\ Oids \subseteq Nat /\ \A o \in Oids : 0..o \subseteq Oids
  /\ MAX_POOL_SIZE \in Nat \ {0} /\ MaxQueue \in Nat
  /\ NoThread \notin Threads
  /\ Kinds \subseteq {"hosts", "vms", "networks", "users"}

ASSUME ObjectPoolAssumption

VARIABLES
  kind,       \* the pool this is: threads use each in another way
  lastOID,
  rows,       \* the oids in the table
  pool,       \* the oids in the cache
  valid,      \* the objects in the cache that have not been dropped
  oid_queue,
  mutex,      \* the thread that has locked the pool
  owner,      \* the thread that has locked the object in the cache
  step,       \* what each thread is doing
  oid, olock, \* the parameters of its get
  live        \* the object it has a pointer to has not been deleted

poolVars == <<kind, lastOID, rows, pool, valid, oid_queue>>
threadVars == <<step, oid, olock, live>>
vars == <<poolVars, mutex, owner, threadVars>>

TypeOK ==
  /\ kind \in Kinds
  /\ lastOID \in Oids \cup {-1}
  /\ rows \subseteq 0..lastOID /\ pool \subseteq 0..lastOID /\ valid \subseteq pool
  /\ oid_queue \in Seq(0..lastOID)
  /\ mutex \in Threads \cup {NoThread}
  /\ owner \in [Oids -> Threads \cup {NoThread}]
  /\ step \in [Threads -> {"idle", "getting", "locking", "replacing",
                           "using", "reading", "unlocked"}]
  /\ oid \in [Threads -> Oids]
  /\ {olock, live} \subseteq [Threads -> BOOLEAN]

Init ==
  /\ kind \in Kinds
  /\ lastOID = -1
  /\ rows = {} /\ pool = {} /\ valid = {} /\ oid_queue = <<>>
  /\ mutex = NoThread
  /\ owner = [o \in Oids |-> NoThread]
  /\ step = [t \in Threads |-> "idle"]
  /\ oid = [t \in Threads |-> 0]
  /\ olock = [t \in Threads |-> FALSE] /\ live = olock

Goes(t, s) == step' = [step EXCEPT ![t] = s]

-----------------------------------------------------------------------------
(* allocate                                                                *)

\* Mutant: lastOID is not incremented before the insert that fails.
AllocateTakesBack ==
  /\ mutex = NoThread /\ lastOID + 1 \in Oids
  /\ \/ lastOID' = lastOID + 1 /\ rows' = rows \cup {lastOID + 1}
     \/ lastOID >= 0 /\ lastOID' = lastOID - 1 /\ UNCHANGED rows
  /\ UNCHANGED <<kind, pool, valid, oid_queue, mutex, owner, threadVars>>

\* The object is written, and deleted: it is not put in the cache.  An insert
\* that fails gives its oid back.
Allocate ==
  /\ mutex = NoThread /\ lastOID + 1 \in Oids
  /\ \/ lastOID' = lastOID + 1 /\ rows' = rows \cup {lastOID + 1}
     \/ UNCHANGED <<lastOID, rows>>
  /\ UNCHANGED <<kind, pool, valid, oid_queue, mutex, owner, threadVars>>

-----------------------------------------------------------------------------
(* get                                                                     *)

\* authenticate asks for a user without its lock.
Get(t, o, lock) ==
  /\ step[t] = "idle" /\ mutex = NoThread
  /\ lock \/ kind = "users"
  /\ Len(oid_queue) < MaxQueue
  /\ mutex' = t
  /\ Goes(t, "getting")
  /\ oid' = [oid EXCEPT ![t] = o]
  /\ olock' = [olock EXCEPT ![t] = lock]
  /\ UNCHANGED <<poolVars, owner, live>>

\* get returns the object, or none.
Returns(t) ==
  /\ mutex' = NoThread
  /\ Goes(t, IF olock[t] THEN "using" ELSE "reading")

ReturnsNone(t) == mutex' = NoThread /\ Goes(t, "idle") /\ UNCHANGED live

\* The object is in the cache.  It is looked at before it is locked.
Find(t) ==
  /\ step[t] = "getting" /\ oid[t] \in pool
  /\ \/ oid[t] \notin valid /\ ReturnsNone(t)
     \/ /\ oid[t] \in valid
        /\ live' = [live EXCEPT ![t] = TRUE]
        /\ IF olock[t] THEN Goes(t, "locking") /\ UNCHANGED mutex ELSE Returns(t)
  /\ UNCHANGED <<poolVars, owner, oid, olock>>

\* The pool stays locked while the thread waits for the object.
Lock(t) ==
  /\ step[t] = "locking" /\ owner[oid[t]] = NoThread
  /\ owner' = [owner EXCEPT ![oid[t]] = t]
  /\ Returns(t)
  /\ UNCHANGED <<poolVars, oid, olock, live>>

Load(t) ==
  /\ step[t] = "getting" /\ oid[t] \notin pool
  /\ \/ /\ oid[t] \notin rows /\ ReturnsNone(t)
        /\ UNCHANGED <<poolVars, owner>>
     \/ /\ oid[t] \in rows
        /\ pool' = pool \cup {oid[t]} /\ valid' = valid \cup {oid[t]}
        /\ oid_queue' = Append(oid_queue, oid[t])
        /\ owner' = [owner EXCEPT ![oid[t]] = IF olock[t] THEN t ELSE NoThread]
        /\ live' = [live EXCEPT ![t] = TRUE]
        /\ IF Cardinality(pool') > MAX_POOL_SIZE
             THEN Goes(t, "replacing") /\ UNCHANGED mutex
             ELSE Returns(t)
        /\ UNCHANGED <<kind, lastOID, rows>>
  /\ UNCHANGED <<oid, olock>>

\* The object o of the cache is deleted: whoever points to it points nowhere.
Delete(o) ==
  /\ pool' = pool \ {o} /\ valid' = valid \ {o}
  /\ live' = [t \in Threads |-> live[t] /\ oid[t] # o]

\* Mutant: whether the object is locked is not looked at.
ReplaceLocked(t) ==
  /\ step[t] = "replacing"
  /\ LET o == Head(oid_queue)
     IN  IF o \in pool THEN Delete(o) ELSE UNCHANGED <<pool, valid, live>>
  /\ Returns(t)
  /\ UNCHANGED <<kind, lastOID, rows, oid_queue, owner, oid, olock>>

\* Mutant: a locked object stays at the head of the queue.
ReplaceInOrder(t) ==
  /\ step[t] = "replacing"
  /\ LET o == Head(oid_queue)
     IN  \/ o \notin pool /\ Returns(t) /\ UNCHANGED <<pool, valid, live>>
         \/ o \in pool /\ owner[o] # NoThread /\ UNCHANGED <<pool, valid, live, mutex, step>>
         \/ o \in pool /\ owner[o] = NoThread /\ Delete(o) /\ Returns(t)
  /\ UNCHANGED <<kind, lastOID, rows, oid_queue, owner, oid, olock>>

\* One turn of the loop of replace.  A locked object goes to the back of the
\* queue.  The entry of the object that is deleted stays at its head.
Replace(t) ==
  /\ step[t] = "replacing"
  /\ LET o == Head(oid_queue)
     IN  \/ /\ o \notin pool
            /\ Returns(t)
            /\ UNCHANGED <<pool, valid, oid_queue, live>>
         \/ /\ o \in pool /\ owner[o] # NoThread
            /\ oid_queue' = Append(Tail(oid_queue), o)
            /\ UNCHANGED <<pool, valid, live, mutex, step>>
         \/ /\ o \in pool /\ owner[o] = NoThread
            /\ Delete(o)
            /\ Returns(t)
            /\ UNCHANGED oid_queue
  /\ UNCHANGED <<kind, lastOID, rows, owner, oid, olock>>

-----------------------------------------------------------------------------
(* What a thread does with the object                                      *)

\* INSERT OR REPLACE
Update(t) ==
  /\ step[t] = "using" /\ kind \in {"hosts", "vms"}
  /\ rows' = rows \cup {oid[t]}
  /\ UNCHANGED <<kind, lastOID, pool, valid, oid_queue, mutex, owner, threadVars>>

\* HostDelete, for one: the row is deleted, the object is not valid any more,
\* and it is unlocked: the thread that waits for it has it next.
Drop(t) ==
  /\ step[t] = "using" /\ kind \in {"hosts", "networks", "users"}
  /\ rows' = rows \ {oid[t]}
  /\ valid' = valid \ {oid[t]}
  /\ owner' = [owner EXCEPT ![oid[t]] = NoThread]
  /\ Goes(t, "idle")
  /\ UNCHANGED <<kind, lastOID, pool, oid_queue, mutex, oid, olock, live>>

Unlock(t) ==
  /\ step[t] = "using"
  /\ owner' = [owner EXCEPT ![oid[t]] = NoThread]
  /\ Goes(t, "idle") \/ (kind = "vms" /\ Goes(t, "unlocked"))
  /\ UNCHANGED <<poolVars, mutex, oid, olock, live>>

\* get_network_leases returns an error when the VM and the network have
\* different owners, the network still locked.
LeaveLocked(t) ==
  /\ step[t] = "using" /\ kind = "networks"
  /\ Goes(t, "idle")
  /\ UNCHANGED <<poolVars, mutex, owner, oid, olock, live>>

\* DispatchManager::deploy and ::migrate have unlocked the VM their callers
\* now unlock.
UnlockAgain(t) ==
  /\ step[t] = "unlocked"
  /\ owner' = IF live[t] THEN [owner EXCEPT ![oid[t]] = NoThread] ELSE owner
  /\ Goes(t, "idle")
  /\ UNCHANGED <<poolVars, mutex, oid, olock, live>>

\* A thread that has not locked the object is done with it.
Read(t) ==
  /\ step[t] = "reading"
  /\ Goes(t, "idle")
  /\ UNCHANGED <<poolVars, mutex, owner, oid, olock, live>>

-----------------------------------------------------------------------------

InPool(t) == Find(t) \/ Lock(t) \/ Load(t) \/ Replace(t)
Leave(t) == Unlock(t) \/ UnlockAgain(t)

Next ==
  \/ Allocate
  \/ \E t \in Threads :
       \/ \E o \in Oids, lock \in BOOLEAN : Get(t, o, lock)
       \/ InPool(t) \/ Update(t) \/ Drop(t) \/ Leave(t) \/ LeaveLocked(t) \/ Read(t)

\* A thread is scheduled, and is done with an object at some time.
Fairness == \A t \in Threads : WF_vars(InPool(t)) /\ WF_vars(Leave(t))

Spec == Init /\ [][Next]_vars
FairSpec == Spec /\ Fairness

-----------------------------------------------------------------------------
(* Properties                                                              *)

\* A thread that has got an object locked is the only one, and the object is
\* in the cache until it unlocks it: whatever other threads load, the copy of
\* the object in memory is the only one. Not so for a VM, which the thread that
\* unlocks it twice takes away from the one that has locked it in between.
UsersAreAlone ==
  \A t \in Threads : kind # "vms" /\ step[t] = "using" =>
    /\ live[t] /\ oid[t] \in pool
    /\ \A u \in Threads \ {t} : step[u] = "using" => oid[u] # oid[t]

\* Once it has locked the pool, get returns: nobody can lock the object it
\* waits for, nor those it would replace, before it does. Not so for a network,
\* which may have been left locked.
GetReturns ==
  \A t \in Threads :
    kind # "networks" /\ step[t] \in {"getting", "locking", "replacing"}
      ~> step[t] \in {"idle", "using", "reading"}

\* MAX_POOL_SIZE is "Max size for the pool, to control the memory footprint"
\* (PoolSQL.h): when nobody is in get, no more than that is in the cache.
PoolBounded == mutex = NoThread => Cardinality(pool) <= MAX_POOL_SIZE

=============================================================================
