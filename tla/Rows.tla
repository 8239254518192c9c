-------------------------------- MODULE Rows --------------------------------
(***************************************************************************)
(* The rows that VMs, hosts and virtual networks are made of               *)
(* (src/template/TemplateSQL.cc and the database functions of              *)
(* src/vm/VirtualMachine.cc, src/vm/History.cc, src/host/Host.cc,          *)
(* src/host/HostShare.cc and src/vnm/VirtualNetwork.cc).  An object is     *)
(* written statement by statement, without a transaction: any of them may  *)
(* fail, and oned may stop between two of them.  What an object in memory  *)
(* knows is the set of the rows that would say it, so that a statement     *)
(* does the same to both.  The locks are those of ObjectPool: the rows of  *)
(* one object are written by one thread, and allocate has the whole pool.  *)
(***************************************************************************)
EXTENDS Integers, Sequences, FiniteSets, FiniteSetsExt

CONSTANTS
  Kinds,        \* the pools there are
  MaxOid,       \* bounds the objects
  MaxVersion    \* bounds the operations: each writes values of its own

RowsAssumption == Kinds \subseteq {"vms", "hosts", "networks"} /\ {MaxOid, MaxVersion} \subseteq Nat

ASSUME RowsAssumption

VARIABLES
  kind,       \* of the objects of this pool
  db,         \* the rows of all its tables
  cache,      \* of the objects in memory: the rows they know
  lastOID,
  op, oid,    \* what is being done, and to which object
  todo,       \* the statements it has left
  ok,         \* none of those that matter has failed
  version,    \* of the values written last
  lost,       \* objects in memory a statement of which has failed or was left out
  dropping,   \* objects with a row that some drop has begun to delete, or whose
              \* insert is going to
  context     \* of each VM: its CONTEXT is "due", until the request that creates
              \* the VM has "written" it; or "none"

tables == <<kind, db, lastOID>>
task == <<op, oid, todo, ok>>
vars == <<tables, cache, task, version, lost, dropping, context>>

\* n is the template of an object, and the number of a record of its history.
Row(table, id, name, n, value) ==
  [table |-> table, id |-> id, name |-> name, n |-> n, value |-> value]

Names == CASE kind = "vms"   -> <<"NAME", "VMID">>
           [] kind = "hosts" -> <<"FREECPU", "TOTALCPU">>
           [] OTHER          -> <<"NAME", "NETWORK_ADDRESS">>

Of(rows, table, id) == {r \in rows : r.table = table /\ r.id = id}

The(rows) == CHOOSE r \in rows : TRUE

Object(o, template, v) == Row("object", o, "", template, v)
Share(o, v)            == Row("share", o, "", 0, v)
Record(o, seq, v)      == Row("history", o, "", seq, v)
Attribute(id, name, v) == Row("attribute", id, name, 0, v)

Attributes(id, v) == {Attribute(id, Names[i], v) : i \in DOMAIN Names}

Oids == 0..MaxOid

Cached == DOMAIN cache

-----------------------------------------------------------------------------
(* Statements                                                              *)

\* if: what happens when it fails.  live: the object in memory is changed when
\* it succeeds, not before it is tried.
Statement(verb, row, if, live) == [verb |-> verb, row |-> row, if |-> if, live |-> live]

Write(row, if) == Statement("write", row, if, FALSE)

\* DELETE FROM table WHERE id =
Clear(table, id) == Statement("clear", Row(table, id, "", 0, 0), "go on", FALSE)

\* INSERT OR REPLACE: the attributes of VMs and of networks have no key.  Two
\* networks of one name are a matter of NetworkLeases.
Replaces(new, old) ==
  /\ new.table = old.table /\ new.id = old.id
  /\ CASE new.table = "attribute" -> kind = "hosts" /\ new.name = old.name
       [] new.table = "history"   -> new.n = old.n
       [] OTHER                   -> TRUE

Executed(rows, s) ==
  CASE s.verb = "write" -> {r \in rows : ~Replaces(s.row, r)} \cup {s.row}
    [] s.verb = "clear" -> rows \ Of(rows, s.row.table, s.row.id)
    [] OTHER            -> rows \ {s.row}

\* The last part of a VM.
IsContext(s) == s.verb = "write" /\ s.row.table = "attribute" /\ s.row.name = "CONTEXT"

\* exec has tried ten times.  A template that is not written to its end, or
\* whose object is not, is deleted.
Fails ==
  LET s == Head(todo)
      template == IF s.row.table = "attribute" THEN s.row.id ELSE s.row.n
  IN  /\ todo # <<>>
      /\ todo' = CASE s.if = "go on" -> Tail(todo)
                   [] s.if = "undo"  -> <<Clear("attribute", template)>>
                   [] OTHER          -> <<>>
      /\ ok' = (ok /\ s.if = "go on")
      /\ lost' = IF op \in {"allocate", "refuse"} \/ s.live THEN lost ELSE lost \cup {oid}
      /\ context' = IF IsContext(s) THEN [context EXCEPT ![oid] = "none"] ELSE context
      /\ UNCHANGED <<tables, cache, op, oid, version, dropping>>

Succeeds ==
  /\ todo # <<>>
  /\ db' = Executed(db, Head(todo))
  /\ cache' = IF Head(todo).live
              THEN [cache EXCEPT ![oid] = Executed(@, Head(todo))] ELSE cache
  /\ context' = IF IsContext(Head(todo)) THEN [context EXCEPT ![oid] = "written"] ELSE context
  /\ todo' = Tail(todo)
  /\ UNCHANGED <<kind, lastOID, op, oid, ok, version, lost, dropping>>

\* The operation is o's, and has these statements.
Begin(what, o, statements) ==
  /\ op = "none" /\ version < MaxVersion
  /\ op' = what /\ oid' = o /\ todo' = statements /\ ok' = TRUE
  /\ version' = version + 1

-----------------------------------------------------------------------------
(* Writing an object                                                       *)

\* TemplateSQL::update, the attributes in the order of their names.
TemplateWrites(rows, id) ==
  LET known(name) == {r \in Of(rows, "attribute", id) : r.name = name}
      write(name) == IF known(name) = {} THEN <<>> ELSE <<Write(The(known(name)), "undo")>>
  IN  write(Names[1]) \o write(Names[2])

ShareWrites(rows, o) ==
  LET shares == Of(rows, "share", o)
  IN  IF shares = {} THEN <<>> ELSE <<Write(The(shares), "abort")>>

\* The template, the share of a host, and then the row of the object.
Writes(rows, o, if) ==
  LET object == The(Of(rows, "object", o))
  IN  TemplateWrites(rows, object.n) \o ShareWrites(rows, o) \o <<Write(object, if)>>

\* Mutant: as for hosts and networks.
TemplateIdOfOid == lastOID + 1

\* TemplateSQL::insert, for VMs: one more than the greatest id so far.
TemplateId ==
  LET ids == {r.id : r \in {r \in db : r.table = "attribute"}}
  IN  IF ids = {} THEN 0 ELSE Max(ids) + 1

\* PoolSQL::allocate: the rows are those of the new object, which is not kept
\* in memory.
Allocate(what, o, rows, if) ==
  /\ kind = what /\ o \in Oids
  /\ Begin("allocate", o, Writes(rows, o, if))
  /\ lastOID' = o
  /\ UNCHANGED <<kind, db, cache, lost>>

\* VirtualMachinePool::allocate keeps the CONTEXT apart until the VM is in the
\* pool (WriteContext).
AllocateVm ==
  LET o == lastOID + 1  id == TemplateId  v == version + 1
  IN  /\ Allocate("vms", o, {Object(o, id, v)} \cup Attributes(id, v), "undo")
      /\ context' = [context EXCEPT ![o] = "due"]
      /\ UNCHANGED dropping

\* A RANGED network that has an address: the insert ends with its row.
AllocateNetwork ==
  LET o == lastOID + 1  v == version + 1
  IN  /\ Allocate("networks", o, {Object(o, o, v)} \cup Attributes(o, v), "undo")
      /\ dropping' = dropping \ {o} /\ UNCHANGED context

\* A RANGED network that has none: insert finds out when the row is there, and
\* vn_drop deletes the template first.  It comes no further (End).
RefuseNetwork ==
  LET o == lastOID + 1  v == version + 1
  IN  /\ kind = "networks" /\ o \in Oids
      /\ Begin("refuse", o, <<Write(Attribute(o, "NAME", v), "undo"),
                             Write(Object(o, o, v), "undo"), Clear("attribute", o)>>)
      /\ lastOID' = o /\ dropping' = dropping \cup {o}
      /\ UNCHANGED <<kind, db, cache, lost, context>>

\* A host has no attributes until it is monitored.
AllocateHost ==
  LET o == lastOID + 1  v == version + 1
  IN  /\ Allocate("hosts", o, {Object(o, o, v), Share(o, v)}, "abort")
      /\ UNCHANGED <<dropping, context>>

\* The object in memory now knows these rows, in place of what they replace.
Knows(o, new) ==
  cache' = [cache EXCEPT ![o] = {r \in @ : \A n \in new : ~Replaces(n, r)} \cup new]

\* Monitoring (update_info) or a VM that comes or goes (add_capacity,
\* del_capacity), and then HostPool::update.
UpdateHost(o) ==
  /\ kind = "hosts" /\ o \in Cached
  /\ LET v == version + 1
     IN \E new \in { {Share(o, v)}, {Object(o, o, v), Share(o, v)} \cup Attributes(o, v) } :
          /\ Knows(o, new)
          /\ Begin("update", o, Writes(cache'[o], o, "abort"))
  /\ UNCHANGED <<tables, lost, dropping, context>>

-----------------------------------------------------------------------------
(* Virtual machines                                                        *)

Records(rows, o) == Of(rows, "history", o)

LastRecord(rows, o) == CHOOSE r \in Records(rows, o) : \A s \in Records(rows, o) : s.n <= r.n

\* add_history, cp_history or cp_previous_history, and update_history: the
\* VM knows its last two records.
Deploy(o) ==
  /\ kind = "vms" /\ o \in Cached
  /\ LET old == Records(cache[o], o)
         last == LastRecord(cache[o], o)
         new == Record(o, IF old = {} THEN 0 ELSE last.n + 1, version + 1)
     IN  /\ cache' = [cache EXCEPT ![o] =
                        (@ \ old) \cup {new} \cup (IF old = {} THEN {} ELSE {last})]
         /\ Begin("update", o, <<Write(new, "abort")>>)
  /\ UNCHANGED <<tables, lost, dropping, context>>

\* A handler of the life cycle: the VM, its previous record and its last one
\* are changed and written, or some of them, whatever becomes of the others.
Handle(o) ==
  /\ kind = "vms" /\ o \in Cached
  /\ \E parts \in SUBSET {"object", "previous", "last"} :
       LET last     == LastRecord(cache[o], o)
           old      == Records(cache[o], o)
           changed(part) ==
             CASE part = "object" -> Of(cache[o], "object", o)
               [] part = "last"   -> IF old = {} THEN {} ELSE {last}
               [] OTHER           -> IF old = {} THEN {} ELSE old \ {last}
           written(part) ==
             IF part \notin parts \/ changed(part) = {} THEN <<>>
             ELSE <<Write([The(changed(part)) EXCEPT !.value = version + 1], "go on")>>
           statements == written("object") \o written("previous") \o written("last")
       IN  /\ statements # <<>>
           /\ Knows(o, {statements[i].row : i \in DOMAIN statements})
           /\ Begin("update", o, statements)
  /\ UNCHANGED <<tables, lost, dropping, context>>

\* replace_attribute, with a value that was polled.  The old one is erased
\* first, and forgotten then.
Replace(o) ==
  /\ kind = "vms" /\ o \in Cached
  /\ LET id  == The(Of(cache[o], "object", o)).n
         old == {r \in Of(cache[o], "attribute", id) : r.name = "POLLED"}
         new == Attribute(id, "POLLED", version + 1)
     IN  Begin("update", o,
           (IF old = {} THEN <<>> ELSE <<Statement("erase", The(old), "abort", TRUE)>>)
             \o <<Statement("write", new, "abort", TRUE)>>)
  /\ UNCHANGED <<tables, cache, lost, dropping, context>>

\* VirtualMachinePool::generate_context: the request that has created the VM gets
\* it back and inserts its CONTEXT.  Nobody looks whether that succeeds.
WriteContext(o) ==
  /\ kind = "vms" /\ o \in Cached /\ context[o] = "due"
  /\ LET id == The(Of(cache[o], "object", o)).n
     IN  Begin("update", o,
           <<Statement("write", Attribute(id, "CONTEXT", version + 1), "abort", TRUE)>>)
  /\ UNCHANGED <<tables, cache, lost, dropping, context>>

\* There is none, its variables cannot be replaced, or the VM cannot be loaded.
GiveUpContext(o) ==
  /\ op = "none" /\ context[o] = "due"
  /\ context' = [context EXCEPT ![o] = "none"]
  /\ UNCHANGED <<tables, cache, task, version, lost, dropping>>

-----------------------------------------------------------------------------
(* Reading, deleting, and the end of an operation                          *)

\* Mutant: the record before the last one is not read.
SelectLast(rows, o) ==
  IF Records(rows, o) = {} THEN {} ELSE {LastRecord(rows, o)}

\* The last record and the one before it: if this one is not there, the VM has
\* one with nothing in it.
SelectRecords(rows, o) ==
  LET last == LastRecord(rows, o)
      previous == {r \in Records(rows, o) : r.n = last.n - 1}
  IN  IF Records(rows, o) = {} THEN {}
      ELSE {last} \cup
           IF last.n = 0 THEN {}
           ELSE IF previous = {} THEN {Record(o, last.n - 1, -1)} ELSE previous

ObjectOf(rows, o)    == Of(rows, "object", o)
TemplateOf(rows, id) == Of(rows, "attribute", id)
ShareOf(rows, o)     == Of(rows, "share", o)

\* The rows a VM, a host or a network knows once it is loaded, or none when it
\* cannot be.  A template of no rows is one, too, but a RANGED network needs
\* its address.
SelectVm(rows, o) ==
  IF ObjectOf(rows, o) = {} THEN {}
  ELSE ObjectOf(rows, o) \cup TemplateOf(rows, The(ObjectOf(rows, o)).n)
         \cup SelectRecords(rows, o)

SelectHost(rows, o) ==
  IF {} \in {ObjectOf(rows, o), ShareOf(rows, o)} THEN {}
  ELSE ObjectOf(rows, o) \cup TemplateOf(rows, o) \cup ShareOf(rows, o)

SelectNetwork(rows, o) ==
  IF ObjectOf(rows, o) = {} \/ ~\E r \in TemplateOf(rows, o) : r.name = "NETWORK_ADDRESS" THEN {}
  ELSE ObjectOf(rows, o) \cup TemplateOf(rows, o)

Select(rows, o) == CASE kind = "vms"   -> SelectVm(rows, o)
                     [] kind = "hosts" -> SelectHost(rows, o)
                     [] OTHER          -> SelectNetwork(rows, o)

Load(o) ==
  /\ op = "none" /\ o \notin Cached /\ Select(db, o) # {}
  /\ cache' = [p \in Cached \cup {o} |-> IF p = o THEN Select(db, o) ELSE cache[p]]
  /\ UNCHANGED <<tables, task, version, lost, dropping, context>>

\* PoolSQL::replace: the object is in no thread's hands.
Evict(o) ==
  /\ op = "none" /\ o \in Cached
  /\ cache' = [p \in Cached \ {o} |-> cache[p]] /\ lost' = lost \ {o}
  /\ UNCHANGED <<tables, task, version, dropping, context>>

\* VMs are not dropped.  A part that cannot be deleted stays, and the object is
\* deleted nevertheless.
Drop(what, o, parts) ==
  /\ kind = what /\ o \in Cached
  /\ Begin("drop", o, parts \o <<[Clear("object", o) EXCEPT !.if = "abort"]>>)
  /\ lost' = lost \cup {o} /\ dropping' = dropping \cup {o}
  /\ UNCHANGED <<tables, cache, context>>

DropHost(o)    == Drop("hosts", o, <<Clear("attribute", o), Clear("share", o)>>)
DropNetwork(o) == Drop("networks", o, <<Clear("attribute", o)>>)

\* An object that was not inserted gives its oid back.  A host that is updated
\* is entirely written, whatever had failed before.  vn_drop of a network that
\* was refused goes on with leases that are not there: oned does not outlive it.
End ==
  /\ op # "none" /\ todo = <<>> /\ ~(op = "refuse" /\ ok)
  /\ op' = "none"
  /\ lastOID' = IF op \in {"allocate", "refuse"} /\ ~ok THEN lastOID - 1 ELSE lastOID
  /\ LET dropped == ok /\ op = "drop"
         written == ok /\ op = "update" /\ kind = "hosts"
     IN  /\ cache' = IF dropped THEN [p \in Cached \ {oid} |-> cache[p]] ELSE cache
         /\ lost' = IF dropped \/ written THEN lost \ {oid} ELSE lost
         /\ dropping' = IF dropped \/ written THEN dropping \ {oid} ELSE dropping
  /\ oid' = 0 /\ ok' = TRUE
  /\ UNCHANGED <<kind, db, todo, version, context>>

\* oned stops, at any moment, and starts again.
Restart ==
  /\ op' = "none" /\ oid' = 0 /\ todo' = <<>> /\ ok' = TRUE
  /\ cache' = [o \in {} |-> {}] /\ lost' = {}
  /\ lastOID' = Max({-1} \cup {r.id : r \in {r \in db : r.table = "object"}})
  /\ dropping' = {o \in dropping : ObjectOf(db, o) # {}}
  /\ context' = [o \in Oids |-> IF context[o] = "due" THEN "none" ELSE context[o]]
  /\ UNCHANGED <<kind, db, version>>

-----------------------------------------------------------------------------

Init ==
  /\ kind \in Kinds
  /\ db = {} /\ cache = [o \in {} |-> {}] /\ lastOID = -1
  /\ op = "none" /\ oid = 0 /\ todo = <<>> /\ ok = TRUE
  /\ version = 0 /\ lost = {} /\ dropping = {}
  /\ context = [o \in Oids |-> "none"]

Next ==
  \/ AllocateVm \/ AllocateHost \/ AllocateNetwork \/ RefuseNetwork
  \/ \E o \in Oids : UpdateHost(o) \/ Deploy(o) \/ Handle(o) \/ Replace(o)
                      \/ WriteContext(o) \/ GiveUpContext(o)
                      \/ DropHost(o) \/ DropNetwork(o) \/ Load(o) \/ Evict(o)
  \/ Fails \/ Succeeds \/ End \/ Restart

Spec == Init /\ [][Next]_vars

-----------------------------------------------------------------------------
(* Properties                                                              *)

\* An object in memory is what would be read of it if it were evicted and
\* loaded again, its history included, unless a statement of it has failed:
\* every change that is made in memory is written (a host's by its next update
\* that succeeds, whatever was lost before).
ReadBack ==
  op = "none" => \A o \in Cached \ lost : Select(db, o) = cache[o]

\* An object whose row can be seen, by lists and by the scheduler, has its
\* other parts, unless somebody has begun to drop it or its insert is going to:
\* those of a VM are what it was created from and nothing of another VM,
\* whatever failed and wherever oned stopped.  Only its CONTEXT comes after its
\* row: it is there once the request has written it, and no other VM's is.
ListedIsWhole ==
  \A r \in {r \in db : r.table = "object" /\ r.id \notin dropping} :
    LET parts == {a \in TemplateOf(db, r.n) : a.name \notin {"POLLED", "CONTEXT"}}
        versions == {a.value : a \in parts}
        Whole(S) == \A i \in DOMAIN Names : \E a \in S : a.name = Names[i]
    IN  CASE kind = "hosts"    -> ShareOf(db, r.id) # {}
          [] kind = "vms"      ->
               /\ Cardinality(versions) = 1 /\ Whole(parts)
               /\ (\E a \in TemplateOf(db, r.n) : a.name = "CONTEXT") <=> context[r.id] = "written"
          [] kind = "networks" -> \E v \in versions : Whole({a \in parts : a.value = v})

=============================================================================
