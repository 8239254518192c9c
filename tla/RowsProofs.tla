----------------------------- MODULE RowsProofs -----------------------------
(***************************************************************************)
(* Theorems about Rows: what is in memory of an object and not flagged is  *)
(* what its rows read back as; and an object whose row is there is whole,  *)
(* whatever statement of an operation fails, unless it is being dropped or *)
(* its insert is going to.                                                 *)
(*                                                                         *)
(* Between two statements of an operation both hold only for what the rows *)
(* will be: the invariant below says, for each operation, which statements *)
(* can be left (Task), that the row of the object comes last, but for the  *)
(* rollback of a network that is refused, or with all that belongs to it   *)
(* (Whole), and that the rows, with what is due written over them, read    *)
(* back as the copy in memory (Written).  The CONTEXT of a VM, which comes *)
(* after its row, is there when it was written (Contexts).  All rests on   *)
(* the keys of the tables (Keys) and on template numbers that no other     *)
(* object has, which is what Allocates and Knowledge keep of a new object. *)
(***************************************************************************)
EXTENDS Rows, SequenceTheorems, FiniteSetTheorems, WellFoundedInduction, TLAPS

Numbers == 0..(MaxOid + version)

\* What a row can have in its columns, and the rows there may be.
Columns ==
  [table : {"object", "share", "history", "attribute"}, id : Numbers,
   name : {"", "POLLED", "CONTEXT", "NAME", "VMID", "FREECPU", "TOTALCPU", "NETWORK_ADDRESS"},
   n : Numbers, value : Int]

Rowset ==
  {r \in Columns :
     /\ r.table = "object" => r.id \in Oids /\ (kind # "vms" => r.n = r.id)
     /\ r.table = "share" => kind = "hosts"
     /\ r.table = "history" => kind = "vms"
     /\ r.table = "attribute" /\ kind = "hosts" => r.name \in {Names[1], Names[2]}}

Statements ==
  {s \in [verb : {"write", "clear", "erase"}, row : Columns, if : {"go on", "undo", "abort"},
          live : BOOLEAN] : s.verb # "clear" => s.row \in Rowset}

TypeOK ==
  /\ kind \in Kinds
  /\ version \in Nat
  /\ lastOID \in Oids \cup {-1}
  /\ db \subseteq Rowset
  /\ Cached \subseteq Oids /\ cache \in [Cached -> SUBSET Rowset]
  /\ op \in {"none", "allocate", "refuse", "update", "drop"}
  /\ oid \in Oids
  /\ todo \in Seq(Statements)
  /\ ok \in BOOLEAN
  /\ lost \subseteq Oids /\ dropping \subseteq Oids
  /\ kind = "vms" => dropping = {}
  /\ context \in [Oids -> {"none", "due", "written"}]

IsObject(r) == r.table = "object"

\* No two of the rows have one key.
Keyed(rows) == \A r, s \in rows : Replaces(r, s) => r = s

\* The tables and the copies in memory are keyed; a template has one object.
Keys ==
  /\ Keyed(db) /\ \A o \in Cached : Keyed(cache[o])
  /\ \A r, s \in db : IsObject(r) /\ IsObject(s) /\ r.n = s.n => r.id = s.id

\* What an object in memory knows.
Knowledge(o) ==
  \E object \in cache[o] :
    /\ IsObject(object)
    /\ \A r \in cache[o] : r.id = IF r.table = "attribute" THEN object.n ELSE o
    /\ kind = "vms" => \E r \in db : IsObject(r) /\ r.id = o /\ r.n = object.n
    /\ kind = "hosts" =>
         /\ \E r \in cache[o] : r.table = "share"
         /\ \A r \in db : r.id = o => \E s \in cache[o] : Replaces(s, r)

Known == \A o \in Cached : Knowledge(o)

\* The numbers given so far.
BelowLast ==
  /\ \A r \in db : IsObject(r) => r.id <= lastOID
  /\ \A o \in Cached : o <= lastOID

\* The statements that are still to be executed.
Elements(s) == {s[i] : i \in 1..Len(s)}

Left == Elements(todo)

\* The template a row belongs to.
Template(row) == IF IsObject(row) THEN row.n ELSE row.id

HasContext(rows, id) == \E r \in Of(rows, "attribute", id) : r.name = "CONTEXT"

\* A statement of an allocation: a row of a template that no object in the
\* tables has, or the rollback of what was written of it.
Allocates(s) ==
  /\ ~s.live
  /\ \/ /\ s.verb = "write" /\ ok /\ s.if \in {"undo", "abort"} /\ s.row.table # "history"
        /\ s.row.table # "attribute" => s.row.id = oid
        /\ s.if = "undo" => s.row.table # "share"
        /\ s.row.table = "attribute" => kind # "hosts" /\ s.row.name \notin {"", "POLLED", "CONTEXT"}
     \/ s.verb = "clear" /\ ~ok /\ s.if = "go on" /\ s.row.table = "attribute"
  /\ \A r \in db : IsObject(r) => r.n # Template(s.row)
  /\ kind = "vms" => ~HasContext(db, Template(s.row))

\* A statement of an insert that will not be completed.
Refuses(s) ==
  /\ ~s.live /\ s.row.id = oid
  /\ \/ s.verb = "write" /\ ok /\ s.if = "undo" /\ s.row.table \in {"object", "attribute"}
     \/ s.verb = "clear" /\ s.if = "go on" /\ s.row.table = "attribute"

\* A statement of an update: a row of the copy in memory; an attribute that was
\* polled of a virtual machine; or the rollback of a host's.
Updates(s) ==
  \/ /\ s.verb = "write" /\ ok /\ ~s.live /\ s.row \in cache[oid]
     /\ kind = "hosts" => s.if \in {"undo", "abort"} /\ (s.if = "undo" => s.row.table = "attribute")
     /\ kind = "vms" => s.if \in {"abort", "go on"} /\ s.row.table \in {"object", "history"}
  \/ /\ kind = "vms" /\ ok /\ s.live /\ s.verb \in {"write", "erase"} /\ s.if = "abort"
     /\ s.row.table = "attribute" /\ s.row.name \in {"POLLED", "CONTEXT"}
     /\ s.row.name = "CONTEXT" => s.verb = "write" /\ context[oid] = "due" /\ Len(todo) = 1
     /\ \E r \in cache[oid] : IsObject(r) /\ s.row.id = r.n
  \/ /\ kind = "hosts" /\ ~ok /\ ~s.live /\ s.verb = "clear" /\ s.if = "go on"
     /\ s.row.table = "attribute" /\ s.row.id = oid /\ oid \in lost

\* A statement of a drop: all is cleared, and only the object's row must be.
Drops(s) ==
  /\ s.verb = "clear" /\ ~s.live /\ s.row.id = oid /\ ok
  /\ IF IsObject(s.row) THEN s.if = "abort" ELSE s.if = "go on"

ObjectInDb(o) == \E r \in db : IsObject(r) /\ r.id = o

\* What comes after the row of an object: only a virtual machine that is updated
\* has statements there, and a network that is refused its rollback.
Followed(i) ==
  \/ kind = "vms" /\ op = "update"
  \/ op = "refuse" /\ i + 1 = Len(todo) /\ todo[i + 1].verb = "clear"

\* What can be left of each operation. What is polled, and the CONTEXT, is
\* written alone.
Task ==
  /\ op = "none" => todo = <<>> /\ ok
  /\ op = "allocate" =>
       /\ oid = lastOID /\ oid \notin Cached
       /\ todo # <<>> \/ ~ok => ~ObjectInDb(oid)
       /\ \A s \in Left : Allocates(s)
       /\ kind = "vms" => context[oid] = "due"
  /\ op = "refuse" =>
       /\ kind = "networks" /\ oid = lastOID /\ oid \notin Cached /\ oid \in dropping
       /\ ~ok \/ (\E s \in Left : s.verb = "write") => ~ObjectInDb(oid)
       /\ \A s \in Left : Refuses(s)
  /\ op = "update" => kind \in {"hosts", "vms"} /\ oid \in Cached /\ \A s \in Left : Updates(s)
  /\ op = "drop" =>
       /\ kind \in {"hosts", "networks"} /\ oid \in Cached \cap lost \cap dropping
       /\ \A s \in Left : Drops(s)
       /\ ok => ~ObjectInDb(oid) \/ \E s \in Left : IsObject(s.row)
  /\ \A i \in 1..(Len(todo) - 1) : IsObject(todo[i].row) => Followed(i)
  /\ \A s, t \in Left : s.live => t.live

\* All that was inserted with an object is among the rows.
WholeIn(rows, object) ==
  /\ kind = "hosts" => \E r \in rows : r.table = "share" /\ r.id = object.id
  /\ kind = "vms" => \E v \in Int :
       {r \in Of(rows, "attribute", object.n) : r.name \notin {"POLLED", "CONTEXT"}} =
         Attributes(object.n, v)
  /\ kind = "networks" => \E v \in Int : Attributes(object.n, v) \subseteq rows

\* So it is of each object in the tables, and once its row is written of the
\* object that is being written.
Whole ==
  /\ \A r \in db : IsObject(r) /\ r.id \notin dropping => WholeIn(db, r)
  /\ \A s \in Left : s.verb = "write" /\ IsObject(s.row) /\ s.row.id \notin dropping =>
       WholeIn(db \cup {t.row : t \in Left}, s.row)

\* The CONTEXT of a VM in the tables is there when it has been written.
Contexts ==
  kind = "vms" => \A r \in db : IsObject(r) =>
                    (HasContext(db, r.n) <=> context[r.id] = "written")

\* The rows once the new ones are written over those with their keys.
Rewrite(rows, new) == {r \in rows : \A n \in new : ~Replaces(n, r)} \cup new

\* The rows of the copy in memory that an update has still to write. What is
\* polled is none of them: it changes the copy once it is written.
Due == {s.row : s \in {s \in Left : s.verb = "write" /\ ~s.live}}

\* The tables read back as the copies in memory, and those of the object that
\* is updated will, with what is due.
Written ==
  /\ \A o \in Cached \ lost : ~(op = "update" /\ oid = o) => Select(db, o) = cache[o]
  /\ op = "update" /\ (oid \notin lost \/ (kind = "hosts" /\ ok)) =>
       Select(Rewrite(db, Due), oid) = cache[oid]

Inv == TypeOK /\ Keys /\ Known /\ BelowLast /\ Task /\ Whole /\ Contexts /\ Written

-----------------------------------------------------------------------------
(* Rows and what is read of them                                           *)

LEMMA Constants ==
  /\ MaxOid \in Nat /\ MaxVersion \in Nat
  /\ \A k \in Kinds : k \in {"vms", "hosts", "networks"}
BY RowsAssumption DEF RowsAssumption

LEMMA NamesAre ==
  ASSUME kind \in Kinds
  PROVE  /\ DOMAIN Names = 1..2 /\ Names[1] # Names[2]
         /\ {Names[1], Names[2]} \subseteq {"NAME", "VMID", "FREECPU", "TOTALCPU", "NETWORK_ADDRESS"}
         /\ kind = "networks" => Names[2] = "NETWORK_ADDRESS"
BY Constants DEF Names

LEMMA AttributesAre ==
  ASSUME kind \in Kinds, NEW id, NEW v
  PROVE  Attributes(id, v) = {Attribute(id, Names[1], v), Attribute(id, Names[2], v)}
<1>1. DOMAIN Names = 1..2
  BY NamesAre
<1> QED
  BY <1>1 DEF Attributes

LEMMA ReplacesIs ==
  ASSUME NEW r, NEW s
  PROVE  Replaces(r, s) <=>
           /\ r.table = s.table /\ r.id = s.id
           /\ r.table = "attribute" => kind = "hosts" /\ r.name = s.name
           /\ r.table = "history" => r.n = s.n
BY DEF Replaces

LEMMA SelectSame ==
  ASSUME kind \in Kinds, NEW o, NEW A, NEW B,
         Of(A, "object", o) = Of(B, "object", o),
         Of(A, "share", o) = Of(B, "share", o),
         Of(A, "history", o) = Of(B, "history", o),
         \A r \in Of(A, "object", o) : Of(A, "attribute", r.n) = Of(B, "attribute", r.n),
         kind # "vms" => Of(A, "attribute", o) = Of(B, "attribute", o)
  PROVE  Select(A, o) = Select(B, o)
<1>1. kind \in {"vms", "hosts", "networks"}
  BY Constants
<1>2. CASE kind = "vms"
  <2>1. SelectRecords(A, o) = SelectRecords(B, o)
    BY DEF SelectRecords, Records, LastRecord
  <2>2. SelectVm(A, o) = SelectVm(B, o)
    <3>1. CASE Of(A, "object", o) = {}
      BY <3>1 DEF SelectVm, ObjectOf
    <3>2. CASE Of(A, "object", o) # {}
      <4>1. The(Of(A, "object", o)) \in Of(A, "object", o)
        BY <3>2 DEF The
      <4> QED
        BY <2>1, <3>2, <4>1 DEF SelectVm, ObjectOf, TemplateOf
    <3> QED
      BY <3>1, <3>2
  <2> QED
    BY <1>2, <2>2 DEF Select
<1>3. CASE kind = "hosts"
  BY <1>3 DEF Select, SelectHost, ObjectOf, TemplateOf, ShareOf
<1>4. CASE kind = "networks"
  BY <1>4 DEF Select, SelectNetwork, ObjectOf, TemplateOf
<1> QED
  BY <1>1, <1>2, <1>3, <1>4

-----------------------------------------------------------------------------
(* The statements left                                                     *)

LEMMA LeftOfNone == todo = <<>> => Left = {}
BY DEF Left, Elements

LEMMA HeadLeft ==
  ASSUME TypeOK, todo # <<>>, todo' = Tail(todo)
  PROVE  /\ Head(todo) \in Left /\ Head(todo) \in Statements
         /\ todo' \in Seq(Statements)
         /\ Left = {Head(todo)} \cup Left'
         /\ Len(todo) \in Nat /\ Len(todo) > 0 /\ Len(todo') = Len(todo) - 1
         /\ \A i \in 1..Len(todo') : todo'[i] = todo[i + 1]
<1>1. /\ Head(todo) = todo[1] /\ todo' \in Seq(Statements)
      /\ Len(todo) \in Nat /\ Len(todo) > 0 /\ Len(todo') = Len(todo) - 1
      /\ \A i \in 1..Len(todo') : todo'[i] = todo[i + 1]
  BY HeadTailProperties, EmptySeq DEF TypeOK
<1>2. \A i \in 1..Len(todo) : todo[i] \in Statements
  BY DEF TypeOK
<1>3. Left = {Head(todo)} \cup Left'
  <2>1. ASSUME NEW s \in Left PROVE s \in {Head(todo)} \cup Left'
    <3>1. PICK i \in 1..Len(todo) : s = todo[i]
      BY DEF Left, Elements
    <3>2. CASE i = 1
      BY <1>1, <3>1, <3>2
    <3>3. CASE i # 1
      <4>1. i - 1 \in 1..Len(todo') /\ todo'[i - 1] = s
        BY <1>1, <3>1, <3>3
      <4> QED
        BY <4>1 DEF Left, Elements
    <3> QED
      BY <3>2, <3>3
  <2>2. ASSUME NEW s \in Left' PROVE s \in Left
    <3>1. PICK i \in 1..Len(todo') : s = todo'[i]
      BY DEF Left, Elements
    <3>2. i + 1 \in 1..Len(todo) /\ todo[i + 1] = s
      BY <1>1, <3>1
    <3> QED
      BY <3>2 DEF Left, Elements
  <2>3. Head(todo) \in Left
    BY <1>1 DEF Left, Elements
  <2> QED
    BY <2>1, <2>2, <2>3
<1> QED
  BY <1>1, <1>2, <1>3 DEF Left, Elements

\* An object's row that is not a VM's to update is the last to be written.
LEMMA ObjectLast ==
  ASSUME TypeOK, Task, todo # <<>>, todo' = Tail(todo), IsObject(Head(todo).row),
         ~(kind = "vms" /\ op = "update"), op # "refuse"
  PROVE  todo' = <<>> /\ Left' = {}
<1>1. /\ Len(todo) \in Nat /\ Len(todo) > 0 /\ Head(todo) = todo[1] /\ todo' \in Seq(Statements)
      /\ Len(todo') = Len(todo) - 1
  BY HeadLeft, HeadTailProperties DEF TypeOK
<1>2. ~(1 \in 1..(Len(todo) - 1))
  BY <1>1 DEF Task, Followed
<1>3. Len(todo') = 0
  BY <1>1, <1>2
<1>4. todo' = <<>>
  BY <1>1, <1>3, EmptySeq
<1>5. Left' = {}
  BY <1>3 DEF Left, Elements
<1> QED
  BY <1>4, <1>5

LEMMA ElementsOf ==
  /\ Elements(<<>>) = {}
  /\ \A e : Elements(<<e>>) = {e}
BY DEF Elements

\* What is appended is the end.
LEMMA EndsWith ==
  ASSUME NEW S, NEW s \in Seq(S), NEW e \in S
  PROVE  /\ s \o <<e>> \in Seq(S) /\ s \o <<e>> # <<>>
         /\ Elements(s \o <<e>>) = Elements(s) \cup {e}
         /\ \A i \in 1..(Len(s \o <<e>>) - 1) : (s \o <<e>>)[i] \in Elements(s)
<1> DEFINE t == s \o <<e>>
<1>1. <<e>> \in Seq(S) /\ Len(<<e>>) = 1 /\ <<e>>[1] = e
  OBVIOUS
<1>2. t \in Seq(S) /\ Len(t) = Len(s) + 1 /\ Len(s) \in Nat
  BY <1>1, ConcatProperties, LenProperties
<1> t = s \o <<e>>
  OBVIOUS
<1> HIDE DEF t
<1>3. \A i \in 1..Len(t) : t[i] = IF i <= Len(s) THEN s[i] ELSE e
  <2> TAKE i \in 1..Len(t)
  <2>1. t[i] = IF i <= Len(s) THEN s[i] ELSE <<e>>[i - Len(s)]
    BY <1>1, <1>2, ConcatProperties
  <2>2. ~(i <= Len(s)) => i - Len(s) = 1
    BY <1>2
  <2> QED
    BY <1>1, <2>1, <2>2
<1>4. t[Len(s) + 1] = e /\ Len(s) + 1 \in 1..Len(t)
  BY <1>2, <1>3
<1>5. \A i \in 1..Len(s) : i \in 1..Len(t) /\ t[i] = s[i]
  BY <1>2, <1>3
<1>6. Elements(t) = Elements(s) \cup {e}
  <2>1. Elements(t) \subseteq Elements(s) \cup {e}
    BY <1>2, <1>3 DEF Elements
  <2>2. Elements(s) \subseteq Elements(t)
    BY <1>5 DEF Elements
  <2>3. e \in Elements(t)
    BY <1>4 DEF Elements
  <2> QED
    BY <2>1, <2>2, <2>3
<1>7. \A i \in 1..(Len(t) - 1) : t[i] \in Elements(s)
  BY <1>2, <1>5 DEF Elements
<1>8. t # <<>>
  BY <1>2, EmptySeq
<1> QED
  BY <1>2, <1>6, <1>7, <1>8

LEMMA ElementsConcat ==
  ASSUME NEW S, NEW s \in Seq(S), NEW t \in Seq(S)
  PROVE  s \o t \in Seq(S) /\ Elements(s \o t) = Elements(s) \cup Elements(t)
<1> DEFINE u == s \o t
<1>1. /\ u \in Seq(S) /\ Len(u) = Len(s) + Len(t) /\ Len(s) \in Nat /\ Len(t) \in Nat
      /\ \A i \in 1..Len(u) : u[i] = IF i <= Len(s) THEN s[i] ELSE t[i - Len(s)]
  BY ConcatProperties, LenProperties
<1> HIDE DEF u
<1>2. \A i \in 1..Len(s) : i \in 1..Len(u) /\ u[i] = s[i]
  BY <1>1
<1>3. \A i \in 1..Len(t) : i + Len(s) \in 1..Len(u) /\ u[i + Len(s)] = t[i]
  <2> TAKE i \in 1..Len(t)
  <2>1. i + Len(s) \in 1..Len(u) /\ ~(i + Len(s) <= Len(s)) /\ (i + Len(s)) - Len(s) = i
    BY <1>1
  <2> QED
    BY <1>1, <2>1
<1>4. \A i \in 1..Len(u) : u[i] \in Elements(s) \cup Elements(t)
  <2> TAKE i \in 1..Len(u)
  <2>1. CASE i <= Len(s)
    <3>1. i \in 1..Len(s) /\ u[i] = s[i]
      BY <1>1, <2>1
    <3> QED
      BY <3>1 DEF Elements
  <2>2. CASE ~(i <= Len(s))
    <3>1. i - Len(s) \in 1..Len(t) /\ u[i] = t[i - Len(s)]
      BY <1>1, <2>2
    <3> QED
      BY <3>1 DEF Elements
  <2> QED
    BY <2>1, <2>2
<1>5. Elements(u) = Elements(s) \cup Elements(t)
  <2>1. Elements(u) \subseteq Elements(s) \cup Elements(t)
    BY <1>4 DEF Elements
  <2>2. Elements(s) \subseteq Elements(u)
    BY <1>2 DEF Elements
  <2>3. Elements(t) \subseteq Elements(u)
    BY <1>3 DEF Elements
  <2> QED
    BY <2>1, <2>2, <2>3
<1> QED
  BY <1>1, <1>5 DEF u

-----------------------------------------------------------------------------
(* What stays true                                                         *)

LEMMA Grows ==
  ASSUME version \in Nat, version' \in {version, version + 1}, kind' = kind
  PROVE  /\ Numbers \subseteq Numbers' /\ Columns \subseteq Columns' /\ Rowset \subseteq Rowset'
         /\ Statements \subseteq Statements'
<1>1. Numbers \subseteq Numbers'
  <2>1. CASE version' = version
    BY <2>1 DEF Numbers
  <2>2. CASE version' = version + 1
    <3>1. Numbers' = 0..(MaxOid + (version + 1))
      BY <2>2 DEF Numbers
    <3>2. 0..(MaxOid + version) \subseteq 0..(MaxOid + (version + 1))
      BY Constants
    <3>3. Numbers = 0..(MaxOid + version)
      BY DEF Numbers
    <3> QED
      BY <3>1, <3>2, <3>3, Zenon
  <2> QED
    BY <2>1, <2>2
<1>2. Columns \subseteq Columns'
  BY <1>1 DEF Columns
<1>3. Names' = Names
  BY DEF Names
<1>4. Rowset \subseteq Rowset'
  BY <1>2, <1>3 DEF Rowset
<1>5. Statements \subseteq Statements'
  BY <1>2, <1>4 DEF Statements
<1> QED
  BY <1>1, <1>2, <1>4, <1>5

LEMMA InitInv == Init => Inv
<1> SUFFICES ASSUME Init PROVE Inv
  OBVIOUS
<1>1. todo = <<>> /\ Left = {} /\ Cached = {} /\ db = {}
  BY LeftOfNone DEF Init, Cached
<1>2. 0 \in Oids /\ version \in Nat /\ Len(todo) = 0
  BY <1>1, Constants DEF Init, Oids
<1>3. TypeOK
  <2>1. cache \in [Cached -> SUBSET Rowset]
    BY <1>1 DEF Init
  <2>2. todo \in Seq(Statements)
    BY <1>1, EmptySeq
  <2> QED
    BY <1>1, <1>2, <2>1, <2>2 DEF Init, TypeOK
<1>4. Keys /\ Known /\ BelowLast /\ Whole
  BY <1>1 DEF Keys, Keyed, Known, BelowLast, Whole
<1>5. Task
  BY <1>1, <1>2 DEF Init, Task
<1>6. Written
  BY <1>1 DEF Init, Written
<1>7. Contexts
  BY <1>1 DEF Contexts
<1> QED
  BY <1>3, <1>4, <1>5, <1>6, <1>7 DEF Inv

\* The kind of the pool does not change: what is read of the rows only depends
\* on them.
LEMMA Kept ==
  ASSUME kind' = kind
  PROVE  /\ Names' = Names
         /\ \A r, s : Replaces(r, s)' <=> Replaces(r, s)
         /\ Keyed(db)' <=> Keyed(db')
         /\ \A o : Keyed(cache[o])' <=> Keyed(cache'[o])
         /\ \A r : WholeIn(db, r)' <=> WholeIn(db', r)
         /\ \A r : WholeIn(db \cup {t.row : t \in Left}, r)' <=>
                   WholeIn(db' \cup {t.row : t \in Left'}, r)
         /\ \A o : Select(db, o)' = Select(db', o)
         /\ \A o : Select(Rewrite(db, Due), o)' = Select(Rewrite(db', Due'), o)
<1>1. Names' = Names
  BY DEF Names
<1>2. \A r, s : Replaces(r, s)' <=> Replaces(r, s)
  BY DEF Replaces
<1>3. \A id, v : Attributes(id, v)' = Attributes(id, v)
  BY <1>1 DEF Attributes
<1>4. /\ Keyed(db)' <=> Keyed(db')
      /\ \A o : Keyed(cache[o])' <=> Keyed(cache'[o])
  BY <1>2 DEF Keyed
<1>5. \A r : WholeIn(db, r)' <=> WholeIn(db', r)
  BY <1>3 DEF WholeIn, Of
<1>6. \A r : WholeIn(db \cup {t.row : t \in Left}, r)' <=>
             WholeIn(db' \cup {t.row : t \in Left'}, r)
  BY <1>3 DEF WholeIn, Of
<1>7. \A o : Select(db, o)' = Select(db', o)
  BY DEF Select, SelectVm, SelectHost, SelectNetwork, SelectRecords, Records, LastRecord,
         ObjectOf, TemplateOf, ShareOf, Of, The, Record, Row
<1>8. Rewrite(db, Due)' = Rewrite(db', Due')
  BY <1>2 DEF Rewrite
<1>9. \A o : Select(Rewrite(db, Due), o)' = Select(Rewrite(db', Due'), o)
  BY <1>8 DEF Select, SelectVm, SelectHost, SelectNetwork, SelectRecords, Records, LastRecord,
         ObjectOf, TemplateOf, ShareOf, Of, The, Record, Row
<1> QED
  BY <1>1, <1>2, <1>4, <1>5, <1>6, <1>7, <1>9

-----------------------------------------------------------------------------
(* Steps that write nothing                                                *)

LEMMA ContextsKept ==
  ASSUME Contexts, UNCHANGED <<kind, db, context>>
  PROVE  Contexts'
BY DEF Contexts, HasContext, IsObject, Of

LEMMA Stutters == Inv /\ UNCHANGED vars => Inv'
<1> SUFFICES ASSUME Inv, UNCHANGED vars PROVE Inv'
  OBVIOUS
<1>1. UNCHANGED <<kind, db, cache, lastOID, op, oid, todo, ok, version, lost, dropping, context>>
  BY DEF vars, tables, task
<1>2. Cached' = Cached /\ Rowset' = Rowset /\ Statements' = Statements /\ Left' = Left
  BY <1>1 DEF Rowset, Statements, Columns, Numbers, Names, Left, Elements, Cached
<1>3. TypeOK'
  BY <1>1, <1>2 DEF Inv, TypeOK
<1>4. Keys' /\ Known'
  BY <1>1, <1>2, Kept DEF Inv, Keys, IsObject, Known, Knowledge
<1>5. BelowLast'
  BY <1>1, <1>2 DEF Inv, BelowLast, IsObject
<1>6. Task'
  <2>1. \A s : /\ Allocates(s)' <=> Allocates(s)
               /\ Refuses(s)' <=> Refuses(s)
               /\ Updates(s)' <=> Updates(s)
               /\ Drops(s)' <=> Drops(s)
    BY <1>1 DEF Allocates, Refuses, Updates, Drops, IsObject, Template, HasContext, Of
  <2>3. \A i : Followed(i)' <=> Followed(i)
    BY <1>1 DEF Followed
  <2>2. ObjectInDb(oid)' <=> ObjectInDb(oid)
    BY <1>1 DEF ObjectInDb, IsObject
  <2> QED
    BY <1>1, <1>2, <2>1, <2>2, <2>3 DEF Inv, Task, IsObject
<1>7. Whole'
  BY <1>1, <1>2, Kept DEF Inv, Whole, IsObject
<1>8. Written'
  <2>1. Due' = Due
    BY <1>2 DEF Due
  <2> QED
    BY <1>1, <1>2, <2>1, Kept DEF Inv, Written
<1>9. Contexts'
  BY <1>1, ContextsKept DEF Inv
<1> QED
  BY <1>3, <1>4, <1>5, <1>6, <1>7, <1>8, <1>9 DEF Inv

\* An object is taken out of memory.
LEMMA EvictInv ==
  ASSUME Inv, NEW o \in Oids, Evict(o)
  PROVE  Inv'
<1>1. /\ op = "none" /\ o \in Cached /\ UNCHANGED <<kind, db, lastOID, op, oid, todo, ok, version>>
      /\ UNCHANGED <<dropping, context>>
      /\ cache' = [p \in Cached \ {o} |-> cache[p]] /\ lost' = lost \ {o}
  BY DEF Evict, tables, task
<1>2. Cached' = Cached \ {o} /\ \A p \in Cached' : cache'[p] = cache[p]
  BY <1>1 DEF Cached
<1>3. Rowset' = Rowset /\ Statements' = Statements /\ Left' = Left
  BY <1>1 DEF Rowset, Statements, Columns, Numbers, Names, Left, Elements
<1>4. TypeOK'
  BY <1>1, <1>2, <1>3 DEF Inv, TypeOK
<1>5. Keys'
  BY <1>1, <1>2, Kept DEF Inv, Keys, IsObject
<1>6. Known'
  BY <1>1, <1>2, Kept DEF Inv, Known, Knowledge, IsObject
<1>7. BelowLast' /\ Task'
  BY <1>1, <1>2, <1>3 DEF Inv, BelowLast, Task, IsObject
<1>8. Whole'
  BY <1>1, <1>3, Kept DEF Inv, Whole, IsObject
<1>9. Written'
  BY <1>1, <1>2, Kept DEF Inv, Written
<1>10. Contexts'
  BY <1>1, ContextsKept DEF Inv
<1> QED
  BY <1>4, <1>5, <1>6, <1>7, <1>8, <1>9, <1>10 DEF Inv

\* The rows that say where the oids go on: the greatest one has them.
LEMMA GreatestIs ==
  ASSUME NEW S \in SUBSET Nat, NEW b \in Nat, \A x \in S : x <= b, S # {}
  PROVE  \E m \in S : \A x \in S : m >= x
<1> DEFINE T == {b - x : x \in S}
<1>1. T \subseteq Nat /\ T # {}
  <2>1. \A x \in S : b - x \in Nat
    OBVIOUS
  <2> QED
    BY <2>1
<1>2. PICK t \in T : \A u \in T : ~(<<u, t>> \in OpToRel(<, Nat))
  <2> HIDE DEF T
  <2> QED
    BY <1>1, WFMin, NatLessThanWellFounded
<1>3. \A u \in T : ~(u < t)
  BY <1>1, <1>2 DEF OpToRel
<1>4. PICK m \in S : t = b - m
  OBVIOUS
<1>5. \A x \in S : m >= x
  <2> TAKE x \in S
  <2>1. b - x \in T /\ ~(b - x < b - m)
    BY <1>3, <1>4
  <2> QED
    BY <2>1
<1> QED
  BY <1>5

LEMMA MaxIs ==
  ASSUME NEW S \in SUBSET Nat, NEW b \in Nat, \A x \in S : x <= b, S # {}
  PROVE  Max(S) \in S /\ \A x \in S : Max(S) >= x
<1>1. \E m \in S : \A x \in S : m >= x
  BY GreatestIs
<1> QED
  BY <1>1 DEF Max

\* oned starts again.
LEMMA RestartInv ==
  ASSUME Inv, Restart
  PROVE  Inv'
<1> DEFINE ids == {r.id : r \in {r \in db : r.table = "object"}}
<1>1. /\ op' = "none" /\ oid' = 0 /\ todo' = <<>> /\ ok' = TRUE
      /\ cache' = [o \in {} |-> {}] /\ lost' = {} /\ lastOID' = Max({-1} \cup ids)
      /\ dropping' = {o \in dropping : ObjectOf(db, o) # {}}
      /\ context' = [o \in Oids |-> IF context[o] = "due" THEN "none" ELSE context[o]]
      /\ UNCHANGED <<kind, db, version>>
  BY DEF Restart
<1>2. Cached' = {} /\ Left' = {} /\ Len(todo') = 0
  BY <1>1, ElementsOf DEF Cached, Left
<1>3. Rowset' = Rowset /\ Statements' = Statements
  BY <1>1 DEF Rowset, Statements, Columns, Numbers, Names
<1>4. ids \subseteq Oids /\ MaxOid \in Nat
  BY Constants DEF Inv, TypeOK, Rowset
<1>5. lastOID' \in Oids \cup {-1} /\ \A o \in ids : o <= lastOID'
  <2>1. {-1} \cup ids # {} /\ \A x \in {-1} \cup ids : x \in Oids \cup {-1}
    BY <1>4
  <2>2. \E m \in {-1} \cup ids : \A x \in {-1} \cup ids : m >= x
    <3>1. CASE ids = {}
      <4>1. {-1} \cup ids = {-1} /\ -1 >= -1
        BY <3>1
      <4> QED
        BY <4>1
    <3>2. CASE ids # {}
      <4>1. ids \in SUBSET Nat /\ \A x \in ids : x <= MaxOid
        BY <1>4 DEF Oids
      <4>2. PICK m \in ids : \A x \in ids : m >= x
        <5> HIDE DEF ids
        <5> QED
          BY <1>4, <3>2, <4>1, GreatestIs
      <4>3. m \in Nat
        BY <4>1
      <4>4. \A x \in {-1} \cup ids : m >= x
        BY <4>2, <4>3
      <4> QED
        BY <4>2, <4>4
    <3> QED
      BY <3>1, <3>2
  <2>3. Max({-1} \cup ids) \in {-1} \cup ids /\ \A x \in {-1} \cup ids : Max({-1} \cup ids) >= x
    BY <2>2 DEF Max
  <2> HIDE DEF ids
  <2> DEFINE m == Max({-1} \cup ids)
  <2>4. m \in Oids \cup {-1} /\ \A x \in ids : m >= x
    BY <2>1, <2>3
  <2> HIDE DEF m
  <2>5. \A x \in ids : x <= m
    BY <2>4, <1>4 DEF Oids
  <2> QED
    BY <1>1, <2>4, <2>5 DEF m
<1>6. TypeOK'
  <2>1. cache' \in [Cached' -> SUBSET Rowset'] /\ todo' \in Seq(Statements')
    BY <1>1, <1>2, EmptySeq
  <2>2. 0 \in Oids
    BY Constants DEF Oids
  <2> QED
    BY <1>1, <1>2, <1>3, <1>5, <2>1, <2>2 DEF Inv, TypeOK
<1>12. Contexts'
  <2>1. \A o \in Oids : context'[o] = "written" <=> context[o] = "written"
    BY <1>1
  <2>2. \A r \in db : IsObject(r) => r.id \in Oids
    BY DEF Inv, TypeOK, Rowset, IsObject
  <2> QED
    BY <1>1, <2>1, <2>2 DEF Inv, Contexts, HasContext, IsObject, Of
<1>7. Keys'
  BY <1>1, <1>2, Kept DEF Inv, Keys, IsObject
<1>8. BelowLast'
  <2>1. \A r \in db : IsObject(r) => r.id \in ids
    BY DEF IsObject
  <2> HIDE DEF ids
  <2> QED
    BY <1>1, <1>2, <1>5, <2>1 DEF BelowLast, IsObject
<1>9. Known' /\ Task'
  BY <1>1, <1>2 DEF Known, Task
<1>10. Whole'
  <2>1. \A r \in db : IsObject(r) /\ r.id \notin dropping' => r.id \notin dropping
    BY <1>1 DEF ObjectOf, Of, IsObject
  <2> QED
    BY <1>1, <1>2, <2>1, Kept DEF Inv, Whole, IsObject
<1>11. Written'
  BY <1>1, <1>2 DEF Written
<1> QED
  BY <1>6, <1>7, <1>8, <1>9, <1>10, <1>11, <1>12 DEF Inv

\* All that is read of a host is in the rows.
LEMMA HostFromRows ==
  ASSUME kind = "hosts", NEW A, NEW o
  PROVE  Select(A, o) \subseteq A
BY DEF Select, SelectHost, ObjectOf, TemplateOf, ShareOf, Of

\* An operation ends.
LEMMA EndInv ==
  ASSUME Inv, End
  PROVE  Inv'
<1>1. /\ op # "none" /\ todo = <<>> /\ op' = "none" /\ oid' = 0 /\ ok' = TRUE
      /\ lastOID' = IF op \in {"allocate", "refuse"} /\ ~ok THEN lastOID - 1 ELSE lastOID
      /\ UNCHANGED <<kind, db, todo, version, context>>
  BY DEF End
<1> DEFINE dropped == ok /\ op = "drop"
           written == ok /\ op = "update" /\ kind = "hosts"
<1>2. /\ cache' = IF dropped THEN [p \in Cached \ {oid} |-> cache[p]] ELSE cache
      /\ lost' = IF dropped \/ written THEN lost \ {oid} ELSE lost
      /\ dropping' = IF dropped \/ written THEN dropping \ {oid} ELSE dropping
  BY DEF End
<1>3. Left = {} /\ Left' = {} /\ Len(todo) = 0 /\ Due = {} /\ Rewrite(db, Due) = db
  <2>1. Left = {} /\ Left' = {}
    BY <1>1, ElementsOf DEF Left
  <2> QED
    BY <1>1, <2>1 DEF Due, Rewrite
<1>4. Rowset' = Rowset /\ Statements' = Statements
  BY <1>1 DEF Rowset, Statements, Columns, Numbers, Names
<1>5. /\ Cached' \subseteq Cached /\ \A p \in Cached' : cache'[p] = cache[p]
      /\ dropped => oid \notin Cached'
  <2>1. CASE dropped
    BY <1>2, <2>1 DEF Cached
  <2>2. CASE ~dropped
    BY <1>2, <2>2 DEF Cached
  <2> QED
    BY <2>1, <2>2
<1>6. op \in {"allocate", "refuse"} =>
        oid = lastOID /\ oid \notin Cached /\ (~ok => ~ObjectInDb(oid))
  BY DEF Inv, Task
<1>7. MaxOid \in Nat /\ oid \in Oids /\ lastOID \in Oids \cup {-1}
  BY Constants DEF Inv, TypeOK
<1>8. TypeOK'
  <2>1. lastOID' \in Oids \cup {-1}
    BY <1>1, <1>6, <1>7 DEF Oids
  <2>2. 0 \in Oids
    BY <1>7 DEF Oids
  <2>3. cache' \in [Cached' -> SUBSET Rowset']
    <3>1. CASE dropped
      BY <1>2, <1>4, <1>5, <3>1 DEF Inv, TypeOK, Cached
    <3>2. CASE ~dropped
      BY <1>2, <1>4, <1>5, <3>2 DEF Inv, TypeOK, Cached
    <3> QED
      BY <3>1, <3>2
  <2>4. lost' \subseteq Oids /\ dropping' \subseteq Oids /\ (kind = "vms" => dropping' = {})
    BY <1>2 DEF Inv, TypeOK
  <2> QED
    BY <1>1, <1>4, <1>5, <2>1, <2>2, <2>3, <2>4 DEF Inv, TypeOK
<1>9. Keys'
  BY <1>1, <1>5, Kept DEF Inv, Keys, IsObject
<1>10. Known'
  BY <1>1, <1>5, Kept DEF Inv, Known, Knowledge, IsObject
<1>11. BelowLast'
  <2>1. CASE op \in {"allocate", "refuse"} /\ ~ok
    <3>1. lastOID \in Nat /\ lastOID' = lastOID - 1
      BY <1>1, <1>6, <1>7, <2>1 DEF Oids
    <3>2. \A r \in db : IsObject(r) => r.id \in Nat /\ r.id <= lastOID /\ r.id # lastOID
      BY <1>6, <1>7, <2>1 DEF Inv, BelowLast, ObjectInDb, TypeOK, Rowset, IsObject, Oids
    <3>3. \A o \in Cached : o \in Nat /\ o <= lastOID /\ o # lastOID
      BY <1>6, <1>7, <2>1 DEF Inv, BelowLast, TypeOK, Oids
    <3>4. \A x \in Nat : x <= lastOID /\ x # lastOID => x <= lastOID - 1
      BY <3>1
    <3>5. \A r \in db : IsObject(r) => r.id <= lastOID - 1
      BY <3>2, <3>4
    <3>6. \A o \in Cached : o <= lastOID - 1
      BY <3>3, <3>4
    <3> QED
      BY <1>1, <1>5, <3>1, <3>5, <3>6 DEF BelowLast, IsObject
  <2>2. CASE ~(op \in {"allocate", "refuse"} /\ ~ok)
    BY <1>1, <1>5, <2>2 DEF Inv, BelowLast, IsObject
  <2> QED
    BY <2>1, <2>2
<1>12. Task'
  BY <1>1, <1>3 DEF Task
<1>13. written => oid \in Cached /\ Select(db, oid) = cache[oid]
  BY <1>3 DEF Inv, Task, Written
<1>14. Whole'
  <2>1. ASSUME NEW r \in db, IsObject(r), r.id \notin dropping'
        PROVE  WholeIn(db, r)
    <3>1. CASE r.id \notin dropping
      BY <2>1, <3>1 DEF Inv, Whole
    <3>2. CASE r.id \in dropping
      <4>1. r.id = oid /\ (dropped \/ written)
        BY <1>2, <2>1, <3>2
      <4>2. CASE dropped
        <5>1. ~ObjectInDb(oid)
          BY <1>3, <4>2 DEF Inv, Task
        <5> QED
          BY <2>1, <4>1, <5>1 DEF ObjectInDb
      <4>3. CASE written
        <5>1. PICK s \in cache[oid] : s.table = "share" /\ s.id = oid
          BY <1>13, <4>3 DEF Inv, Known, Knowledge
        <5>2. s \in db
          BY <1>13, <4>3, <5>1, HostFromRows
        <5> QED
          BY <4>1, <4>3, <5>1, <5>2 DEF WholeIn
      <4> QED
        BY <4>1, <4>2, <4>3
    <3> QED
      BY <3>1, <3>2
  <2> QED
    BY <1>1, <1>3, <2>1, Kept DEF Whole, IsObject
<1>15. Written'
  <2>1. ASSUME NEW o \in Cached', o \notin lost'
        PROVE  Select(db, o) = cache[o]
    <3>1. CASE ~(op = "update" /\ oid = o)
      <4>1. o \notin lost
        BY <1>2, <1>5, <2>1, <3>1
      <4> QED
        BY <1>5, <2>1, <3>1, <4>1 DEF Inv, Written
    <3>2. CASE op = "update" /\ oid = o
      <4>1. CASE written
        BY <1>13, <3>2, <4>1
      <4>2. CASE ~written
        <5>1. o \notin lost
          BY <1>2, <2>1, <3>2, <4>2
        <5> QED
          BY <1>3, <3>2, <5>1 DEF Inv, Written
      <4> QED
        BY <4>1, <4>2
    <3> QED
      BY <3>1, <3>2
  <2> QED
    BY <1>1, <1>5, <2>1, Kept DEF Written
<1>16. Contexts'
  BY <1>1, ContextsKept DEF Inv
<1> QED
  BY <1>8, <1>9, <1>10, <1>11, <1>12, <1>14, <1>15, <1>16 DEF Inv

\* A host or a network is dropped.
LEMMA DropInv ==
  ASSUME Inv, NEW what \in {"hosts", "networks"}, NEW o \in Oids, NEW parts, Drop(what, o, parts),
         parts \in {<<Clear("attribute", o), Clear("share", o)>>, <<Clear("attribute", o)>>}
  PROVE  Inv'
<1> DEFINE last == [Clear("object", o) EXCEPT !.if = "abort"]
<1>1. /\ kind = what /\ o \in Cached /\ op = "none" /\ op' = "drop" /\ oid' = o /\ ok' = TRUE
      /\ todo' = parts \o <<last>> /\ version' = version + 1
      /\ lost' = lost \cup {o} /\ dropping' = dropping \cup {o}
      /\ UNCHANGED <<kind, db, lastOID, cache, context>>
  BY DEF Drop, Begin, tables
<1>2. Cached' = Cached
  BY <1>1 DEF Cached
<1>3. Rowset \subseteq Rowset' /\ Columns \subseteq Columns'
  BY <1>1, Grows DEF Inv, TypeOK
<1>4. \A table \in {"attribute", "share", "object"} : Row(table, o, "", 0, 0) \in Columns
  <2>1. 0 \in Numbers /\ o \in Numbers
    BY Constants DEF Numbers, Oids, Inv, TypeOK
  <2> QED
    BY <2>1 DEF Row, Columns
<1>5. \A table \in {"attribute", "share"} :
        Clear(table, o) \in Statements' /\ Drops(Clear(table, o))'
  BY <1>1, <1>3, <1>4 DEF Clear, Statement, Statements, Drops, IsObject, Row
<1>6. last \in Statements' /\ Drops(last)' /\ IsObject(last.row)
  BY <1>1, <1>3, <1>4 DEF Clear, Statement, Statements, Drops, IsObject, Row
<1>7. parts \in Seq(Statements') /\ \A s \in Elements(parts) : Drops(s)' /\ ~IsObject(s.row)
  <2>1. \A table \in {"attribute", "share"} : ~IsObject(Clear(table, o).row)
    BY DEF Clear, Statement, Row, IsObject
  <2>2. CASE parts = <<Clear("attribute", o)>>
    BY <1>5, <2>1, <2>2, ElementsOf
  <2>3. CASE parts = <<Clear("attribute", o), Clear("share", o)>>
    <3>1. Elements(parts) = {Clear("attribute", o), Clear("share", o)}
      BY <2>3 DEF Elements
    <3> QED
      BY <1>5, <2>1, <2>3, <3>1
  <2> QED
    BY <2>2, <2>3
<1>8. /\ todo' \in Seq(Statements') /\ Left' = Elements(parts) \cup {last}
      /\ \A i \in 1..(Len(todo') - 1) : todo'[i] \in Elements(parts)
  <2>1. last \in Statements' /\ parts \in Seq(Statements') /\ todo' = parts \o <<last>>
    BY <1>1, <1>6, <1>7
  <2> HIDE DEF last
  <2>2. /\ todo' \in Seq(Statements') /\ Elements(todo') = Elements(parts) \cup {last}
        /\ \A i \in 1..(Len(todo') - 1) : todo'[i] \in Elements(parts)
    BY <2>1, EndsWith
  <2> QED
    BY <2>2 DEF Left, Elements
<1> HIDE DEF last
<1>9. TypeOK'
  BY <1>1, <1>2, <1>3, <1>8 DEF Inv, TypeOK
<1>10. Keys' /\ Known' /\ BelowLast'
  BY <1>1, <1>2, Kept DEF Inv, Keys, Known, Knowledge, BelowLast, IsObject
<1>11. Task'
  <2>1. \A i \in 1..(Len(todo') - 1) : ~IsObject(todo'[i].row)
    BY <1>7, <1>8
  <2>2. \A s \in Left' : Drops(s)'
    BY <1>6, <1>7, <1>8
  <2>3. last \in Left'
    BY <1>8
  <2> QED
    BY <1>1, <1>2, <1>6, <2>1, <2>2, <2>3 DEF Task, IsObject, Drops
<1>12. Whole'
  <2>1. \A s \in Left' : s.verb = "clear"
    BY <1>6, <1>7, <1>8 DEF Drops
  <2> QED
    BY <1>1, <2>1, Kept DEF Inv, Whole, IsObject
<1>13. Written'
  BY <1>1, <1>2, Kept DEF Inv, Written
<1>14. Contexts'
  BY <1>1, ContextsKept DEF Inv
<1> QED
  BY <1>9, <1>10, <1>11, <1>12, <1>13, <1>14 DEF Inv

-----------------------------------------------------------------------------
(* What is read                                                            *)

\* Objects have one row each.
LEMMA OneObject ==
  ASSUME NEW A, Keyed(A), NEW d \in A, IsObject(d)
  PROVE  Of(A, "object", d.id) = {d} /\ The(Of(A, "object", d.id)) = d
<1>1. \A r \in Of(A, "object", d.id) : r = d
  BY ReplacesIs DEF Of, Keyed, IsObject
<1>2. Of(A, "object", d.id) = {d}
  BY <1>1 DEF Of, IsObject
<1> QED
  BY <1>2 DEF The

LEMMA SelectVmIs ==
  ASSUME kind = "vms", NEW A, Keyed(A), NEW d \in A, IsObject(d)
  PROVE  Select(A, d.id) = {d} \cup Of(A, "attribute", d.n) \cup SelectRecords(A, d.id)
<1>1. Of(A, "object", d.id) = {d} /\ The(Of(A, "object", d.id)) = d
  BY OneObject
<1> QED
  BY <1>1 DEF Select, SelectVm, ObjectOf, TemplateOf

LEMMA SelectOther ==
  ASSUME kind \in Kinds, kind # "vms", NEW A \in SUBSET Rowset, NEW o, Select(A, o) # {}
  PROVE  /\ Select(A, o) = {r \in A : r.id = o}
         /\ \E r \in A : IsObject(r) /\ r.id = o
         /\ kind = "hosts" => \E r \in A : r.table = "share" /\ r.id = o
<1>1. kind = "hosts" \/ kind = "networks"
  BY Constants
<1>2. \A r \in A : /\ r.table \in {"object", "share", "history", "attribute"}
                   /\ r.table # "history" /\ (r.table = "share" => kind = "hosts")
  BY DEF Rowset, Columns
<1>3. CASE kind = "hosts"
  <2>1. /\ Of(A, "object", o) # {} /\ Of(A, "share", o) # {}
        /\ Select(A, o) = Of(A, "object", o) \cup Of(A, "attribute", o) \cup Of(A, "share", o)
    BY <1>3 DEF Select, SelectHost, ObjectOf, TemplateOf, ShareOf
  <2> QED
    BY <1>2, <2>1 DEF Of, IsObject
<1>4. CASE kind = "networks"
  <2>1. /\ Of(A, "object", o) # {}
        /\ Select(A, o) = Of(A, "object", o) \cup Of(A, "attribute", o)
    BY <1>4 DEF Select, SelectNetwork, ObjectOf, TemplateOf
  <2> QED
    BY <1>2, <1>4, <2>1 DEF Of, IsObject
<1> QED
  BY <1>1, <1>3, <1>4

LEMMA LastIs ==
  ASSUME version \in Nat, NEW A \in SUBSET Columns, NEW o, Records(A, o) # {}
  PROVE  /\ LastRecord(A, o) \in Records(A, o)
         /\ \A s \in Records(A, o) : s.n \in Nat /\ s.n <= LastRecord(A, o).n
<1> DEFINE S == {r.n : r \in Records(A, o)}
<1>1. MaxOid + version \in Nat
  BY Constants
<1>2. S \in SUBSET Nat /\ S # {} /\ \A x \in S : x <= MaxOid + version
  <2>1. \A r \in Records(A, o) : r.n \in 0..(MaxOid + version)
    BY DEF Records, Of, Columns, Numbers
  <2>2. \A x \in S : x \in 0..(MaxOid + version)
    BY <2>1
  <2>3. S # {}
    OBVIOUS
  <2> HIDE DEF S
  <2> QED
    BY <1>1, <2>2, <2>3
<1>3. PICK m \in S : \A x \in S : m >= x
  <2> HIDE DEF S
  <2> QED
    BY <1>1, <1>2, GreatestIs
<1>4. PICK r \in Records(A, o) : r.n = m
  BY <1>3
<1>5. \A s \in Records(A, o) : s.n \in Nat /\ s.n <= r.n
  <2> TAKE s \in Records(A, o)
  <2>1. s.n \in S
    OBVIOUS
  <2> QED
    BY <1>2, <1>3, <1>4, <2>1
<1> QED
  BY <1>4, <1>5 DEF LastRecord

\* The history that is read: records of the VM, each with a number of its own,
\* the last one the last.
LEMMA HistoryRead ==
  ASSUME kind \in Kinds, kind = "vms", version \in Nat, NEW A \in SUBSET Rowset, Keyed(A), NEW o \in Oids
  PROVE  /\ SelectRecords(A, o) \in SUBSET Rowset
         /\ \A r \in SelectRecords(A, o) : r.table = "history" /\ r.id = o
         /\ \A r, s \in SelectRecords(A, o) : r.n = s.n => r = s
<1> DEFINE last == LastRecord(A, o)
           previous == {r \in Records(A, o) : r.n = last.n - 1}
<1>1. CASE Records(A, o) = {}
  BY <1>1 DEF SelectRecords
<1>2. CASE Records(A, o) # {}
  <2>1. last \in Records(A, o) /\ \A s \in Records(A, o) : s.n \in Nat /\ s.n <= last.n
    BY <1>2, LastIs DEF Rowset
  <2>2. \A r \in Records(A, o) : r \in Rowset /\ r \in Columns /\ r.table = "history" /\ r.id = o
    BY DEF Records, Of, Rowset
  <2>3. \A r, s \in Records(A, o) : r.n = s.n => r = s
    BY <2>2, ReplacesIs DEF Keyed, Records, Of
  <2>4. SelectRecords(A, o) =
          {last} \cup IF last.n = 0 THEN {}
                      ELSE IF previous = {} THEN {Record(o, last.n - 1, -1)} ELSE previous
    BY <1>2 DEF SelectRecords
  <2> HIDE DEF last
  <2>5. last.n # 0 => /\ Record(o, last.n - 1, -1) \in Rowset
                      /\ Record(o, last.n - 1, -1).table = "history"
                      /\ Record(o, last.n - 1, -1).id = o
                      /\ Record(o, last.n - 1, -1).n = last.n - 1
    <3> SUFFICES ASSUME last.n # 0 PROVE /\ Record(o, last.n - 1, -1) \in Rowset
                                         /\ Record(o, last.n - 1, -1).table = "history"
                                         /\ Record(o, last.n - 1, -1).id = o
                                         /\ Record(o, last.n - 1, -1).n = last.n - 1
      OBVIOUS
    <3>1. o \in Numbers /\ last.n - 1 \in Numbers
      <4>1. o \in 0..MaxOid /\ last.n \in 0..(MaxOid + version)
        BY <2>1, <2>2 DEF Columns, Numbers, Oids
      <4>2. MaxOid \in Nat
        BY Constants
      <4> QED
        BY <4>1, <4>2 DEF Numbers
    <3> DEFINE r == Record(o, last.n - 1, -1)
    <3>2. /\ r.table = "history" /\ r.id = o /\ r.name = "" /\ r.n = last.n - 1 /\ r.value = -1
          /\ r = [table |-> "history", id |-> o, name |-> "", n |-> last.n - 1, value |-> -1]
      BY DEF Record, Row
    <3> HIDE DEF r
    <3>3. r \in Columns
      <4>1. -1 \in Int
        OBVIOUS
      <4> QED
        BY <3>1, <3>2, <4>1 DEF Columns
    <3>4. r \in Rowset
      BY <3>2, <3>3 DEF Rowset
    <3> QED
      BY <3>2, <3>4 DEF r
  <2>6. last.n \in Nat /\ last.n - 1 # last.n
    BY <2>1
  <2> QED
    BY <2>1, <2>2, <2>3, <2>4, <2>5, <2>6
<1> QED
  BY <1>1, <1>2

\* An object is read.
LEMMA LoadInv ==
  ASSUME Inv, NEW o \in Oids, Load(o)
  PROVE  Inv'
<1> DEFINE new == Select(db, o)
<1>1. /\ op = "none" /\ o \notin Cached /\ new # {}
      /\ cache' = [p \in Cached \cup {o} |-> IF p = o THEN new ELSE cache[p]]
      /\ UNCHANGED <<kind, db, lastOID, op, oid, todo, ok, version, lost, dropping, context>>
  BY DEF Load, tables, task
<1>2. /\ Cached' = Cached \cup {o} /\ cache'[o] = new
      /\ \A p \in Cached : p # o /\ cache'[p] = cache[p]
  BY <1>1 DEF Cached
<1>3. Rowset' = Rowset /\ Statements' = Statements /\ Left' = Left
  BY <1>1 DEF Rowset, Statements, Columns, Numbers, Names, Left, Elements
<1>4. /\ kind \in Kinds /\ version \in Nat /\ db \subseteq Rowset /\ Rowset \subseteq Columns
      /\ Keyed(db)
  BY DEF Inv, TypeOK, Keys, Rowset
<1>5. PICK d \in db : IsObject(d) /\ d.id = o
  <2>1. CASE kind = "vms"
    BY <1>1, <2>1 DEF Select, SelectVm, ObjectOf, Of, IsObject
  <2>2. CASE kind # "vms"
    BY <1>1, <1>4, <2>2, SelectOther
  <2> QED
    BY <2>1, <2>2
<1>6. /\ new \in SUBSET Rowset /\ Keyed(new) /\ d \in new
      /\ \A r \in new : r.id = IF r.table = "attribute" THEN d.n ELSE o
      /\ kind = "hosts" => new = {r \in db : r.id = o} /\ \E r \in db : r.table = "share" /\ r.id = o
  <2>1. CASE kind = "vms"
    <3>1. new = {d} \cup Of(db, "attribute", d.n) \cup SelectRecords(db, o)
      BY <1>4, <1>5, <2>1, SelectVmIs
    <3>2. /\ SelectRecords(db, o) \in SUBSET Rowset
          /\ \A r \in SelectRecords(db, o) : r.table = "history" /\ r.id = o
          /\ \A r, s \in SelectRecords(db, o) : r.n = s.n => r = s
      BY <1>4, <2>1, HistoryRead
    <3> HIDE DEF new
    <3>3. new \in SUBSET Rowset /\ d \in new
      BY <1>4, <3>1, <3>2 DEF Of
    <3>4. \A r \in new : r.id = IF r.table = "attribute" THEN d.n ELSE o
      BY <1>5, <3>1, <3>2 DEF Of, IsObject
    <3>5. \A r, s \in new : Replaces(r, s) => r = s
      <4> TAKE r \in new, s \in new
      <4> HAVE Replaces(r, s)
      <4>1. r.table = s.table /\ r.table # "attribute" /\ (r.table = "history" => r.n = s.n)
        BY <1>4, <2>1, <3>3, ReplacesIs
      <4> QED
        BY <1>5, <3>1, <3>2, <4>1 DEF Of, IsObject
    <3> QED
      BY <2>1, <3>3, <3>4, <3>5 DEF Keyed
  <2>2. CASE kind # "vms"
    <3>1. /\ new = {r \in db : r.id = o}
          /\ kind = "hosts" => \E r \in db : r.table = "share" /\ r.id = o
      BY <1>1, <1>4, <2>2, SelectOther
    <3> HIDE DEF new
    <3>2. d.n = o
      BY <1>4, <1>5, <2>2 DEF Rowset, IsObject
    <3> QED
      BY <1>4, <1>5, <3>1, <3>2 DEF Keyed
  <2> QED
    BY <2>1, <2>2
<1>7. cache' \in [Cached' -> SUBSET Rowset]
  <2> HIDE DEF new
  <2>1. Cached' = Cached \cup {o}
    BY <1>2
  <2>2. \A p \in Cached \cup {o} : (IF p = o THEN new ELSE cache[p]) \in SUBSET Rowset
    BY <1>6 DEF Inv, TypeOK
  <2> QED
    BY <1>1, <2>1, <2>2
<1>8. TypeOK'
  BY <1>1, <1>2, <1>3, <1>7 DEF Inv, TypeOK
<1>9. Keys'
  <2> HIDE DEF new
  <2>1. \A p \in Cached' : Keyed(cache'[p])
    BY <1>2, <1>6 DEF Inv, Keys
  <2> QED
    BY <1>1, <2>1, Kept DEF Inv, Keys, IsObject
<1>10. Known'
  <2>1. ASSUME NEW p \in Cached PROVE Knowledge(p)'
    BY <1>1, <1>2, <2>1, Kept DEF Inv, Known, Knowledge, IsObject
  <2>2. Knowledge(o)'
    <3> HIDE DEF new
    <3>1. kind = "hosts" => \A r \in db : r.id = o => Replaces(r, r)
      BY <1>4, ReplacesIs
    <3> QED
      BY <1>1, <1>2, <1>5, <1>6, <3>1, Kept DEF Knowledge, IsObject
  <2> QED
    BY <1>2, <2>1, <2>2 DEF Known
<1>11. BelowLast'
  BY <1>1, <1>2, <1>5 DEF Inv, BelowLast, IsObject
<1>12. Task'
  BY <1>1, <1>2, <1>3 DEF Inv, Task, IsObject
<1>13. Whole'
  BY <1>1, <1>3, Kept DEF Inv, Whole, IsObject
<1>14. Written'
  BY <1>1, <1>2, Kept DEF Inv, Written
<1>15. Contexts'
  BY <1>1, ContextsKept DEF Inv
<1> QED
  BY <1>8, <1>9, <1>10, <1>11, <1>12, <1>13, <1>14, <1>15 DEF Inv

-----------------------------------------------------------------------------
(* The statements of an operation                                          *)

\* A template of at most one attribute of each name.
LEMMA TemplateWritesAre ==
  ASSUME kind \in Kinds, NEW S, NEW R, NEW id,
         \A r, s \in Of(R, "attribute", id) :
           r.name \in {Names[1], Names[2]} /\ (r.name = s.name => r = s),
         \A r \in R : Write(r, "undo") \in S
  PROVE  /\ TemplateWrites(R, id) \in Seq(S)
         /\ Elements(TemplateWrites(R, id)) = {Write(r, "undo") : r \in Of(R, "attribute", id)}
<1> DEFINE known(name) == {r \in Of(R, "attribute", id) : r.name = name}
           write(name) == IF known(name) = {} THEN <<>> ELSE <<Write(The(known(name)), "undo")>>
<1>1. \A name : /\ write(name) \in Seq(S)
                /\ Elements(write(name)) = {Write(r, "undo") : r \in known(name)}
  <2> TAKE name
  <2>1. CASE known(name) = {}
    <3>1. write(name) = <<>>
      BY <2>1
    <3>2. {Write(r, "undo") : r \in known(name)} = {}
      BY <2>1
    <3> QED
      BY <3>1, <3>2, ElementsOf, EmptySeq
  <2>2. CASE known(name) # {}
    <3>1. PICK r \in known(name) : TRUE
      BY <2>2
    <3>2. known(name) = {r} /\ r \in R
      BY <3>1 DEF Of
    <3>3. The(known(name)) = r
      BY <3>2 DEF The
    <3>4. write(name) = <<Write(r, "undo")>> /\ Write(r, "undo") \in S
      BY <2>2, <3>2, <3>3
    <3>5. {Write(s, "undo") : s \in known(name)} = {Write(r, "undo")}
      BY <3>2
    <3> HIDE DEF known, write
    <3> QED
      BY <3>4, <3>5, ElementsOf
  <2> QED
    BY <2>1, <2>2
<1>2. TemplateWrites(R, id) = write(Names[1]) \o write(Names[2])
  BY DEF TemplateWrites
<1>3. Of(R, "attribute", id) = known(Names[1]) \cup known(Names[2])
  OBVIOUS
<1> HIDE DEF known, write
<1>4. /\ TemplateWrites(R, id) \in Seq(S)
      /\ Elements(TemplateWrites(R, id)) = Elements(write(Names[1])) \cup Elements(write(Names[2]))
  BY <1>1, <1>2, ElementsConcat
<1> QED
  BY <1>1, <1>3, <1>4

PartWrites(R, o, d) ==
  {Write(r, "undo") : r \in Of(R, "attribute", d.n)} \cup
  {Write(r, "abort") : r \in Of(R, "share", o)}

\* The rows of an object, and of no other.
Writable(R, o, d) ==
  /\ Of(R, "object", o) = {d}
  /\ \A r, s \in Of(R, "attribute", d.n) :
       r.name \in {Names[1], Names[2]} /\ (r.name = s.name => r = s)
  /\ \A r, s \in Of(R, "share", o) : r = s

CanWrite(R, S) == \A r \in R, i \in {"undo", "abort"} : Write(r, i) \in S

\* The rows of an object are all written, its own the last.
LEMMA WritesAre ==
  ASSUME kind \in Kinds, NEW S, NEW R, NEW o, NEW if \in {"undo", "abort"}, NEW d,
         Writable(R, o, d), CanWrite(R, S)
  PROVE  /\ Writes(R, o, if) \in Seq(S)
         /\ Elements(Writes(R, o, if)) = PartWrites(R, o, d) \cup {Write(d, if)}
         /\ \A i \in 1..(Len(Writes(R, o, if)) - 1) : Writes(R, o, if)[i] \in PartWrites(R, o, d)
<1> DEFINE template == TemplateWrites(R, d.n)
           share == ShareWrites(R, o)
           front == template \o share
           parts == {Write(r, "undo") : r \in Of(R, "attribute", d.n)} \cup
                    {Write(r, "abort") : r \in Of(R, "share", o)}
<1>0. \A r \in R, i \in {"undo", "abort"} : Write(r, i) \in S
  BY DEF CanWrite
<1>1. The(Of(R, "object", o)) = d /\ d \in R
  BY DEF Writable, The, Of
<1>2. Writes(R, o, if) = front \o <<Write(d, if)>>
  BY <1>1 DEF Writes
<1>3. /\ template \in Seq(S)
      /\ Elements(template) = {Write(r, "undo") : r \in Of(R, "attribute", d.n)}
  BY <1>0, TemplateWritesAre DEF Writable
<1>4. share \in Seq(S) /\ Elements(share) = {Write(r, "abort") : r \in Of(R, "share", o)}
  <2>1. CASE Of(R, "share", o) = {}
    <3>1. share = <<>>
      BY <2>1 DEF ShareWrites
    <3>2. {Write(r, "abort") : r \in Of(R, "share", o)} = {}
      BY <2>1
    <3> QED
      BY <3>1, <3>2, ElementsOf, EmptySeq
  <2>2. CASE Of(R, "share", o) # {}
    <3>1. PICK r \in Of(R, "share", o) : TRUE
      BY <2>2
    <3>2. Of(R, "share", o) = {r} /\ r \in R
      BY <3>1 DEF Writable, Of
    <3>3. The(Of(R, "share", o)) = r
      BY <3>2 DEF The
    <3>4. share = <<Write(r, "abort")>> /\ Write(r, "abort") \in S
      BY <1>0, <2>2, <3>2, <3>3 DEF ShareWrites
    <3>5. {Write(s, "abort") : s \in Of(R, "share", o)} = {Write(r, "abort")}
      BY <3>2
    <3> HIDE DEF share
    <3> QED
      BY <3>4, <3>5, ElementsOf
  <2> QED
    BY <2>1, <2>2
<1> HIDE DEF template, share
<1>5. front \in Seq(S) /\ Elements(front) = parts
  BY <1>3, <1>4, ElementsConcat
<1>6. Write(d, if) \in S
  BY <1>0, <1>1
<1> HIDE DEF front, parts
<1>7. /\ front \o <<Write(d, if)>> \in Seq(S)
      /\ Elements(front \o <<Write(d, if)>>) = Elements(front) \cup {Write(d, if)}
      /\ \A i \in 1..(Len(front \o <<Write(d, if)>>) - 1) :
           (front \o <<Write(d, if)>>)[i] \in Elements(front)
  BY <1>5, <1>6, EndsWith
<1>8. /\ Writes(R, o, if) \in Seq(S)
      /\ Elements(Writes(R, o, if)) = parts \cup {Write(d, if)}
      /\ \A i \in 1..(Len(Writes(R, o, if)) - 1) : Writes(R, o, if)[i] \in parts
  BY <1>2, <1>5, <1>7
<1> QED
  BY <1>8 DEF parts, PartWrites

\* The template of a new VM is nobody's.
LEMMA TemplateIsNew ==
  ASSUME Inv, kind = "vms"
  PROVE  /\ TemplateId \in 0..(MaxOid + (version + 1))
         /\ \A r \in db : r.table = "attribute" => r.id # TemplateId
         /\ \A r \in db : IsObject(r) => r.n # TemplateId
<1> DEFINE ids == {r.id : r \in {r \in db : r.table = "attribute"}}
<1>1. MaxOid \in Nat /\ version \in Nat
  BY Constants DEF Inv, TypeOK
<1>2. \A x \in ids : x \in 0..(MaxOid + version)
  <2>1. \A r \in db : r.id \in 0..(MaxOid + version)
    BY DEF Inv, TypeOK, Rowset, Columns, Numbers
  <2> QED
    BY <2>1
<1>3. TemplateId = IF ids = {} THEN 0 ELSE Max(ids) + 1
  BY DEF TemplateId
<1>4. TemplateId \in 0..(MaxOid + (version + 1)) /\ \A x \in ids : x < TemplateId
  <2> HIDE DEF ids
  <2>1. CASE ids = {}
    BY <1>1, <1>3, <2>1
  <2>2. CASE ids # {}
    <3>1. ids \in SUBSET Nat /\ MaxOid + version \in Nat /\ \A x \in ids : x <= MaxOid + version
      BY <1>1, <1>2
    <3> DEFINE m == Max(ids)
    <3>2. m \in ids /\ \A x \in ids : m >= x
      BY <2>2, <3>1, MaxIs
    <3>3. TemplateId = m + 1
      BY <1>3, <2>2
    <3> HIDE DEF m
    <3>4. m \in 0..(MaxOid + version)
      BY <1>2, <3>2
    <3>5. \A x \in ids : x < m + 1
      BY <1>2, <3>2, <3>4
    <3>6. m + 1 \in 0..(MaxOid + (version + 1))
      BY <1>1, <3>4
    <3> QED
      BY <3>3, <3>5, <3>6
  <2> QED
    BY <2>1, <2>2
<1>5. \A r \in db : r.table = "attribute" => r.id # TemplateId
  <2>1. \A r \in db : r.table = "attribute" => r.id \in ids
    OBVIOUS
  <2> HIDE DEF ids
  <2> QED
    BY <1>1, <1>2, <1>4, <2>1
<1>6. ASSUME NEW r \in db, IsObject(r), r.n = TemplateId
      PROVE  FALSE
  <2>1. WholeIn(db, r)
    BY <1>6 DEF Inv, Whole, TypeOK
  <2>2. PICK v \in Int : {s \in Of(db, "attribute", r.n) : s.name \notin {"POLLED", "CONTEXT"}} =
                          Attributes(r.n, v)
    BY <2>1 DEF WholeIn
  <2>3. Attribute(r.n, Names[1], v) \in Attributes(r.n, v)
    BY AttributesAre DEF Inv, TypeOK
  <2>4. Attribute(r.n, Names[1], v) \in Of(db, "attribute", r.n)
    BY <2>2, <2>3
  <2> QED
    BY <1>5, <1>6, <2>4 DEF Of
<1> QED
  BY <1>4, <1>5, <1>6

-----------------------------------------------------------------------------
(* A new object                                                            *)

\* The rows are those of a whole object, with a template of its own.
NewObject(R, o, d) ==
  /\ R \in SUBSET Rowset' /\ Writable(R, o, d)
  /\ \A r \in R : /\ r.table # "history" /\ (r.table # "attribute" => r.id = o)
                  /\ r.table = "attribute" => kind # "hosts" /\ r.name \in {Names[1], Names[2]}
                  /\ Template(r) = d.n
  /\ \A r \in db : IsObject(r) => r.n # d.n
  /\ WholeIn(db \cup R, d)
  /\ kind = "vms" => ~HasContext(db, d.n)
  /\ dropping' \in {dropping, dropping \ {o}}
  /\ context' = IF kind = "vms" THEN [context EXCEPT ![o] = "due"] ELSE context

LEMMA AllocateInv ==
  ASSUME Inv, NEW what, NEW o, o = lastOID + 1, NEW R, NEW if \in {"undo", "abort"}, NEW d,
         Allocate(what, o, R, if), NewObject(R, o, d)
  PROVE  Inv'
<1> DEFINE parts == PartWrites(R, o, d)
           last == Write(d, if)
<1> R \in SUBSET Rowset' /\ Writable(R, o, d)
  BY DEF NewObject
<1> \A r \in R : /\ r.table # "history" /\ (r.table # "attribute" => r.id = o)
                 /\ r.table = "attribute" => kind # "hosts" /\ r.name \in {Names[1], Names[2]}
                 /\ Template(r) = d.n
  BY DEF NewObject
<1> (\A r \in db : IsObject(r) => r.n # d.n) /\ WholeIn(db \cup R, d)
  BY DEF NewObject
<1>1. /\ kind = what /\ o \in Oids /\ op = "none" /\ op' = "allocate" /\ oid' = o /\ ok' = TRUE /\ lastOID' = o
      /\ todo' = Writes(R, o, if) /\ version' = version + 1
      /\ UNCHANGED <<kind, db, cache, lost>>
  BY DEF Allocate, Begin
<1>0. /\ kind = "vms" => ~HasContext(db, d.n)
      /\ dropping' \in {dropping, dropping \ {o}}
      /\ context' = IF kind = "vms" THEN [context EXCEPT ![o] = "due"] ELSE context
  BY DEF NewObject
<1>2. Cached' = Cached /\ kind \in Kinds /\ version \in Nat
  BY <1>1 DEF Cached, Inv, TypeOK
<1>3. Rowset \subseteq Rowset' /\ Columns \subseteq Columns'
  BY <1>1, <1>2, Grows
<1>4. \A r \in R, i \in {"undo", "abort"} : Write(r, i) \in Statements'
  <2>1. \A r \in R : r \in Columns' /\ r \in Rowset'
    BY DEF Rowset
  <2> QED
    BY <2>1 DEF Write, Statement, Statements
<1>5. d \in R /\ IsObject(d) /\ d.id = o
  BY DEF Writable, Of, IsObject
<1>6. /\ todo' \in Seq(Statements') /\ Elements(todo') = parts \cup {last}
      /\ \A i \in 1..(Len(todo') - 1) : todo'[i] \in parts
  <2> HIDE DEF parts, last
  <2>2. PICK S : S = Statements'
    OBVIOUS
  <2>3. CanWrite(R, S)
    BY <1>4, <2>2 DEF CanWrite
  <2>4. /\ Writes(R, o, if) \in Seq(S)
        /\ Elements(Writes(R, o, if)) = PartWrites(R, o, d) \cup {Write(d, if)}
        /\ \A i \in 1..(Len(Writes(R, o, if)) - 1) : Writes(R, o, if)[i] \in PartWrites(R, o, d)
    BY <1>2, <2>3, WritesAre
  <2> QED
    BY <1>1, <2>2, <2>4 DEF parts, last
<1>7. Left' = parts \cup {last}
  BY <1>6 DEF Left, Elements
<1>8. \A s \in Left' : /\ s.verb = "write" /\ ~s.live /\ s.if \in {"undo", "abort"}
                       /\ s.row \in R /\ (s.if = "undo" => s.row.table # "share")
  BY <1>5, <1>7 DEF PartWrites, Write, Statement, Of, IsObject
<1>9. \A s \in parts : ~IsObject(s.row)
  BY DEF PartWrites, Write, Statement, Of, IsObject
<1>10. /\ \A r \in db : IsObject(r) => r.id # o
       /\ o \notin Cached /\ \A r \in db : IsObject(r) => r.id <= o
       /\ \A p \in Cached : p <= o
  <2>1. lastOID \in Oids \cup {-1} /\ MaxOid \in Nat
    BY Constants DEF Inv, TypeOK
  <2>2. \A r \in db : IsObject(r) => r.id \in Oids /\ r.id <= lastOID
    BY DEF Inv, TypeOK, Rowset, IsObject, BelowLast
  <2>3. \A p \in Cached : p \in Oids /\ p <= lastOID
    BY DEF Inv, TypeOK, BelowLast
  <2>4. \A x \in Oids : x <= lastOID => x # o /\ x <= o
    BY <2>1 DEF Oids
  <2> QED
    BY <2>2, <2>3, <2>4
<1>16. /\ dropping' \subseteq Oids /\ (kind = "vms" => dropping' = {})
       /\ context' \in [Oids -> {"none", "due", "written"}]
       /\ kind = "vms" => context'[o] = "due"
       /\ kind = "vms" => \A p \in Oids : p # o => context'[p] = context[p]
  BY <1>0, <1>1 DEF Inv, TypeOK
<1>11. TypeOK'
  BY <1>1, <1>2, <1>3, <1>6, <1>16 DEF Inv, TypeOK
<1>17. Contexts'
  <2>1. \A r \in db : IsObject(r) => r.id \in Oids
    BY DEF Inv, TypeOK, Rowset, IsObject
  <2>2. kind = "vms" => \A r \in db : IsObject(r) => context'[r.id] = context[r.id]
    BY <1>10, <1>16, <2>1
  <2>3. kind = "vms" => \A r \in db : IsObject(r) => (HasContext(db, r.n) <=> context'[r.id] = "written")
    BY <2>2 DEF Inv, Contexts
  <2> QED
    BY <1>1, <2>3 DEF Contexts, HasContext, Of, IsObject
<1>12. Keys' /\ Known' /\ BelowLast'
  BY <1>1, <1>2, <1>10, Kept DEF Inv, Keys, Known, Knowledge, BelowLast, IsObject
<1>13. Task'
  <2>1. \A s \in Left' : Allocates(s)'
    <3> TAKE s \in Left'
    <3>1. \A r \in db : IsObject(r) => r.n # Template(s.row)
      BY <1>8
    <3>2. \A name \in {Names[1], Names[2]} : name \notin {"", "POLLED", "CONTEXT"}
      BY <1>2, NamesAre
    <3>3. s.row \in R /\ Template(s.row) = d.n
      BY <1>8
    <3> HIDE DEF parts, last
    <3>4. kind = "vms" => ~HasContext(db, Template(s.row))
      BY <1>0, <3>3
    <3>5. /\ ~s.live /\ s.verb = "write" /\ s.if \in {"undo", "abort"} /\ s.row.table # "history"
          /\ s.row.table # "attribute" => s.row.id = o
          /\ s.if = "undo" => s.row.table # "share"
          /\ s.row.table = "attribute" => kind # "hosts" /\ s.row.name \notin {"", "POLLED", "CONTEXT"}
      <4>1. /\ s.row.table # "history" /\ (s.row.table # "attribute" => s.row.id = o)
            /\ s.row.table = "attribute" => kind # "hosts" /\ s.row.name \in {Names[1], Names[2]}
        BY <3>3
      <4>2. s.row.table = "attribute" => s.row.name \notin {"", "POLLED", "CONTEXT"}
        BY <3>2, <4>1
      <4> QED
        BY <1>8, <4>1, <4>2
    <3>6. /\ \A r \in db' : IsObject(r) => r.n # Template(s.row)
          /\ kind' = "vms" => ~HasContext(db', Template(s.row))
      BY <1>1, <3>1, <3>4
    <3> QED
      BY <1>1, <3>5, <3>6 DEF Allocates, IsObject, Template, HasContext, Of
  <2>2. \A i \in 1..(Len(todo') - 1) : ~IsObject(todo'[i].row)
    BY <1>6, <1>9
  <2>3. ~ObjectInDb(oid)'
    BY <1>1, <1>10 DEF ObjectInDb, IsObject
  <2> HIDE DEF parts, last
  <2> QED
    BY <1>1, <1>2, <1>8, <1>10, <1>16, <2>1, <2>2, <2>3 DEF Task, IsObject
<1>14. Whole'
  <2>1. {t.row : t \in Left'} = R
    <3>1. {t.row : t \in Left'} \subseteq R
      BY <1>8
    <3>2. ASSUME NEW r \in R PROVE r \in {t.row : t \in Left'}
      <4>1. r.table \in {"object", "share", "history", "attribute"}
        BY <3>2 DEF Rowset, Columns
      <4>2. CASE r.table = "object"
        <5>1. r = d
          BY <3>2, <4>2 DEF Writable, Of
        <5>2. last.row = d
          BY DEF Write, Statement
        <5> QED
          BY <1>7, <5>1, <5>2
      <4>3. CASE r.table = "share"
        <5>1. Write(r, "abort") \in Left' /\ Write(r, "abort").row = r
          BY <1>7, <3>2, <4>3 DEF PartWrites, Of, Write, Statement
        <5> QED
          BY <5>1
      <4>4. CASE r.table = "attribute"
        <5>1. Write(r, "undo") \in Left' /\ Write(r, "undo").row = r
          BY <1>7, <3>2, <4>4 DEF PartWrites, Of, Write, Statement, Template, IsObject
        <5> QED
          BY <5>1
      <4> QED
        BY <3>2, <4>1, <4>2, <4>3, <4>4
    <3> QED
      BY <3>1, <3>2
  <2>2. \A s \in Left' : IsObject(s.row) => s.row = d
    BY <1>8 DEF Writable, Of, IsObject
  <2> HIDE DEF parts, last
  <2>3. \A r \in db : IsObject(r) /\ r.id \notin dropping' => r.id \notin dropping
    BY <1>0, <1>10
  <2> QED
    BY <1>1, <2>1, <2>2, <2>3, Kept DEF Inv, Whole, IsObject
<1>15. Written'
  BY <1>1, <1>2, <1>10, Kept DEF Inv, Written, Task
<1> QED
  BY <1>11, <1>12, <1>13, <1>14, <1>15, <1>17 DEF Inv

\* The rows that an operation can give an object.
LEMMA NewRows ==
  ASSUME kind \in Kinds, version \in Nat, kind' = kind, version' = version + 1,
         NEW o \in Oids, NEW n \in 0..(MaxOid + (version + 1)), NEW v \in Int
  PROVE  /\ kind = "vms" \/ n = o => Object(o, n, v) \in Rowset'
         /\ Attributes(n, v) \subseteq Rowset'
         /\ kind = "hosts" => Share(o, v) \in Rowset'
         /\ kind = "vms" =>
              /\ Record(o, n, v) \in Rowset'
              /\ \A name \in {"POLLED", "CONTEXT"} : Attribute(n, name, v) \in Rowset'
<1>1. o \in Numbers' /\ n \in Numbers' /\ 0 \in Numbers'
  <2>1. Numbers' = 0..(MaxOid + (version + 1))
    BY DEF Numbers
  <2>2. o \in 0..(MaxOid + (version + 1)) /\ 0 \in 0..(MaxOid + (version + 1))
    BY Constants DEF Oids
  <2> QED
    BY <2>1, <2>2
<1>2. Names' = Names /\ Oids' = Oids
  BY DEF Names, Oids
<1>3. {Names[1], Names[2]} \subseteq {"NAME", "VMID", "FREECPU", "TOTALCPU", "NETWORK_ADDRESS"}
  BY NamesAre
<1>4. \A i \in 1..2 : Attribute(n, Names[i], v) \in Rowset'
  <2> TAKE i \in 1..2
  <2>1. Names[i] \in {Names[1], Names[2]}
    OBVIOUS
  <2>2. Attribute(n, Names[i], v) \in Columns'
    BY <1>1, <1>3, <2>1 DEF Attribute, Row, Columns
  <2> QED
    BY <1>2, <2>1, <2>2 DEF Attribute, Row, Rowset
<1>5. Attributes(n, v) \subseteq Rowset'
  BY <1>4, AttributesAre
<1>6. kind = "vms" \/ n = o => Object(o, n, v) \in Rowset'
  BY <1>1, <1>2 DEF Object, Row, Rowset, Columns
<1>7. kind = "hosts" => Share(o, v) \in Rowset'
  BY <1>1, <1>2 DEF Share, Row, Rowset, Columns
<1>8. kind = "vms" =>
        /\ Record(o, n, v) \in Rowset'
        /\ \A name \in {"POLLED", "CONTEXT"} : Attribute(n, name, v) \in Rowset'
  BY <1>1, <1>2 DEF Record, Attribute, Row, Rowset, Columns
<1> QED
  BY <1>5, <1>6, <1>7, <1>8

\* A template, as it was created.
LEMMA TemplateOfNew ==
  ASSUME kind \in Kinds, NEW id, NEW v
  PROVE  /\ \A r \in Attributes(id, v) : r.table = "attribute" /\ r.id = id /\ r.value = v
                                         /\ r.name \in {Names[1], Names[2]}
         /\ \A r, s \in Attributes(id, v) : r.name = s.name => r = s
<1>1. Attributes(id, v) = {Attribute(id, Names[1], v), Attribute(id, Names[2], v)}
  BY AttributesAre
<1> QED
  BY <1>1 DEF Attribute, Row

LEMMA AllocateVmInv == Inv /\ AllocateVm => Inv'
<1> SUFFICES ASSUME Inv, AllocateVm PROVE Inv'
  OBVIOUS
<1> DEFINE o == lastOID + 1
           id == TemplateId
           v == version + 1
           d == Object(o, id, v)
           R == {d} \cup Attributes(id, v)
<1>1. /\ Allocate("vms", o, R, "undo")
      /\ context' = [context EXCEPT ![o] = "due"] /\ dropping' = dropping
  BY DEF AllocateVm
<1>2. kind = "vms" /\ o \in Oids /\ kind' = kind /\ version' = v /\ kind \in Kinds /\ version \in Nat
  BY <1>1 DEF Allocate, Begin, Inv, TypeOK
<1>3. /\ id \in 0..(MaxOid + (version + 1))
      /\ \A r \in db : (r.table = "attribute" => r.id # id) /\ (IsObject(r) => r.n # id)
  BY <1>2, TemplateIsNew
<1>4. v \in Int
  BY <1>2
<1>5. d.table = "object" /\ d.id = o /\ d.n = id
  BY DEF Object, Row
<1>6. /\ \A r \in Attributes(id, v) : r.table = "attribute" /\ r.id = id /\ r.value = v
                                     /\ r.name \in {Names[1], Names[2]}
      /\ \A r, s \in Attributes(id, v) : r.name = s.name => r = s
  BY <1>2, TemplateOfNew
<1>7. R \subseteq Rowset'
  <2>1. Attributes(id, v) \subseteq Rowset' /\ Object(o, id, v) \in Rowset'
    BY <1>2, <1>3, <1>4, NewRows
  <2> QED
    BY <2>1
<1>8. d \in R /\ \A r \in R : r = d \/ r \in Attributes(id, v)
  OBVIOUS
<1> DEFINE A == Attributes(id, v)
<1>9. A \subseteq R
  OBVIOUS
<1>14. o = lastOID + 1
  OBVIOUS
<1> HIDE DEF A, R, d, id, v, o
<1>10. Writable(R, o, d)
  BY <1>5, <1>6, <1>8 DEF Writable, Of, A
<1>11. \A r \in R : /\ r.table # "history" /\ (r.table # "attribute" => r.id = o)
                    /\ r.table = "attribute" => kind # "hosts" /\ r.name \in {Names[1], Names[2]}
                    /\ Template(r) = d.n
  BY <1>2, <1>5, <1>6, <1>8 DEF Template, IsObject, A
<1>12. WholeIn(db \cup R, d)
  <2>1. {r \in Of(db \cup R, "attribute", d.n) : r.name \notin {"POLLED", "CONTEXT"}} = A
    BY <1>2, <1>3, <1>5, <1>6, <1>8, <1>9, NamesAre DEF Of, A
  <2> QED
    BY <1>2, <1>4, <1>5, <2>1 DEF WholeIn, A
<1>13. /\ \A r \in db : IsObject(r) => r.n # d.n
       /\ ~HasContext(db, d.n)
  BY <1>3, <1>5 DEF HasContext, Of
<1>15. NewObject(R, o, d)
  BY <1>1, <1>2, <1>7, <1>10, <1>11, <1>12, <1>13 DEF NewObject
<1> QED
  BY <1>1, <1>14, <1>15, AllocateInv

\* The objects there are have templates of their own oids.
LEMMA OidIsNew ==
  ASSUME Inv, kind # "vms"
  PROVE  \A r \in db : IsObject(r) => r.n # lastOID + 1
<1>1. lastOID \in Int
  BY Constants DEF Inv, TypeOK, Oids
<1>2. \A r \in db : IsObject(r) => r.n \in Nat /\ r.n <= lastOID
  <2>1. \A r \in db : IsObject(r) => r.n = r.id /\ r.id \in Oids
    BY DEF Inv, TypeOK, Rowset, IsObject
  <2> QED
    BY <2>1 DEF Inv, BelowLast, Oids
<1>3. \A x \in Nat : x <= lastOID => x # lastOID + 1
  BY <1>1
<1> QED
  BY <1>2, <1>3

LEMMA AllocateNetworkInv == Inv /\ AllocateNetwork => Inv'
<1> SUFFICES ASSUME Inv, AllocateNetwork PROVE Inv'
  OBVIOUS
<1> DEFINE o == lastOID + 1
           v == version + 1
           d == Object(o, o, v)
           A == Attributes(o, v)
           R == {d} \cup A
<1>1. /\ Allocate("networks", o, R, "undo")
      /\ dropping' = dropping \ {o} /\ context' = context
  BY DEF AllocateNetwork
<1>2. kind = "networks" /\ o \in Oids /\ kind' = kind /\ version' = v /\ kind \in Kinds /\ version \in Nat
  BY <1>1 DEF Allocate, Begin, Inv, TypeOK
<1>3. o \in 0..(MaxOid + (version + 1)) /\ v \in Int
  BY <1>2, Constants DEF Oids
<1>4. d.table = "object" /\ d.id = o /\ d.n = o
  BY DEF Object, Row
<1>5. /\ \A r \in A : r.table = "attribute" /\ r.id = o /\ r.value = v
                      /\ r.name \in {Names[1], Names[2]}
      /\ \A r, s \in A : r.name = s.name => r = s
  BY <1>2, TemplateOfNew
<1>6. R \subseteq Rowset'
  <2>1. A \subseteq Rowset' /\ d \in Rowset'
    BY <1>2, <1>3, NewRows
  <2> QED
    BY <2>1
<1>7. d \in R /\ A \subseteq R /\ \A r \in R : r = d \/ r \in A
  OBVIOUS
<1>8. \A r \in db : IsObject(r) => r.n # o
  BY <1>2, OidIsNew
<1>9. o = lastOID + 1
  OBVIOUS
<1>10. WholeIn(db \cup R, d)
  <2>1. A \subseteq db \cup R
    BY <1>7
  <2> HIDE DEF R, d
  <2> QED
    BY <1>2, <1>3, <1>4, <2>1 DEF WholeIn
<1> HIDE DEF A, R, d, o, v
<1>11. Writable(R, o, d)
  BY <1>4, <1>5, <1>7 DEF Writable, Of
<1>12. \A r \in R : /\ r.table # "history" /\ (r.table # "attribute" => r.id = o)
                    /\ r.table = "attribute" => kind # "hosts" /\ r.name \in {Names[1], Names[2]}
                    /\ Template(r) = d.n
  BY <1>2, <1>4, <1>5, <1>7 DEF Template, IsObject
<1>13. \A r \in db : IsObject(r) => r.n # d.n
  BY <1>4, <1>8
<1>14. NewObject(R, o, d)
  BY <1>1, <1>2, <1>6, <1>10, <1>11, <1>12, <1>13 DEF NewObject
<1> QED
  BY <1>1, <1>9, <1>14, AllocateInv

LEMMA AllocateHostInv == Inv /\ AllocateHost => Inv'
<1> SUFFICES ASSUME Inv, AllocateHost PROVE Inv'
  OBVIOUS
<1> DEFINE o == lastOID + 1
           v == version + 1
           d == Object(o, o, v)
           e == Share(o, v)
           R == {d, e}
<1>1. /\ Allocate("hosts", o, R, "abort")
      /\ dropping' = dropping /\ context' = context
  BY DEF AllocateHost
<1>2. kind = "hosts" /\ o \in Oids /\ kind' = kind /\ version' = v /\ kind \in Kinds /\ version \in Nat
  BY <1>1 DEF Allocate, Begin, Inv, TypeOK
<1>3. o \in 0..(MaxOid + (version + 1)) /\ v \in Int
  BY <1>2, Constants DEF Oids
<1>4. d.table = "object" /\ d.id = o /\ d.n = o /\ e.table = "share" /\ e.id = o
  BY DEF Object, Share, Row
<1>5. R \subseteq Rowset'
  <2>1. e \in Rowset' /\ d \in Rowset'
    BY <1>2, <1>3, NewRows
  <2> QED
    BY <2>1
<1>6. d \in R /\ e \in R /\ \A r \in R : r = d \/ r = e
  OBVIOUS
<1>7. \A r \in db : IsObject(r) => r.n # o
  BY <1>2, OidIsNew
<1>8. o = lastOID + 1
  OBVIOUS
<1> HIDE DEF R, d, e, o, v
<1>9. WholeIn(db \cup R, d)
  BY <1>2, <1>4, <1>6 DEF WholeIn
<1>10. Writable(R, o, d)
  BY <1>4, <1>6 DEF Writable, Of
<1>11. \A r \in R : /\ r.table # "history" /\ (r.table # "attribute" => r.id = o)
                    /\ r.table = "attribute" => kind # "hosts" /\ r.name \in {Names[1], Names[2]}
                    /\ Template(r) = d.n
  BY <1>4, <1>6 DEF Template, IsObject
<1>12. \A r \in db : IsObject(r) => r.n # d.n
  BY <1>4, <1>7
<1>13. NewObject(R, o, d)
  BY <1>1, <1>2, <1>5, <1>9, <1>10, <1>11, <1>12 DEF NewObject
<1> QED
  BY <1>1, <1>8, <1>13, AllocateInv

\* A network is inserted that has to go again: nobody else's rows are touched.
LEMMA RefuseNetworkInv == Inv /\ RefuseNetwork => Inv'
<1> SUFFICES ASSUME Inv, RefuseNetwork PROVE Inv'
  OBVIOUS
<1> DEFINE o == lastOID + 1
           v == version + 1
           a == Attribute(o, "NAME", v)
           d == Object(o, o, v)
           s1 == Write(a, "undo")
           s2 == Write(d, "undo")
           s3 == Clear("attribute", o)
<1>1. /\ kind = "networks" /\ o \in Oids /\ op = "none" /\ op' = "refuse" /\ oid' = o /\ ok' = TRUE
      /\ todo' = <<s1, s2, s3>> /\ version' = version + 1 /\ lastOID' = o /\ dropping' = dropping \cup {o}
      /\ UNCHANGED <<kind, db, cache, lost, context>>
  BY DEF RefuseNetwork, Begin
<1>2. Cached' = Cached /\ kind \in Kinds /\ version \in Nat
  BY <1>1 DEF Cached, Inv, TypeOK
<1>3. Rowset \subseteq Rowset' /\ Columns \subseteq Columns'
  BY <1>1, <1>2, Grows
<1>4. /\ a \in Rowset' /\ a.table = "attribute" /\ a.id = o
      /\ d \in Rowset' /\ d.table = "object" /\ d.id = o
      /\ Row("attribute", o, "", 0, 0) \in Columns'
  <2>1. o \in 0..(MaxOid + (version + 1)) /\ v \in Int
    BY <1>1, <1>2, Constants DEF Oids
  <2>2. Attributes(o, v) \subseteq Rowset' /\ d \in Rowset'
    BY <1>1, <1>2, <2>1, NewRows
  <2>3. Names[1] = "NAME"
    BY <1>1 DEF Names
  <2>4. a \in Attributes(o, v)
    BY <1>2, <2>3, AttributesAre
  <2>5. o \in Numbers /\ 0 \in Numbers
    BY <1>1, <1>2, Constants DEF Numbers, Oids
  <2>6. Row("attribute", o, "", 0, 0) \in Columns
    BY <2>5 DEF Row, Columns
  <2> QED
    BY <1>3, <2>2, <2>4, <2>6 DEF Attribute, Object, Row
<1>5. /\ s1 = [verb |-> "write", row |-> a, if |-> "undo", live |-> FALSE]
      /\ s2 = [verb |-> "write", row |-> d, if |-> "undo", live |-> FALSE]
      /\ s3 = [verb |-> "clear", row |-> Row("attribute", o, "", 0, 0), if |-> "go on", live |-> FALSE]
      /\ s3.row.table = "attribute" /\ s3.row.id = o
  BY DEF Write, Clear, Statement, Row
<1> HIDE DEF s1, s2, s3, a, d, v
<1>6. {s1, s2, s3} \subseteq Statements'
  <2>1. a \in Columns' /\ d \in Columns'
    BY <1>4 DEF Rowset
  <2>2. s1 \in Statements' /\ s2 \in Statements'
    BY <1>4, <1>5, <2>1 DEF Statements
  <2>3. s3 \in Statements'
    BY <1>4, <1>5 DEF Statements
  <2> QED
    BY <2>2, <2>3
<1>7. todo' \in Seq(Statements') /\ Left' = {s1, s2, s3}
  <2>1. todo' \in Seq(Statements')
    BY <1>1, <1>6
  <2>2. Elements(<<s1, s2, s3>>) = {s1, s2, s3}
    BY DEF Elements
  <2> QED
    BY <1>1, <2>1, <2>2 DEF Left, Elements
<1>8. /\ \A r \in db : IsObject(r) => r.id # o /\ r.id <= o
      /\ o \notin Cached /\ \A p \in Cached : p <= o
  <2>1. lastOID \in Oids \cup {-1} /\ MaxOid \in Nat
    BY Constants DEF Inv, TypeOK
  <2>2. \A r \in db : IsObject(r) => r.id \in Oids /\ r.id <= lastOID
    BY DEF Inv, TypeOK, Rowset, IsObject, BelowLast
  <2>3. \A p \in Cached : p \in Oids /\ p <= lastOID
    BY DEF Inv, TypeOK, BelowLast
  <2>4. \A x \in Oids : x <= lastOID => x # o /\ x <= o
    BY <2>1 DEF Oids
  <2> QED
    BY <2>2, <2>3, <2>4
<1> HIDE DEF o
<1>9. TypeOK'
  BY <1>1, <1>2, <1>3, <1>7 DEF Inv, TypeOK
<1>10. Keys' /\ Known' /\ BelowLast'
  BY <1>1, <1>2, <1>8, Kept DEF Inv, Keys, Known, Knowledge, BelowLast, IsObject
<1>11. Task'
  <2>1. \A s \in Left' : Refuses(s)' /\ ~s.live
    <3> TAKE s \in Left'
    <3>1. s = s1 \/ s = s2 \/ s = s3
      BY <1>7
    <3>2. /\ ~s.live /\ s.row.id = o
          /\ \/ s.verb = "write" /\ s.if = "undo" /\ s.row.table \in {"object", "attribute"}
             \/ s.verb = "clear" /\ s.if = "go on" /\ s.row.table = "attribute"
      <4>1. CASE s = s1
        <5>1. s.row = a
          BY <1>5, <4>1
        <5> QED
          BY <1>4, <1>5, <4>1, <5>1
      <4>2. CASE s = s2
        <5>1. s.row = d
          BY <1>5, <4>2
        <5> QED
          BY <1>4, <1>5, <4>2, <5>1
      <4>3. CASE s = s3
        BY <1>5, <4>3
      <4> QED
        BY <3>1, <4>1, <4>2, <4>3
    <3> QED
      BY <1>1, <3>2 DEF Refuses
  <2>2. \A i \in 1..(Len(todo') - 1) : IsObject(todo'[i].row) => Followed(i)'
    <3> TAKE i \in 1..(Len(todo') - 1)
    <3>1. Len(todo') = 3 /\ todo'[1] = s1 /\ todo'[3] = s3
      BY <1>1
    <3>2. i = 1 \/ i = 2
      BY <3>1
    <3>3. ~IsObject(s1.row) /\ s3.verb = "clear"
      BY <1>4, <1>5 DEF IsObject
    <3>4. i = 2 => i + 1 = Len(todo') /\ todo'[i + 1].verb = "clear"
      BY <3>1, <3>3
    <3> QED
      BY <1>1, <3>1, <3>2, <3>3, <3>4 DEF Followed
  <2>3. ~ObjectInDb(oid)'
    BY <1>1, <1>8 DEF ObjectInDb, IsObject
  <2> QED
    BY <1>1, <1>2, <1>8, <2>1, <2>2, <2>3 DEF Task, IsObject
<1>12. Whole'
  <2>1. \A r \in db : IsObject(r) /\ r.id \notin dropping' => r.id \notin dropping
    BY <1>1
  <2>2. \A s \in Left' : s.row.id \in dropping'
    <3>1. s1.row = a /\ s2.row = d
      BY <1>5
    <3> QED
      BY <1>1, <1>4, <1>5, <1>7, <3>1
  <2> QED
    BY <1>1, <2>1, <2>2, Kept DEF Inv, Whole, IsObject
<1>13. Written'
  BY <1>1, <1>2, Kept DEF Inv, Written
<1>14. Contexts'
  BY <1>1, ContextsKept DEF Inv
<1> QED
  BY <1>9, <1>10, <1>11, <1>12, <1>13, <1>14 DEF Inv

-----------------------------------------------------------------------------
(* What is rewritten                                                       *)

LEMMA RewriteKeyed ==
  ASSUME NEW A, NEW N, Keyed(A), Keyed(N)
  PROVE  Keyed(Rewrite(A, N))
<1> SUFFICES ASSUME NEW r \in Rewrite(A, N), NEW s \in Rewrite(A, N), Replaces(r, s)
             PROVE  r = s
  BY DEF Keyed
<1>1. Replaces(s, r)
  BY ReplacesIs
<1>2. r \in A \/ r \in N
  BY DEF Rewrite
<1>3. s \in A \/ s \in N
  BY DEF Rewrite
<1>4. r \in N \/ \A n \in N : ~Replaces(n, r)
  BY DEF Rewrite
<1>5. s \in N \/ \A n \in N : ~Replaces(n, s)
  BY DEF Rewrite
<1> QED
  BY <1>1, <1>2, <1>3, <1>4, <1>5 DEF Keyed

\* The rows written are those of the object.
LEMMA WritesRows ==
  ASSUME NEW R, NEW o, NEW d, NEW if, Writable(R, o, d),
         \A r \in R : /\ r.table \in {"object", "share", "attribute"}
                      /\ r.id = IF r.table = "attribute" THEN d.n ELSE o
  PROVE  /\ \A s \in PartWrites(R, o, d) :
              /\ s.verb = "write" /\ ~s.live /\ s.row \in R /\ ~IsObject(s.row)
              /\ s.if = IF s.row.table = "share" THEN "abort" ELSE "undo"
         /\ d \in R /\ IsObject(d) /\ d.id = o
         /\ {s.row : s \in PartWrites(R, o, d) \cup {Write(d, if)}} = R
<1> DEFINE L == PartWrites(R, o, d) \cup {Write(d, if)}
<1>1. \A s \in PartWrites(R, o, d) :
              /\ s.verb = "write" /\ ~s.live /\ s.row \in R /\ ~IsObject(s.row)
              /\ s.if = IF s.row.table = "share" THEN "abort" ELSE "undo"
  BY DEF PartWrites, Write, Statement, Of, IsObject
<1>2. d \in R /\ IsObject(d) /\ d.id = o
  BY DEF Writable, Of, IsObject
<1>3. \A s \in L : s.row \in R
  BY <1>1, <1>2 DEF Write, Statement
<1>4. ASSUME NEW r \in R PROVE \E s \in L : r = s.row
  <2>1. CASE r.table = "object"
    <3>1. r = d
      BY <2>1 DEF Writable, Of
    <3>2. Write(d, if) \in L /\ Write(d, if).row = d
      BY DEF Write, Statement
    <3> QED
      BY <3>1, <3>2
  <2>2. CASE r.table = "share"
    <3>1. Write(r, "abort") \in L /\ Write(r, "abort").row = r
      BY <2>2 DEF PartWrites, Of, Write, Statement
    <3> QED
      BY <3>1
  <2>3. CASE r.table = "attribute"
    <3>1. Write(r, "undo") \in L /\ Write(r, "undo").row = r
      BY <2>3 DEF PartWrites, Of, Write, Statement
    <3> QED
      BY <3>1
  <2> QED
    BY <2>1, <2>2, <2>3
<1> QED
  BY <1>1, <1>2, <1>3, <1>4

\* A host is read from the rows that have its oid.
LEMMA SelectHostIs ==
  ASSUME kind = "hosts", NEW A, NEW C, NEW o, \A r \in A : r.id = o => r \in C, C \subseteq A,
         \A r \in C : r.id = o /\ r.table \in {"object", "share", "attribute"},
         \E r \in C : r.table = "object", \E r \in C : r.table = "share"
  PROVE  Select(A, o) = C
<1>1. /\ Of(A, "object", o) = {r \in C : r.table = "object"}
      /\ Of(A, "share", o) = {r \in C : r.table = "share"}
      /\ Of(A, "attribute", o) = {r \in C : r.table = "attribute"}
  BY DEF Of
<1>2. Of(A, "object", o) # {} /\ Of(A, "share", o) # {}
  BY <1>1
<1>3. Select(A, o) = Of(A, "object", o) \cup Of(A, "attribute", o) \cup Of(A, "share", o)
  BY <1>2 DEF Select, SelectHost, ObjectOf, ShareOf, TemplateOf
<1> QED
  BY <1>1, <1>3

\* A host changes, and is written.
LEMMA UpdateHostInv ==
  ASSUME Inv, NEW o \in Oids, UpdateHost(o)
  PROVE  Inv'
<1> DEFINE v == version + 1
           C == cache'[o]
<1>1. PICK new \in { {Share(o, v)}, {Object(o, o, v), Share(o, v)} \cup Attributes(o, v) } :
        Knows(o, new) /\ Begin("update", o, Writes(C, o, "abort"))
  BY DEF UpdateHost
<1>2. /\ kind = "hosts" /\ o \in Cached /\ op = "none" /\ op' = "update" /\ oid' = o /\ ok' = TRUE
      /\ todo' = Writes(C, o, "abort") /\ version' = v
      /\ UNCHANGED <<kind, db, lastOID, lost, dropping, context>>
      /\ cache' = [cache EXCEPT ![o] = Rewrite(@, new)]
  BY <1>1 DEF UpdateHost, Begin, Knows, Rewrite, tables
<1>3. /\ Cached' = Cached /\ C = Rewrite(cache[o], new)
      /\ \A p \in Cached : p # o => cache'[p] = cache[p]
  BY <1>2 DEF Cached, Inv, TypeOK
<1>4. /\ kind \in Kinds /\ version \in Nat /\ v \in Int /\ o \in 0..(MaxOid + (version + 1))
      /\ cache[o] \subseteq Rowset /\ Keyed(cache[o]) /\ Rowset \subseteq Rowset'
  <2>1. kind \in Kinds /\ version \in Nat /\ cache[o] \subseteq Rowset /\ Keyed(cache[o])
    BY <1>2 DEF Inv, TypeOK, Keys
  <2>2. o \in 0..(MaxOid + (version + 1)) /\ v \in Int
    BY <2>1, Constants DEF Oids
  <2>3. Rowset \subseteq Rowset'
    BY <1>2, <2>1, Grows
  <2> QED
    BY <2>1, <2>2, <2>3
<1>5. /\ \A r \in new : r.id = o /\ r.table \in {"object", "share", "attribute"}
      /\ \A r \in new : IsObject(r) => r = Object(o, o, v)
      /\ Share(o, v) \in new
      /\ Keyed(new) /\ new \subseteq Rowset'
  <2>1. /\ \A r \in Attributes(o, v) : r.table = "attribute" /\ r.id = o /\ r.value = v
                                     /\ r.name \in {Names[1], Names[2]}
        /\ \A r, s \in Attributes(o, v) : r.name = s.name => r = s
    BY <1>4, TemplateOfNew
  <2>2. Attributes(o, v) \subseteq Rowset' /\ Object(o, o, v) \in Rowset' /\ Share(o, v) \in Rowset'
    BY <1>2, <1>4, NewRows
  <2>3. /\ Object(o, o, v).table = "object" /\ Object(o, o, v).id = o
        /\ Share(o, v).table = "share" /\ Share(o, v).id = o
    BY DEF Object, Share, Row
  <2>4. /\ Share(o, v) \in new
        /\ \A r \in new : r \in {Object(o, o, v), Share(o, v)} \cup Attributes(o, v)
    BY <1>1
  <2>5. \A r, s \in new : Replaces(r, s) => r = s
    <3> TAKE r \in new, s \in new
    <3> HAVE Replaces(r, s)
    <3>1. r.table = s.table /\ (r.table = "attribute" => r.name = s.name)
      BY ReplacesIs
    <3> QED
      BY <2>1, <2>3, <2>4, <3>1
  <2> QED
    BY <2>1, <2>2, <2>3, <2>4, <2>5 DEF Keyed, IsObject
<1>6. PICK was \in cache[o] :
        /\ IsObject(was)
        /\ \A r \in cache[o] : r.id = IF r.table = "attribute" THEN was.n ELSE o
        /\ \A r \in db : r.id = o => \E s \in cache[o] : Replaces(s, r)
  BY <1>2 DEF Inv, Known, Knowledge
<1>7. was.n = o /\ \A r \in cache[o] : r.id = o /\ r.table \in {"object", "share", "attribute"}
  <2>1. was.n = was.id /\ was.id = o
    BY <1>2, <1>4, <1>6 DEF Rowset, IsObject
  <2> QED
    BY <1>2, <1>4, <1>6, <2>1 DEF Rowset, Columns
<1> HIDE DEF C
<1>8. /\ C \subseteq Rowset' /\ Keyed(C) /\ Share(o, v) \in C /\ Share(o, v).table = "share"
      /\ \A r \in C : r.id = o /\ r.table \in {"object", "share", "attribute"}
  <2>1. C \subseteq cache[o] \cup new /\ new \subseteq C
    BY <1>3 DEF Rewrite
  <2>2. Share(o, v).table = "share"
    BY DEF Share, Row
  <2> QED
    BY <1>3, <1>4, <1>5, <1>7, <2>1, <2>2, RewriteKeyed
<1>9. PICK d \in C : IsObject(d)
  <2>1. CASE \E n \in new : Replaces(n, was)
    BY <1>3, <1>6, <2>1, ReplacesIs DEF Rewrite, IsObject
  <2>2. CASE ~\E n \in new : Replaces(n, was)
    BY <1>3, <1>6, <2>2 DEF Rewrite
  <2> QED
    BY <2>1, <2>2
<1>10. d.n = o /\ d.id = o
  BY <1>2, <1>8, <1>9 DEF Rowset, IsObject
<1>11. \A r \in db : r.id = o => \E s \in C : Replaces(s, r)
  <2> TAKE r \in db
  <2> HAVE r.id = o
  <2>1. PICK s \in cache[o] : Replaces(s, r)
    BY <1>6
  <2>2. CASE \E n \in new : Replaces(n, s)
    <3>1. PICK n \in new : Replaces(n, s)
      BY <2>2
    <3>2. Replaces(n, r)
      BY <2>1, <3>1, ReplacesIs
    <3> QED
      BY <1>3, <3>2 DEF Rewrite
  <2>3. CASE ~\E n \in new : Replaces(n, s)
    BY <1>3, <2>1, <2>3 DEF Rewrite
  <2> QED
    BY <2>2, <2>3
<1>12. Writable(C, o, d)
  <2>1. \A r \in Of(C, "object", o) : r = d
    BY <1>8, <1>9, <1>10, ReplacesIs DEF Keyed, Of, IsObject
  <2>2. Of(C, "object", o) = {d}
    BY <1>9, <1>10, <2>1 DEF Of, IsObject
  <2>3. Names' = Names
    BY <1>2, Kept
  <2>4. \A r \in Of(C, "attribute", o) : r.name \in {Names[1], Names[2]}
    BY <1>2, <1>8, <2>3 DEF Of, Rowset
  <2>5. /\ \A r, s \in Of(C, "attribute", o) : r.name = s.name => r = s
        /\ \A r, s \in Of(C, "share", o) : r = s
    BY <1>2, <1>8, ReplacesIs DEF Keyed, Of
  <2> QED
    BY <1>10, <2>2, <2>4, <2>5 DEF Writable
<1> DEFINE parts == PartWrites(C, o, d)
           last == Write(d, "abort")
<1>13. /\ \A s \in parts : /\ s.verb = "write" /\ ~s.live /\ s.row \in C /\ ~IsObject(s.row)
                           /\ s.if = IF s.row.table = "share" THEN "abort" ELSE "undo"
       /\ {s.row : s \in parts \cup {last}} = C
       /\ last.verb = "write" /\ ~last.live /\ last.row = d /\ last.if = "abort"
  <2>1. \A r \in C : r.id = IF r.table = "attribute" THEN d.n ELSE o
    BY <1>8, <1>10
  <2>2. last.verb = "write" /\ ~last.live /\ last.row = d /\ last.if = "abort"
    BY DEF Write, Statement
  <2> QED
    BY <1>8, <1>12, <2>1, <2>2, WritesRows
<1>14. \A r \in C, i \in {"undo", "abort"} : Write(r, i) \in Statements'
  <2>1. \A r \in C : r \in Columns' /\ r \in Rowset'
    BY <1>8 DEF Rowset
  <2> QED
    BY <2>1 DEF Write, Statement, Statements
<1>15. /\ todo' \in Seq(Statements') /\ Left' = parts \cup {last}
       /\ \A i \in 1..(Len(todo') - 1) : ~IsObject(todo'[i].row)
  <2> HIDE DEF parts, last
  <2>1. PICK S : S = Statements'
    OBVIOUS
  <2>2. CanWrite(C, S)
    BY <1>14, <2>1 DEF CanWrite
  <2>3. /\ Writes(C, o, "abort") \in Seq(S)
        /\ Elements(Writes(C, o, "abort")) = PartWrites(C, o, d) \cup {Write(d, "abort")}
        /\ \A i \in 1..(Len(Writes(C, o, "abort")) - 1) :
             Writes(C, o, "abort")[i] \in PartWrites(C, o, d)
    BY <1>4, <1>12, <2>2, WritesAre
  <2>4. /\ todo' \in Seq(Statements') /\ Elements(todo') = parts \cup {last}
        /\ \A i \in 1..(Len(todo') - 1) : todo'[i] \in parts
    BY <1>2, <2>1, <2>3 DEF parts, last
  <2> QED
    BY <1>13, <2>4 DEF Left, Elements
<1> HIDE DEF parts, last
<1>16. \A s \in Left' : s.verb = "write" /\ ~s.live /\ s.row \in C /\ s.if \in {"undo", "abort"}
                        /\ (s.if = "undo" => s.row.table = "attribute")
  <2>1. \A s \in parts : s.row.table \in {"object", "share", "attribute"} /\ s.row.table # "object"
    BY <1>8, <1>13 DEF IsObject
  <2> QED
    BY <1>9, <1>13, <1>15, <2>1
<1>17. Due' = C /\ {s.row : s \in Left'} = C
  <2>1. {s \in Left' : s.verb = "write" /\ ~s.live} = parts \cup {last}
    BY <1>15, <1>16
  <2> QED
    BY <1>13, <1>15, <2>1 DEF Due
<1>18. TypeOK'
  <2>1. cache' \in [Cached' -> SUBSET Rowset']
    BY <1>2, <1>3, <1>4, <1>8 DEF Inv, TypeOK, C
  <2> QED
    BY <1>2, <1>3, <1>4, <1>15, <2>1 DEF Inv, TypeOK
<1>19. Keys'
  <2>1. \A p \in Cached : Keyed(cache'[p])
    BY <1>3, <1>8 DEF Inv, Keys, C
  <2> QED
    BY <1>2, <1>3, <2>1, Kept DEF Inv, Keys, IsObject
<1>20. Known'
  <2>1. ASSUME NEW p \in Cached, p # o PROVE Knowledge(p)'
    BY <1>2, <1>3, <2>1, Kept DEF Inv, Known, Knowledge, IsObject
  <2>2. Knowledge(o)'
    BY <1>2, <1>8, <1>9, <1>10, <1>11, Kept DEF Knowledge, IsObject, C
  <2> QED
    BY <1>3, <2>1, <2>2 DEF Known
<1>21. BelowLast'
  BY <1>2, <1>3 DEF Inv, BelowLast, IsObject
<1>22. Task'
  <2>1. \A s \in Left' : Updates(s)'
    BY <1>2, <1>16 DEF Updates, C
  <2> QED
    BY <1>2, <1>3, <1>15, <1>16, <2>1 DEF Task, IsObject
<1>23. Whole'
  <2>1. ASSUME NEW s \in Left' PROVE WholeIn(db \cup C, s.row)
    BY <1>2, <1>8, <1>16 DEF WholeIn
  <2> QED
    BY <1>2, <1>17, <2>1, Kept DEF Inv, Whole, IsObject
<1>24. Written'
  <2>1. ASSUME NEW p \in Cached \ lost, p # o
        PROVE  Select(db, p) = cache'[p]
    BY <1>2, <1>3, <2>1 DEF Inv, Written
  <2>2. Select(Rewrite(db, C), o) = C
    <3>1. \A r \in Rewrite(db, C) : r.id = o => r \in C
      BY <1>11 DEF Rewrite
    <3>2. C \subseteq Rewrite(db, C)
      BY DEF Rewrite
    <3> QED
      BY <1>2, <1>8, <1>9, <3>1, <3>2, SelectHostIs DEF IsObject
  <2> QED
    BY <1>2, <1>3, <1>17, <2>1, <2>2, Kept DEF Written, C
<1>25. Contexts'
  BY <1>2, ContextsKept DEF Inv
<1> QED
  BY <1>18, <1>19, <1>20, <1>21, <1>22, <1>23, <1>24, <1>25 DEF Inv

-----------------------------------------------------------------------------
(* The history that is rewritten                                           *)

LEMMA LastUnique ==
  ASSUME NEW A, NEW o, NEW r \in Records(A, o),
         \A s \in Records(A, o) : s.n \in Nat /\ s.n <= r.n /\ (s.n = r.n => s = r)
  PROVE  LastRecord(A, o) = r
<1> DEFINE last == CHOOSE t \in Records(A, o) : \A s \in Records(A, o) : s.n <= t.n
<1>1. last \in Records(A, o) /\ \A s \in Records(A, o) : s.n <= last.n
  OBVIOUS
<1> HIDE DEF last
<1>2. last.n <= r.n /\ r.n <= last.n /\ last.n \in Nat /\ r.n \in Nat
  BY <1>1
<1>3. last.n = r.n
  BY <1>2
<1>4. last = r
  BY <1>1, <1>3
<1> QED
  BY <1>4 DEF last, LastRecord

\* The records of a VM after some of them are written.
LEMMA RecordsOfRewrite ==
  ASSUME kind = "vms", NEW A, NEW N, NEW o, \A n \in N : n.id = o
  PROVE  Records(Rewrite(A, N), o) =
           {r \in Records(A, o) : \A n \in N : n.table = "history" => n.n # r.n} \cup
           {n \in N : n.table = "history"}
<1>1. \A r \in Records(A, o), n \in N : Replaces(n, r) <=> n.table = "history" /\ n.n = r.n
  BY ReplacesIs DEF Records, Of
<1>2. \A r : r \in Records(Rewrite(A, N), o) <=>
               \/ r \in Records(A, o) /\ \A n \in N : ~Replaces(n, r)
               \/ r \in N /\ r.table = "history"
  BY DEF Records, Of, Rewrite
<1> QED
  BY <1>1, <1>2

\* It makes no difference whether records that are read are written before
\* or after.
LEMMA RecordsRewritten ==
  ASSUME kind \in Kinds, kind = "vms", version \in Nat, NEW A \in SUBSET Rowset, Keyed(A),
         NEW o \in Oids, NEW N, Keyed(N),
         \A n \in N : /\ n.id = o
                      /\ n.table = "history" => \E c \in SelectRecords(A, o) : c.n = n.n
  PROVE  SelectRecords(Rewrite(A, N), o) =
           {r \in SelectRecords(A, o) : \A n \in N : n.table = "history" => n.n # r.n} \cup
           {n \in N : n.table = "history"}
<1> DEFINE H == {n \in N : n.table = "history"}
           B == Rewrite(A, N)
           S == SelectRecords(A, o)
           T == {r \in S : \A n \in N : n.table = "history" => n.n # r.n} \cup H
           last == LastRecord(A, o)
           previous == {r \in Records(A, o) : r.n = last.n - 1}
<1>1. Records(B, o) = {r \in Records(A, o) : \A n \in N : n.table = "history" => n.n # r.n} \cup H
  BY RecordsOfRewrite
<1>2. CASE Records(A, o) = {}
  <2>1. S = {}
    BY <1>2 DEF SelectRecords
  <2>2. H = {} /\ T = {}
    BY <2>1
  <2>3. Records(B, o) = {}
    BY <1>1, <1>2, <2>2
  <2> QED
    BY <2>2, <2>3 DEF SelectRecords
<1>3. CASE Records(A, o) # {}
  <2>1. last \in Records(A, o) /\ \A s \in Records(A, o) : s.n \in Nat /\ s.n <= last.n
    BY <1>3, LastIs DEF Rowset
  <2>2. S = {last} \cup
              IF last.n = 0 THEN {}
              ELSE IF previous = {} THEN {Record(o, last.n - 1, -1)} ELSE previous
    BY <1>3 DEF SelectRecords
  <2> DEFINE before == Record(o, last.n - 1, -1)
  <2>3. before.n = last.n - 1
    BY DEF Record, Row
  <2>4. \A r, s \in Records(A, o) : r.n = s.n => r = s
    BY ReplacesIs DEF Keyed, Records, Of
  <2>5. \A r, s \in Records(B, o) : r.n = s.n => r = s
    <3>1. Keyed(B)
      BY RewriteKeyed
    <3> HIDE DEF B
    <3> QED
      BY <3>1, ReplacesIs DEF Keyed, Records, Of
  <2> HIDE DEF last, B
  <2>6. last.n \in Nat /\ last.n - 1 # last.n /\ last.n - 1 <= last.n /\ (last.n # 0 => last.n - 1 \in Nat)
    BY <2>1
  <2>7. \A c \in S : c.n = last.n \/ (last.n # 0 /\ c.n = last.n - 1)
    <3> HIDE DEF before
    <3> QED
      BY <2>2, <2>3 DEF before
  <2>8. \A n \in H : n.n = last.n \/ (last.n # 0 /\ n.n = last.n - 1)
    BY <2>7
  <2> HIDE DEF S
  <2>9. PICK l \in Records(B, o) : l.n = last.n
    <3>1. CASE \E n \in H : n.n = last.n
      BY <1>1, <3>1
    <3>2. CASE ~\E n \in H : n.n = last.n
      BY <1>1, <2>1, <3>2
    <3> QED
      BY <3>1, <3>2
  <2>10. \A s \in Records(B, o) : s.n \in Nat /\ s.n <= l.n
    <3>1. \A s \in H : s.n \in Nat /\ s.n <= last.n
      BY <2>6, <2>8
    <3> QED
      BY <1>1, <2>1, <2>9, <3>1
  <2>11. LastRecord(B, o) = l
    BY <2>5, <2>10, LastUnique
  <2> DEFINE rest == {r \in Records(B, o) : r.n = last.n - 1}
  <2>12. SelectRecords(B, o) =
           {l} \cup IF last.n = 0 THEN {} ELSE IF rest = {} THEN {before} ELSE rest
    <3>1. Records(B, o) # {}
      BY <2>9
    <3> QED
      BY <2>9, <2>11, <3>1 DEF SelectRecords
  <2>13. \A r \in T : r.n = last.n \/ (last.n # 0 /\ r.n = last.n - 1)
    BY <2>7, <2>8
  <2>14. l \in T /\ \A r \in T : r.n = last.n => r = l
    <3>1. l \in T
      BY <1>1, <2>2, <2>4, <2>1, <2>9 DEF S
    <3>2. ASSUME NEW r \in T, r.n = last.n PROVE r = l
      <4>1. r \in Records(B, o)
        <5>1. CASE r \in H
          BY <1>1, <5>1
        <5>2. CASE r \notin H
          <6>1. r \in S /\ \A n \in N : n.table = "history" => n.n # r.n
            BY <3>2, <5>2
          <6>2. r = last
            BY <2>2, <2>3, <2>6, <3>2, <6>1 DEF S
          <6> QED
            BY <1>1, <2>1, <6>1, <6>2
        <5> QED
          BY <5>1, <5>2
      <4> QED
        BY <2>5, <2>9, <3>2, <4>1
    <3> QED
      BY <3>1, <3>2
  <2>15. ASSUME last.n # 0
         PROVE  {r \in T : r.n = last.n - 1} = IF rest = {} THEN {before} ELSE rest
    <3>1. CASE \E h \in H : h.n = last.n - 1
      <4>1. PICK h \in H : h.n = last.n - 1
        BY <3>1
      <4>2. h \in rest /\ \A r \in rest : r = h
        BY <1>1, <2>5, <4>1
      <4>3. h \in T /\ \A r \in T : r.n = last.n - 1 => r = h
        <5>1. \A r \in T : r \in H \/ \A n \in N : n.table = "history" => n.n # r.n
          OBVIOUS
        <5>2. \A r \in T : r.n = last.n - 1 => r \in H
          BY <4>1, <5>1
        <5> QED
          BY <1>1, <2>5, <4>1, <5>2
      <4> HIDE DEF T, rest
      <4> QED
        BY <4>1, <4>2, <4>3
    <3>2. CASE ~\E h \in H : h.n = last.n - 1
      <4>1. rest = previous
        BY <1>1, <3>2
      <4>2. {r \in T : r.n = last.n - 1} = {r \in S : r.n = last.n - 1}
        BY <3>2
      <4>3. {r \in S : r.n = last.n - 1} = IF previous = {} THEN {before} ELSE previous
        <5>1. S = {last} \cup (IF previous = {} THEN {before} ELSE previous)
          BY <2>2, <2>15 DEF S
        <5>2. \A r \in (IF previous = {} THEN {before} ELSE previous) : r.n = last.n - 1
          BY <2>3
        <5> HIDE DEF before, previous
        <5> QED
          BY <2>6, <5>1, <5>2
      <4> HIDE DEF T, rest, previous, before
      <4> QED
        BY <4>1, <4>2, <4>3
    <3> QED
      BY <3>1, <3>2
  <2> HIDE DEF T, rest, before
  <2>16. T = SelectRecords(B, o)
    <3>1. CASE last.n = 0
      <4>1. T = {l}
        BY <2>13, <2>14, <3>1
      <4> QED
        BY <2>12, <3>1, <4>1
    <3>2. CASE last.n # 0
      <4>1. T = {l} \cup {r \in T : r.n = last.n - 1}
        BY <2>13, <2>14, <2>6
      <4> QED
        BY <2>12, <2>15, <3>2, <4>1
    <3> QED
      BY <3>1, <3>2
  <2> QED
    BY <2>16 DEF T, B, S
<1> QED
  BY <1>2, <1>3

-----------------------------------------------------------------------------
(* The operations on a virtual machine                                     *)

\* A VM in memory has a row, and this one is in the database, perhaps with
\* another value.
LEMMA VmKnows ==
  ASSUME Inv, kind = "vms", NEW o \in Cached
  PROVE  /\ cache[o] \subseteq Rowset /\ Keyed(cache[o]) /\ o \in Oids
         /\ \E d \in cache[o] :
              /\ IsObject(d) /\ d.id = o
              /\ Of(cache[o], "object", o) = {d} /\ The(Of(cache[o], "object", o)) = d
              /\ \A r \in cache[o] : r.id = IF r.table = "attribute" THEN d.n ELSE o
              /\ \E r \in db : IsObject(r) /\ r.id = o /\ r.n = d.n
<1>1. cache[o] \subseteq Rowset /\ Keyed(cache[o]) /\ o \in Oids
  BY DEF Inv, TypeOK, Keys
<1>2. PICK d \in cache[o] :
        /\ IsObject(d)
        /\ \A r \in cache[o] : r.id = IF r.table = "attribute" THEN d.n ELSE o
        /\ \E r \in db : IsObject(r) /\ r.id = o /\ r.n = d.n
  BY DEF Inv, Known, Knowledge
<1>3. d.id = o
  BY <1>2 DEF IsObject
<1>4. Of(cache[o], "object", o) = {d} /\ The(Of(cache[o], "object", o)) = d
  BY <1>1, <1>2, <1>3, OneObject
<1> QED
  BY <1>1, <1>2, <1>3, <1>4

\* The VM knows C next, its row was d and is e, and C will be read once the
\* statements are executed.
VmUpdate(o, C, d, e) ==
  /\ kind = "vms" /\ o \in Cached /\ op = "none"
  /\ op' = "update" /\ oid' = o /\ ok' = TRUE /\ version' = version + 1
  /\ UNCHANGED <<kind, db, lastOID, lost, dropping, context>>
  /\ cache' = [cache EXCEPT ![o] = C] /\ C \subseteq Rowset' /\ Keyed(C)
  /\ d \in cache[o] /\ e \in C /\ IsObject(d) /\ IsObject(e) /\ e.n = d.n
  /\ \A r \in C : r.id = IF r.table = "attribute" THEN e.n ELSE o
  /\ todo' \in Seq(Statements') /\ \A s, t \in Left' : Updates(s)' /\ (s.live => t.live)
  /\ o \notin lost => Select(Rewrite(db, Due'), o) = C

LEMMA VmUpdateInv ==
  ASSUME Inv, NEW o, NEW C, NEW d, NEW e, VmUpdate(o, C, d, e)
  PROVE  Inv'
<1>0. /\ kind = "vms" /\ o \in Cached /\ op = "none"
      /\ op' = "update" /\ oid' = o /\ ok' = TRUE /\ version' = version + 1
      /\ UNCHANGED <<kind, db, lastOID, lost, dropping, context>>
      /\ cache' = [cache EXCEPT ![o] = C] /\ C \subseteq Rowset' /\ Keyed(C)
      /\ d \in cache[o] /\ e \in C /\ IsObject(d) /\ IsObject(e) /\ e.n = d.n
      /\ \A r \in C : r.id = IF r.table = "attribute" THEN e.n ELSE o
      /\ todo' \in Seq(Statements') /\ \A s, t \in Left' : Updates(s)' /\ (s.live => t.live)
      /\ o \notin lost => Select(Rewrite(db, Due'), o) = C
  BY DEF VmUpdate
<1>1. /\ Cached' = Cached /\ cache'[o] = C
      /\ \A p \in Cached : p # o => cache'[p] = cache[p]
  BY <1>0 DEF Cached, Inv, TypeOK
<1>2. /\ kind \in Kinds /\ version \in Nat /\ cache[o] \subseteq Rowset /\ Keyed(cache[o])
      /\ Rowset \subseteq Rowset' /\ dropping = {} /\ o \in Oids
  <2>1. /\ kind \in Kinds /\ version \in Nat /\ cache[o] \subseteq Rowset /\ Keyed(cache[o])
        /\ dropping = {} /\ o \in Oids
    BY <1>0 DEF Inv, TypeOK, Keys
  <2>2. Rowset \subseteq Rowset'
    BY <1>0, <2>1, Grows
  <2> QED
    BY <1>0, <2>1, <2>2
<1>3. PICK r \in db : IsObject(r) /\ r.id = o /\ r.n = d.n
  <2>1. PICK c \in cache[o] :
          /\ Of(cache[o], "object", o) = {c}
          /\ \A r \in cache[o] : r.id = IF r.table = "attribute" THEN c.n ELSE o
          /\ \E r \in db : IsObject(r) /\ r.id = o /\ r.n = c.n
    BY <1>0, VmKnows
  <2>2. d.id = o
    BY <1>0, <2>1 DEF IsObject
  <2>3. c = d
    BY <1>0, <2>1, <2>2 DEF Of, IsObject
  <2> QED
    BY <1>0, <2>1, <2>3
<1>4. TypeOK'
  <2>1. cache' \in [Cached' -> SUBSET Rowset']
    BY <1>0, <1>1, <1>2 DEF Inv, TypeOK
  <2> QED
    BY <1>0, <1>1, <1>2, <2>1 DEF Inv, TypeOK
<1>5. Keys'
  <2>1. \A p \in Cached : Keyed(cache'[p])
    BY <1>0, <1>1 DEF Inv, Keys
  <2> QED
    BY <1>0, <1>1, <2>1, Kept DEF Inv, Keys, IsObject
<1>6. Known'
  <2>1. ASSUME NEW p \in Cached, p # o PROVE Knowledge(p)'
    BY <1>0, <1>1, <2>1, Kept DEF Inv, Known, Knowledge, IsObject
  <2>2. Knowledge(o)'
    BY <1>0, <1>1, <1>3 DEF Knowledge, IsObject
  <2> QED
    BY <1>0, <1>1, <2>1, <2>2 DEF Known
<1>7. BelowLast'
  BY <1>0, <1>1 DEF Inv, BelowLast, IsObject
<1>8. Task'
  <2>1. \A i \in 1..(Len(todo') - 1) : Followed(i)'
    BY <1>0 DEF Followed
  <2> QED
    BY <1>0, <1>1, <2>1 DEF Task
<1>9. Whole'
  <2> DEFINE all == db \cup {t.row : t \in Left'}
  <2>1. ASSUME NEW s \in Left', s.verb = "write", IsObject(s.row)
        PROVE  WholeIn(all, s.row)
    <3>1. s.row \in C
      BY <1>0, <1>1, <2>1 DEF Updates, IsObject
    <3>2. s.row.n = d.n
      <4>1. s.row.id = o /\ e.id = o
        BY <1>0, <2>1, <3>1 DEF IsObject
      <4>2. s.row = e
        BY <1>0, <2>1, <3>1, <4>1, ReplacesIs DEF Keyed, IsObject
      <4> QED
        BY <1>0, <4>2
    <3>3. PICK v \in Int : {a \in Of(db, "attribute", d.n) : a.name \notin {"POLLED", "CONTEXT"}} =
                          Attributes(d.n, v)
      BY <1>0, <1>2, <1>3 DEF Inv, Whole, WholeIn
    <3>4. \A t \in Left' : t.row.table = "attribute" => t.row.name \in {"POLLED", "CONTEXT"}
      BY <1>0 DEF Updates
    <3>5. {a \in Of(all, "attribute", d.n) : a.name \notin {"POLLED", "CONTEXT"}} =
          {a \in Of(db, "attribute", d.n) : a.name \notin {"POLLED", "CONTEXT"}}
      BY <1>0, <3>4 DEF Of
    <3> QED
      BY <1>0, <3>2, <3>3, <3>5 DEF WholeIn
  <2> QED
    BY <1>0, <2>1, Kept DEF Inv, Whole, IsObject
<1>10. Written'
  <2>1. ASSUME NEW p \in Cached \ lost, p # o
        PROVE  Select(db, p) = cache'[p]
    BY <1>0, <1>1, <2>1 DEF Inv, Written
  <2> QED
    BY <1>0, <1>1, <2>1, Kept DEF Written
<1>11. Contexts'
  BY <1>0, ContextsKept DEF Inv
<1> QED
  BY <1>0, <1>4, <1>5, <1>6, <1>7, <1>8, <1>9, <1>10, <1>11 DEF Inv

\* An attribute that was polled is replaced.
LEMMA ReplaceInv ==
  ASSUME Inv, NEW o \in Oids, Replace(o)
  PROVE  Inv'
<1> DEFINE id == The(Of(cache[o], "object", o)).n
           old == {r \in Of(cache[o], "attribute", id) : r.name = "POLLED"}
           new == Attribute(id, "POLLED", version + 1)
           erase == IF old = {} THEN <<>> ELSE <<Statement("erase", The(old), "abort", TRUE)>>
           write == Statement("write", new, "abort", TRUE)
<1>1. /\ kind = "vms" /\ o \in Cached /\ op = "none" /\ op' = "update" /\ oid' = o /\ ok' = TRUE
      /\ todo' = erase \o <<write>> /\ version' = version + 1
      /\ UNCHANGED <<kind, db, lastOID, cache, lost, dropping, context>>
  BY DEF Replace, Begin, tables
<1>2. PICK d \in cache[o] :
        /\ IsObject(d) /\ The(Of(cache[o], "object", o)) = d
        /\ \A r \in cache[o] : r.id = IF r.table = "attribute" THEN d.n ELSE o
  BY <1>1, VmKnows
<1>3. /\ kind \in Kinds /\ version \in Nat /\ cache[o] \subseteq Rowset /\ Keyed(cache[o])
      /\ cache' = [cache EXCEPT ![o] = cache[o]] /\ Rowset \subseteq Rowset' /\ cache[o] \subseteq Rowset'
  <2>1. kind \in Kinds /\ version \in Nat /\ cache[o] \subseteq Rowset /\ Keyed(cache[o])
    BY <1>1 DEF Inv, TypeOK, Keys
  <2>2. Rowset \subseteq Rowset'
    BY <1>1, <2>1, Grows
  <2>3. cache' = [cache EXCEPT ![o] = cache[o]]
    BY <1>1 DEF Inv, TypeOK
  <2> QED
    BY <2>1, <2>2, <2>3
<1>4. id = d.n /\ id \in 0..(MaxOid + (version + 1)) /\ version + 1 \in Int
  <2>1. d.n \in 0..(MaxOid + version)
    BY <1>2, <1>3 DEF Rowset, Columns, Numbers
  <2> QED
    BY <1>2, <1>3, <2>1, Constants
<1>5. new \in Rowset' /\ new.table = "attribute" /\ new.id = id /\ new.name = "POLLED"
  <2>1. new.table = "attribute" /\ new.id = id /\ new.name = "POLLED"
    BY DEF Attribute, Row
  <2> HIDE DEF id
  <2>2. new \in Rowset'
    BY <1>1, <1>3, <1>4, NewRows
  <2> QED
    BY <2>1, <2>2
<1>6. old # {} => /\ The(old) \in Rowset' /\ The(old).table = "attribute" /\ The(old).id = id
                  /\ The(old).name = "POLLED"
  <2>1. old # {} => The(old) \in old
    BY DEF The
  <2>2. \A r \in old : r \in Rowset' /\ r.table = "attribute" /\ r.id = id /\ r.name = "POLLED"
    BY <1>3 DEF Of
  <2> QED
    BY <2>1, <2>2
<1>7. /\ write \in Statements' /\ write.live /\ write.verb = "write" /\ write.if = "abort"
      /\ write.row = new
  <2> HIDE DEF new
  <2>1. new \in Columns'
    BY <1>5 DEF Rowset
  <2> QED
    BY <1>5, <2>1 DEF Statement, Statements
<1>8. /\ erase \in Seq(Statements')
      /\ \A s \in Elements(erase) :
           /\ s.live /\ s.verb = "erase" /\ s.if = "abort" /\ s.row.table = "attribute"
           /\ s.row.id = id /\ s.row.name = "POLLED"
  <2>1. CASE old = {}
    <3>1. erase = <<>>
      BY <2>1
    <3> HIDE DEF erase
    <3> QED
      BY <3>1, ElementsOf, EmptySeq
  <2>2. CASE old # {}
    <3> DEFINE s == Statement("erase", The(old), "abort", TRUE)
    <3>1. erase = <<s>>
      BY <2>2
    <3>2. /\ s.live /\ s.verb = "erase" /\ s.if = "abort" /\ s.row = The(old)
          /\ s = [verb |-> "erase", row |-> The(old), if |-> "abort", live |-> TRUE]
      BY DEF Statement
    <3> HIDE DEF s, erase, old, id
    <3>3. The(old) \in Columns'
      BY <1>6, <2>2 DEF Rowset
    <3>4. s \in Statements'
      BY <1>6, <2>2, <3>2, <3>3 DEF Statements
    <3> QED
      BY <1>6, <2>2, <3>1, <3>2, <3>4, ElementsOf
  <2> QED
    BY <2>1, <2>2
<1> HIDE DEF erase, write, old, new, id
<1>9. todo' \in Seq(Statements') /\ Left' = Elements(erase) \cup {write}
  <2>1. /\ erase \o <<write>> \in Seq(Statements')
        /\ Elements(erase \o <<write>>) = Elements(erase) \cup {write}
    BY <1>7, <1>8, EndsWith
  <2> QED
    BY <1>1, <2>1 DEF Left, Elements
<1>10. \A s \in Left' : s.live /\ Updates(s)'
  <2> TAKE s \in Left'
  <2>1. /\ s.live /\ s.verb \in {"write", "erase"} /\ s.if = "abort" /\ s.row.table = "attribute"
        /\ s.row.id = d.n /\ s.row.name = "POLLED"
    BY <1>4, <1>5, <1>7, <1>8, <1>9
  <2> QED
    BY <1>1, <1>2, <2>1 DEF Updates, IsObject
<1>11. Due' = {}
  BY <1>10 DEF Due
<1>12. Rewrite(db, {}) = db
  BY DEF Rewrite
<1>13. o \notin lost => Select(Rewrite(db, Due'), o) = cache[o]
  BY <1>1, <1>11, <1>12 DEF Inv, Written
<1> DEFINE C == cache[o]
<1>14. C = cache[o] /\ d \in C
  OBVIOUS
<1> HIDE DEF C
<1>15. /\ cache' = [cache EXCEPT ![o] = C] /\ C \subseteq Rowset' /\ Keyed(C)
       /\ \A r \in C : r.id = IF r.table = "attribute" THEN d.n ELSE o
       /\ (o \notin lost => Select(Rewrite(db, Due'), o) = C)
  BY <1>2, <1>3, <1>13, <1>14
<1> QED
  <2>1. VmUpdate(o, C, d, d)
    BY <1>1, <1>2, <1>9, <1>10, <1>14, <1>15 DEF VmUpdate
  <2> QED
    BY <2>1, VmUpdateInv

\* The CONTEXT is inserted.
LEMMA WriteContextInv ==
  ASSUME Inv, NEW o \in Oids, WriteContext(o)
  PROVE  Inv'
<1> DEFINE id == The(Of(cache[o], "object", o)).n
           new == Attribute(id, "CONTEXT", version + 1)
           write == Statement("write", new, "abort", TRUE)
<1>1. /\ kind = "vms" /\ o \in Cached /\ op = "none" /\ op' = "update" /\ oid' = o /\ ok' = TRUE
      /\ todo' = <<write>> /\ version' = version + 1 /\ context[o] = "due"
      /\ UNCHANGED <<kind, db, lastOID, cache, lost, dropping, context>>
  BY DEF WriteContext, Begin, tables
<1>2. PICK d \in cache[o] :
        /\ IsObject(d) /\ The(Of(cache[o], "object", o)) = d
        /\ \A r \in cache[o] : r.id = IF r.table = "attribute" THEN d.n ELSE o
  BY <1>1, VmKnows
<1>3. /\ kind \in Kinds /\ version \in Nat /\ cache[o] \subseteq Rowset /\ Keyed(cache[o])
      /\ cache' = [cache EXCEPT ![o] = cache[o]] /\ cache[o] \subseteq Rowset'
  <2>1. kind \in Kinds /\ version \in Nat /\ cache[o] \subseteq Rowset /\ Keyed(cache[o])
    BY <1>1 DEF Inv, TypeOK, Keys
  <2>2. Rowset \subseteq Rowset'
    BY <1>1, <2>1, Grows
  <2>3. cache' = [cache EXCEPT ![o] = cache[o]]
    BY <1>1 DEF Inv, TypeOK
  <2> QED
    BY <2>1, <2>2, <2>3
<1>4. id = d.n /\ id \in 0..(MaxOid + (version + 1)) /\ version + 1 \in Int
  <2>1. d.n \in 0..(MaxOid + version)
    BY <1>2, <1>3 DEF Rowset, Columns, Numbers
  <2> QED
    BY <1>2, <1>3, <2>1, Constants
<1>5. new \in Rowset' /\ new.table = "attribute" /\ new.id = id /\ new.name = "CONTEXT"
  <2>1. new.table = "attribute" /\ new.id = id /\ new.name = "CONTEXT"
    BY DEF Attribute, Row
  <2> HIDE DEF id
  <2>2. new \in Rowset'
    BY <1>1, <1>3, <1>4, NewRows
  <2> QED
    BY <2>1, <2>2
<1>6. /\ write \in Statements' /\ write.live /\ write.verb = "write" /\ write.if = "abort"
      /\ write.row = new
  <2> HIDE DEF new
  <2>1. new \in Columns'
    BY <1>5 DEF Rowset
  <2> QED
    BY <1>5, <2>1 DEF Statement, Statements
<1> HIDE DEF write, new, id
<1>7. todo' \in Seq(Statements') /\ Left' = {write} /\ Len(todo') = 1
  <2>1. <<write>> \in Seq(Statements') /\ Len(<<write>>) = 1
    BY <1>6
  <2> QED
    BY <1>1, <2>1, ElementsOf DEF Left
<1>8. \A s \in Left' : s.live /\ Updates(s)'
  <2> TAKE s \in Left'
  <2>1. /\ s.live /\ s.verb = "write" /\ s.if = "abort" /\ s.row.table = "attribute"
        /\ s.row.id = d.n /\ s.row.name = "CONTEXT"
    BY <1>4, <1>5, <1>6, <1>7
  <2> QED
    BY <1>1, <1>2, <1>7, <2>1 DEF Updates, IsObject
<1>9. Due' = {} /\ Rewrite(db, {}) = db
  BY <1>8 DEF Due, Rewrite
<1>10. o \notin lost => Select(Rewrite(db, Due'), o) = cache[o]
  BY <1>1, <1>9 DEF Inv, Written
<1> DEFINE C == cache[o]
<1>11. C = cache[o] /\ d \in C
  OBVIOUS
<1> HIDE DEF C
<1>12. /\ cache' = [cache EXCEPT ![o] = C] /\ C \subseteq Rowset' /\ Keyed(C)
       /\ \A r \in C : r.id = IF r.table = "attribute" THEN d.n ELSE o
       /\ (o \notin lost => Select(Rewrite(db, Due'), o) = C)
  BY <1>2, <1>3, <1>10, <1>11
<1> QED
  <2>1. VmUpdate(o, C, d, d)
    BY <1>1, <1>2, <1>7, <1>8, <1>11, <1>12 DEF VmUpdate
  <2> QED
    BY <2>1, VmUpdateInv

\* There will be no CONTEXT.
LEMMA GiveUpContextInv ==
  ASSUME Inv, NEW o \in Oids, GiveUpContext(o)
  PROVE  Inv'
<1>1. /\ op = "none" /\ context[o] = "due" /\ context' = [context EXCEPT ![o] = "none"]
      /\ UNCHANGED <<kind, db, lastOID, cache, op, oid, todo, ok, version, lost, dropping>>
  BY DEF GiveUpContext, tables, task
<1>2. Cached' = Cached /\ Rowset' = Rowset /\ Statements' = Statements /\ Left' = Left
  BY <1>1 DEF Rowset, Statements, Columns, Numbers, Names, Left, Elements, Cached
<1>3. /\ context' \in [Oids -> {"none", "due", "written"}]
      /\ \A p \in Oids : context'[p] = "written" <=> context[p] = "written"
  BY <1>1 DEF Inv, TypeOK
<1>4. TypeOK'
  BY <1>1, <1>2, <1>3 DEF Inv, TypeOK
<1>5. Keys' /\ Known' /\ BelowLast'
  BY <1>1, <1>2, Kept DEF Inv, Keys, IsObject, Known, Knowledge, BelowLast
<1>6. Task'
  <2>1. todo = <<>> /\ Left' = {} /\ Len(todo) = 0
    BY <1>1, <1>2, LeftOfNone DEF Inv, Task
  <2> QED
    BY <1>1, <2>1 DEF Inv, Task
<1>7. Whole' /\ Written'
  <2>1. Due' = Due
    BY <1>2 DEF Due
  <2> QED
    BY <1>1, <1>2, <2>1, Kept DEF Inv, Whole, Written, IsObject
<1>8. Contexts'
  <2>1. \A r \in db : IsObject(r) => r.id \in Oids
    BY DEF Inv, TypeOK, Rowset, IsObject
  <2> QED
    BY <1>1, <1>3, <2>1 DEF Inv, Contexts, HasContext, IsObject, Of
<1> QED
  BY <1>4, <1>5, <1>6, <1>7, <1>8 DEF Inv

\* What is read of a VM once rows of it, or records, are written.
LEMMA VmReadAfter ==
  ASSUME Inv, kind = "vms", op = "none", NEW o \in Cached, o \notin lost,
         NEW d \in cache[o], IsObject(d), NEW N, Keyed(N),
         \A n \in N : n.id = o /\ n.table \in {"object", "history"},
         NEW e, IsObject(e), e.n = d.n, e.id = o, e \in N \/ (e = d /\ \A n \in N : ~IsObject(n))
  PROVE  /\ Select(Rewrite(db, N), o) =
              {e} \cup Of(cache[o], "attribute", d.n) \cup SelectRecords(Rewrite(db, N), o)
         /\ {r \in cache[o] : r.table = "history"} = SelectRecords(db, o)
<1> DEFINE B == Rewrite(db, N)
<1>1. /\ kind \in Kinds /\ version \in Nat /\ db \in SUBSET Rowset /\ Keyed(db) /\ Keyed(cache[o])
      /\ o \in Oids /\ Select(db, o) = cache[o]
  BY DEF Inv, TypeOK, Keys, Written
<1>2. PICK r \in db : IsObject(r) /\ r.id = o
  BY VmKnows
<1>3. cache[o] = {r} \cup Of(db, "attribute", r.n) \cup SelectRecords(db, o)
  <2>1. Select(db, r.id) = {r} \cup Of(db, "attribute", r.n) \cup SelectRecords(db, r.id)
    BY <1>1, <1>2, SelectVmIs
  <2> QED
    BY <1>1, <1>2, <2>1
<1>4. \A s \in SelectRecords(db, o) : s.table = "history"
  BY <1>1, HistoryRead
<1>5. r = d
  BY <1>2, <1>3, <1>4 DEF Of, IsObject
<1>6. {s \in cache[o] : s.table = "history"} = SelectRecords(db, o)
  BY <1>2, <1>3, <1>4 DEF Of, IsObject
<1>7. Of(cache[o], "attribute", d.n) = Of(db, "attribute", d.n)
  BY <1>2, <1>3, <1>4, <1>5 DEF Of, IsObject
<1>8. Keyed(B)
  BY <1>1, RewriteKeyed
<1>9. Of(B, "attribute", d.n) = Of(db, "attribute", d.n)
  <2>1. \A n \in N, s \in Of(db, "attribute", d.n) : ~Replaces(n, s) /\ n.table # "attribute"
    BY ReplacesIs DEF Of
  <2> QED
    BY <2>1 DEF Of, Rewrite
<1>10. e \in B
  <2>1. CASE e \in N
    BY <2>1 DEF Rewrite
  <2>2. CASE e = d /\ \A n \in N : ~IsObject(n)
    <3>1. \A n \in N : ~Replaces(n, d)
      BY <2>2, ReplacesIs DEF IsObject
    <3> QED
      BY <1>5, <2>2, <3>1 DEF Rewrite
  <2> QED
    BY <2>1, <2>2
<1> HIDE DEF B
<1>11. Select(B, e.id) = {e} \cup Of(B, "attribute", e.n) \cup SelectRecords(B, e.id)
  BY <1>8, <1>10, SelectVmIs
<1> QED
  BY <1>6, <1>7, <1>9, <1>11 DEF B

\* A VM gets a new record.
LEMMA DeployInv ==
  ASSUME Inv, NEW o \in Oids, Deploy(o)
  PROVE  Inv'
<1> DEFINE old == Records(cache[o], o)
           last == LastRecord(cache[o], o)
           seq == IF old = {} THEN 0 ELSE last.n + 1
           new == Record(o, seq, version + 1)
           kept == IF old = {} THEN {} ELSE {last}
           C == (cache[o] \ old) \cup {new} \cup kept
           s == Write(new, "abort")
<1>1. /\ kind = "vms" /\ o \in Cached /\ op = "none" /\ op' = "update" /\ oid' = o /\ ok' = TRUE
      /\ todo' = <<s>> /\ version' = version + 1
      /\ UNCHANGED <<kind, db, lastOID, lost, dropping, context>>
      /\ cache' = [cache EXCEPT ![o] = C]
  BY DEF Deploy, Begin, tables
<1>2. PICK d \in cache[o] :
        /\ IsObject(d) /\ d.id = o
        /\ \A r \in cache[o] : r.id = IF r.table = "attribute" THEN d.n ELSE o
  BY <1>1, VmKnows
<1>3. /\ kind \in Kinds /\ version \in Nat /\ cache[o] \subseteq Rowset /\ Keyed(cache[o])
      /\ Rowset \subseteq Rowset' /\ Rowset \subseteq Columns
  <2>1. kind \in Kinds /\ version \in Nat /\ cache[o] \subseteq Rowset /\ Keyed(cache[o])
    BY <1>1 DEF Inv, TypeOK, Keys
  <2>2. Rowset \subseteq Rowset'
    BY <1>1, <2>1, Grows
  <2> QED
    BY <2>1, <2>2 DEF Rowset
<1>4. /\ old = {r \in cache[o] : r.table = "history"}
      /\ \A r, t \in old : r.n = t.n => r = t
  <2>1. old = {r \in cache[o] : r.table = "history"}
    BY <1>2 DEF Records, Of
  <2> QED
    BY <1>2, <1>3, <2>1, ReplacesIs DEF Keyed
<1>5. old # {} => last \in old /\ \A r \in old : r.n \in Nat /\ r.n <= last.n
  <2>1. cache[o] \in SUBSET Columns
    BY <1>3
  <2> QED
    BY <1>3, <2>1, LastIs
<1>6. seq \in 0..(MaxOid + (version + 1)) /\ version + 1 \in Int /\ \A r \in old : r.n < seq
  <2>1. CASE old = {}
    <3>1. 0 \in 0..(MaxOid + (version + 1))
      BY <1>3, Constants
    <3> QED
      BY <1>3, <2>1, <3>1
  <2>2. CASE old # {}
    <3>1. last.n \in 0..(MaxOid + version)
      BY <1>3, <1>4, <1>5, <2>2 DEF Columns, Numbers
    <3>2. seq = last.n + 1
      BY <2>2
    <3> HIDE DEF last, seq, old
    <3>3. last.n + 1 \in 0..(MaxOid + (version + 1))
      BY <1>3, <3>1, Constants
    <3>4. \A r \in old : r.n < last.n + 1
      BY <1>5, <2>2, <3>1
    <3> QED
      BY <1>3, <3>2, <3>3, <3>4
  <2> QED
    BY <2>1, <2>2
<1>7. new \in Rowset' /\ new.table = "history" /\ new.id = o /\ new.n = seq
  <2>1. new.table = "history" /\ new.id = o /\ new.n = seq
    BY DEF Record, Row
  <2> HIDE DEF seq
  <2> QED
    BY <1>1, <1>3, <1>6, <2>1, NewRows
<1>8. \A r \in old : r.n # new.n
  <2>1. \A r \in old : r.n \in 0..(MaxOid + version)
    BY <1>3, <1>4 DEF Columns, Numbers
  <2> HIDE DEF new, old, seq
  <2> QED
    BY <1>6, <1>7, <2>1
<1>9. /\ s.verb = "write" /\ ~s.live /\ s.if = "abort" /\ s.row = new /\ s \in Statements'
  <2> HIDE DEF new
  <2>1. new \in Columns'
    BY <1>7 DEF Rowset
  <2> QED
    BY <1>7, <2>1 DEF Write, Statement, Statements
<1> HIDE DEF new, s, seq
<1>10. kept \subseteq old /\ kept \subseteq cache[o]
  BY <1>4, <1>5
<1>11. C \subseteq Rowset' /\ new \in C
  BY <1>3, <1>7, <1>10
<1>12. d \in C
  BY <1>2, <1>4 DEF IsObject
<1>13. \A r \in C : r.id = IF r.table = "attribute" THEN d.n ELSE o
  BY <1>2, <1>7, <1>10
<1>14. Keyed(C)
  <2> SUFFICES ASSUME NEW r \in C, NEW t \in C, Replaces(r, t) PROVE r = t
    BY DEF Keyed
  <2>1. \A x \in C : x = new \/ x \in cache[o]
    BY <1>10
  <2>2. \A x \in C : x # new /\ x.table = "history" => x \in old
    BY <1>4, <1>10
  <2>3. CASE r = new \/ t = new
    <3>1. r.table = "history" /\ t.table = "history" /\ r.n = t.n
      BY <1>7, <2>3, ReplacesIs
    <3> QED
      BY <1>8, <2>2, <2>3, <3>1
  <2>4. CASE r # new /\ t # new
    BY <1>3, <2>1, <2>4 DEF Keyed
  <2> QED
    BY <2>3, <2>4
<1>15. todo' \in Seq(Statements') /\ Left' = {s}
  BY <1>1, <1>9, ElementsOf DEF Left
<1>16. Due' = {new}
  BY <1>9, <1>15 DEF Due
<1>17. cache'[o] = C
  BY <1>1 DEF Inv, TypeOK
<1>18. \A t \in Left' : Updates(t)'
  BY <1>1, <1>7, <1>9, <1>11, <1>15, <1>17 DEF Updates
<1>19. o \notin lost => Select(Rewrite(db, Due'), o) = C
  <2> SUFFICES ASSUME o \notin lost PROVE Select(Rewrite(db, {new}), o) = C
    BY <1>16
  <2> DEFINE B == Rewrite(db, {new})
  <2>1. Keyed({new}) /\ \A n \in {new} : n.id = o /\ n.table \in {"object", "history"} /\ ~IsObject(n)
    BY <1>7 DEF Keyed, IsObject
  <2>2. /\ Select(B, o) = {d} \cup Of(cache[o], "attribute", d.n) \cup SelectRecords(B, o)
        /\ {r \in cache[o] : r.table = "history"} = SelectRecords(db, o)
    BY <1>1, <1>2, <2>1, VmReadAfter
  <2>3. {d} \cup Of(cache[o], "attribute", d.n) = cache[o] \ old
    <3>1. \A r \in cache[o] : r.table \in {"object", "attribute", "history"}
      BY <1>1, <1>3 DEF Rowset, Columns
    <3>2. \A r \in cache[o] : IsObject(r) => r = d
      BY <1>2, <1>3, ReplacesIs DEF Keyed, IsObject
    <3> HIDE DEF old
    <3> QED
      BY <1>2, <1>4, <3>1, <3>2 DEF Of, IsObject
  <2>4. /\ db \in SUBSET Rowset /\ Keyed(db)
        /\ \A r \in Records(db, o) : r.n \in 0..(MaxOid + version)
        /\ \A r, t \in Records(db, o) : r.n = t.n => r = t
    <3>1. db \in SUBSET Rowset /\ Keyed(db)
      BY DEF Inv, TypeOK, Keys
    <3>2. \A r \in Records(db, o) : r \in Columns /\ r \in db /\ r.table = "history" /\ r.id = o
      BY <1>3, <3>1 DEF Records, Of
    <3> QED
      BY <3>1, <3>2, ReplacesIs DEF Columns, Numbers, Keyed
  <2>5. Records(B, o) = {r \in Records(db, o) : r.n # new.n} \cup {new}
    <3>1. \A n \in {new} : n.id = o
      BY <1>7
    <3>2. Records(B, o) =
           {r \in Records(db, o) : \A n \in {new} : n.table = "history" => n.n # r.n} \cup
           {n \in {new} : n.table = "history"}
      BY <1>1, <3>1, RecordsOfRewrite
    <3> HIDE DEF B
    <3> QED
      BY <1>7, <3>2
  <2>6. SelectRecords(B, o) = {new} \cup kept
    <3>1. CASE Records(db, o) = {}
      <4>1. SelectRecords(db, o) = {}
        BY <3>1 DEF SelectRecords
      <4>2. old = {} /\ kept = {} /\ seq = 0
        BY <1>4, <2>2, <4>1 DEF seq
      <4>3. Records(B, o) = {new}
        BY <2>5, <3>1
      <4> HIDE DEF B, old, last, kept
      <4>4. LastRecord(B, o) = new
        BY <1>7, <4>2, <4>3, LastUnique
      <4> QED
        BY <1>7, <4>2, <4>3, <4>4 DEF SelectRecords
    <3>2. CASE Records(db, o) # {}
      <4> DEFINE l == LastRecord(db, o)
      <4>1. l \in Records(db, o) /\ \A r \in Records(db, o) : r.n \in Nat /\ r.n <= l.n
        BY <1>3, <2>4, <3>2, LastIs
      <4>2. l \in SelectRecords(db, o) /\ \A r \in SelectRecords(db, o) : r = l \/ r.n = l.n - 1
        <5> DEFINE previous == {r \in Records(db, o) : r.n = l.n - 1}
                   before == Record(o, l.n - 1, -1)
        <5>1. SelectRecords(db, o) =
                {l} \cup IF l.n = 0 THEN {} ELSE IF previous = {} THEN {before} ELSE previous
          BY <3>2 DEF SelectRecords
        <5>2. before.n = l.n - 1
          BY DEF Record, Row
        <5> HIDE DEF l, before
        <5> QED
          BY <5>1, <5>2
      <4> HIDE DEF l
      <4>3. l \in old /\ \A r \in old : r.n \in Nat /\ r.n <= l.n /\ (r.n = l.n => r = l)
        <5>1. old = SelectRecords(db, o)
          BY <1>4, <2>2
        <5>2. l.n - 1 <= l.n /\ l.n - 1 # l.n /\ l.n \in Nat
          BY <4>1
        <5>3. l \in old
          BY <4>2, <5>1
        <5>4. \A r \in old : r.n \in Nat
          BY <1>5, <5>3
        <5> HIDE DEF old
        <5> QED
          BY <4>2, <5>1, <5>2, <5>3, <5>4
      <4>4. last = l
        <5>1. l \in Records(cache[o], o)
          BY <4>3
        <5> QED
          BY <4>3, <5>1, LastUnique
      <4>5. seq = l.n + 1 /\ kept = {l}
        BY <4>3, <4>4 DEF seq
      <4> HIDE DEF B, old, last, kept
      <4>6. Records(B, o) = Records(db, o) \cup {new}
        <5>1. \A r \in Records(db, o) : r.n # new.n
          BY <1>7, <4>1, <4>5
        <5> QED
          BY <2>5, <5>1
      <4>7. /\ \A r \in Records(B, o) : r.n \in Nat /\ r.n <= new.n /\ (r.n = new.n => r = new)
            /\ new.n = l.n + 1 /\ new.n # 0 /\ new.n - 1 = l.n
        BY <1>7, <4>1, <4>5, <4>6
      <4>8. LastRecord(B, o) = new
        BY <4>6, <4>7, LastUnique
      <4>9. {r \in Records(B, o) : r.n = new.n - 1} = {l}
        BY <2>4, <4>1, <4>6, <4>7
      <4>10. Records(B, o) # {}
        BY <4>6
      <4> QED
        BY <4>5, <4>7, <4>8, <4>9, <4>10 DEF SelectRecords
    <3> QED
      BY <3>1, <3>2
  <2> QED
    BY <2>2, <2>3, <2>6
<1> HIDE DEF C
<1>20. VmUpdate(o, C, d, d)
  BY <1>1, <1>2, <1>9, <1>11, <1>12, <1>13, <1>14, <1>15, <1>18, <1>19 DEF VmUpdate
<1> QED
  BY <1>20, VmUpdateInv

\* A handler changes the row of a VM and records of it.
LEMMA HandleInv ==
  ASSUME Inv, NEW o \in Oids, Handle(o)
  PROVE  Inv'
<1> DEFINE last == LastRecord(cache[o], o)
           old == Records(cache[o], o)
           changed(part) ==
             CASE part = "object" -> Of(cache[o], "object", o)
               [] part = "last"   -> IF old = {} THEN {} ELSE {last}
               [] OTHER           -> IF old = {} THEN {} ELSE old \ {last}
           New(r) == [r EXCEPT !.value = version + 1]
<1>1. /\ kind = "vms" /\ o \in Cached /\ UNCHANGED <<kind, db, lastOID, lost, dropping, context>>
  BY DEF Handle, tables
<1>2. PICK d \in cache[o] :
        /\ IsObject(d) /\ d.id = o /\ Of(cache[o], "object", o) = {d}
        /\ \A r \in cache[o] : r.id = IF r.table = "attribute" THEN d.n ELSE o
  BY <1>1, VmKnows
<1>3. /\ kind \in Kinds /\ version \in Nat /\ cache[o] \subseteq Rowset /\ Keyed(cache[o])
      /\ \A r \in cache[o] : r \in Columns
  BY <1>1 DEF Inv, TypeOK, Keys, Rowset
<1>4. old # {} => last \in old
  <2>1. cache[o] \in SUBSET Columns
    BY <1>3
  <2> QED
    BY <1>3, <2>1, LastIs
<1>5. \A part : \A r \in changed(part) : r \in cache[o] /\ r.table \in {"object", "history"}
  <2>1. \A r \in old : r \in cache[o] /\ r.table = "history"
    BY DEF Records, Of
  <2>2. \A r \in Of(cache[o], "object", o) : r \in cache[o] /\ r.table = "object"
    BY DEF Of
  <2> HIDE DEF old, last
  <2> QED
    BY <1>4, <2>1, <2>2
<1> HIDE DEF changed, New
<1>6. PICK parts \in SUBSET {"object", "previous", "last"} :
        LET written(part) ==
              IF part \notin parts \/ changed(part) = {} THEN <<>>
              ELSE <<Write(New(The(changed(part))), "go on")>>
            statements == written("object") \o written("previous") \o written("last")
        IN  /\ Knows(o, {statements[i].row : i \in DOMAIN statements})
            /\ Begin("update", o, statements)
  BY DEF Handle, changed, New
<1> DEFINE written(part) ==
             IF part \notin parts \/ changed(part) = {} THEN <<>>
             ELSE <<Write(New(The(changed(part))), "go on")>>
           statements == written("object") \o written("previous") \o written("last")
           N == {statements[i].row : i \in DOMAIN statements}
           C == Rewrite(cache[o], N)
<1>7. /\ op = "none" /\ op' = "update" /\ oid' = o /\ ok' = TRUE /\ todo' = statements
      /\ version' = version + 1 /\ cache' = [cache EXCEPT ![o] = C]
  BY <1>6 DEF Begin, Knows, Rewrite
<1>8. Rowset \subseteq Rowset' /\ Columns \subseteq Columns' /\ Names' = Names /\ Oids' = Oids
  BY <1>1, <1>3, <1>7, Grows, Kept DEF Oids
<1>9. \A r \in cache[o] :
        /\ New(r).table = r.table /\ New(r).id = r.id /\ New(r).n = r.n /\ New(r).name = r.name
        /\ New(r) \in Columns' /\ New(r) \in Rowset'
  <2> TAKE r \in cache[o]
  <2>1. r \in Columns' /\ r \in Rowset' /\ version + 1 \in Int
    BY <1>3, <1>8
  <2>2. /\ New(r).table = r.table /\ New(r).id = r.id /\ New(r).n = r.n /\ New(r).name = r.name
        /\ New(r) \in Columns'
    BY <2>1 DEF Columns, New
  <2>3. New(r) \in Rowset'
    BY <2>1, <2>2 DEF Rowset
  <2> QED
    BY <2>2, <2>3
<1> DEFINE Good(s) == \E r \in cache[o] : /\ r.table \in {"object", "history"}
                                          /\ s = Write(New(r), "go on")
<1>10. \A r \in cache[o] : Write(New(r), "go on") \in Statements'
  BY <1>9 DEF Write, Statement, Statements
<1>11. \A part : written(part) \in Seq(Statements') /\ \A s \in Elements(written(part)) : Good(s)
  <2> TAKE part
  <2>1. CASE part \notin parts \/ changed(part) = {}
    <3>1. written(part) = <<>>
      BY <2>1
    <3> HIDE DEF written
    <3> QED
      BY <3>1, ElementsOf, EmptySeq
  <2>2. CASE part \in parts /\ changed(part) # {}
    <3> DEFINE r == The(changed(part))
    <3>1. r \in changed(part)
      BY <2>2 DEF The
    <3>2. written(part) = <<Write(New(r), "go on")>>
      BY <2>2
    <3> HIDE DEF written, r
    <3>3. r \in cache[o] /\ r.table \in {"object", "history"}
      BY <1>5, <3>1
    <3> DEFINE w == Write(New(r), "go on")
    <3>4. Good(w) /\ w \in Statements'
      BY <1>10, <3>3
    <3> HIDE DEF w, Good
    <3>5. written(part) = <<w>>
      BY <3>2 DEF w
    <3> QED
      BY <3>4, <3>5, ElementsOf
  <2> QED
    BY <2>1, <2>2
<1>12. statements \in Seq(Statements') /\ \A s \in Elements(statements) : Good(s)
  <2> HIDE DEF written, Good
  <2>1. /\ written("object") \o written("previous") \in Seq(Statements')
        /\ Elements(written("object") \o written("previous")) =
           Elements(written("object")) \cup Elements(written("previous"))
    BY <1>11, ElementsConcat
  <2> DEFINE front == written("object") \o written("previous")
  <2> HIDE DEF front
  <2>2. front \in Seq(Statements') /\ \A s \in Elements(front) : Good(s)
    BY <1>11, <2>1 DEF front
  <2>3. front \o written("last") \in Seq(Statements')
        /\ Elements(front \o written("last")) = Elements(front) \cup Elements(written("last"))
    BY <1>11, <2>2, ElementsConcat
  <2>4. statements = front \o written("last")
    BY DEF front
  <2> QED
    BY <1>11, <2>2, <2>3, <2>4
<1>13. N = {s.row : s \in Elements(statements)}
  <2> HIDE DEF statements
  <2>1. DOMAIN statements = 1..Len(statements)
    BY <1>12, LenProperties
  <2> QED
    BY <2>1 DEF Elements
<1>14. todo' \in Seq(Statements') /\ Left' = Elements(statements)
  BY <1>7, <1>12 DEF Left, Elements
<1> HIDE DEF statements, N, C
<1>15. \A s \in Left' : /\ s.verb = "write" /\ ~s.live /\ s.if = "go on" /\ s.row \in N
                        /\ \E r \in cache[o] : r.table \in {"object", "history"} /\ s.row = New(r)
  <2> TAKE s \in Left'
  <2>1. PICK r \in cache[o] : r.table \in {"object", "history"} /\ s = Write(New(r), "go on")
    BY <1>12, <1>14
  <2>2. s.verb = "write" /\ ~s.live /\ s.if = "go on" /\ s.row = New(r)
    BY <2>1 DEF Write, Statement
  <2> QED
    BY <1>13, <1>14, <2>1, <2>2
<1>16. Due' = N
  BY <1>13, <1>14, <1>15 DEF Due
<1>17. \A n \in N : \E r \in cache[o] : r.table \in {"object", "history"} /\ n = New(r)
  BY <1>13, <1>14, <1>15
<1>18. Keyed(N)
  <2> SUFFICES ASSUME NEW m \in N, NEW n \in N, Replaces(m, n) PROVE m = n
    BY DEF Keyed
  <2>1. PICK r \in cache[o] : r.table \in {"object", "history"} /\ m = New(r)
    BY <1>17
  <2>2. PICK t \in cache[o] : t.table \in {"object", "history"} /\ n = New(t)
    BY <1>17
  <2>3. Replaces(r, t)
    BY <1>9, <2>1, <2>2, ReplacesIs
  <2> QED
    BY <1>3, <2>1, <2>2, <2>3 DEF Keyed
<1>19. \A n \in N : /\ n.id = o /\ n.table \in {"object", "history"} /\ n \in Rowset'
                    /\ IsObject(n) => n.n = d.n
                    /\ n.table = "history" => \E r \in cache[o] : r.table = "history" /\ r.n = n.n
  <2> TAKE n \in N
  <2>1. PICK r \in cache[o] : r.table \in {"object", "history"} /\ n = New(r)
    BY <1>17
  <2>2. IsObject(r) => r = d
    BY <1>2, <1>3, <2>1, ReplacesIs DEF Keyed, IsObject
  <2> QED
    BY <1>2, <1>9, <2>1, <2>2 DEF IsObject
<1>20. C \subseteq Rowset' /\ Keyed(C)
  BY <1>3, <1>8, <1>18, <1>19, RewriteKeyed DEF C, Rewrite
<1>21. PICK e \in C : IsObject(e) /\ e.n = d.n /\ e.id = o /\ (e \in N \/ (e = d /\ \A n \in N : ~IsObject(n)))
  <2>1. CASE \E n \in N : IsObject(n)
    BY <1>19, <2>1 DEF C, Rewrite
  <2>2. CASE \A n \in N : ~IsObject(n)
    <3>1. \A n \in N : ~Replaces(n, d)
      BY <1>2, <2>2, ReplacesIs DEF IsObject
    <3> QED
      BY <1>2, <2>2, <3>1 DEF C, Rewrite
  <2> QED
    BY <2>1, <2>2
<1>22. \A r \in C : r.id = IF r.table = "attribute" THEN e.n ELSE o
  BY <1>2, <1>19, <1>21 DEF C, Rewrite
<1>23. cache'[o] = C
  BY <1>1, <1>7 DEF Inv, TypeOK
<1>24. \A s \in Left' : Updates(s)'
  <2>1. N \subseteq C
    BY DEF C, Rewrite
  <2> QED
    BY <1>1, <1>7, <1>15, <1>19, <1>23, <2>1 DEF Updates
<1>25. o \notin lost => Select(Rewrite(db, Due'), o) = C
  <2> SUFFICES ASSUME o \notin lost PROVE Select(Rewrite(db, N), o) = C
    BY <1>16
  <2> DEFINE B == Rewrite(db, N)
  <2>1. /\ Select(B, o) = {e} \cup Of(cache[o], "attribute", d.n) \cup SelectRecords(B, o)
        /\ {r \in cache[o] : r.table = "history"} = SelectRecords(db, o)
    <3>1. \A n \in N : n.id = o /\ n.table \in {"object", "history"}
      BY <1>19
    <3> QED
      BY <1>1, <1>2, <1>7, <1>18, <1>21, <3>1, VmReadAfter
  <2>2. SelectRecords(B, o) =
          {r \in SelectRecords(db, o) : \A n \in N : n.table = "history" => n.n # r.n} \cup
          {n \in N : n.table = "history"}
    <3>1. db \in SUBSET Rowset /\ Keyed(db)
      BY DEF Inv, TypeOK, Keys
    <3>2. \A n \in N : /\ n.id = o
                       /\ n.table = "history" => \E c \in SelectRecords(db, o) : c.n = n.n
      BY <1>19, <2>1
    <3> QED
      BY <1>1, <1>3, <1>18, <3>1, <3>2, RecordsRewritten
  <2> HIDE DEF B
  <2>3. \A r \in C : IsObject(r) => r = e
    BY <1>20, <1>21, <1>22, ReplacesIs DEF Keyed, IsObject
  <2>4. \A r \in cache[o] : r.table = "history" =>
          ((\A n \in N : ~Replaces(n, r)) <=> \A n \in N : n.table = "history" => n.n # r.n)
    BY <1>2, <1>19, ReplacesIs
  <2>5. \A r \in cache[o] : r.table = "attribute" => \A n \in N : ~Replaces(n, r)
    BY <1>19, ReplacesIs
  <2>6. {r \in C : r.table = "history"} = SelectRecords(B, o)
    BY <2>1, <2>2, <2>4 DEF C, Rewrite
  <2>7. {r \in C : r.table = "attribute"} = Of(cache[o], "attribute", d.n)
    BY <1>2, <1>19, <2>5 DEF C, Rewrite, Of
  <2>8. \A r \in C : r.table \in {"object", "attribute", "history"}
    BY <1>1, <1>20 DEF Rowset, Columns
  <2>9. C = {e} \cup {r \in C : r.table = "attribute"} \cup {r \in C : r.table = "history"}
    BY <1>21, <2>3, <2>8 DEF IsObject
  <2> QED
    BY <2>1, <2>6, <2>7, <2>9 DEF B
<1>26. VmUpdate(o, C, d, e)
  BY <1>1, <1>2, <1>7, <1>14, <1>15, <1>20, <1>21, <1>22, <1>24, <1>25 DEF VmUpdate
<1> QED
  BY <1>26, VmUpdateInv

-----------------------------------------------------------------------------
(* What the statements of an operation touch                               *)

\* No row of an object but the one of the operation, and no template of one.
Touches(s) ==
  /\ s.row.table # "attribute" => s.row.id = oid
  /\ s.row.table = "attribute" =>
       /\ \A r \in db : IsObject(r) /\ r.n = s.row.id => r.id = oid /\ op # "allocate"
       /\ kind # "vms" /\ op # "allocate" => s.row.id = oid
  /\ IsObject(s.row) /\ s.verb = "write" =>
       \A r \in db : IsObject(r) /\ r.n = s.row.n => r.id = oid /\ op # "allocate"
  /\ s.live => op = "update" /\ kind = "vms"

LEMMA StatementTouches ==
  ASSUME Inv, op # "none", NEW s \in Left
  PROVE  Touches(s)
<1>1. /\ \A r \in db : IsObject(r) /\ kind # "vms" => r.n = r.id
      /\ \A o \in Cached : cache[o] \subseteq Rowset
  BY DEF Inv, TypeOK, Rowset, IsObject
<1>2. CASE op = "allocate"
  <2>1. Allocates(s)
    BY <1>2 DEF Inv, Task
  <2> QED
    BY <1>2, <2>1 DEF Allocates, Touches, Template, IsObject
<1>3. CASE op = "update"
  <2>1. Updates(s) /\ oid \in Cached
    BY <1>3 DEF Inv, Task
  <2>2. PICK d \in cache[oid] :
          /\ IsObject(d)
          /\ \A r \in cache[oid] : r.id = IF r.table = "attribute" THEN d.n ELSE oid
          /\ kind = "vms" => \E r \in db : IsObject(r) /\ r.id = oid /\ r.n = d.n
    BY <2>1 DEF Inv, Known, Knowledge
  <2>3. \A r \in db : IsObject(r) /\ r.n = d.n => r.id = oid
    <3>1. CASE kind = "vms"
      BY <2>2, <3>1 DEF Inv, Keys
    <3>2. CASE kind # "vms"
      <4>1. d.n = oid
        BY <1>1, <2>1, <2>2, <3>2 DEF Rowset, IsObject
      <4> QED
        BY <1>1, <3>2, <4>1
    <3> QED
      BY <3>1, <3>2
  <2>4. kind # "vms" => d.n = oid
    BY <1>1, <2>1, <2>2 DEF Rowset, IsObject
  <2>5. \A r \in cache[oid] : IsObject(r) => r.n = d.n
    <3>1. Keyed(cache[oid])
      BY <2>1 DEF Inv, Keys
    <3> QED
      BY <2>2, <3>1, ReplacesIs DEF Keyed, IsObject
  <2>6. CASE s.row \in cache[oid] /\ ~s.live
    BY <1>3, <2>2, <2>3, <2>4, <2>5, <2>6 DEF Touches, IsObject
  <2>7. CASE kind = "vms" /\ s.row.table = "attribute" /\ \E r \in cache[oid] : IsObject(r) /\ s.row.id = r.n
    BY <1>3, <2>3, <2>5, <2>7 DEF Touches, IsObject
  <2>8. CASE kind = "hosts" /\ ~s.live /\ s.row.table = "attribute" /\ s.row.id = oid
    BY <1>1, <1>3, <2>8 DEF Touches, IsObject
  <2> QED
    BY <2>1, <2>6, <2>7, <2>8 DEF Updates
<1>4. CASE op = "drop"
  <2>1. Drops(s) /\ kind \in {"hosts", "networks"}
    BY <1>4 DEF Inv, Task
  <2> QED
    BY <1>1, <1>4, <2>1 DEF Drops, Touches, IsObject
<1>5. CASE op = "refuse"
  <2>1. Refuses(s) /\ kind = "networks"
    BY <1>5 DEF Inv, Task
  <2>2. s.row.id = oid /\ ~s.live /\ (IsObject(s.row) /\ s.verb = "write" => s.row.n = oid)
    <3>1. s \in Statements
      BY DEF Inv, TypeOK, Left, Elements
    <3> QED
      BY <2>1, <3>1 DEF Refuses, Statements, Rowset, IsObject
  <2> QED
    BY <1>1, <1>5, <2>1, <2>2 DEF Touches, IsObject
<1> QED
  BY <1>2, <1>3, <1>4, <1>5 DEF Inv, TypeOK

\* An object is read as before if none of its rows is touched.
LEMMA SelectKept ==
  ASSUME kind \in Kinds, NEW A, NEW o, NEW s, s.verb \in {"write", "clear", "erase"},
         s.row.table # "attribute" => s.row.id # o,
         s.row.table = "attribute" => \A r \in Of(A, "object", o) : r.n # s.row.id,
         s.row.table = "attribute" /\ kind # "vms" => s.row.id # o
  PROVE  Select(Executed(A, s), o) = Select(A, o)
<1> DEFINE B == Executed(A, s)
<1>1. \A table, id : ~(s.row.table = table /\ s.row.id = id) => Of(B, table, id) = Of(A, table, id)
  <2> TAKE table, id
  <2> HAVE ~(s.row.table = table /\ s.row.id = id)
  <2>1. CASE s.verb = "write"
    <3>1. B = {r \in A : ~Replaces(s.row, r)} \cup {s.row}
      BY <2>1 DEF Executed
    <3>2. \A r \in Of(A, table, id) : ~Replaces(s.row, r)
      BY ReplacesIs DEF Of
    <3> QED
      BY <3>1, <3>2 DEF Of
  <2>2. CASE s.verb = "clear"
    BY <2>2 DEF Executed, Of
  <2>3. CASE s.verb = "erase"
    BY <2>3 DEF Executed, Of
  <2> QED
    BY <2>1, <2>2, <2>3
<1> HIDE DEF B
<1>2. /\ Of(A, "object", o) = Of(B, "object", o)
      /\ Of(A, "share", o) = Of(B, "share", o)
      /\ Of(A, "history", o) = Of(B, "history", o)
  BY <1>1
<1>3. \A r \in Of(A, "object", o) : Of(A, "attribute", r.n) = Of(B, "attribute", r.n)
  BY <1>1
<1>4. kind # "vms" => Of(A, "attribute", o) = Of(B, "attribute", o)
  BY <1>1
<1>5. Select(A, o) = Select(B, o)
  BY <1>2, <1>3, <1>4, SelectSame
<1> QED
  BY <1>5 DEF B

-----------------------------------------------------------------------------
(* A statement fails                                                       *)

\* What follows an object's row still does when the statement before is done.
LEMMA FollowedKept ==
  ASSUME TypeOK, Task, todo # <<>>, todo' = Tail(todo), UNCHANGED <<kind, op>>
  PROVE  \A i \in 1..(Len(todo') - 1) : IsObject(todo'[i].row) => Followed(i)'
<1>1. /\ Len(todo) \in Nat /\ Len(todo') = Len(todo) - 1
      /\ \A i \in 1..Len(todo') : todo'[i] = todo[i + 1]
  BY HeadLeft
<1> TAKE i \in 1..(Len(todo') - 1)
<1> HAVE IsObject(todo'[i].row)
<1>2. /\ i + 1 \in 1..(Len(todo) - 1) /\ todo'[i] = todo[i + 1]
      /\ i + 1 \in 1..Len(todo') /\ todo'[i + 1] = todo[(i + 1) + 1]
  BY <1>1
<1>3. Followed(i + 1)
  BY <1>2 DEF Task, IsObject
<1>4. (i + 1) + 1 = Len(todo) => i + 1 = Len(todo')
  <2>1. i \in Int
    OBVIOUS
  <2>3. \A x, y \in Int : (x + 1) + 1 = y => x + 1 = y - 1
    OBVIOUS
  <2>4. Len(todo) \in Int
    BY <1>1
  <2>2. (i + 1) + 1 = Len(todo) => i + 1 = Len(todo) - 1
    BY <2>1, <2>3, <2>4
  <2> QED
    BY <1>1, <2>2
<1> QED
  BY <1>2, <1>3, <1>4 DEF Followed

\* What is left is the end of what there was, or undoes it, or is nothing.
LEMMA FailsLeft ==
  ASSUME Inv, Fails
  PROVE  /\ todo # <<>> /\ Head(todo) \in Left /\ Head(todo) \in Statements
         /\ todo' \in Seq(Statements)
         /\ \A i \in 1..(Len(todo') - 1) : IsObject(todo'[i].row) => Followed(i)'
         /\ (\E t \in Left' : t.verb = "write") => Len(todo) # 1
         /\ \/ /\ Head(todo).if = "go on" /\ ok' = ok
               /\ Left = {Head(todo)} \cup Left'
            \/ /\ Head(todo).if = "undo" /\ ok' = FALSE
               /\ Left' = {Clear("attribute", IF Head(todo).row.table = "attribute"
                                              THEN Head(todo).row.id ELSE Head(todo).row.n)}
            \/ Head(todo).if = "abort" /\ ok' = FALSE /\ Left' = {}
<1> DEFINE s == Head(todo)
           c == Clear("attribute", IF s.row.table = "attribute" THEN s.row.id ELSE s.row.n)
<1>1. /\ todo # <<>>
      /\ todo' = CASE s.if = "go on" -> Tail(todo)
                   [] s.if = "undo"  -> <<c>>
                   [] OTHER          -> <<>>
      /\ ok' = (ok /\ s.if = "go on")
  BY DEF Fails
<1>2. TypeOK /\ todo \in Seq(Statements) /\ ok \in BOOLEAN
  BY DEF Inv, TypeOK
<1>3. /\ Len(todo) \in Nat /\ Len(todo) > 0 /\ s = todo[1] /\ s \in Statements
      /\ Tail(todo) \in Seq(Statements) /\ Len(Tail(todo)) = Len(todo) - 1
      /\ \A i \in 1..Len(Tail(todo)) : Tail(todo)[i] = todo[i + 1]
  <2>1. todo \in Seq(Statements) /\ todo # <<>>
    BY <1>1, <1>2
  <2>2. Len(todo) \in Nat /\ Len(todo) > 0 /\ Head(todo) = todo[1]
    BY <2>1, EmptySeq
  <2>3. /\ Head(todo) \in Statements
        /\ Tail(todo) \in Seq(Statements) /\ Len(Tail(todo)) = Len(todo) - 1
        /\ \A i \in 1..Len(Tail(todo)) : Tail(todo)[i] = todo[i + 1]
    BY <2>1, HeadTailProperties
  <2> QED
    BY <2>2, <2>3
<1>4. s \in Left
  <2>1. 1 \in 1..Len(todo)
    BY <1>3
  <2> QED
    BY <1>3, <2>1 DEF Left, Elements
<1>5. CASE s.if = "go on"
  <2>1. todo' = Tail(todo) /\ ok' = ok
    BY <1>1, <1>2, <1>5
  <2>2. todo' \in Seq(Statements) /\ Left = {s} \cup Left'
    BY <1>1, <1>2, <2>1, HeadLeft
  <2>3. \A i \in 1..(Len(todo') - 1) : i + 1 \in 1..(Len(todo) - 1) /\ todo'[i] = todo[i + 1]
    BY <1>3, <2>1
  <2>4. \A i \in 1..(Len(todo') - 1) : IsObject(todo'[i].row) => Followed(i)'
    <3>1. UNCHANGED <<kind, op>>
      BY DEF Fails, tables
    <3> HIDE DEF s
    <3> QED
      BY <1>1, <2>1, <3>1, FollowedKept DEF Inv
  <2>5. Len(todo) = 1 => Left' = {}
    <3>1. Len(todo) = 1 => Len(todo') = 0
      BY <1>3, <2>1
    <3> QED
      BY <3>1 DEF Left, Elements
  <2> QED
    BY <1>1, <1>3, <1>4, <1>5, <2>1, <2>2, <2>4, <2>5
<1>6. CASE s.if = "undo"
  <2>1. todo' = <<c>> /\ ok' = FALSE
    BY <1>1, <1>6
  <2>2. c \in Statements
    <3>1. 0 \in Numbers
      BY <1>2, Constants DEF Numbers, TypeOK
    <3>2. s.row.id \in Numbers /\ s.row.n \in Numbers
      BY <1>3 DEF Statements, Columns
    <3> DEFINE x == IF s.row.table = "attribute" THEN s.row.id ELSE s.row.n
    <3>3. x \in Numbers
      BY <3>2
    <3> HIDE DEF x
    <3>4. Row("attribute", x, "", 0, 0) \in Columns
      BY <3>1, <3>3 DEF Row, Columns
    <3>5. Clear("attribute", x) \in Statements
      BY <3>4 DEF Clear, Statement, Statements
    <3> QED
      BY <3>5 DEF x
  <2> HIDE DEF c, s
  <2>3. todo' \in Seq(Statements) /\ Len(todo') = 1
    BY <2>1, <2>2
  <2>4. Left' = {c}
    BY <2>1, ElementsOf DEF Left
  <2>5. \A i \in 1..(Len(todo') - 1) : FALSE
    BY <2>3
  <2>6. c.verb = "clear"
    BY DEF c, Clear, Statement
  <2> QED
    BY <1>1, <1>3, <1>4, <1>6, <2>1, <2>3, <2>4, <2>5, <2>6 DEF c, s
<1>7. CASE s.if = "abort"
  <2>1. todo' = <<>> /\ ok' = FALSE
    BY <1>1, <1>7
  <2>2. Left' = {} /\ todo' \in Seq(Statements) /\ Len(todo') = 0
    BY <2>1, ElementsOf, EmptySeq DEF Left
  <2>3. \A i \in 1..(Len(todo') - 1) : FALSE
    BY <2>2
  <2> QED
    BY <1>1, <1>3, <1>4, <1>7, <2>1, <2>2, <2>3
<1>8. s.if \in {"go on", "undo", "abort"}
  BY <1>3 DEF Statements
<1> QED
  BY <1>5, <1>6, <1>7, <1>8

LEMMA FailsInv == Inv /\ Fails => Inv'
<1> SUFFICES ASSUME Inv, Fails PROVE Inv'
  OBVIOUS
<1> DEFINE s == Head(todo)
           undo == Clear("attribute", IF s.row.table = "attribute" THEN s.row.id ELSE s.row.n)
           On == s.if = "go on" /\ ok' = ok /\ Left = {s} \cup Left'
           Back == s.if = "undo" /\ ok' = FALSE /\ Left' = {undo}
           Over == s.if = "abort" /\ ok' = FALSE /\ Left' = {}
<1>1. /\ UNCHANGED <<kind, db, lastOID, cache, op, oid, version, dropping>>
      /\ lost' = IF op \in {"allocate", "refuse"} \/ s.live THEN lost ELSE lost \cup {oid}
      /\ context' = IF IsContext(s) THEN [context EXCEPT ![oid] = "none"] ELSE context
  BY DEF Fails, tables
<1>2. /\ todo # <<>> /\ s \in Left /\ s \in Statements /\ todo' \in Seq(Statements)
      /\ \A i \in 1..(Len(todo') - 1) : IsObject(todo'[i].row) => Followed(i)'
      /\ (\E t \in Left' : t.verb = "write") => Len(todo) # 1
      /\ On \/ Back \/ Over
  BY FailsLeft
<1>3. /\ undo.verb = "clear" /\ undo.if = "go on" /\ ~undo.live
      /\ undo.row.table = "attribute"
      /\ undo.row.id = IF s.row.table = "attribute" THEN s.row.id ELSE s.row.n
  BY DEF Clear, Statement, Row
<1> HIDE DEF s, undo
<1>4. Cached' = Cached /\ Rowset' = Rowset /\ Statements' = Statements
  BY <1>1 DEF Rowset, Statements, Columns, Numbers, Names, Cached
<1>5. op # "none" /\ kind \in Kinds
  BY <1>2 DEF Inv, Task, TypeOK
<1>6. lost \subseteq lost' /\ (op \in {"update", "drop"} /\ ~s.live => oid \in lost')
  BY <1>1
<1>7. TypeOK'
  <2>1. ok' \in BOOLEAN /\ lost' \subseteq Oids /\ context' \in [Oids -> {"none", "due", "written"}]
    BY <1>1, <1>2 DEF Inv, TypeOK
  <2> QED
    BY <1>1, <1>2, <1>4, <2>1 DEF Inv, TypeOK
<1>8. Keys' /\ Known' /\ BelowLast'
  BY <1>1, <1>4, Kept DEF Inv, Keys, Known, Knowledge, BelowLast, IsObject
<1>9. op = "allocate" => /\ Allocates(s)
                         /\ \A t \in Left' : Allocates(t)' /\ t.verb = "clear"
  <2> SUFFICES ASSUME op = "allocate"
               PROVE  Allocates(s) /\ \A t \in Left' : Allocates(t)' /\ t.verb = "clear"
    OBVIOUS
  <2>5. Allocates(s)
    BY <1>2 DEF Inv, Task
  <2> SUFFICES \A t \in Left' : Allocates(t)' /\ t.verb = "clear"
    BY <2>5
  <2>1. \A t \in Left : Allocates(t)
    BY DEF Inv, Task
  <2>2. CASE On
    <3>1. ~ok
      BY <1>2, <2>1, <2>2 DEF Allocates
    <3> QED
      BY <1>1, <1>2, <2>1, <2>2, <3>1 DEF Allocates, IsObject, Template, HasContext, Of
  <2>3. CASE Back
    <3>1. /\ Allocates(s) /\ s.row.table \in {"object", "attribute"}
          /\ \A r \in db : IsObject(r) => r.n # undo.row.id
          /\ kind = "vms" => ~HasContext(db, undo.row.id)
      <4>1. Allocates(s)
        BY <1>2, <2>1
      <4>2. s.row.table \in {"object", "attribute"}
        <5>1. s.row.table \in {"object", "share", "history", "attribute"}
          BY <1>2 DEF Statements, Columns
        <5> QED
          BY <2>3, <4>1, <5>1 DEF Allocates
      <4>3. undo.row.id = Template(s.row)
        BY <1>3, <4>2 DEF Template, IsObject
      <4>4. /\ \A r \in db : IsObject(r) => r.n # Template(s.row)
            /\ kind = "vms" => ~HasContext(db, Template(s.row))
        BY <4>1 DEF Allocates
      <4> QED
        BY <4>1, <4>2, <4>3, <4>4
    <3> TAKE t \in Left'
    <3>2. /\ t.verb = "clear" /\ t.if = "go on" /\ ~t.live /\ t.row.table = "attribute"
          /\ \A r \in db : IsObject(r) => r.n # t.row.id
          /\ kind = "vms" => ~HasContext(db, t.row.id)
      BY <1>3, <2>3, <3>1
    <3>3. Allocates(t)'
      BY <1>1, <2>3, <3>2 DEF Allocates, IsObject, Template, HasContext, Of
    <3> QED
      BY <3>1, <3>2, <3>3
  <2>4. CASE Over
    BY <1>2, <2>1, <2>4
  <2> QED
    BY <1>2, <2>2, <2>3, <2>4
<1>10. op = "update" => /\ Updates(s)
                        /\ \A t \in Left' : Updates(t)'
                        /\ kind = "hosts" => ~ok' /\ \A t \in Left' : t.verb = "clear"
                        /\ s.live => Left' = {} /\ \A t \in Left : t.live
  <2> SUFFICES ASSUME op = "update"
               PROVE  /\ Updates(s)
                      /\ \A t \in Left' : Updates(t)'
                      /\ kind = "hosts" => ~ok' /\ \A t \in Left' : t.verb = "clear"
                      /\ s.live => Left' = {} /\ \A t \in Left : t.live
    OBVIOUS
  <2>1. \A t \in Left : Updates(t) /\ (s.live => t.live)
    BY <1>2 DEF Inv, Task
  <2>2. CASE On
    <3>1. kind = "hosts" => ~ok
      BY <1>2, <2>1, <2>2 DEF Updates
    <3>2. ~s.live
      BY <1>2, <2>1, <2>2 DEF Updates
    <3>3. \A t \in Left' : Updates(t)'
      <4>1. \A t \in Left' : Updates(t)
        BY <2>1, <2>2
      <4> TAKE t \in Left'
      <4>3. Updates(t) /\ (t.live => s.live)
        BY <2>2, <4>1 DEF Inv, Task
      <4>4. ~t.live
        BY <3>2, <4>3
      <4> QED
        BY <1>1, <1>6, <2>2, <4>3, <4>4 DEF Updates, IsObject
    <3> QED
      BY <1>2, <2>1, <2>2, <3>1, <3>2, <3>3 DEF Updates
  <2>3. CASE Back
    <3>1. kind = "hosts" /\ s.verb = "write" /\ ~s.live /\ s.row \in cache[oid] /\ s.row.table = "attribute"
      BY <1>2, <2>1, <2>3 DEF Inv, TypeOK, Task, Updates
    <3>2. s.row.id = oid
      BY <1>2, <1>5, <3>1, StatementTouches DEF Touches
    <3> QED
      BY <1>1, <1>2, <1>3, <1>6, <2>1, <2>3, <3>1, <3>2 DEF Updates
  <2>4. CASE Over
    BY <1>2, <2>1, <2>4
  <2> QED
    BY <1>2, <2>2, <2>3, <2>4
<1>11. op = "drop" => /\ \A t \in Left' : Drops(t)' /\ t.verb = "clear"
                      /\ ok' => ~ObjectInDb(oid) \/ \E t \in Left' : IsObject(t.row)
  <2> SUFFICES ASSUME op = "drop"
               PROVE  /\ \A t \in Left' : Drops(t)' /\ t.verb = "clear"
                      /\ ok' => ~ObjectInDb(oid) \/ \E t \in Left' : IsObject(t.row)
    OBVIOUS
  <2>1. /\ \A t \in Left : Drops(t)
        /\ ok => ~ObjectInDb(oid) \/ \E t \in Left : IsObject(t.row)
    BY DEF Inv, Task
  <2>2. CASE On
    BY <1>1, <1>2, <2>1, <2>2 DEF Drops, IsObject
  <2>3. CASE Back
    BY <1>2, <2>1, <2>3 DEF Drops
  <2>4. CASE Over
    BY <2>4
  <2> QED
    BY <1>2, <2>2, <2>3, <2>4
<1>16. op = "refuse" => /\ \A t \in Left' : Refuses(t)'
                        /\ ~ok' \/ (\E t \in Left' : t.verb = "write") => ~ObjectInDb(oid)
  <2> SUFFICES ASSUME op = "refuse"
               PROVE  /\ \A t \in Left' : Refuses(t)'
                      /\ ~ok' \/ (\E t \in Left' : t.verb = "write") => ~ObjectInDb(oid)
    OBVIOUS
  <2>1. /\ \A t \in Left : Refuses(t)
        /\ ~ok \/ (\E t \in Left : t.verb = "write") => ~ObjectInDb(oid)
        /\ kind = "networks"
    BY DEF Inv, Task
  <2>2. CASE On
    <3>1. s.verb = "clear"
      BY <1>2, <2>1, <2>2 DEF Refuses
    <3>2. ASSUME NEW t \in Left' PROVE Refuses(t)'
      <4>1. Refuses(t)
        BY <2>1, <2>2
      <4> QED
        BY <1>1, <2>2, <4>1 DEF Refuses
    <3> QED
      BY <2>1, <2>2, <3>2
  <2>3. CASE Back
    <3>1. Refuses(s) /\ s.verb = "write" /\ s.row \in Rowset
      BY <1>2, <2>1, <2>3 DEF Refuses, Statements
    <3>2. s.row.id = oid /\ (s.row.table = "object" => s.row.n = oid)
      BY <2>1, <3>1 DEF Refuses, Rowset
    <3>3. undo.row.id = oid
      BY <1>3, <3>1, <3>2 DEF Refuses
    <3>4. ~ObjectInDb(oid)
      BY <1>2, <2>1, <3>1
    <3>5. ASSUME NEW t \in Left' PROVE Refuses(t)' /\ t.verb = "clear"
      <4>1. t.verb = "clear" /\ t.if = "go on" /\ ~t.live /\ t.row.table = "attribute" /\ t.row.id = oid
        BY <1>3, <2>3, <3>3
      <4> QED
        BY <1>1, <4>1 DEF Refuses
    <3> QED
      BY <3>4, <3>5
  <2>4. CASE Over
    BY <1>2, <2>1, <2>4 DEF Refuses
  <2> QED
    BY <1>2, <2>2, <2>3, <2>4
<1>12. \A t, u \in Left' : t.live => u.live
  <2>1. CASE On
    BY <2>1 DEF Inv, Task
  <2>2. CASE Back
    BY <2>2
  <2>3. CASE Over
    BY <2>3
  <2> QED
    BY <1>2, <2>1, <2>2, <2>3
<1>13. Task'
  <2>1. op = "allocate" => /\ oid = lastOID /\ oid \notin Cached /\ ~ObjectInDb(oid)
                           /\ kind = "vms" => context'[oid] = "due"
    BY <1>1, <1>2, <1>9 DEF Inv, Task, Allocates, IsContext
  <2>8. op = "refuse" => kind = "networks" /\ oid = lastOID /\ oid \notin Cached /\ oid \in dropping
    BY DEF Inv, Task
  <2>2. op = "update" => kind \in {"hosts", "vms"} /\ oid \in Cached
    BY DEF Inv, Task
  <2>3. op = "drop" => kind \in {"hosts", "networks"} /\ oid \in Cached \cap lost \cap dropping
    BY DEF Inv, Task
  <2>4. ObjectInDb(oid)' <=> ObjectInDb(oid)
    BY <1>1 DEF ObjectInDb, IsObject
  <2>5. op = "allocate" => \A t \in Left' : Allocates(t)'
    BY <1>9
  <2>6. op = "drop" => \A t \in Left' : Drops(t)'
    BY <1>11
  <2>7. op # "none" /\ op' = op /\ kind' = kind /\ oid' = oid /\ lastOID' = lastOID /\ dropping' = dropping
    BY <1>1, <1>5
  <2> HIDE DEF On, Back, Over
  <2> QED
    BY <1>2, <1>4, <1>6, <1>10, <1>11, <1>12, <1>16, <2>1, <2>2, <2>3, <2>4, <2>5, <2>6, <2>7, <2>8
       DEF Task, IsObject
<1>14. Whole'
  <2>1. ASSUME NEW t \in Left', t.verb = "write", IsObject(t.row), t.row.id \notin dropping
        PROVE  WholeIn(db \cup {u.row : u \in Left'}, t.row)
    <3>1. kind = "vms" /\ op = "update" /\ ok' /\ On
      <4>1. op \in {"allocate", "refuse", "update", "drop"}
        BY <1>5 DEF Inv, TypeOK
      <4>6. op # "refuse"
        BY <1>1, <1>16, <2>1 DEF Refuses, Inv, Task
      <4>2. op = "update"
        BY <1>9, <1>11, <2>1, <4>1, <4>6
      <4>3. kind \in {"hosts", "vms"}
        BY <4>2 DEF Inv, Task
      <4>4. kind = "vms" /\ On
        BY <1>2, <1>3, <1>10, <2>1, <4>2, <4>3
      <4>5. ok'
        BY <1>1, <1>10, <2>1, <4>2, <4>4 DEF Updates
      <4> QED
        BY <4>2, <4>4, <4>5
    <3>2. WholeIn(db \cup {u.row : u \in Left}, t.row)
      BY <2>1, <3>1 DEF Inv, Whole
    <3>3. \A u \in Left : u.row.table = "attribute" => u.row.name \in {"POLLED", "CONTEXT"}
      BY <3>1 DEF Inv, Task, Updates
    <3>4. \A X \in SUBSET Left :
            {a \in Of(db \cup {u.row : u \in X}, "attribute", t.row.n) :
               a.name \notin {"POLLED", "CONTEXT"}} =
            {a \in Of(db, "attribute", t.row.n) : a.name \notin {"POLLED", "CONTEXT"}}
      BY <3>3 DEF Of
    <3>5. Left' \subseteq Left
      BY <3>1
    <3> QED
      BY <3>1, <3>2, <3>4, <3>5 DEF WholeIn
  <2> QED
    BY <1>1, <2>1, Kept DEF Inv, Whole, IsObject
<1>15. Written'
  <2>1. ASSUME NEW o \in Cached, o \notin lost', ~(op = "update" /\ oid = o)
        PROVE  Select(db, o) = cache[o]
    BY <1>6, <2>1 DEF Inv, Written
  <2>2. ASSUME op = "update", oid \notin lost' \/ (kind = "hosts" /\ ok')
        PROVE  Select(Rewrite(db, Due'), oid) = cache[oid]
    <3>1. oid \notin lost /\ s.live
      BY <1>6, <1>10, <2>2
    <3>2. Left' = {} /\ \A t \in Left : t.live
      BY <1>10, <2>2, <3>1
    <3>3. Due = {} /\ Due' = {}
      BY <3>2 DEF Due
    <3> QED
      BY <2>2, <3>1, <3>3 DEF Inv, Written
  <2> QED
    BY <1>1, <1>4, <2>1, <2>2, Kept DEF Written
<1>17. Contexts'
  <2>1. kind = "vms" => \A o \in Oids : context'[o] = "written" <=> context[o] = "written"
    <3>1. kind = "vms" /\ IsContext(s) => context[oid] = "due"
      <4>1. kind = "vms" => op \in {"allocate", "update"}
        BY <1>5 DEF Inv, TypeOK, Task
      <4> QED
        BY <1>9, <1>10, <4>1 DEF Allocates, Updates, IsContext, Inv, TypeOK, Task
    <3> QED
      BY <1>1, <3>1 DEF Inv, TypeOK
  <2>2. \A r \in db : IsObject(r) => r.id \in Oids
    BY DEF Inv, TypeOK, Rowset, IsObject
  <2> QED
    BY <1>1, <2>1, <2>2 DEF Inv, Contexts, HasContext, IsObject, Of
<1> QED
  BY <1>7, <1>8, <1>13, <1>14, <1>15, <1>17 DEF Inv

-----------------------------------------------------------------------------
(* A statement succeeds                                                    *)

\* s is executed, the others are left.
Step(s) ==
  /\ op # "none" /\ s \in Left /\ s \in Statements /\ Touches(s)
  /\ todo # <<>> /\ todo' \in Seq(Statements) /\ Left = {s} \cup Left'
  /\ IsObject(s.row) => \/ kind = "vms" /\ op = "update"
                        \/ todo' = <<>> /\ Left' = {}
                        \/ op = "refuse" /\ \A t \in Left' : t.verb = "clear"
  /\ \A i \in 1..(Len(todo') - 1) : IsObject(todo'[i].row) => Followed(i)'
  /\ Len(todo) = 1 => Left' = {}
  /\ db' = Executed(db, s)
  /\ context' = IF IsContext(s) THEN [context EXCEPT ![oid] = "written"] ELSE context
  /\ Cached' = Cached /\ (s.live => oid \in Cached /\ kind = "vms" /\ op = "update")
  /\ \A o \in Cached : cache'[o] = IF s.live /\ o = oid THEN Executed(cache[o], s) ELSE cache[o]
  /\ cache' \in [Cached -> {cache'[o] : o \in Cached}]
  /\ UNCHANGED <<kind, lastOID, op, oid, ok, version, lost, dropping>>

LEMMA SucceedsStep ==
  ASSUME Inv, Succeeds
  PROVE  Step(Head(todo))
<1> DEFINE s == Head(todo)
<1>1. /\ todo # <<>> /\ db' = Executed(db, s) /\ todo' = Tail(todo)
      /\ cache' = IF s.live THEN [cache EXCEPT ![oid] = Executed(@, s)] ELSE cache
      /\ context' = IF IsContext(s) THEN [context EXCEPT ![oid] = "written"] ELSE context
      /\ UNCHANGED <<kind, lastOID, op, oid, ok, version, lost, dropping>>
  BY DEF Succeeds
<1>2. TypeOK /\ Task
  BY DEF Inv
<1>3. /\ s \in Left /\ s \in Statements /\ todo' \in Seq(Statements) /\ Left = {s} \cup Left'
      /\ Len(todo) \in Nat /\ Len(todo) > 0 /\ Len(todo') = Len(todo) - 1
      /\ \A i \in 1..Len(todo') : todo'[i] = todo[i + 1]
  BY <1>1, <1>2, HeadLeft
<1>4. \A i \in 1..(Len(todo') - 1) : IsObject(todo'[i].row) => Followed(i)'
  BY <1>1, <1>2, FollowedKept
<1>5. op # "none"
  BY <1>1, <1>2 DEF Task
<1>6. Touches(s)
  BY <1>3, <1>5, StatementTouches
<1>11. Len(todo) = 1 => Left' = {}
  <2>1. Len(todo) = 1 => Len(todo') = 0
    BY <1>3
  <2> QED
    BY <2>1 DEF Left, Elements
<1>7. IsObject(s.row) => \/ kind = "vms" /\ op = "update"
                         \/ todo' = <<>> /\ Left' = {}
                         \/ op = "refuse" /\ \A t \in Left' : t.verb = "clear"
  <2>1. CASE op # "refuse"
    BY <1>1, <1>2, <2>1, ObjectLast
  <2>2. CASE op = "refuse" /\ IsObject(s.row) /\ Len(todo) # 1
    <3>1. 1 \in 1..(Len(todo) - 1) /\ s = todo[1]
      BY <1>1, <1>2, <1>3, <2>2, HeadTailProperties DEF TypeOK
    <3>2. Followed(1)
      BY <1>2, <2>2, <3>1 DEF Task
    <3>3. 1 + 1 = Len(todo) /\ todo[1 + 1].verb = "clear"
      BY <2>2, <3>2 DEF Followed
    <3>4. Len(todo') = 1 /\ todo'[1].verb = "clear"
      <4>1. Len(todo) - 1 = 1
        BY <3>3
      <4>2. Len(todo') = 1
        BY <1>3, <4>1
      <4>4. 1 \in 1..Len(todo')
        BY <4>2
      <4>3. todo'[1] = todo[1 + 1]
        BY <1>3, <4>4
      <4> QED
        BY <3>3, <4>2, <4>3
    <3>5. \A t \in Left' : t = todo'[1]
      BY <3>4 DEF Left, Elements
    <3> QED
      BY <2>2, <3>4, <3>5
  <2>3. CASE Len(todo) = 1
    <3>1. Len(todo') = 0
      BY <1>3, <2>3
    <3>2. todo' = <<>>
      BY <1>3, <3>1, EmptySeq
    <3> QED
      BY <1>11, <2>3, <3>2
  <2> HIDE DEF s
  <2> QED
    BY <2>1, <2>2, <2>3
<1>8. s.live => oid \in Cached /\ kind = "vms" /\ op = "update"
  BY <1>2, <1>6 DEF Touches, Task
<1> HIDE DEF s
<1>9. /\ Cached' = Cached
      /\ \A o \in Cached : cache'[o] = IF s.live /\ o = oid THEN Executed(cache[o], s) ELSE cache[o]
      /\ cache' \in [Cached -> {cache'[o] : o \in Cached}]
  <2>1. CASE s.live
    <3>1. cache' = [cache EXCEPT ![oid] = Executed(@, s)]
      BY <1>1, <2>1
    <3>2. cache = [o \in Cached |-> cache[o]]
      BY <1>2 DEF TypeOK
    <3>3. cache' = [o \in Cached |-> IF o = oid THEN Executed(cache[o], s) ELSE cache[o]]
      BY <3>1, <3>2
    <3> QED
      BY <2>1, <3>3 DEF Cached
  <2>2. CASE ~s.live
    <3>1. cache' = cache
      BY <1>1, <2>2
    <3>2. cache = [o \in Cached |-> cache[o]]
      BY <1>2 DEF TypeOK
    <3> QED
      BY <2>2, <3>1, <3>2 DEF Cached
  <2> QED
    BY <2>1, <2>2
<1>10. Step(s)
  BY <1>1, <1>3, <1>4, <1>5, <1>6, <1>7, <1>8, <1>9, <1>11 DEF Step
<1> QED
  BY <1>10 DEF s

\* By the operation, what its statements are.
LEMMA StatementsAre ==
  ASSUME Inv, NEW s, Step(s)
  PROVE  /\ op \in {"allocate", "refuse", "update", "drop"} /\ s.verb \in {"write", "clear", "erase"}
         /\ op = "allocate" => Allocates(s) /\ oid = lastOID /\ oid \notin Cached /\ ~ObjectInDb(oid)
         /\ op = "refuse" => /\ Refuses(s) /\ oid = lastOID /\ oid \notin Cached /\ oid \in dropping
                             /\ kind = "networks" /\ (s.verb = "write" => ~ObjectInDb(oid))
         /\ op = "update" => Updates(s) /\ oid \in Cached /\ kind \in {"hosts", "vms"}
         /\ op = "drop" => Drops(s) /\ oid \in Cached \cap lost \cap dropping /\ kind \in {"hosts", "networks"}
         /\ s.verb # "clear" => s.row \in Rowset
<1>1. s \in Left /\ op # "none" /\ todo # <<>> /\ s \in Statements
  BY DEF Step
<1>2. op \in {"allocate", "refuse", "update", "drop"} /\ s.verb \in {"write", "clear", "erase"}
  BY <1>1 DEF Inv, TypeOK, Statements
<1>3. s.verb # "clear" => s.row \in Rowset
  BY <1>1 DEF Statements
<1> QED
  BY <1>1, <1>2, <1>3 DEF Inv, Task

LEMMA WriteIs ==
  ASSUME NEW A, NEW s, s.verb = "write"
  PROVE  Executed(A, s) = Rewrite(A, {s.row})
BY DEF Executed, Rewrite

LEMMA AfterIs ==
  ASSUME NEW A, NEW s, s.verb \in {"write", "clear", "erase"}
  PROVE  /\ \A r \in Executed(A, s) : r \in A \/ (s.verb = "write" /\ r = s.row)
         /\ Keyed(A) => Keyed(Executed(A, s))
         /\ \A r \in A : /\ r.table # s.row.table \/ r.id # s.row.id => r \in Executed(A, s)
                         /\ s.verb = "erase" /\ r # s.row => r \in Executed(A, s)
                         /\ s.verb = "write" /\ ~Replaces(s.row, r) => r \in Executed(A, s)
         /\ s.verb = "write" => s.row \in Executed(A, s)
<1>1. CASE s.verb = "write"
  <2>1. Executed(A, s) = {r \in A : ~Replaces(s.row, r)} \cup {s.row}
    BY <1>1 DEF Executed
  <2>2. \A r : Replaces(s.row, r) => r.table = s.row.table /\ r.id = s.row.id
    BY ReplacesIs
  <2>3. Keyed(A) => Keyed(Executed(A, s))
    <3>1. Keyed({s.row})
      BY DEF Keyed
    <3> QED
      BY <1>1, <3>1, WriteIs, RewriteKeyed
  <2> QED
    BY <1>1, <2>1, <2>2, <2>3
<1>2. CASE s.verb = "clear"
  <2>1. Executed(A, s) = A \ Of(A, s.row.table, s.row.id)
    BY <1>2 DEF Executed
  <2> QED
    BY <1>2, <2>1 DEF Of, Keyed
<1>3. CASE s.verb = "erase"
  <2>1. Executed(A, s) = A \ {s.row}
    BY <1>3 DEF Executed
  <2> QED
    BY <1>3, <2>1 DEF Keyed
<1> QED
  BY <1>1, <1>2, <1>3

LEMMA StepType ==
  ASSUME Inv, NEW s, Step(s)
  PROVE  TypeOK'
<1>1. s.verb \in {"write", "clear", "erase"} /\ (s.verb # "clear" => s.row \in Rowset)
  BY StatementsAre
<1>2. /\ UNCHANGED <<kind, lastOID, op, oid, ok, version, lost, dropping>> /\ Cached' = Cached
      /\ db' = Executed(db, s)
      /\ \A o \in Cached : cache'[o] = IF s.live /\ o = oid THEN Executed(cache[o], s) ELSE cache[o]
      /\ cache' \in [Cached -> {cache'[o] : o \in Cached}]
      /\ todo' \in Seq(Statements)
      /\ context' = IF IsContext(s) THEN [context EXCEPT ![oid] = "written"] ELSE context
  BY DEF Step
<1>3. Rowset' = Rowset /\ Statements' = Statements
  BY <1>2 DEF Rowset, Statements, Columns, Numbers, Names
<1>4. \A A \in SUBSET Rowset : Executed(A, s) \subseteq Rowset
  BY <1>1, AfterIs
<1>5. db' \subseteq Rowset
  BY <1>2, <1>4 DEF Inv, TypeOK
<1>6. \A o \in Cached : cache'[o] \in SUBSET Rowset
  BY <1>2, <1>4 DEF Inv, TypeOK
<1>7. cache' \in [Cached -> SUBSET Rowset]
  BY <1>2, <1>6
<1>8. context' \in [Oids -> {"none", "due", "written"}]
  BY <1>2 DEF Inv, TypeOK
<1> QED
  BY <1>2, <1>3, <1>5, <1>7, <1>8 DEF Inv, TypeOK

LEMMA StepKeys ==
  ASSUME Inv, NEW s, Step(s)
  PROVE  Keys'
<1>1. s.verb \in {"write", "clear", "erase"} /\ Touches(s)
  BY StatementsAre DEF Step
<1>2. /\ UNCHANGED <<kind, oid>> /\ Cached' = Cached
      /\ db' = Executed(db, s)
      /\ \A o \in Cached : cache'[o] = IF s.live /\ o = oid THEN Executed(cache[o], s) ELSE cache[o]
  BY DEF Step
<1>3. Keyed(db') /\ \A o \in Cached : Keyed(cache'[o])
  BY <1>1, <1>2, AfterIs DEF Inv, Keys
<1>4. \A r \in db' : r \in db \/ (s.verb = "write" /\ r = s.row)
  BY <1>1, <1>2, AfterIs
<1>5. \A r, t \in db' : IsObject(r) /\ IsObject(t) /\ r.n = t.n => r.id = t.id
  <2> TAKE r \in db', t \in db'
  <2> HAVE IsObject(r) /\ IsObject(t) /\ r.n = t.n
  <2>1. CASE r \in db /\ t \in db
    BY <2>1 DEF Inv, Keys
  <2>2. CASE r = s.row /\ t = s.row
    BY <2>2
  <2>3. CASE r = s.row /\ s.verb = "write" /\ t \in db
    BY <1>1, <2>3 DEF Touches, IsObject
  <2>4. CASE t = s.row /\ s.verb = "write" /\ r \in db
    BY <1>1, <2>4 DEF Touches, IsObject
  <2> QED
    BY <1>4, <2>1, <2>2, <2>3, <2>4
<1> QED
  BY <1>2, <1>3, <1>5, Kept DEF Keys, IsObject

LEMMA StepBelow ==
  ASSUME Inv, NEW s, Step(s)
  PROVE  BelowLast'
<1>1. s.verb \in {"write", "clear", "erase"} /\ Touches(s)
  BY StatementsAre DEF Step
<1>2. UNCHANGED <<lastOID, oid>> /\ Cached' = Cached /\ db' = Executed(db, s)
  BY DEF Step
<1>3. \A r \in db' : r \in db \/ (s.verb = "write" /\ r = s.row)
  BY <1>1, <1>2, AfterIs
<1>4. oid <= lastOID
  <2>1. lastOID \in Oids \cup {-1}
    BY DEF Inv, TypeOK
  <2>2. CASE oid = lastOID
    BY <2>1, <2>2, Constants DEF Oids
  <2>3. CASE oid \in Cached
    BY <2>3 DEF Inv, BelowLast
  <2> QED
    BY <2>2, <2>3, StatementsAre
<1> QED
  BY <1>1, <1>2, <1>3, <1>4 DEF Inv, BelowLast, Touches, IsObject

LEMMA StepKnown ==
  ASSUME Inv, NEW s, Step(s)
  PROVE  Known'
<1>1. /\ s.verb \in {"write", "clear", "erase"} /\ Touches(s)
      /\ op \in {"allocate", "refuse", "update", "drop"}
      /\ op = "allocate" => Allocates(s) /\ oid \notin Cached
      /\ op = "refuse" => kind = "networks" /\ oid \notin Cached
      /\ op = "update" => Updates(s) /\ oid \in Cached
      /\ op = "drop" => Drops(s) /\ kind # "vms"
  BY StatementsAre DEF Step
<1>2. /\ UNCHANGED <<kind, oid>> /\ Cached' = Cached
      /\ db' = Executed(db, s)
      /\ \A o \in Cached : cache'[o] = IF s.live /\ o = oid THEN Executed(cache[o], s) ELSE cache[o]
  BY DEF Step
<1>3. ASSUME NEW o \in Cached PROVE Knowledge(o)'
  <2>1. PICK d \in cache[o] :
          /\ IsObject(d)
          /\ \A r \in cache[o] : r.id = IF r.table = "attribute" THEN d.n ELSE o
          /\ kind = "vms" => \E r \in db : IsObject(r) /\ r.id = o /\ r.n = d.n
          /\ kind = "hosts" =>
               /\ \E r \in cache[o] : r.table = "share"
               /\ \A r \in db : r.id = o => \E t \in cache[o] : Replaces(t, r)
    BY DEF Inv, Known, Knowledge
  <2>2. \A r \in cache[o] : IsObject(r) => r = d
    BY <2>1, ReplacesIs DEF Inv, Keys, Keyed, IsObject
  <2>3. s.live /\ o = oid => s.row.table = "attribute" /\ s.row.id = d.n
    <3>1. s.live => op = "update" /\ kind = "vms"
      BY <1>1 DEF Touches
    <3> QED
      BY <1>1, <2>2, <3>1 DEF Updates
  <2>4. d \in cache'[o] /\ \A r \in cache'[o] : r.id = IF r.table = "attribute" THEN d.n ELSE o
    <3>1. CASE s.live /\ o = oid
      BY <1>1, <1>2, <2>1, <2>3, <3>1, AfterIs DEF IsObject
    <3>2. CASE ~(s.live /\ o = oid)
      BY <1>2, <2>1, <3>2
    <3> QED
      BY <3>1, <3>2
  <2>5. kind = "vms" => \E r \in db' : IsObject(r) /\ r.id = o /\ r.n = d.n
    <3> SUFFICES ASSUME kind = "vms" PROVE \E r \in db' : IsObject(r) /\ r.id = o /\ r.n = d.n
      OBVIOUS
    <3>1. PICK r \in db : IsObject(r) /\ r.id = o /\ r.n = d.n
      BY <2>1
    <3>2. CASE IsObject(s.row) /\ s.row.id = o
      <4>1. o = oid /\ op = "update"
        BY <1>1, <3>2 DEF Touches, IsObject
      <4>2. s.verb = "write" /\ s.row \in cache[oid]
        BY <1>1, <3>2, <4>1 DEF Updates, IsObject
      <4>3. s.row = d
        BY <2>2, <3>2, <4>1, <4>2
      <4> QED
        BY <1>1, <1>2, <2>1, <3>2, <4>2, <4>3, AfterIs
    <3>3. CASE ~(IsObject(s.row) /\ s.row.id = o)
      BY <1>1, <1>2, <3>1, <3>3, AfterIs DEF IsObject
    <3> QED
      BY <3>2, <3>3
  <2>6. kind = "hosts" => /\ \E r \in cache'[o] : r.table = "share"
                          /\ \A r \in db' : r.id = o => \E t \in cache'[o] : Replaces(t, r)
    <3> SUFFICES ASSUME kind = "hosts"
                 PROVE  /\ \E r \in cache'[o] : r.table = "share"
                        /\ \A r \in db' : r.id = o => \E t \in cache'[o] : Replaces(t, r)
      OBVIOUS
    <3>1. ~s.live
      BY <1>1 DEF Touches
    <3>2. cache'[o] = cache[o]
      BY <1>2, <3>1
    <3>3. ASSUME s.verb = "write", s.row.id = o
          PROVE  \E t \in cache[o] : Replaces(t, s.row)
      <4>1. op = "update" /\ o = oid
        BY <1>1, <3>3 DEF Allocates, Drops, Touches
      <4>2. s.row \in cache[oid]
        BY <1>1, <3>1, <3>3, <4>1 DEF Updates
      <4> QED
        BY <4>1, <4>2, ReplacesIs
    <3> QED
      BY <1>1, <1>2, <2>1, <3>2, <3>3, AfterIs
  <2> QED
    BY <1>2, <2>1, <2>4, <2>5, <2>6, Kept DEF Knowledge, IsObject
<1> QED
  BY <1>2, <1>3 DEF Known

LEMMA StepTask ==
  ASSUME Inv, NEW s, Step(s)
  PROVE  Task'
<1>1. /\ s.verb \in {"write", "clear", "erase"} /\ Touches(s)
      /\ op \in {"allocate", "refuse", "update", "drop"}
      /\ op = "allocate" => Allocates(s) /\ oid = lastOID /\ oid \notin Cached /\ ~ObjectInDb(oid)
      /\ op = "refuse" => /\ Refuses(s) /\ oid = lastOID /\ oid \notin Cached /\ oid \in dropping
                          /\ kind = "networks" /\ (s.verb = "write" => ~ObjectInDb(oid))
      /\ op = "update" => Updates(s) /\ oid \in Cached /\ kind \in {"hosts", "vms"}
      /\ op = "drop" => Drops(s) /\ oid \in Cached \cap lost \cap dropping /\ kind \in {"hosts", "networks"}
  BY StatementsAre DEF Step
<1>2. /\ UNCHANGED <<kind, lastOID, op, oid, ok, lost, dropping>> /\ Cached' = Cached
      /\ db' = Executed(db, s) /\ Left = {s} \cup Left'
      /\ \A o \in Cached : cache'[o] = IF s.live /\ o = oid THEN Executed(cache[o], s) ELSE cache[o]
      /\ IsObject(s.row) => \/ kind = "vms" /\ op = "update"
                            \/ todo' = <<>> /\ Left' = {}
                            \/ op = "refuse" /\ \A t \in Left' : t.verb = "clear"
      /\ \A i \in 1..(Len(todo') - 1) : IsObject(todo'[i].row) => Followed(i)'
      /\ Len(todo) = 1 => Left' = {}
      /\ context' = IF IsContext(s) THEN [context EXCEPT ![oid] = "written"] ELSE context
  BY DEF Step
<1>3. \A r \in db' : r \in db \/ (s.verb = "write" /\ r = s.row)
  BY <1>1, <1>2, AfterIs
<1>4. \A t, u \in Left : t.live => u.live
  BY DEF Inv, Task
<1>5. op = "allocate" => /\ todo' # <<>> \/ ~ok => \A r \in db' : IsObject(r) => r.id # oid
                         /\ \A t \in Left' : Allocates(t)'
  <2> SUFFICES ASSUME op = "allocate"
               PROVE  /\ todo' # <<>> \/ ~ok => \A r \in db' : IsObject(r) => r.id # oid
                      /\ \A t \in Left' : Allocates(t)'
    OBVIOUS
  <2>1. CASE IsObject(s.row)
    <3>1. todo' = <<>> /\ Left' = {} /\ ok
      BY <1>1, <1>2, <2>1 DEF Allocates, IsObject
    <3> QED
      BY <3>1
  <2>2. CASE ~IsObject(s.row)
    <3>1. \A r \in db' : IsObject(r) => r \in db
      BY <1>3, <2>2
    <3>2. \A t \in Left' : Allocates(t)
      BY <1>2 DEF Inv, Task
    <3>3. kind = "vms" => \A r \in db' : r.table = "attribute" /\ r.name = "CONTEXT" => r \in db
      BY <1>1, <1>3 DEF Allocates
    <3>4. todo' # <<>> \/ ~ok => \A r \in db' : IsObject(r) => r.id # oid
      BY <1>1, <3>1 DEF ObjectInDb
    <3>5. ASSUME NEW t \in Left' PROVE Allocates(t)'
      <4>1. Allocates(t)
        BY <3>2
      <4>2. \A r \in db' : IsObject(r) => r.n # Template(t.row)
        BY <3>1, <4>1 DEF Allocates
      <4>3. kind = "vms" => ~HasContext(db', Template(t.row))
        BY <3>3, <4>1 DEF Allocates, HasContext, Of
      <4> QED
        BY <1>2, <4>1, <4>2, <4>3 DEF Allocates, IsObject, Template, HasContext, Of
    <3> QED
      BY <3>4, <3>5
  <2> QED
    BY <2>1, <2>2
<1>6. op = "update" => \A t \in Left' : Updates(t)'
  <2> SUFFICES ASSUME op = "update", NEW t \in Left' PROVE Updates(t)'
    OBVIOUS
  <2>1. Updates(t) /\ (s.live => t.live) /\ (t.live => s.live)
    BY <1>2, <1>4 DEF Inv, Task
  <2>4. Len(todo) # 1
    BY <1>2
  <2>2. CASE s.live
    <3>1. \A r \in cache[oid] : IsObject(r) => r \in cache'[oid]
      BY <1>1, <1>2, <2>2, AfterIs DEF Updates, IsObject
    <3>2. /\ kind = "vms" /\ ok /\ t.live /\ t.verb \in {"write", "erase"} /\ t.if = "abort"
          /\ t.row.table = "attribute" /\ t.row.name = "POLLED"
          /\ \E r \in cache'[oid] : IsObject(r) /\ t.row.id = r.n
      BY <2>1, <2>2, <2>4, <3>1 DEF Updates
    <3> QED
      BY <1>2, <3>2 DEF Updates, IsObject
  <2>3. CASE ~s.live
    <3>1. cache'[oid] = cache[oid]
      BY <1>1, <1>2, <2>3
    <3>2. ~t.live
      BY <2>1, <2>3
    <3> QED
      BY <1>2, <2>1, <3>1, <3>2 DEF Updates, IsObject
  <2> QED
    BY <2>2, <2>3
<1>7. op = "drop" => /\ \A t \in Left' : Drops(t)'
                     /\ ok => (\A r \in db' : IsObject(r) => r.id # oid) \/ \E t \in Left' : IsObject(t.row)
  <2> SUFFICES ASSUME op = "drop"
               PROVE  /\ \A t \in Left' : Drops(t)'
                      /\ ok => (\A r \in db' : IsObject(r) => r.id # oid) \/ \E t \in Left' : IsObject(t.row)
    OBVIOUS
  <2>1. /\ \A t \in Left' : Drops(t)
        /\ ok => ~ObjectInDb(oid) \/ \E t \in Left : IsObject(t.row)
    BY <1>2 DEF Inv, Task
  <2>2. \A t \in Left' : Drops(t)'
    BY <1>2, <2>1 DEF Drops, IsObject
  <2>3. s.verb = "clear" /\ s.row.id = oid
    BY <1>1 DEF Drops
  <2>4. \A r \in db' : r \in db /\ ~(r.table = s.row.table /\ r.id = oid)
    BY <1>2, <2>3 DEF Executed, Of
  <2>5. CASE IsObject(s.row)
    BY <2>2, <2>4, <2>5 DEF IsObject
  <2>6. CASE ~IsObject(s.row)
    BY <1>2, <2>1, <2>2, <2>4, <2>6 DEF ObjectInDb
  <2> QED
    BY <2>5, <2>6
<1>8. \A t, u \in Left' : t.live => u.live
  BY <1>2, <1>4
<1>9. op = "refuse" => /\ \A t \in Left' : Refuses(t)'
                       /\ ~ok \/ (\E t \in Left' : t.verb = "write") =>
                            \A r \in db' : IsObject(r) => r.id # oid
  <2> SUFFICES ASSUME op = "refuse"
               PROVE  /\ \A t \in Left' : Refuses(t)'
                      /\ ~ok \/ (\E t \in Left' : t.verb = "write") =>
                           \A r \in db' : IsObject(r) => r.id # oid
    OBVIOUS
  <2>1. /\ \A t \in Left' : Refuses(t)
        /\ ~ok \/ (\E t \in Left : t.verb = "write") => ~ObjectInDb(oid)
    BY <1>2 DEF Inv, Task
  <2>2. \A t \in Left' : Refuses(t)'
    BY <1>2, <2>1 DEF Refuses
  <2>3. CASE IsObject(s.row)
    <3>1. ok /\ ~\E t \in Left' : t.verb = "write"
      BY <1>1, <1>2, <2>3 DEF Refuses, IsObject
    <3> QED
      BY <2>2, <3>1
  <2>4. CASE ~IsObject(s.row)
    <3>1. \A r \in db' : IsObject(r) => r \in db
      BY <1>3, <2>4
    <3> QED
      BY <1>2, <2>1, <2>2, <3>1 DEF ObjectInDb
  <2> QED
    BY <2>3, <2>4
<1>10. op = "allocate" /\ kind = "vms" => context'[oid] = "due"
  BY <1>1, <1>2 DEF Allocates, IsContext, Inv, Task
<1> QED
  <2>1. op' = op /\ op # "none" /\ oid' = oid /\ ok' = ok
    BY <1>1, <1>2
  <2>2. ObjectInDb(oid)' <=> ~\A r \in db' : IsObject(r) => r.id # oid
    BY <1>2 DEF ObjectInDb, IsObject
  <2> QED
    BY <1>1, <1>2, <1>5, <1>6, <1>7, <1>8, <1>9, <1>10, <2>1, <2>2 DEF Task, IsObject

\* An attribute that a virtual machine is inserted with.
Created(row) == row.table = "attribute" /\ row.name \notin {"POLLED", "CONTEXT"}

\* Z has the parts of the object that Y has, and no others that matter.
Keeps(Y, Z, object) ==
  /\ kind = "hosts" => \A y \in Y : y.table = "share" /\ y.id = object.id =>
                         \E z \in Z : z.table = "share" /\ z.id = object.id
  /\ kind = "vms" => /\ \A y \in Y : Created(y) /\ y.id = object.n => y \in Z
                     /\ \A z \in Z : Created(z) /\ z.id = object.n => z \in Y
  /\ kind = "networks" => \A y \in Y : y.table = "attribute" /\ y.id = object.n => y \in Z

LEMMA KeepsWhole ==
  ASSUME kind \in Kinds, NEW Y, NEW Z, NEW r, WholeIn(Y, r), Keeps(Y, Z, r)
  PROVE  WholeIn(Z, r)
<1>1. CASE kind = "hosts"
  BY <1>1 DEF WholeIn, Keeps
<1>2. CASE kind = "vms"
  <2>1. {a \in Of(Y, "attribute", r.n) : a.name \notin {"POLLED", "CONTEXT"}} =
        {a \in Of(Z, "attribute", r.n) : a.name \notin {"POLLED", "CONTEXT"}}
    BY <1>2 DEF Keeps, Created, Of
  <2> QED
    BY <1>2, <2>1 DEF WholeIn
<1>3. CASE kind = "networks"
  <2>1. PICK v \in Int : Attributes(r.n, v) \subseteq Y
    BY <1>3 DEF WholeIn
  <2>2. \A a \in Attributes(r.n, v) : a.table = "attribute" /\ a.id = r.n
    BY TemplateOfNew
  <2>3. Attributes(r.n, v) \subseteq Z
    BY <1>3, <2>1, <2>2 DEF Keeps
  <2> QED
    BY <1>3, <2>3 DEF WholeIn
<1> QED
  BY <1>1, <1>2, <1>3, Constants

LEMMA StepWhole ==
  ASSUME Inv, NEW s, Step(s)
  PROVE  Whole'
<1>1. /\ s.verb \in {"write", "clear", "erase"} /\ Touches(s)
      /\ op \in {"allocate", "refuse", "update", "drop"}
      /\ op = "allocate" => Allocates(s)
      /\ op = "refuse" => Refuses(s) /\ oid \in dropping /\ kind = "networks"
      /\ op = "update" => Updates(s) /\ kind \in {"hosts", "vms"}
      /\ op = "drop" => Drops(s) /\ oid \in dropping /\ kind \in {"hosts", "networks"}
      /\ kind \in Kinds
  BY StatementsAre DEF Step, Inv, TypeOK
<1>2. /\ UNCHANGED <<kind, dropping>> /\ db' = Executed(db, s) /\ s \in Left /\ Left = {s} \cup Left'
      /\ IsObject(s.row) => (kind = "vms" /\ op = "update") \/ Left' = {} \/ op = "refuse"
  BY DEF Step
<1>3. /\ \A r \in db' : r \in db \/ (s.verb = "write" /\ r = s.row)
      /\ \A r \in db : /\ r.table # s.row.table \/ r.id # s.row.id => r \in db'
                       /\ s.verb = "erase" /\ r # s.row => r \in db'
                       /\ s.verb = "write" /\ ~Replaces(s.row, r) => r \in db'
      /\ s.verb = "write" => s.row \in db'
  BY <1>1, <1>2, AfterIs
<1>4. \A r \in db : r.table = "attribute" /\ kind # "hosts" => ~Replaces(s.row, r)
  BY ReplacesIs
<1>5. s.verb = "clear" => s.row.table = "attribute" \/ (op = "drop" /\ s.row.id = oid)
  BY <1>1 DEF Allocates, Refuses, Updates, Drops
<1>6. s.verb = "erase" => kind = "vms" /\ s.row.name \in {"POLLED", "CONTEXT"}
  BY <1>1 DEF Allocates, Refuses, Updates, Drops
<1>7. op = "update" /\ kind = "vms" =>
        \A t \in Left : t.row.table = "attribute" => t.row.name \in {"POLLED", "CONTEXT"}
  <2>1. op = "update" => \A t \in Left : Updates(t)
    BY DEF Inv, Task
  <2> QED
    BY <2>1 DEF Updates
<1>8. ASSUME NEW r \in db, IsObject(r), r.id \notin dropping
      PROVE  WholeIn(db', r)
  <2>1. WholeIn(db, r)
    BY <1>8 DEF Inv, Whole
  <2>2. s.row.table = "attribute" /\ s.row.id = r.n => op = "update" /\ r.id = oid
    BY <1>1, <1>8 DEF Touches
  <2>3. CASE kind = "hosts"
    <3>1. \A y \in db : y.table = "share" /\ y.id = r.id => \E z \in db' : z.table = "share" /\ z.id = r.id
      <4> TAKE y \in db
      <4> HAVE y.table = "share" /\ y.id = r.id
      <4>1. CASE s.row.table = "share" /\ s.row.id = r.id
        BY <1>1, <1>3, <1>5, <1>6, <1>8, <2>3, <4>1
      <4>2. CASE ~(s.row.table = "share" /\ s.row.id = r.id)
        BY <1>3, <4>2
      <4> QED
        BY <4>1, <4>2
    <3>2. Keeps(db, db', r)
      BY <2>3, <3>1 DEF Keeps
    <3> QED
      BY <1>1, <2>1, <3>2, KeepsWhole
  <2>4. CASE kind = "vms"
    <3>1. s.row.table = "attribute" /\ s.row.id = r.n =>
            s.row.name \in {"POLLED", "CONTEXT"} /\ s.verb # "clear"
      BY <1>1, <1>2, <1>7, <2>2, <2>4 DEF Updates
    <3>2. \A y \in db : Created(y) /\ y.id = r.n => y \in db'
      BY <1>1, <1>3, <1>4, <2>4, <3>1 DEF Created
    <3>3. \A z \in db' : Created(z) /\ z.id = r.n => z \in db
      BY <1>3, <3>1 DEF Created
    <3>4. Keeps(db, db', r)
      BY <2>4, <3>2, <3>3 DEF Keeps
    <3> QED
      BY <1>1, <2>1, <3>4, KeepsWhole
  <2>5. CASE kind = "networks"
    <3>1. ~(s.row.table = "attribute" /\ s.row.id = r.n)
      BY <1>1, <2>2, <2>5
    <3>2. \A y \in db : y.table = "attribute" /\ y.id = r.n => y \in db'
      BY <1>3, <3>1
    <3>3. Keeps(db, db', r)
      BY <2>5, <3>2 DEF Keeps
    <3> QED
      BY <1>1, <2>1, <3>3, KeepsWhole
  <2> QED
    BY <1>1, <2>3, <2>4, <2>5, Constants
<1> DEFINE L == {t.row : t \in Left}
           M == {t.row : t \in Left'}
<1>9. L = {s.row} \cup M
  BY <1>2
<1>10. ASSUME s.verb = "write", IsObject(s.row), s.row.id \notin dropping
       PROVE  WholeIn(db', s.row)
  <2>5. op # "refuse"
    BY <1>1, <1>10 DEF Refuses
  <2>1. WholeIn(db \cup L, s.row)
    BY <1>2, <1>10 DEF Inv, Whole
  <2>2. \A l \in L : \/ l = s.row
                     \/ l.table = "attribute" => l.name \in {"POLLED", "CONTEXT"} /\ kind = "vms"
    <3>1. CASE kind = "vms" /\ op = "update"
      BY <1>7, <3>1
    <3>2. CASE Left' = {}
      BY <1>2, <3>2
    <3> QED
      BY <1>2, <1>10, <2>5, <3>1, <3>2
  <2>3. kind # "vms" => L = {s.row}
    BY <1>2, <1>9, <1>10, <2>5
  <2> HIDE DEF L, M
  <2>4. Keeps(db \cup L, db', s.row)
    <3>1. \A y \in db : y.table # "object" => y \in db'
      BY <1>3, <1>10 DEF IsObject
    <3>2. \A z \in db' : z.table # "object" => z \in db
      BY <1>3, <1>10 DEF IsObject
    <3> QED
      BY <1>10, <2>2, <2>3, <3>1, <3>2 DEF Keeps, Created, IsObject
  <2> QED
    BY <1>1, <2>1, <2>4, KeepsWhole
<1>11. ASSUME NEW t \in Left', t.verb = "write", IsObject(t.row), t.row.id \notin dropping
       PROVE  WholeIn(db' \cup M, t.row)
  <2>1. WholeIn(db \cup L, t.row)
    BY <1>2, <1>11 DEF Inv, Whole
  <2>2. s.verb # "clear"
    <3>1. CASE op = "allocate"
      <4>1. Allocates(t) /\ Allocates(s)
        BY <1>2, <3>1 DEF Inv, Task
      <4> QED
        BY <1>11, <4>1 DEF Allocates
    <3>2. CASE op = "update"
      <4>1. Updates(t) /\ Updates(s)
        BY <1>2, <3>2 DEF Inv, Task
      <4> QED
        BY <1>11, <4>1 DEF Updates
    <3>3. CASE op = "drop"
      <4>1. Drops(t)
        BY <1>2, <3>3 DEF Inv, Task
      <4> QED
        BY <1>11, <4>1 DEF Drops
    <3>4. CASE op = "refuse"
      <4>1. Refuses(t)
        BY <1>2, <3>4 DEF Inv, Task
      <4> QED
        BY <1>1, <1>11, <3>4, <4>1 DEF Refuses
    <3> QED
      BY <1>1, <3>1, <3>2, <3>3, <3>4
  <2> HIDE DEF L, M
  <2>3. CASE kind = "hosts"
    <3>1. s.verb = "write" /\ s.row \in db'
      BY <1>1, <1>3, <1>6, <2>2, <2>3
    <3>2. \A y \in db : y \in db' \/ (y.table = s.row.table /\ y.id = s.row.id)
      BY <1>3
    <3>3. Keeps(db \cup L, db' \cup M, t.row)
      BY <1>9, <2>3, <3>1, <3>2 DEF Keeps
    <3> QED
      BY <1>1, <2>1, <3>3, KeepsWhole
  <2>4. CASE kind = "vms"
    <3>1. \A y \in db : Created(y) => y \in db'
      BY <1>1, <1>3, <1>4, <1>6, <2>2, <2>4 DEF Created
    <3>2. Created(s.row) => s.row \in db'
      BY <1>1, <1>3, <1>6, <2>2 DEF Created
    <3>3. Keeps(db \cup L, db' \cup M, t.row)
      BY <1>3, <1>9, <2>4, <3>1, <3>2 DEF Keeps
    <3> QED
      BY <1>1, <2>1, <3>3, KeepsWhole
  <2>5. CASE kind = "networks"
    <3>1. s.verb = "write" /\ s.row \in db'
      BY <1>1, <1>3, <1>6, <2>2, <2>5
    <3>2. \A y \in db : y.table = "attribute" => y \in db'
      BY <1>3, <1>4, <2>5, <3>1
    <3>3. Keeps(db \cup L, db' \cup M, t.row)
      BY <1>9, <2>5, <3>1, <3>2 DEF Keeps
    <3> QED
      BY <1>1, <2>1, <3>3, KeepsWhole
  <2> QED
    BY <1>1, <2>3, <2>4, <2>5, Constants
<1> QED
  BY <1>2, <1>3, <1>8, <1>10, <1>11, Kept DEF Whole, IsObject

\* What is written of what is due, and then the rest.
RestOf(D, E, w) == E = {w} \cup D /\ \A n \in D : Replaces(n, w) => n = w

LEMMA RewriteRest ==
  ASSUME NEW A, NEW w, NEW D, NEW E, RestOf(D, E, w)
  PROVE  Rewrite(Rewrite(A, {w}), D) = Rewrite(A, E)
<1> USE DEF RestOf
<1>1. ASSUME NEW r \in Rewrite(Rewrite(A, {w}), D) PROVE r \in Rewrite(A, E)
  BY DEF Rewrite
<1>2. ASSUME NEW r \in Rewrite(A, E) PROVE r \in Rewrite(Rewrite(A, {w}), D)
  <2>1. CASE r \in D
    BY <2>1 DEF Rewrite
  <2>2. CASE r = w /\ r \notin D
    <3>1. \A n \in D : ~Replaces(n, w)
      BY <2>2
    <3> QED
      BY <2>2, <3>1 DEF Rewrite
  <2>3. CASE r # w /\ r \notin D
    BY <1>2, <2>3 DEF Rewrite
  <2> QED
    BY <2>1, <2>2, <2>3
<1> QED
  BY <1>1, <1>2

\* An attribute that was polled comes or goes in what is read as in the rows.
LEMMA ReadWithPolled ==
  ASSUME kind = "vms", NEW A \in SUBSET Rowset, Keyed(A), NEW d \in A, IsObject(d), NEW s,
         version \in Nat, kind \in Kinds, d.id \in Oids,
         s.verb \in {"write", "erase"}, s.row.table = "attribute", s.row.id = d.n
  PROVE  Select(Executed(A, s), d.id) = Executed(Select(A, d.id), s)
<1> DEFINE B == Executed(A, s)
           H == SelectRecords(A, d.id)
<1>1. Select(A, d.id) = {d} \cup Of(A, "attribute", d.n) \cup H
  BY SelectVmIs
<1>2. d \in B /\ Keyed(B)
  BY AfterIs DEF IsObject
<1>3. Select(B, d.id) = {d} \cup Of(B, "attribute", d.n) \cup SelectRecords(B, d.id)
  <2> HIDE DEF B
  <2> QED
    BY <1>2, SelectVmIs
<1>4. Records(B, d.id) = Records(A, d.id)
  <2>1. \A r \in A : r.table = "history" => r \in B
    BY AfterIs
  <2>2. \A r \in B : r.table = "history" => r \in A
    BY AfterIs
  <2> HIDE DEF B
  <2> QED
    BY <2>1, <2>2 DEF Records, Of
<1>5. SelectRecords(B, d.id) = H
  <2> HIDE DEF B
  <2> QED
    BY <1>4 DEF SelectRecords, LastRecord
<1>6. \A r \in H : r.table = "history"
  BY HistoryRead
<1> HIDE DEF H
<1>7. CASE s.verb = "write"
  <2>1. \A X : Executed(X, s) = {r \in X : ~Replaces(s.row, r)} \cup {s.row}
    BY <1>7 DEF Executed
  <2>2. \A r : ~Replaces(s.row, r)
    BY ReplacesIs
  <2>3. \A X : Executed(X, s) = X \cup {s.row}
    BY <2>1, <2>2
  <2>4. Of(B, "attribute", d.n) = Of(A, "attribute", d.n) \cup {s.row}
    BY <2>3 DEF Of
  <2> HIDE DEF B
  <2>5. Executed(Select(A, d.id), s) = Select(A, d.id) \cup {s.row}
    BY <2>3
  <2> QED
    BY <1>1, <1>3, <1>5, <2>4, <2>5 DEF B
<1>8. CASE s.verb = "erase"
  <2>1. \A X : Executed(X, s) = X \ {s.row}
    BY <1>8 DEF Executed
  <2>2. Of(B, "attribute", d.n) = Of(A, "attribute", d.n) \ {s.row}
    BY <2>1 DEF Of
  <2>3. d # s.row /\ s.row \notin H
    BY <1>6 DEF IsObject
  <2> HIDE DEF B
  <2>4. Executed(Select(A, d.id), s) = Select(A, d.id) \ {s.row}
    BY <2>1
  <2> QED
    BY <1>1, <1>3, <1>5, <2>2, <2>3, <2>4 DEF B
<1> QED
  BY <1>7, <1>8

LEMMA StepWritten ==
  ASSUME Inv, NEW s, Step(s)
  PROVE  Written'
<1>1. /\ s.verb \in {"write", "clear", "erase"} /\ Touches(s)
      /\ op \in {"allocate", "refuse", "update", "drop"}
      /\ op \in {"allocate", "refuse"} => oid \notin Cached
      /\ op = "update" => Updates(s) /\ oid \in Cached
      /\ op = "drop" => oid \in lost
  BY StatementsAre DEF Step
<1>2. /\ UNCHANGED <<kind, op, oid, ok, lost>> /\ Cached' = Cached
      /\ db' = Executed(db, s) /\ s \in Left /\ Left = {s} \cup Left'
      /\ \A o \in Cached : cache'[o] = IF s.live /\ o = oid THEN Executed(cache[o], s) ELSE cache[o]
      /\ s.live => op = "update" /\ kind = "vms"
  BY DEF Step, Touches
<1>3. /\ kind \in Kinds /\ version \in Nat /\ db \in SUBSET Rowset /\ Keyed(db)
      /\ \A r \in db : IsObject(r) /\ kind # "vms" => r.n = r.id
  BY DEF Inv, TypeOK, Keys, Rowset, IsObject
<1>4. ASSUME NEW o \in Cached \ lost, ~(op = "update" /\ oid = o)
      PROVE  Select(db', o) = cache'[o]
  <2>1. o # oid /\ cache'[o] = cache[o] /\ Select(db, o) = cache[o]
    <3>1. o # oid
      BY <1>1, <1>4
    <3> QED
      BY <1>2, <1>4, <3>1 DEF Inv, Written
  <2>2. s.row.table = "attribute" => \A r \in Of(db, "object", o) : r.n # s.row.id
    BY <1>1, <2>1 DEF Touches, Of, IsObject
  <2>3. s.row.table = "attribute" /\ kind # "vms" => s.row.id # o
    <3> SUFFICES ASSUME s.row.table = "attribute", kind # "vms", s.row.id = o PROVE FALSE
      OBVIOUS
    <3>1. cache[o] # {}
      BY <1>4 DEF Inv, Known, Knowledge
    <3>2. PICK r \in db : IsObject(r) /\ r.id = o
      BY <1>3, <2>1, <3>1, SelectOther
    <3> QED
      BY <1>3, <2>2, <3>2 DEF Of, IsObject
  <2>4. s.row.table # "attribute" => s.row.id # o
    BY <1>1, <2>1 DEF Touches
  <2> QED
    BY <1>1, <1>2, <1>3, <2>1, <2>2, <2>3, <2>4, SelectKept
<1>5. ASSUME op = "update", oid \notin lost \/ (kind = "hosts" /\ ok)
      PROVE  Select(Rewrite(db', Due'), oid) = cache'[oid]
  <2>1. Select(Rewrite(db, Due), oid) = cache[oid]
    BY <1>5 DEF Inv, Written
  <2>2. /\ Updates(s) /\ oid \in Cached
        /\ \A t \in Left : Updates(t) /\ (s.live => t.live) /\ (t.live => s.live)
    BY <1>1, <1>2, <1>5 DEF Inv, Task
  <2>3. CASE s.live
    <3>1. Due = {} /\ Due' = {}
      BY <1>2, <2>2, <2>3 DEF Due
    <3>2. Rewrite(db, {}) = db /\ Rewrite(db', {}) = db'
      BY DEF Rewrite
    <3>3. /\ s.verb \in {"write", "erase"} /\ s.row.table = "attribute"
          /\ \E r \in cache[oid] : IsObject(r) /\ s.row.id = r.n
      BY <2>2, <2>3 DEF Updates
    <3>4. PICK d \in db : IsObject(d) /\ d.id = oid /\ d.n = s.row.id
      <4>1. PICK c \in cache[oid] :
              /\ Of(cache[oid], "object", oid) = {c}
              /\ \A r \in cache[oid] : r.id = IF r.table = "attribute" THEN c.n ELSE oid
              /\ \E r \in db : IsObject(r) /\ r.id = oid /\ r.n = c.n
        BY <1>2, <2>2, <2>3, VmKnows
      <4>2. \A r \in cache[oid] : IsObject(r) => r = c
        BY <4>1 DEF Of, IsObject
      <4> QED
        BY <3>3, <4>1, <4>2
    <3>5. Select(Executed(db, s), d.id) = Executed(Select(db, d.id), s)
      <4>1. d.id \in Oids
        BY <3>4 DEF Inv, TypeOK
      <4> QED
        BY <1>2, <1>3, <2>3, <3>3, <3>4, <4>1, ReadWithPolled
    <3> QED
      BY <1>2, <2>1, <2>2, <2>3, <3>1, <3>2, <3>4, <3>5
  <2>4. CASE ~s.live
    <3>1. s.verb = "write" /\ s.row \in cache[oid]
      BY <1>5, <2>2, <2>4 DEF Updates
    <3>2. Due = {s.row} \cup Due'
      BY <1>2, <2>4, <3>1 DEF Due
    <3>3. \A r \in Due : r \in cache[oid]
      BY <2>2, <2>4 DEF Due, Updates
    <3>4. Keyed(Due)
      BY <2>2, <3>3 DEF Inv, Keys, Keyed
    <3>5. db' = Rewrite(db, {s.row})
      BY <1>2, <3>1, WriteIs
    <3>6. Rewrite(db', Due') = Rewrite(db, Due)
      <4> DEFINE D == Due'
      <4>1. Due = {s.row} \cup D
        BY <3>2
      <4> HIDE DEF D
      <4>2. Rewrite(Rewrite(db, {s.row}), D) = Rewrite(db, Due)
        <5>1. \A n \in D : Replaces(n, s.row) => n = s.row
          BY <3>4, <4>1 DEF Keyed
        <5>2. RestOf(D, Due, s.row)
          BY <4>1, <5>1 DEF RestOf
        <5> HIDE DEF Due
        <5> QED
          BY <5>2, RewriteRest
      <4> QED
        BY <3>5, <4>2 DEF D
    <3> QED
      BY <1>2, <2>1, <2>2, <2>4, <3>6
  <2> QED
    BY <2>3, <2>4
<1> QED
  BY <1>2, <1>4, <1>5, Kept DEF Written

LEMMA StepContexts ==
  ASSUME Inv, NEW s, Step(s)
  PROVE  Contexts'
<1>1. /\ s.verb \in {"write", "clear", "erase"} /\ Touches(s)
      /\ op \in {"allocate", "refuse", "update", "drop"}
      /\ op = "allocate" => Allocates(s) /\ (kind = "vms" => context[oid] = "due")
      /\ op = "update" => Updates(s) /\ oid \in Cached
      /\ op \in {"refuse", "drop"} => kind # "vms"
  BY StatementsAre DEF Step, Inv, Task
<1>2. /\ kind' = kind /\ db' = Executed(db, s)
      /\ context' = IF IsContext(s) THEN [context EXCEPT ![oid] = "written"] ELSE context
  BY DEF Step
<1>3. /\ Keyed(db) /\ context \in [Oids -> {"none", "due", "written"}] /\ oid \in Oids
      /\ \A r \in db : IsObject(r) => r.id \in Oids
  BY DEF Inv, TypeOK, Keys, Rowset, IsObject
<1>4. \A r \in db' : r \in db \/ (s.verb = "write" /\ r = s.row)
  BY <1>1, <1>2, AfterIs
<1>5. \A r \in db : r.table # s.row.table \/ r.id # s.row.id => r \in db'
  BY <1>1, <1>2, AfterIs
<1>6. \A n : (s.row.table = "attribute" => n # s.row.id) =>
               (HasContext(db', n) <=> HasContext(db, n))
  BY <1>4, <1>5 DEF HasContext, Of
<1>7. ASSUME kind = "vms", NEW r \in db', IsObject(r)
      PROVE  HasContext(db', r.n) <=> context'[r.id] = "written"
  <2>1. \A q \in db : IsObject(q) => (HasContext(db, q.n) <=> context[q.id] = "written")
    BY <1>7 DEF Inv, Contexts
  <2>2. CASE op = "allocate"
    <3>1. context' = context
      BY <1>1, <1>2, <2>2 DEF Allocates, IsContext
    <3>2. \A q \in db : IsObject(q) => q.n # Template(s.row)
      BY <1>1, <2>2 DEF Allocates
    <3>3. CASE r \in db
      <4>1. s.row.table = "attribute" => r.n # s.row.id
        BY <1>7, <3>2, <3>3 DEF Template, IsObject
      <4> QED
        BY <1>6, <1>7, <2>1, <3>1, <3>3, <4>1
    <3>4. CASE r = s.row
      <4>1. r.id = oid /\ ~HasContext(db, r.n) /\ context[oid] = "due"
        BY <1>1, <1>7, <2>2, <3>4 DEF Allocates, Template, IsObject
      <4>2. s.row.table # "attribute"
        BY <1>7, <3>4 DEF IsObject
      <4> QED
        BY <1>6, <3>1, <4>1, <4>2
    <3> QED
      BY <1>4, <3>3, <3>4
  <2>3. CASE op = "update"
    <3>1. Updates(s) /\ oid \in Cached
      BY <1>1, <2>3
    <3>2. PICK d \in cache[oid] :
            /\ Of(cache[oid], "object", oid) = {d}
            /\ \A c \in cache[oid] : c.id = IF c.table = "attribute" THEN d.n ELSE oid
            /\ \E q \in db : IsObject(q) /\ q.id = oid /\ q.n = d.n
      BY <1>7, <3>1, VmKnows
    <3>3. PICK q \in db : IsObject(q) /\ q.id = oid /\ q.n = d.n
      BY <3>2
    <3>4. \A c \in cache[oid] : IsObject(c) => c = d
      BY <3>2 DEF Of, IsObject
    <3>5. CASE s.row \in cache[oid] /\ ~s.live /\ s.row.table \in {"object", "history"}
      <4>1. context' = context /\ s.row.table # "attribute"
        BY <1>2, <3>5 DEF IsContext
      <4>2. CASE r \in db
        BY <1>6, <1>7, <2>1, <4>1, <4>2
      <4>3. CASE r = s.row
        <5>1. r = d
          BY <1>7, <3>4, <3>5, <4>3
        <5>2. r.id = q.id /\ r.n = q.n
          BY <3>2, <3>3, <5>1, <1>7 DEF IsObject
        <5>3. HasContext(db, q.n) <=> context[q.id] = "written"
          BY <2>1, <3>3
        <5> QED
          BY <1>6, <4>1, <5>2, <5>3
      <4> QED
        BY <1>4, <4>2, <4>3
    <3>6. CASE /\ s.row.table = "attribute" /\ s.row.name \in {"POLLED", "CONTEXT"}
               /\ s.row.name = "CONTEXT" => s.verb = "write"
               /\ s.verb \in {"write", "erase"}
               /\ \E c \in cache[oid] : IsObject(c) /\ s.row.id = c.n
      <4>1. s.row.id = d.n
        BY <3>4, <3>6
      <4>2. r \in db
        BY <1>4, <1>7, <3>6 DEF IsObject
      <4>3. HasContext(db, r.n) <=> context[r.id] = "written"
        BY <1>7, <2>1, <4>2
      <4>4. CASE r.n # s.row.id
        <5>1. r.id # oid
          <6> SUFFICES ASSUME r.id = oid PROVE FALSE
            OBVIOUS
          <6>1. Replaces(r, q)
            BY <1>7, <3>3, ReplacesIs DEF IsObject
          <6>2. r = q
            BY <1>3, <3>3, <4>2, <6>1 DEF Keyed
          <6> QED
            BY <3>3, <4>1, <4>4, <6>2
        <5>2. context'[r.id] = context[r.id]
          BY <1>2, <1>3, <1>7, <4>2, <5>1
        <5> QED
          BY <1>6, <4>3, <4>4, <5>2
      <4>5. CASE r.n = s.row.id /\ s.row.name = "POLLED"
        <5>1. context' = context
          BY <1>2, <4>5 DEF IsContext
        <5>2. \A a \in db : a.table = "attribute" /\ a.name = "CONTEXT" => a \in db'
          <6>1. \A a \in db : a.table = "attribute" => ~Replaces(s.row, a)
            BY <1>7, <3>6, ReplacesIs
          <6> QED
            BY <1>1, <1>2, <3>6, <4>5, <6>1, AfterIs
        <5>3. \A a \in db' : a.name = "CONTEXT" => a \in db
          BY <1>4, <4>5
        <5>4. HasContext(db', r.n) <=> HasContext(db, r.n)
          BY <5>2, <5>3 DEF HasContext, Of
        <5> QED
          BY <4>3, <5>1, <5>4
      <4>6. CASE r.n = s.row.id /\ s.row.name = "CONTEXT"
        <5>1. r.id = oid
          BY <1>1, <1>7, <3>6, <4>2, <4>6 DEF Touches
        <5>2. context'[oid] = "written"
          BY <1>2, <1>3, <3>6, <4>6 DEF IsContext
        <5>3. s.row \in db'
          BY <1>1, <1>2, <3>6, <4>6, AfterIs
        <5>4. HasContext(db', r.n)
          BY <3>6, <4>6, <5>3 DEF HasContext, Of
        <5> QED
          BY <5>1, <5>2, <5>4
      <4> QED
        BY <3>6, <4>4, <4>5, <4>6
    <3> QED
      BY <1>7, <3>1, <3>5, <3>6 DEF Updates
  <2> QED
    BY <1>1, <1>7, <2>2, <2>3
<1> QED
  BY <1>2, <1>7 DEF Contexts, HasContext, Of, IsObject

LEMMA SucceedsInv == Inv /\ Succeeds => Inv'
<1> SUFFICES ASSUME Inv, Succeeds PROVE Inv'
  OBVIOUS
<1>1. Step(Head(todo))
  BY SucceedsStep
<1> QED
  BY <1>1, StepType, StepKeys, StepKnown, StepBelow, StepTask, StepWhole,
     StepContexts, StepWritten DEF Inv

-----------------------------------------------------------------------------
(* Every step preserves the invariant                                      *)

LEMMA NextInv == Inv /\ [Next]_vars => Inv'
<1> SUFFICES ASSUME Inv, [Next]_vars PROVE Inv'
  OBVIOUS
<1>1. CASE AllocateVm
  BY <1>1, AllocateVmInv
<1>2. CASE AllocateHost
  BY <1>2, AllocateHostInv
<1>3. CASE AllocateNetwork
  BY <1>3, AllocateNetworkInv
<1>4. ASSUME NEW o \in Oids, UpdateHost(o) PROVE Inv'
  BY <1>4, UpdateHostInv
<1>5. ASSUME NEW o \in Oids, Deploy(o) PROVE Inv'
  BY <1>5, DeployInv
<1>6. ASSUME NEW o \in Oids, Handle(o) PROVE Inv'
  BY <1>6, HandleInv
<1>7. ASSUME NEW o \in Oids, Replace(o) PROVE Inv'
  BY <1>7, ReplaceInv
<1>8. ASSUME NEW o \in Oids, DropHost(o) PROVE Inv'
  <2>1. Drop("hosts", o, <<Clear("attribute", o), Clear("share", o)>>)
    BY <1>8 DEF DropHost
  <2> QED
    BY <2>1, DropInv
<1>9. ASSUME NEW o \in Oids, DropNetwork(o) PROVE Inv'
  <2>1. Drop("networks", o, <<Clear("attribute", o)>>)
    BY <1>9 DEF DropNetwork
  <2> QED
    BY <2>1, DropInv
<1>10. ASSUME NEW o \in Oids, Load(o) PROVE Inv'
  BY <1>10, LoadInv
<1>11. ASSUME NEW o \in Oids, Evict(o) PROVE Inv'
  BY <1>11, EvictInv
<1>12. CASE Fails
  BY <1>12, FailsInv
<1>13. CASE Succeeds
  BY <1>13, SucceedsInv
<1>14. CASE End
  BY <1>14, EndInv
<1>15. CASE Restart
  BY <1>15, RestartInv
<1>16. CASE UNCHANGED vars
  BY <1>16, Stutters
<1>17. CASE RefuseNetwork
  BY <1>17, RefuseNetworkInv
<1>18. ASSUME NEW o \in Oids, WriteContext(o) PROVE Inv'
  BY <1>18, WriteContextInv
<1>19. ASSUME NEW o \in Oids, GiveUpContext(o) PROVE Inv'
  BY <1>19, GiveUpContextInv
<1> QED
  BY <1>1, <1>2, <1>3, <1>4, <1>5, <1>6, <1>7, <1>8, <1>9, <1>10, <1>11, <1>12, <1>13, <1>14,
     <1>15, <1>16, <1>17, <1>18, <1>19 DEF Next

-----------------------------------------------------------------------------
(* The theorems                                                            *)

\* Whatever the operation under way, whichever of its statements fail and
\* whenever oned stops, each statement left is one of those the operation may
\* have, and the rows and the copies in memory fit together.
THEOREM RowsInvariant == Spec => []Inv
BY InitInv, NextInv, PTL DEF Spec

\* ReadBack: an object in memory is what would be read of it from its rows,
\* unless a statement of it has failed.
THEOREM RowsReadBack == Spec => []ReadBack
<1>1. Inv => ReadBack
  BY DEF Inv, Written, ReadBack
<1> QED
  BY <1>1, RowsInvariant, PTL

\* ListedIsWhole: an object whose row can be seen has its other parts, unless
\* somebody has begun to drop it or its insert is going to; and a VM has its
\* CONTEXT once the request that created it has written it, and no other one.
THEOREM RowsListedIsWhole == Spec => []ListedIsWhole
<1>1. Inv => ListedIsWhole
  <2> SUFFICES ASSUME Inv, NEW r \in db, r.table = "object", r.id \notin dropping
               PROVE  LET parts == {a \in TemplateOf(db, r.n) : a.name \notin {"POLLED", "CONTEXT"}}
                          versions == {a.value : a \in parts}
                          Has(S) == \A i \in DOMAIN Names : \E a \in S : a.name = Names[i]
                      IN  CASE kind = "hosts"    -> ShareOf(db, r.id) # {}
                            [] kind = "vms"      ->
                                 /\ Cardinality(versions) = 1 /\ Has(parts)
                                 /\ (\E a \in TemplateOf(db, r.n) : a.name = "CONTEXT")
                                      <=> context[r.id] = "written"
                            [] kind = "networks" -> \E v \in versions : Has({a \in parts : a.value = v})
    BY DEF ListedIsWhole
  <2> DEFINE parts == {a \in TemplateOf(db, r.n) : a.name \notin {"POLLED", "CONTEXT"}}
             versions == {a.value : a \in parts}
             Has(S) == \A i \in DOMAIN Names : \E a \in S : a.name = Names[i]
  <2>1. WholeIn(db, r) /\ kind \in Kinds
    BY DEF Inv, TypeOK, Whole, IsObject
  <2>2. \A v : Has(Attributes(r.n, v)) /\ \A a \in Attributes(r.n, v) :
                 a.value = v /\ a.table = "attribute" /\ a.id = r.n
                 /\ a.name \notin {"POLLED", "CONTEXT"}
    <3> TAKE v
    <3>1. Attributes(r.n, v) = {Attribute(r.n, Names[1], v), Attribute(r.n, Names[2], v)}
      BY <2>1, AttributesAre
    <3>2. \A i \in 1..2 : Attribute(r.n, Names[i], v) \in Attributes(r.n, v)
                          /\ Attribute(r.n, Names[i], v).name = Names[i]
      BY <3>1 DEF Attribute, Row
    <3>3. DOMAIN Names = 1..2 /\ \A i \in 1..2 : Names[i] \notin {"POLLED", "CONTEXT"}
      BY <2>1, NamesAre
    <3>4. \A a \in Attributes(r.n, v) :
                 a.value = v /\ a.table = "attribute" /\ a.id = r.n
                 /\ a.name \notin {"POLLED", "CONTEXT"}
      BY <3>1, <3>3 DEF Attribute, Row
    <3>5. \A i \in DOMAIN Names : \E a \in Attributes(r.n, v) : a.name = Names[i]
      BY <3>2, <3>3
    <3> QED
      BY <3>4, <3>5
  <2>3. CASE kind = "hosts"
    BY <2>1, <2>3 DEF WholeIn, ShareOf, Of
  <2>4. CASE kind = "vms"
    <3>1. PICK v \in Int : parts = Attributes(r.n, v)
      BY <2>1, <2>4 DEF WholeIn, TemplateOf
    <3>2. Attributes(r.n, v) # {}
      BY <2>1, AttributesAre
    <3>3. versions = {v}
      BY <2>2, <3>1, <3>2
    <3>4. Cardinality({v}) = 1
      BY FS_Singleton
    <3>5. Cardinality(versions) = 1 /\ Has(parts)
      <4> HIDE DEF Has, parts, versions
      <4> QED
        BY <2>2, <3>1, <3>3, <3>4
    <3>6. (\E a \in TemplateOf(db, r.n) : a.name = "CONTEXT") <=> context[r.id] = "written"
      BY <2>4 DEF Inv, Contexts, HasContext, TemplateOf, IsObject
    <3> QED
      BY <2>4, <3>5, <3>6
  <2>5. CASE kind = "networks"
    <3>1. PICK v \in Int : Attributes(r.n, v) \subseteq db
      BY <2>1, <2>5 DEF WholeIn
    <3> DEFINE same == {a \in parts : a.value = v}
    <3>2. Attributes(r.n, v) \subseteq same
      BY <2>2, <3>1 DEF TemplateOf, Of
    <3>3. Has(same)
      BY <2>2, <3>2
    <3>4. v \in versions
      <4>1. PICK a \in Attributes(r.n, v) : TRUE
        BY <2>1, AttributesAre
      <4> QED
        BY <3>2, <4>1
    <3>5. \E w \in versions : Has({a \in parts : a.value = w})
      BY <3>3, <3>4
    <3> QED
      BY <2>5, <3>5
  <2> QED
    BY <2>1, <2>3, <2>4, <2>5, Constants
<1> QED
  BY <1>1, RowsInvariant, PTL
=============================================================================
