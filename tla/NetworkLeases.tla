--------------------------- MODULE NetworkLeases ----------------------------
(***************************************************************************)
(* Virtual networks and the addresses they lease to virtual machines       *)
(* (src/vnm, and the two functions of src/vm/VirtualMachine.cc that take   *)
(* and release the leases of a VM).  A network keeps its leases in memory  *)
(* while its object is in the cache of the pool, and as rows of one table  *)
(* that all networks share.  A VM takes one lease for each of its NICs, a  *)
(* network being locked for one NIC at a time, while the VM pool is locked *)
(* for all of them.                                                        *)
(***************************************************************************)
EXTENDS Integers, Sequences, FiniteSets

CONSTANTS
  VMs,
  Oids,        \* identifiers a network may get: 0 .. some bound
  Templates,   \* what networks are created from: a record of a name, a type,
               \* the addresses handed out, and for a RANGED network those
               \* its mask covers
  NicLists,    \* what VMs ask for: sequences of a network name and an
               \* address, or NoIp for any
  NoIp, NoNet, NoRow, Free,
  Scenarios    \* what may happen in a behaviour besides requests

IPs == UNION {t.block : t \in Templates}
Wanted == UNION {{l[i] : i \in 1..Len(l)} : l \in NicLists}

NetworkLeasesAssumption ==
  /\ Oids \subseteq Nat /\ \E last \in Oids : Oids = 0..last
  /\ Scenarios \subseteq SUBSET {"reuse", "drop", "restart", "error"}
  /\ \A t \in Templates :
       t.type \in {"FIXED", "RANGED"} /\ t.ips \subseteq t.block /\ t.block \subseteq Nat
  /\ \A l \in NicLists : l \in Seq(Wanted)
  /\ VMs \cap {Free, NoRow} = {} /\ Free # NoRow /\ NoNet \notin Templates /\ NoIp \notin IPs

ASSUME NetworkLeasesAssumption

VARIABLES
  scenario,  \* among: a name is used again, the new network replacing the old
             \* one; networks are dropped; oned stops and starts again, at any
             \* moment; statements fail
  lastOID,   \* of the network pool
  nets,      \* table network_pool: the template of each network, or NoNet
  rows,      \* table leases: who holds (oid, ip), Free, or NoRow
  cached,    \* objects in memory: "no", "valid" or "dropped"
  kind,      \* the template of the object in memory
  leases,    \* the leases of the object in memory
  current,   \* where its next search begins
  phase,     \* of a VM: "none", "allocating", "undoing", "live", "releasing", "done"
  todo,      \* the NICs a VM still wants a lease for
  nics       \* the NICs that have one: network name, VNID, IP

netVars == <<scenario, lastOID, nets, rows, cached, kind, leases, current>>
vmVars == <<phase, todo, nics>>
vars == <<netVars, vmVars>>

Holders == VMs \cup {Free, NoRow}
Nics == [network : {t.name : t \in Templates}, vnid : Oids, ip : IPs]
None == [ip \in IPs |-> NoRow]

TypeOK ==
  /\ scenario \in Scenarios
  /\ lastOID \in Oids \cup {-1}
  /\ nets \in [Oids -> Templates \cup {NoNet}]
  /\ kind \in [Oids -> Templates \cup {NoNet}]
  /\ {rows, leases} \subseteq [Oids -> [IPs -> Holders]]
  /\ cached \in [Oids -> {"no", "valid", "dropped"}]
  /\ \A n \in Oids : current[n] \in {0} \cup
       IF kind[n] = NoNet THEN {} ELSE IF kind[n].type = "FIXED" THEN {ip + 1 : ip \in kind[n].ips}
       ELSE kind[n].block
  /\ phase \in [VMs -> {"none", "allocating", "undoing", "live", "releasing", "done"}]
  /\ \A v \in VMs : todo[v] \in Seq(Wanted)
  /\ nics \in [VMs -> Seq(Nics)]

Init ==
  /\ scenario \in Scenarios
  /\ lastOID = -1
  /\ nets = [n \in Oids |-> NoNet] /\ kind = nets
  /\ rows = [n \in Oids |-> None] /\ leases = rows
  /\ cached = [n \in Oids |-> "no"]
  /\ current = [n \in Oids |-> 0]
  /\ phase = [v \in VMs |-> "none"]
  /\ todo = [v \in VMs |-> <<>>] /\ nics = todo

-----------------------------------------------------------------------------
(* Loading a network                                                       *)

\* VirtualNetworkPool::get(name) does not initialise the oid it selects: when
\* no network has the name, it looks for whatever network that number is.
Named(name) ==
  LET found == {n \in Oids : nets[n] # NoNet /\ nets[n].name = name}
  IN  IF found = {} THEN Oids ELSE found

\* PoolSQL::get finds the network: it is in memory, or it is loaded.
CanGet(n) == cached[n] = "valid" \/ (cached[n] = "no" /\ nets[n] # NoNet)

\* The object after get, as a record.
Loaded(n) ==
  IF cached[n] = "valid"
    THEN [kind |-> kind[n], leases |-> leases[n], current |-> current[n]]
    ELSE [kind |-> nets[n], leases |-> rows[n], current |-> 0]

\* The object is in memory with these leases.
Keep(n, held, next) ==
  /\ cached' = [cached EXCEPT ![n] = "valid"]
  /\ kind' = [kind EXCEPT ![n] = Loaded(n).kind]
  /\ leases' = [leases EXCEPT ![n] = held]
  /\ current' = [current EXCEPT ![n] = next]

Unloaded(ns) ==
  /\ kind' = [n \in Oids |-> IF n \in ns THEN NoNet ELSE kind[n]]
  /\ leases' = [n \in Oids |-> IF n \in ns THEN None ELSE leases[n]]
  /\ current' = [n \in Oids |-> IF n \in ns THEN 0 ELSE current[n]]

-----------------------------------------------------------------------------
(* Leases                                                                  *)

Smallest(S) == CHOOSE i \in S : \A j \in S : i <= j

\* UPDATE leases ... WHERE ip = : the rows of every network.
UpdateRows(ip, holder) ==
  rows' = [n \in Oids |-> IF rows[n][ip] = NoRow THEN rows[n]
                          ELSE [rows[n] EXCEPT ![ip] = holder]]

ReplaceRow(n, ip, holder) == rows' = [rows EXCEPT ![n][ip] = holder]

\* The address may be leased: a FIXED network knows all it has, a RANGED one
\* those in use.
Available(net, ip) ==
  net.leases[ip] = Free \/ (net.leases[ip] = NoRow /\ net.kind.type = "RANGED")

\* Mutant: the search does not go around.
FirstFreeAhead(n) ==
  LET net   == Loaded(n)
      ahead == {ip \in net.kind.ips : Available(net, ip) /\ ip >= net.current}
  IN  IF ahead = {} THEN NoIp ELSE Smallest(ahead)

\* The first free address of the network, from current on and around.
FirstFree(n) ==
  LET net   == Loaded(n)
      free  == {ip \in net.kind.ips : Available(net, ip)}
      ahead == {ip \in free : ip >= net.current}
  IN  IF free = {} THEN NoIp
      ELSE Smallest(IF ahead # {} THEN ahead ELSE free)

\* Mutant: the lease is not written.
LeaseInMemory(n, ip, v, next) ==
  Keep(n, [Loaded(n).leases EXCEPT ![ip] = v], next) /\ UNCHANGED rows

\* Address ip is given to v, and the next search begins at next.  The map of a
\* RANGED network ignores the insert of an address it has.
Lease(n, ip, v, next) ==
  LET net == Loaded(n)
  IN  IF net.kind.type = "FIXED"
        THEN /\ UpdateRows(ip, v)
             /\ Keep(n, [net.leases EXCEPT ![ip] = v], next)
        ELSE /\ ReplaceRow(n, ip, v)
             /\ Keep(n, [net.leases EXCEPT ![ip] = IF @ = NoRow THEN v ELSE @], next)

\* Mutant: an address is asked for that is in use.
MayHaveUsed(n, ip) == ip \in Loaded(n).kind.block

\* FixedLeases::set, RangedLeases::set
MayHave(n, ip) == ip \in Loaded(n).kind.block /\ Available(Loaded(n), ip)

\* FixedLeases::del, RangedLeases::del
Release(n, ip) ==
  LET net == Loaded(n)
  IN  IF net.leases[ip] = NoRow
        THEN Keep(n, net.leases, net.current) /\ UNCHANGED rows
        ELSE IF net.kind.type = "FIXED"
        THEN /\ Keep(n, [net.leases EXCEPT ![ip] = Free], net.current)
             /\ UpdateRows(ip, Free) \/ ("error" \in scenario /\ UNCHANGED rows)
        ELSE \/ /\ Keep(n, [net.leases EXCEPT ![ip] = NoRow], net.current)
                /\ ReplaceRow(n, ip, NoRow)
             \/ "error" \in scenario /\ Keep(n, net.leases, net.current) /\ UNCHANGED rows

-----------------------------------------------------------------------------
(* Networks                                                                *)

\* INSERT OR REPLACE, the name being the key of the table.
CreateNetwork(t) ==
  LET n == lastOID + 1
      same == {o \in Oids : nets[o] # NoNet /\ nets[o].name = t.name}
  IN  /\ n \in Oids
      /\ same = {} \/ "reuse" \in scenario
      /\ lastOID' = n
      /\ nets' = [o \in Oids |-> IF o = n THEN t ELSE IF o \in same THEN NoNet ELSE nets[o]]
      /\ rows' = [rows EXCEPT ![n] =
                    [ip \in IPs |-> IF t.type = "FIXED" /\ ip \in t.ips THEN Free ELSE @[ip]]]
      /\ UNCHANGED <<scenario, cached, kind, leases, current, vmVars>>

\* VirtualNetworkDelete: the leases VMs hold are not looked at.
DropNetwork(n) ==
  /\ "drop" \in scenario /\ CanGet(n)
  /\ nets' = [nets EXCEPT ![n] = NoNet]
  /\ rows' = [rows EXCEPT ![n] = None]
  /\ cached' = [cached EXCEPT ![n] = "dropped"]
  /\ Unloaded({n})
  /\ UNCHANGED <<scenario, lastOID, vmVars>>

\* The pool removes an object that nobody has locked (PoolSQL::replace).
Evict(n) ==
  /\ cached[n] # "no"
  /\ cached' = [cached EXCEPT ![n] = "no"]
  /\ Unloaded({n})
  /\ UNCHANGED <<scenario, lastOID, nets, rows, vmVars>>

\* SELECT MAX(oid).  A VM that was being allocated has no row yet; one that
\* was releasing its leases is DONE already.
Restart ==
  /\ "restart" \in scenario
  /\ LET known == {n \in Oids : nets[n] # NoNet}
     IN  lastOID' = IF known = {} THEN -1 ELSE CHOOSE n \in known : \A o \in known : o <= n
  /\ cached' = [n \in Oids |-> "no"]
  /\ Unloaded(Oids)
  /\ phase' = [v \in VMs |-> CASE phase[v] \in {"allocating", "undoing"} -> "none"
                               [] phase[v] = "releasing" -> "done"
                               [] OTHER -> phase[v]]
  /\ todo' = [v \in VMs |-> <<>>]
  /\ nics' = [v \in VMs |-> IF phase[v] = "live" THEN nics[v] ELSE <<>>]
  /\ UNCHANGED <<scenario, nets, rows>>

-----------------------------------------------------------------------------
(* Virtual machines                                                        *)

\* VirtualMachinePool::allocate locks the pool until the VM is in it.
Allocating == {v \in VMs : phase[v] \in {"allocating", "undoing"}}

AllocateVm(v, list) ==
  /\ phase[v] = "none" /\ Allocating = {}
  /\ phase' = [phase EXCEPT ![v] = "allocating"]
  /\ todo' = [todo EXCEPT ![v] = list]
  /\ UNCHANGED <<netVars, nics>>

Undo(v) ==
  /\ phase' = [phase EXCEPT ![v] = "undoing"]
  /\ todo' = [todo EXCEPT ![v] = <<>>]
  /\ UNCHANGED nics

\* get_lease finds nothing: a RANGED network has gone round its addresses and
\* two further.
NothingFree(n) ==
  LET net   == Loaded(n)
      first == Smallest(net.kind.ips)
      index == IF net.current = 0 THEN 0 ELSE net.current - first
  IN  Keep(n, net.leases,
           IF net.kind.type = "FIXED" THEN net.current
           ELSE first + ((index + 2) % Cardinality(net.kind.ips)))

\* FixedLeases::get leaves its cursor behind the address, RangedLeases::get on it.
GetLease(n, v) ==
  LET ip == FirstFree(n)
  IN  ip # NoIp /\ Lease(n, ip, v, IF Loaded(n).kind.type = "FIXED" THEN ip + 1 ELSE ip)

SetLease(n, ip, v) == MayHave(n, ip) /\ Lease(n, ip, v, Loaded(n).current)

NoLease(n, ip) ==
  \/ ip = NoIp /\ FirstFree(n) = NoIp /\ NothingFree(n)
  \/ ip # NoIp /\ ~ MayHave(n, ip) /\ Keep(n, Loaded(n).leases, Loaded(n).current)
  \/ "error" \in scenario /\ Keep(n, Loaded(n).leases, Loaded(n).current)

\* One turn of the loop of get_network_leases.
TakeLease(v) ==
  /\ phase[v] = "allocating" /\ todo[v] # <<>>
  /\ LET nic == Head(todo[v])
     IN  \E n \in Named(nic.network) :
           \/ ~ CanGet(n) /\ Undo(v) /\ UNCHANGED netVars
           \/ CanGet(n) /\ NoLease(n, nic.ip) /\ Undo(v) /\ UNCHANGED <<scenario, lastOID, nets, rows>>
           \/ /\ CanGet(n)
              /\ \E ip \in IPs :
                   /\ \/ nic.ip = NoIp /\ ip = FirstFree(n) /\ GetLease(n, v)
                      \/ nic.ip = ip /\ SetLease(n, ip, v)
                   /\ nics' = [nics EXCEPT ![v] =
                        Append(@, [network |-> nic.network, vnid |-> n, ip |-> ip])]
              /\ todo' = [todo EXCEPT ![v] = Tail(@)]
              /\ UNCHANGED <<scenario, lastOID, nets, phase>>

\* The VM is written to the database, the template first; when the second
\* statement fails, the leases are not released.
Insert(v) ==
  /\ phase[v] = "allocating" /\ todo[v] = <<>>
  /\ \/ phase' = [phase EXCEPT ![v] = "live"] /\ UNCHANGED <<todo, nics>>
     \/ "error" \in scenario /\ Undo(v)
     \/ /\ "error" \in scenario
        /\ phase' = [phase EXCEPT ![v] = "none"]
        /\ nics' = [nics EXCEPT ![v] = <<>>]
        /\ UNCHANGED todo
  /\ UNCHANGED netVars

\* The VM is DONE: done_action or finalize releases its leases.
EndVm(v) ==
  /\ phase[v] = "live" /\ Allocating = {}
  /\ phase' = [phase EXCEPT ![v] = "releasing"]
  /\ UNCHANGED <<netVars, todo, nics>>

\* One turn of the loop of release_network_leases.
ReleaseNic(v) ==
  /\ phase[v] \in {"undoing", "releasing"}
  /\ nics[v] # <<>>
  /\ LET nic == Head(nics[v])
     IN  IF CanGet(nic.vnid)
           THEN Release(nic.vnid, nic.ip)
           ELSE UNCHANGED <<rows, cached, kind, leases, current>>
  /\ nics' = [nics EXCEPT ![v] = Tail(@)]
  /\ UNCHANGED <<scenario, lastOID, nets, phase, todo>>

\* Its end.
Released(v) ==
  /\ phase[v] \in {"undoing", "releasing"}
  /\ nics[v] = <<>>
  /\ phase' = [phase EXCEPT ![v] = IF @ = "undoing" THEN "none" ELSE "done"]
  /\ UNCHANGED <<netVars, todo, nics>>

Next ==
  \/ \E t \in Templates : CreateNetwork(t)
  \/ \E n \in Oids : DropNetwork(n) \/ Evict(n)
  \/ \E v \in VMs : \/ \E list \in NicLists : AllocateVm(v, list)
                    \/ TakeLease(v) \/ Insert(v) \/ EndVm(v)
                    \/ ReleaseNic(v) \/ Released(v)
  \/ Restart

Spec == Init /\ [][Next]_vars

-----------------------------------------------------------------------------
(* Properties                                                              *)

NicsOf(v) == {nics[v][i] : i \in 1..Len(nics[v])}
Holds(v, n, ip) == \E nic \in NicsOf(v) : nic.vnid = n /\ nic.ip = ip

\* get "returns an unused lease, which becomes used" (Leases.h): no address of
\* a network is leased to two NICs, of one VM or of two.
AddressHeldOnce ==
  \A v, w \in VMs : \A i \in 1..Len(nics[v]), j \in 1..Len(nics[w]) :
    nics[v][i].vnid = nics[w][j].vnid /\ nics[v][i].ip = nics[w][j].ip => v = w /\ i = j

\* Evicted, reloaded or restarted, a network that exists knows who has its
\* addresses.
LeasesRemembered ==
  \A v \in VMs : \A nic \in NicsOf(v) :
    nets[nic.vnid] # NoNet =>
      /\ rows[nic.vnid][nic.ip] = v
      /\ cached[nic.vnid] = "valid" => leases[nic.vnid][nic.ip] = v

\* A VM that asks a network for any address is only refused when all are held:
\* neither failed allocations nor cursors lose one. A restart does, between a
\* lease and the insert of its VM, and so does the insert that fails.
RefusedOnlyWhenFull ==
  [][\A v \in VMs : \A n \in Oids :
       /\ scenario \cap {"restart", "error"} = {}
       /\ phase[v] = "allocating" /\ phase'[v] = "undoing"
       /\ todo[v] # <<>> /\ Head(todo[v]).ip = NoIp
       /\ nets[n] # NoNet /\ nets[n].name = Head(todo[v]).network
       => \A ip \in nets[n].ips : \E w \in VMs : Holds(w, n, ip)]_vars

\* VirtualNetworkPool::get is "to get a VN from the pool using the network
\* name", and returns 0 if it cannot: a NIC has its lease from the network it
\* names.
NicsNameTheirNetwork ==
  \A v \in VMs : \A nic \in NicsOf(v) :
    nets[nic.vnid] # NoNet => nets[nic.vnid].name = nic.network
=============================================================================
